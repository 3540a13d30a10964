\* Images painted in five columns, near each other and far apart; two frames
\* fit in the bridge's queue, four are rendered.
CONSTANTS
  Width = 32
  Height = 5
  MinConfidence = 25
  Painting = {1, 2, 8, 20, 21}
  Setups <- MCSetups
  Images <- MCImages
  SimImages <- MCSimImages
  YoloResults <- MCYoloResults
  Alpha = 35
  QueueSize = 2
  MaxFrames = 4
  MaxTopic = 1

SPECIFICATION CameraFairSpec

INVARIANTS BridgeInv StaysConfident AimsAtTheOpening
PROPERTY LastImageSeen
