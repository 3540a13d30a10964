\* One faulty byte or one request of another client, late and lost answers.
CONSTANTS
  Optional = {1207}
  Lengths = {2}
  Cuts = {5}
  Noise = {0, 66}
  MaxFaults = 1
  FaultAt = {1, 3, 9}
  MaxPings = 2
  MaxLate = 1
  MaxWire = 16

SPECIFICATION PingFairSpec

INVARIANTS PingInv OnlyWhatWasMeasured
PROPERTY CallbackEnds

CHECK_DEADLOCK FALSE
