---------------------------- MODULE FrontCamera -----------------------------
(***************************************************************************)
(* From the camera to f_cam/detections.  A USB camera is read by f_cam_node*)
(* itself.  Gazebo's images come to gz_image_bridge.py in a thread of      *)
(* gz-transport, pass a queue of two to a ROS timer that publishes them,   *)
(* and f_cam_node keeps the last one.  Its timer looks for gate and marker,*)
(* with OpenCV, with YOLO or with both, and smooths what it finds.         *)
(***************************************************************************)
EXTENDS GateVision

CONSTANTS
  Setups,       \* pairs of a source and a profile that are launched
  Images,       \* what a USB camera may be looking at
  SimImages,    \* what Gazebo may render
  YoloResults,  \* sequences of detections that YOLO may return
  Alpha,        \* smooth_alpha, percent
  QueueSize,    \* of the bridge
  MaxFrames,    \* bound: images rendered
  MaxTopic      \* bound: images on the topic

Profiles == {"prequal_cv", "prequal_hybrid", "default"}
Classes == {"gate", "neon_orange"}

ASSUME FrontCameraAssumption ==
  /\ Setups \subseteq {"usb", "gazebo"} \X Profiles
  /\ Alpha \in 0..100
  /\ QueueSize \in Nat \ {0} /\ MaxFrames \in Nat /\ MaxTopic \in Nat \ {0}

(* YOLO is asked for what it is sure of, to conf_threshold.                *)
ASSUME YoloAssumption ==
  YoloResults \subseteq
    Seq([class : Classes, confidence : MinConfidence..100, x2 : Int, source : {"yolo"}])

VARIABLES
  source,     \* "usb" or "gazebo": use_sim
  profile,    \* vision_profile
  view,       \* what the USB camera looks at
  rendered,   \* number of the image that Gazebo rendered last
  queue,      \* of the bridge
  put,        \* where on_gz_image is, and its image
  topic,      \* images published, on their way to f_cam_node
  latest,     \* _latest_frame
  tracker,    \* class -> confidence of the last smoothed detection
  published   \* the image looked at and its detections

cameraVars == <<source, profile, view>>
bridgeVars == <<rendered, queue, put>>
nodeVars == <<tracker, published>>
frontVars == <<cameraVars, bridgeVars, topic, latest, nodeVars>>

NoFrame == [n |-> 0]
Frame(n, image) == [n |-> n, image |-> image]
Idle == [at |-> "idle", frame |-> NoFrame]

CameraInit ==
  /\ \E setup \in Setups : source = setup[1] /\ profile = setup[2]
  /\ view \in IF source = "usb" THEN Images ELSE {NoFrame}
  /\ rendered = 0 /\ queue = <<>> /\ put = Idle
  /\ topic = <<>> /\ latest = NoFrame
  /\ tracker = [c \in Classes |-> 0]
  /\ published = [frame |-> NoFrame, detections |-> <<>>]

-----------------------------------------------------------------------------
(* on_gz_image, step by step.  Gazebo renders on; the next callback waits. *)
Full == Len(queue) >= QueueSize

Render ==
  /\ source = "gazebo" /\ put = Idle /\ rendered < MaxFrames
  /\ rendered' = rendered + 1
  /\ \E image \in SimImages :
       LET f == Frame(rendered', image) IN
         IF Full THEN put' = [at |-> "full", frame |-> f] /\ UNCHANGED queue
                 ELSE queue' = Append(queue, f) /\ UNCHANGED put
  /\ UNCHANGED <<cameraVars, topic, latest, nodeVars>>

(* get_nowait, which may find that the timer has emptied the queue.        *)
DropOldest ==
  /\ put.at = "full"
  /\ put' = [put EXCEPT !.at = "again"]
  /\ queue' = IF queue = <<>> THEN queue ELSE Tail(queue)
  /\ UNCHANGED <<cameraVars, rendered, topic, latest, nodeVars>>

(* Mutant: one is dropped, and the new one as well. *)
PutForgets ==
  /\ put.at = "again"
  /\ put' = Idle
  /\ UNCHANGED <<cameraVars, rendered, queue, topic, latest, nodeVars>>

(* The second put_nowait.  A Full now would end the callback's thread.     *)
PutAgain ==
  /\ put.at = "again"
  /\ IF Full THEN put' = [put EXCEPT !.at = "raised"] /\ UNCHANGED queue
             ELSE put' = Idle /\ queue' = Append(queue, put.frame)
  /\ UNCHANGED <<cameraVars, rendered, topic, latest, nodeVars>>

(* One round of _drain_queue.                                              *)
Drain ==
  /\ queue # <<>> /\ Len(topic) < MaxTopic
  /\ topic' = Append(topic, Head(queue))
  /\ queue' = Tail(queue)
  /\ UNCHANGED <<cameraVars, rendered, put, latest, nodeVars>>

SimImageCallback ==
  /\ topic # <<>>
  /\ latest' = Head(topic)
  /\ topic' = Tail(topic)
  /\ UNCHANGED <<cameraVars, bridgeVars, nodeVars>>

-----------------------------------------------------------------------------
(* Of several detections of a class the first of the most confident, in    *)
(* the place of the first.                                                 *)
Keep(best, d) ==
  LET same == {i \in DOMAIN best : best[i].class = d.class}
  IN IF same = {} THEN Append(best, d)
     ELSE [i \in DOMAIN best |->
             IF i \in same /\ d.confidence > best[i].confidence THEN d ELSE best[i]]

MergeByClass(detections) == FoldLeft(Keep, <<>>, detections)

WithYolo(cv, yolo) ==
  IF profile = "prequal_cv" THEN cv ELSE MergeByClass(cv \o yolo)

RunDetection(frame, yolo) ==
  CASE frame = NoFrame -> <<>>
    [] frame # NoFrame /\ profile = "default" -> yolo
    [] OTHER -> WithYolo(ProcessPrequalCv(frame.image), yolo)

(* Mutant: a class that was not there before rises from 0. *)
SmoothFromZero(s, d) ==
  LET c == (Alpha * d.confidence + (100 - Alpha) * s.tracker[d.class]) \div 100
  IN [tracker |-> [s.tracker EXCEPT ![d.class] = c],
      detections |-> Append(s.detections, [d EXCEPT !.confidence = c])]

(* A class is smoothed against its last detection, however long ago.       *)
Smooth(s, d) ==
  LET old == s.tracker[d.class]
      c == IF old = 0 THEN d.confidence ELSE (Alpha * d.confidence + (100 - Alpha) * old) \div 100
  IN [tracker |-> [s.tracker EXCEPT ![d.class] = c],
      detections |-> Append(s.detections, [d EXCEPT !.confidence = c])]

(* read_frame: a USB camera may fail to deliver.                           *)
Readable == IF source = "usb" THEN {NoFrame, Frame(1, view)} ELSE {latest}

TimerCallback ==
  \E frame \in Readable, yolo \in YoloResults :
    \E s \in {FoldLeft(Smooth, [tracker |-> tracker, detections |-> <<>>],
                      RunDetection(frame, yolo))} :
      /\ tracker' = s.tracker
      /\ published' = [frame |-> frame, detections |-> s.detections]
      /\ UNCHANGED <<cameraVars, bridgeVars, topic, latest>>

CameraNext ==
  \/ Render \/ DropOldest \/ PutAgain
  \/ Drain \/ SimImageCallback \/ TimerCallback

CameraSpec == CameraInit /\ [][CameraNext]_frontVars

(* The threads of the bridge and the executor of f_cam_node go on.         *)
CameraFairSpec ==
  /\ CameraSpec
  /\ WF_frontVars(DropOldest) /\ WF_frontVars(PutAgain)
  /\ WF_frontVars(Drain) /\ WF_frontVars(SimImageCallback)

-----------------------------------------------------------------------------
(* Images pass the bridge in the order they were rendered, at most *)
(* QueueSize wait, the one that was rendered last is not dropped, and the  *)
(* second put_nowait is never refused, whatever the timer does meanwhile.  *)
Waiting == queue \o IF put = Idle THEN <<>> ELSE <<put.frame>>
Passing == (IF latest = NoFrame THEN <<>> ELSE <<latest>>) \o topic \o Waiting

BridgeInv ==
  /\ put.at \in {"idle", "full", "again"}
  /\ Len(queue) <= QueueSize
  /\ \A i, j \in DOMAIN Passing : i < j => Passing[i].n < Passing[j].n
  /\ rendered > 0 => Passing # <<>> /\ Last(Passing).n = rendered

(* The image rendered last is looked at.                                   *)
LastImageSeen == rendered > 0 ~> latest.n = rendered

(* What is smoothed stays above the threshold, whatever went before; so    *)
(* does what later detections are smoothed against.                        *)
StaysConfident ==
  /\ \A i \in DOMAIN published.detections :
       published.detections[i].confidence \in MinConfidence..100
  /\ tracker \in [Classes -> {0} \cup MinConfidence..100]

(* A gate found by its legs is steered for between them.  And outer legs   *)
(* that complement each other are the gate, whatever stands between and    *)
(* beside them: the red pole in the middle, the marker.                    *)
LegRuns(image) ==
  {r \in Runs(Painted(image)) : 10 * Height > 12 * (r[2] - r[1] + 1)}

(* For the theorem: legs are narrow, and nothing is painted so close to     *)
(* something else that both are clustered.                                 *)
NarrowLegs(image) ==
  \A r \in LegRuns(image) : 100 * (r[2] - r[1] + 1) <= 12 * Width

StandApart(image) ==
  \A r, s \in Runs(Painted(image)) :
    LET d == r[1] + r[2] - s[1] - s[2]
    IN r # s => 100 * Max({d, -d}) > 2 * 4 * Width

Solid(image, kind) ==
  {r \in LegRuns(image) : \A c \in r[1]..r[2] : image.column[c] = kind}

GateLegs(image) ==
  {p \in Solid(image, "RB") \X Solid(image, "BR") :
     \A r \in LegRuns(image) :
       r \in Solid(image, "Pole") \cup Solid(image, "RR") \cup {p[1], p[2]}}

Between(l, r, x2) == 2 * (l[2] + 1) <= x2 /\ x2 <= 2 * r[1] /\ x2 = l[1] + r[2] + 1

ShowsTheGate(l, r) ==
  /\ l[2] < r[1]
  /\ 100 * (r[1] + r[2] - l[1] - l[2]) >= 36 * Width
  /\ 800 >= MinConfidence * Width

AimsAtTheOpening ==
  LET image == published.frame.image
      all == {published.detections[i] : i \in DOMAIN published.detections}
      gates == {d \in all : d.source \in {"split_leg_pair", "red_black_outer_panel_pair"}}
  IN /\ \A d \in gates : \E l, r \in LegRuns(image) : Between(l, r, d.x2)
     /\ published.frame # NoFrame /\ profile = "prequal_cv" /\ ~image.blue =>
          \A p \in GateLegs(image) :
            ShowsTheGate(p[1], p[2]) => \E d \in gates : Between(p[1], p[2], d.x2)
=============================================================================
