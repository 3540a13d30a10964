---------------------------- MODULE MissionsProofs ----------------------------
(***************************************************************************)
(* Theorems of Missions for all durations, thresholds, sets of detections  *)
(* and positions, and all circles, targets and tolerances.                 *)
(***************************************************************************)
EXTENDS Missions, SequenceTheorems, TLAPS

Enough == Target - Tolerance

(* What turn_around knows of its turn: the headings differ by it, up to a  *)
(* circle, and at the last control cycle it was not enough.                *)
TurnInv ==
  /\ turned \in Int
  /\ fields.startYaw # None =>
       /\ status = "running"
       /\ pose # None
       /\ pose.yaw - fields.startYaw - turned \in {0, Circle, -Circle}
       /\ swing \in -MaxTurn .. MaxTurn
       /\ turned - swing \in -(Enough - 1) .. Enough - 1
  /\ key = "turn_around" /\ status = "running" /\ fields.startYaw = None => turned = 0
  /\ key = "turn_around" /\ status # "running" =>
       /\ turned \in -(Enough + MaxTurn - 1) .. Enough + MaxTurn - 1
       /\ turned \notin -(Enough - 1) .. Enough - 1

(* As long as a timed transit runs the marker was seen too early only.     *)
TransitInv ==
  /\ sightedAt \in Nat \cup {None}
  /\ key = "transit_forward" /\ timed /\ status = "running" /\ sightedAt # None =>
       sightedAt < MinTransit
  /\ TransitFailsUnseen

MissionsInv == MissionsTypeOK /\ TurnInv /\ TransitInv

LEMMA TimesType ==
  /\ Horizon \in Nat /\ MinTransit \in Nat /\ MaxTransit \in Nat
  /\ None \notin Nat
  BY MissionsAssumption DEF Times

LEMMA ModNear ==
  ASSUME NEW c \in Nat \ {0}, NEW a \in 0 .. c - 1
  PROVE  a % c = a /\ (a + c) % c = a /\ (a - c) % c = a
<1>1. a % c = a
  OBVIOUS
<1>2. (a + c) % c = a
  OBVIOUS
<1>3. (a - c) % c = a
  OBVIOUS
<1>. QED
  BY <1>1, <1>2, <1>3

LEMMA CircleFacts ==
  /\ Enough \in Nat \ {0} /\ Circle \in Nat \ {0}
  /\ MaxTurn \in 0 .. Circle
  /\ 2 * Enough + MaxTurn <= Circle + 1
  BY TurnAssumption DEF Enough

(* A heading turned by less than a circle stays a heading, off by at most  *)
(* one circle.                                                             *)
LEMMA YawTurns ==
  ASSUME NEW yaw \in 0 .. Circle - 1, NEW turn \in -MaxTurn .. MaxTurn
  PROVE  /\ (yaw + turn) % Circle \in 0 .. Circle - 1
         /\ ((yaw + turn) % Circle) - yaw - turn \in {0, Circle, -Circle}
<1>. DEFINE a == yaw + turn
<1>1. CASE a \in 0 .. Circle - 1
  <2>1. a % Circle = a
    BY <1>1, CircleFacts, ModNear
  <2>. QED
    BY <1>1, <2>1
<1>2. CASE a < 0
  <2>1. a + Circle \in 0 .. Circle - 1
    BY <1>2, CircleFacts
  <2>2. ((a + Circle) - Circle) % Circle = a + Circle
    BY <2>1, CircleFacts, ModNear
  <2>3. (a + Circle) - Circle = a
    BY CircleFacts
  <2>. QED
    BY <2>1, <2>2, <2>3, CircleFacts
<1>3. CASE a >= Circle
  <2>1. a - Circle \in 0 .. Circle - 1
    BY <1>3, CircleFacts
  <2>2. ((a - Circle) + Circle) % Circle = a - Circle
    BY <2>1, CircleFacts, ModNear
  <2>3. (a - Circle) + Circle = a
    BY CircleFacts
  <2>. QED
    BY <2>1, <2>2, <2>3, CircleFacts
<1>. QED
  BY <1>1, <1>2, <1>3, CircleFacts

(* The difference of two headings tells whether a turn, known up to a      *)
(* circle and not past the far side, is enough.                            *)
LEMMA NormalizedTells ==
  ASSUME NEW yaw \in 0 .. Circle - 1, NEW start \in 0 .. Circle - 1,
         NEW a \in -(Enough + MaxTurn - 1) .. Enough + MaxTurn - 1,
         yaw - start - a \in {0, Circle, -Circle}
  PROVE  /\ Normalized(yaw - start) \in Nat
         /\ Normalized(yaw - start) >= Enough <=> a \notin -(Enough - 1) .. Enough - 1
<1>. DEFINE d == yaw - start
<1>1. CASE d >= 0
  <2>1. d \in 0 .. Circle - 1
    BY <1>1, CircleFacts
  <2>2. d % Circle = d
    BY <2>1, CircleFacts, ModNear
  <2>. QED
    BY <2>1, <2>2, CircleFacts DEF Normalized
<1>2. CASE d < 0
  <2>1. d + Circle \in 0 .. Circle - 1
    BY <1>2, CircleFacts
  <2>2. ((d + Circle) - Circle) % Circle = d + Circle
    BY <2>1, CircleFacts, ModNear
  <2>3. (d + Circle) - Circle = d
    BY CircleFacts
  <2>. QED
    BY <1>2, <2>1, <2>2, <2>3, CircleFacts DEF Normalized
<1>. QED
  BY <1>1, <1>2, CircleFacts
-----------------------------------------------------------------------------
FieldsOwned(f, k) ==
  /\ f \in [aligned : Nat, lost : Nat, startYaw : 0 .. Circle - 1 \cup {None},
            startX : Positions \cup {None}]
  /\ f.aligned # 0 => k = "traverse_gate"
  /\ f.lost # 0 => k = "detect_path"
  /\ f.startYaw # None => k = "turn_around"
  /\ f.startX # None => k = "transit_forward"

(* What a step of any mission leaves behind.                               *)
StepLeaves(t) ==
  /\ status' \in {"running", "succeeded", "failed"}
  /\ FieldsOwned(fields', key)
  /\ status' = "failed" =>
       key = "transit_forward" /\ timed /\ t >= MaxTransit /\ (Sure => t < MinTransit)
  /\ key = "transit_forward" /\ timed /\ status' = "running" => (Sure => t < MinTransit)

LEMMA BlankOwned ==
  ASSUME NEW k
  PROVE  FieldsOwned(Blank, k)
  BY DEF FieldsOwned, Blank

(* A mission that does not fail, and leaves its fields as they are or      *)
(* blank, is no transit.                                                   *)
LEMMA PlainStep ==
  ASSUME NEW t, MissionsTypeOK, key # "transit_forward",
         NEW c, \/ Completes("succeeded", c) \/ Goes(c, fields)
  PROVE  StepLeaves(t)
<1>1. FieldsOwned(fields, key)
  BY DEF MissionsTypeOK, FieldsOwned
<1>. QED
  BY <1>1, BlankOwned DEF StepLeaves, Completes, Goes

LEMMA EveryStepLeaves ==
  ASSUME MissionsTypeOK, NEW t \in Nat, Step(t)
  PROVE  StepLeaves(t)
<1>0. FieldsOwned(fields, key)
  BY DEF MissionsTypeOK, FieldsOwned
<1>1. CASE HoldStep
  BY <1>1, PlainStep DEF HoldStep
<1>2. CASE WaitSubmergedStep(t)
  BY <1>2, PlainStep DEF WaitSubmergedStep
<1>3. CASE FindStep
  BY <1>3, PlainStep DEF FindStep
<1>4. CASE ApproachMarkerStep
  BY <1>4, PlainStep DEF ApproachMarkerStep
<1>5. CASE TraverseGateStep
  <2>1. AlignedFrames \in Nat
    BY <1>0 DEF AlignedFrames, FieldsOwned
  <2>. DEFINE next == [fields EXCEPT !.aligned = IF AlignedRequired > 0 /\ vision # None
                                                   THEN AlignedFrames ELSE @]
  <2>2. FieldsOwned(next, key)
    BY <1>0, <1>5, <2>1 DEF FieldsOwned, TraverseGateStep
  <2>. QED
    BY <1>5, <2>2, BlankOwned DEF TraverseGateStep, StepLeaves, Completes, Goes
<1>6. CASE PassGateStep(t)
  BY <1>6, PlainStep DEF PassGateStep
<1>7. CASE TransitForwardStep(t)
  <2>1. CASE timed
    BY <1>0, <1>7, <2>1, BlankOwned, TimesType
       DEF TransitForwardStep, TimedTransitStep, StepLeaves, Completes, Goes
  <2>2. CASE ~timed
    <3>. DEFINE start == IF fields.startX = None THEN pose.x ELSE fields.startX
                next == [fields EXCEPT !.startX = start]
    <3>1. pose # None => start \in Positions
      BY <1>0 DEF FieldsOwned, MissionsTypeOK, Poses
    <3>2. pose # None => FieldsOwned(next, key)
      BY <1>0, <1>7, <3>1 DEF FieldsOwned, TransitForwardStep
    <3>. QED
      BY <1>0, <1>7, <2>2, <3>2, BlankOwned
         DEF TransitForwardStep, PoseTransitStep, StepLeaves, Completes, Goes
  <2>. QED
    BY <2>1, <2>2
<1>8. CASE CircleMarkerStep(t)
  BY <1>8, PlainStep DEF CircleMarkerStep
<1>9. CASE TurnAroundStep
  <2>1. pose # None => StartYaw \in 0 .. Circle - 1
    BY <1>0 DEF FieldsOwned, MissionsTypeOK, Poses, StartYaw
  <2>2. pose # None => FieldsOwned([fields EXCEPT !.startYaw = StartYaw], key)
    BY <1>0, <1>9, <2>1 DEF FieldsOwned, TurnAroundStep
  <2>. QED
    BY <1>0, <1>9, <2>2, BlankOwned DEF TurnAroundStep, StepLeaves, Completes, Goes
<1>10. CASE DetectPathStep(t)
  <2>1. LostFrames \in Nat
    BY <1>0, MissionsAssumption DEF LostFrames, FieldsOwned
  <2>2. FieldsOwned([fields EXCEPT !.lost = LostFrames], key)
    BY <1>0, <1>10, <2>1 DEF FieldsOwned, DetectPathStep
  <2>. QED
    BY <1>10, <2>2, BlankOwned DEF DetectPathStep, StepLeaves, Completes, Goes
<1>11. CASE ReturnHomeStep
  BY <1>11, PlainStep DEF ReturnHomeStep
<1>. QED
  BY <1>1, <1>2, <1>3, <1>4, <1>5, <1>6, <1>7, <1>8, <1>9, <1>10, <1>11 DEF Step
-----------------------------------------------------------------------------
(* A control cycle of turn_around: what it decides on the heading is right *)
(* of the turn.                                                            *)
LEMMA TurnStep ==
  ASSUME MissionsTypeOK, TurnInv, status = "running", TurnAroundStep, swing' = 0,
         UNCHANGED <<key, pose, turned>>
  PROVE  TurnInv'
<1>1. CASE pose = None
  <2>1. fields.startYaw = None
    BY <1>1 DEF TurnInv
  <2>. QED
    BY <1>1, <2>1, CircleFacts DEF TurnInv, TurnAroundStep, Goes
<1>2. CASE pose # None
  <2>1. pose.yaw \in 0 .. Circle - 1
    BY <1>2 DEF MissionsTypeOK, Poses
  <2>2. StartYaw \in 0 .. Circle - 1 /\ StartYaw # None
    BY <2>1, MissionsAssumption DEF MissionsTypeOK, StartYaw
  <2>3. /\ pose.yaw - StartYaw - turned \in {0, Circle, -Circle}
        /\ turned \in -(Enough + MaxTurn - 1) .. Enough + MaxTurn - 1
    BY <2>1, <2>2, CircleFacts, TurnAroundStep DEF TurnInv, StartYaw, TurnAroundStep
  <2>4. /\ Normalized(pose.yaw - StartYaw) \in Nat
        /\ Normalized(pose.yaw - StartYaw) >= Enough
             <=> turned \notin -(Enough - 1) .. Enough - 1
    BY <2>1, <2>2, <2>3, NormalizedTells
  <2>5. CASE Normalized(pose.yaw - StartYaw) >= Enough
    <3>1. status' = "succeeded" /\ fields' = Blank
      BY <1>2, <2>4, <2>5, CircleFacts DEF TurnAroundStep, Completes, Enough
    <3>. QED
      BY <2>3, <2>4, <2>5, <3>1 DEF TurnInv, Blank
  <2>6. CASE ~(Normalized(pose.yaw - StartYaw) >= Enough)
    <3>1. status' = "running" /\ fields' = [fields EXCEPT !.startYaw = StartYaw]
      BY <1>2, <2>4, <2>6, CircleFacts DEF TurnAroundStep, Goes, Enough
    <3>2. fields'.startYaw = StartYaw
      BY <3>1 DEF MissionsTypeOK
    <3>3. turned \in -(Enough - 1) .. Enough - 1
      BY <2>4, <2>6
    <3>. QED
      BY <1>2, <2>2, <2>3, <3>1, <3>2, <3>3, CircleFacts DEF TurnInv
  <2>. QED
    BY <2>5, <2>6
<1>. QED
  BY <1>1, <1>2

LEMMA LaterType ==
  ASSUME elapsed \in 0 .. Horizon, NEW dt \in 1 .. MaxDelay
  PROVE  Later(dt) \in 0 .. Horizon
  BY TimesType, MissionsAssumption DEF Later

LEMMA ControlCycleKeeps ==
  ASSUME MissionsInv, ControlCycle
  PROVE  MissionsInv'
<1>1. PICK dt \in 1 .. MaxDelay :
        /\ elapsed' = Later(dt)
        /\ Step(Later(dt))
        /\ sightedAt' = IF key = "transit_forward" /\ Sure THEN Later(dt) ELSE sightedAt
  BY DEF ControlCycle
<1>2. Later(dt) \in 0 .. Horizon
  BY LaterType DEF MissionsInv, MissionsTypeOK
<1>3. /\ status = "running" /\ swing' = 0
      /\ UNCHANGED <<timed, key, vision, clear, pose, turned>>
  BY DEF ControlCycle
<1>4. StepLeaves(Later(dt))
  BY <1>1, <1>2, TimesType, EveryStepLeaves DEF MissionsInv
<1>5. MissionsTypeOK'
  BY <1>1, <1>2, <1>3, <1>4 DEF MissionsInv, MissionsTypeOK, StepLeaves, FieldsOwned
<1>6. TurnInv'
  <2>1. CASE key = "turn_around"
    <3>1. TurnAroundStep
      BY <1>1, <2>1
         DEF Step, HoldStep, WaitSubmergedStep, FindStep, ApproachMarkerStep,
             TraverseGateStep, PassGateStep, TransitForwardStep, CircleMarkerStep,
             DetectPathStep, ReturnHomeStep
    <3>. QED
      BY <1>3, <3>1, TurnStep DEF MissionsInv
  <2>2. CASE key # "turn_around"
    BY <1>3, <1>4, <2>2 DEF MissionsInv, TurnInv, StepLeaves, FieldsOwned
  <2>. QED
    BY <2>1, <2>2
<1>7. TransitInv'
  BY <1>1, <1>2, <1>3, <1>4, TimesType
     DEF MissionsInv, TransitInv, TransitFailsUnseen, StepLeaves
<1>. QED
  BY <1>5, <1>6, <1>7 DEF MissionsInv

LEMMA PoseKeeps ==
  ASSUME MissionsInv, NEW x \in Positions, NEW turn \in -MaxTurn .. MaxTurn,
         PoseCallback(x, turn)
  PROVE  MissionsInv'
<1>1. UNCHANGED <<timed, key, status, elapsed, fields, cmd, vision, clear, lately,
                  sightedAt>>
  BY DEF PoseCallback
<1>2. CASE pose = None
  <2>1. fields.startYaw = None
    BY <1>2 DEF MissionsInv, TurnInv
  <2>2. turn % Circle \in 0 .. Circle - 1
    BY CircleFacts
  <2>3. pose' = [x |-> x, yaw |-> turn % Circle] /\ UNCHANGED turned
    BY <1>2 DEF PoseCallback
  <2>. QED
    BY <1>1, <2>1, <2>2, <2>3
       DEF MissionsInv, MissionsTypeOK, Poses, TurnInv, TransitInv, TransitFailsUnseen
<1>3. CASE pose # None
  <2>. DEFINE yaw == (pose.yaw + turn) % Circle
  <2>1. pose.yaw \in 0 .. Circle - 1
    BY <1>3 DEF MissionsInv, MissionsTypeOK, Poses
  <2>2. yaw \in 0 .. Circle - 1 /\ yaw - pose.yaw - turn \in {0, Circle, -Circle}
    BY <2>1, YawTurns
  <2>3. pose' = [x |-> x, yaw |-> yaw]
    BY <1>3 DEF PoseCallback
  <2>4. pose' \in Poses /\ pose' # None
    BY <2>2, <2>3, MissionsAssumption DEF Poses
  <2>5. MissionsTypeOK' /\ TransitInv'
    BY <1>1, <2>4 DEF MissionsInv, MissionsTypeOK, TransitInv, TransitFailsUnseen
  <2>6. CASE fields.startYaw = None
    BY <1>1, <1>3, <2>5, <2>6 DEF MissionsInv, TurnInv, PoseCallback
  <2>7. CASE fields.startYaw # None
    <3>1. /\ swing + turn \in -MaxTurn .. MaxTurn
          /\ swing' = swing + turn
          /\ turned' = turned + turn
      BY <1>3, <2>7 DEF PoseCallback
    <3>2. fields.startYaw \in 0 .. Circle - 1
      BY <2>7 DEF MissionsInv, MissionsTypeOK
    <3>3. yaw - fields.startYaw - (turned + turn) \in {0, Circle, -Circle}
      BY <2>1, <2>2, <2>7, <3>1, <3>2, CircleFacts DEF MissionsInv, TurnInv
    <3>4. TurnInv'
      BY <1>1, <2>3, <2>4, <2>7, <3>1, <3>3, CircleFacts DEF MissionsInv, TurnInv
    <3>. QED
      BY <2>5, <3>4 DEF MissionsInv
  <2>. QED
    BY <2>6, <2>7
<1>. QED
  BY <1>2, <1>3
-----------------------------------------------------------------------------
(* The inductive invariant of the missions.                                *)
THEOREM MissionsCorrect == Spec => []MissionsInv
<1>1. Init => MissionsInv
  <2>1. Init => MissionsTypeOK
    <3>1. Init => fields = Blank /\ elapsed \in 0 .. Horizon
      BY TimesType DEF Init
    <3>2. FieldsOwned(Blank, key)
      BY BlankOwned
    <3>. QED
      BY <3>1, <3>2 DEF Init, MissionsTypeOK, FieldsOwned, Behaviors
  <2>2. Init => TurnInv /\ TransitInv
    BY DEF Init, Blank, TurnInv, TransitInv, TransitFailsUnseen
  <2>. QED
    BY <2>1, <2>2 DEF MissionsInv
<1>2. MissionsInv /\ [Next]_vars => MissionsInv'
  <2>. SUFFICES ASSUME MissionsInv, [Next]_vars
                PROVE  MissionsInv'
    OBVIOUS
  <2>. USE DEF MissionsInv, MissionsTypeOK, TurnInv, TransitInv, TransitFailsUnseen
  <2>1. CASE ControlCycle
    BY <2>1, ControlCycleKeeps
  <2>2. ASSUME NEW k \in Behaviors, NewMission(k)
        PROVE  MissionsInv'
    BY <2>2, TimesType DEF NewMission, NewFields, Blank
  <2>3. CASE UnknownBehavior
    BY <2>3 DEF UnknownBehavior, Blank
  <2>4. ASSUME NEW v \in Sightings \cup {None}, VisionCallback(v)
        PROVE  MissionsInv'
    BY <2>4 DEF VisionCallback, ghosts
  <2>5. ASSUME NEW far \in BOOLEAN, RangeCallback(far)
        PROVE  MissionsInv'
    BY <2>5 DEF RangeCallback, ghosts
  <2>6. ASSUME NEW x \in Positions, NEW turn \in -MaxTurn .. MaxTurn,
               PoseCallback(x, turn)
        PROVE  MissionsInv'
    BY <2>6, PoseKeeps
  <2>7. CASE UNCHANGED vars
    BY <2>7 DEF vars, ghosts
  <2>. QED
    BY <2>1, <2>2, <2>3, <2>4, <2>5, <2>6, <2>7 DEF Next
<1>. QED
  BY <1>1, <1>2, PTL DEF Spec

(* turn_around ends within one control period's turn of its target, for    *)
(* every circle, target and tolerance whose window is wide enough to be    *)
(* seen (TurnAssumption), whichever way the vehicle is pushed meanwhile.   *)
THEOREM TurnsAsFarAsItShould == Spec => []TurnExact
<1>1. MissionsInv => TurnExact
  BY CircleFacts DEF MissionsInv, MissionsTypeOK, TurnInv, TurnExact, Enough
<1>. QED
  BY <1>1, MissionsCorrect, PTL

(* A transit that fails has not overlooked the marker.                     *)
THEOREM TransitOverlooksNothing == Spec => []TransitFailsUnseen
<1>1. MissionsInv => TransitFailsUnseen
  BY DEF MissionsInv, TransitInv
<1>. QED
  BY <1>1, MissionsCorrect, PTL

-----------------------------------------------------------------------------
(* The last n of what the frame counters were given counted.               *)
EndsWith(s, n) ==
  /\ n <= Len(s)
  /\ \A i \in 1 .. Len(s) : i > Len(s) - n => s[i]

(* A counter counts the cycles in a row that it ends with: no more than    *)
(* its limit are remembered, and what a mission before has counted is      *)
(* forgotten with it.                                                      *)
CountInv ==
  /\ lately \in Seq(BOOLEAN)
  /\ key = "detect_path" /\ status = "running" =>
       Len(lately) <= LostLimit /\ EndsWith(lately, fields.lost)
  /\ key = "traverse_gate" /\ status = "running" =>
       Len(lately) <= AlignedRequired /\ EndsWith(lately, fields.aligned)

(* One more that counts makes the run longer by one, up to all of them.    *)
LEMMA RememberExtends ==
  ASSUME NEW n \in Nat \ {0}, lately \in Seq(BOOLEAN), Len(lately) <= n,
         NEW b \in BOOLEAN, NEW k \in Nat, EndsWith(lately, k)
  PROVE  /\ Remember(n, b) \in Seq(BOOLEAN)
         /\ Len(Remember(n, b)) <= n
         /\ b /\ k < n => EndsWith(Remember(n, b), k + 1)
         /\ b /\ k = n => EndsWith(Remember(n, b), k)
<1>. DEFINE s == Remember(n, b)
<1>1. Len(lately) \in Nat /\ \A i \in 1 .. Len(lately) : lately[i] \in BOOLEAN
  BY LenProperties, ElementOfSeq
<1>2. CASE Len(lately) < n
  <2>1. s = Append(lately, b)
    BY <1>2 DEF Remember
  <2>2. /\ s \in Seq(BOOLEAN) /\ Len(s) = Len(lately) + 1
        /\ \A i \in 1 .. Len(lately) : s[i] = lately[i]
        /\ s[Len(lately) + 1] = b
    BY <2>1, AppendProperties
  <2>. HIDE DEF s
  <2>3. b => EndsWith(s, k + 1)
    <3>. SUFFICES ASSUME b, NEW i \in 1 .. Len(s), i > Len(s) - (k + 1)
                  PROVE  s[i]
      BY <1>1, <2>2 DEF EndsWith
    <3>1. CASE i = Len(lately) + 1
      BY <2>2, <3>1
    <3>2. CASE i # Len(lately) + 1
      <4>1. i \in 1 .. Len(lately) /\ i > Len(lately) - k
        BY <1>1, <2>2, <3>2
      <4>2. lately[i]
        BY <4>1 DEF EndsWith
      <4>. QED
        BY <2>2, <4>1, <4>2
    <3>. QED
      BY <3>1, <3>2
  <2>4. k < n
    BY <1>1, <1>2 DEF EndsWith
  <2>. QED
    BY <1>1, <1>2, <2>2, <2>3, <2>4 DEF s
<1>3. CASE Len(lately) = n
  <2>1. lately # <<>>
    BY <1>3, EmptySeq
  <2>2. /\ Tail(lately) \in Seq(BOOLEAN) /\ Len(Tail(lately)) = n - 1
        /\ \A i \in 1 .. n - 1 : Tail(lately)[i] = lately[i + 1]
    BY <1>3, <2>1, HeadTailProperties
  <2>3. s = Append(Tail(lately), b)
    BY <1>3 DEF Remember
  <2>4. /\ s \in Seq(BOOLEAN) /\ Len(s) = n
        /\ \A i \in 1 .. n - 1 : s[i] = Tail(lately)[i]
        /\ s[n] = b
    BY <2>2, <2>3, AppendProperties
  <2>. HIDE DEF s
  <2>5. \A i \in 1 .. n - 1 : s[i] = lately[i + 1]
    BY <2>2, <2>4
  <2>6. ASSUME b, NEW i \in 1 .. n, i > n - (k + 1)
        PROVE  s[i]
    <3>1. CASE i = n
      BY <2>4, <2>6, <3>1
    <3>2. CASE i # n
      <4>1. i \in 1 .. n - 1 /\ i + 1 \in 1 .. n /\ i + 1 > n - k
        BY <2>6, <3>2
      <4>2. lately[i + 1]
        BY <1>3, <4>1 DEF EndsWith
      <4>. QED
        BY <2>5, <4>1, <4>2
    <3>. QED
      BY <3>1, <3>2
  <2>7. b => \A i \in 1 .. n : i > n - (k + 1) => s[i]
    BY <2>6
  <2>8. b /\ k < n => EndsWith(s, k + 1)
    BY <2>4, <2>7 DEF EndsWith
  <2>9. b /\ k = n => EndsWith(s, k)
    BY <2>4, <2>7 DEF EndsWith
  <2>. QED
    BY <2>4, <2>8, <2>9 DEF s
<1>. QED
  BY <1>1, <1>2, <1>3

LEMMA EndsWithNone ==
  ASSUME NEW s \in Seq(BOOLEAN)
  PROVE  EndsWith(s, 0)
  BY LenProperties DEF EndsWith

(* All that is remembered counted, and as many are remembered as it takes. *)
Full(s, n) ==
  /\ Len(s) = n
  /\ \A i \in 1 .. n : s[i]

LEMMA FullEnds ==
  ASSUME NEW n \in Nat, NEW s \in Seq(BOOLEAN), Len(s) <= n, EndsWith(s, n)
  PROVE  Full(s, n)
<1>1. Len(s) = n
  BY LenProperties DEF EndsWith
<1>. QED
  BY <1>1 DEF EndsWith, Full

(* A control cycle of detect_path.                                         *)
LEMMA LostCounted ==
  ASSUME MissionsTypeOK, CountInv, status = "running", NEW t, DetectPathStep(t),
         lately' = LatelyAfter, key' = key
  PROVE  /\ CountInv'
         /\ status' = "succeeded" => t >= MinPathTime /\ Full(lately', LostLimit)
<1>1. key = "detect_path" /\ LostLimit \in Nat \ {0}
  BY MissionsAssumption DEF DetectPathStep
<1>2. /\ lately \in Seq(BOOLEAN) /\ Len(lately) <= LostLimit
      /\ EndsWith(lately, fields.lost) /\ fields.lost \in Nat
  BY <1>1 DEF CountInv, MissionsTypeOK
<1>3. lately' = Remember(LostLimit, ~Sure) /\ (~Sure) \in BOOLEAN
  <2>1. lately' = Remember(LostLimit, ~Sure)
    BY <1>1, Zenon DEF LatelyAfter
  <2>. QED
    BY <2>1
<1>4. lately' \in Seq(BOOLEAN) /\ Len(lately') <= LostLimit
  BY <1>1, <1>2, <1>3, RememberExtends
<1>5. LostFrames \in Nat /\ EndsWith(lately', LostFrames)
  <2>1. CASE Sure
    BY <1>4, <2>1, EndsWithNone DEF LostFrames
  <2>2. CASE ~Sure /\ fields.lost = LostLimit
    BY <1>1, <1>2, <1>3, <2>2, RememberExtends DEF LostFrames
  <2>3. CASE ~Sure /\ fields.lost # LostLimit
    <3>1. fields.lost < LostLimit
      BY <1>1, <1>2, <2>3, LenProperties DEF EndsWith
    <3>2. EndsWith(Remember(LostLimit, ~Sure), fields.lost + 1)
      BY <1>1, <1>2, <1>3, <2>3, <3>1, RememberExtends
    <3>. QED
      BY <1>2, <1>3, <2>3, <3>2 DEF LostFrames
  <2>. QED
    BY <2>1, <2>2, <2>3
<1>6. CASE t >= MinPathTime /\ LostFrames >= LostLimit
  <2>1. LostFrames = LostLimit
    BY <1>1, <1>4, <1>5, <1>6, LenProperties DEF EndsWith
  <2>2. Full(lately', LostLimit)
    BY <1>1, <1>4, <1>5, <2>1, FullEnds
  <2>3. status' = "succeeded"
    BY <1>6 DEF DetectPathStep, Completes
  <2>. QED
    BY <1>1, <1>4, <1>6, <2>2, <2>3 DEF CountInv
<1>7. CASE ~(t >= MinPathTime /\ LostFrames >= LostLimit)
  <2>1. status' = "running" /\ fields'.lost = LostFrames
    BY <1>7 DEF DetectPathStep, Goes, MissionsTypeOK
  <2>. QED
    BY <1>1, <1>4, <1>5, <2>1 DEF CountInv
<1>. QED
  BY <1>6, <1>7

(* A control cycle of traverse_gate.                                       *)
LEMMA AlignedCounted ==
  ASSUME MissionsTypeOK, CountInv, status = "running", TraverseGateStep,
         lately' = LatelyAfter, key' = key
  PROVE  /\ CountInv'
         /\ status' = "succeeded" /\ ~GateReadyToCommit => Full(lately', AlignedRequired)
<1>. DEFINE counts == AlignedRequired > 0 /\ vision # None
<1>1. key = "traverse_gate" /\ AlignedRequired \in Nat
  BY MissionsAssumption DEF TraverseGateStep
<1>2. /\ lately \in Seq(BOOLEAN) /\ Len(lately) <= AlignedRequired
      /\ EndsWith(lately, fields.aligned) /\ fields.aligned \in Nat
  BY <1>1 DEF CountInv, MissionsTypeOK
<1>3. CASE ~counts
  <2>1. lately' = lately
    BY <1>1, <1>3 DEF LatelyAfter
  <2>2. \/ status' = "succeeded" /\ GateReadyToCommit
        \/ status' = "running" /\ fields'.aligned = fields.aligned
    BY <1>3 DEF TraverseGateStep, Completes, Goes, MissionsTypeOK
  <2>. QED
    BY <1>1, <1>2, <2>1, <2>2 DEF CountInv
<1>4. CASE counts
  <2>. DEFINE b == Centred
  <2>1. lately' = Remember(AlignedRequired, b) /\ b \in BOOLEAN
    BY <1>1, <1>4 DEF LatelyAfter, Centred
  <2>2. lately' \in Seq(BOOLEAN) /\ Len(lately') <= AlignedRequired
    BY <1>1, <1>2, <1>4, <2>1, RememberExtends
  <2>3. /\ fields.aligned <= AlignedRequired
        /\ AlignedFrames = IF b THEN fields.aligned + 1 ELSE 0
    BY <1>1, <1>2, <1>4, LenProperties DEF EndsWith, AlignedFrames, Centred, Sure
  <2>4. /\ AlignedFrames < AlignedRequired => EndsWith(lately', AlignedFrames)
        /\ AlignedFrames >= AlignedRequired => EndsWith(lately', AlignedRequired)
    <3>. HIDE DEF b
    <3>0. AlignedRequired \in Nat \ {0}
      BY <1>1, <1>4
    <3>1. CASE ~b
      BY <1>1, <1>4, <2>2, <2>3, <3>1, EndsWithNone
    <3>2. CASE b /\ fields.aligned < AlignedRequired
      <4>1. EndsWith(lately', fields.aligned + 1)
        BY <1>2, <2>1, <3>0, <3>2, RememberExtends
      <4>2. AlignedFrames = fields.aligned + 1
        BY <2>3, <3>2
      <4>3. AlignedFrames >= AlignedRequired => AlignedFrames = AlignedRequired
        BY <1>1, <1>2, <3>2, <4>2
      <4>. QED
        BY <4>1, <4>2, <4>3
    <3>3. CASE b /\ fields.aligned = AlignedRequired
      <4>1. EndsWith(lately', AlignedRequired)
        BY <1>2, <2>1, <3>0, <3>3, RememberExtends
      <4>2. ~(AlignedFrames < AlignedRequired)
        BY <1>1, <2>3, <3>3
      <4>. QED
        BY <4>1, <4>2
    <3>. QED
      BY <1>1, <1>2, <2>3, <3>1, <3>2, <3>3
  <2>5. AlignedFrames \in Nat
    BY <1>2, <2>3
  <2>. HIDE DEF b
  <2>6. CASE GateReadyToCommit \/ AlignedFrames >= AlignedRequired
    <3>1. status' = "succeeded"
      BY <1>4, <2>6 DEF TraverseGateStep, Completes
    <3>2. ~GateReadyToCommit => Full(lately', AlignedRequired)
      BY <1>1, <2>2, <2>4, <2>6, FullEnds
    <3>. QED
      BY <1>1, <2>2, <3>1, <3>2 DEF CountInv
  <2>7. CASE ~GateReadyToCommit /\ ~(AlignedFrames >= AlignedRequired)
    <3>1. status' = "running" /\ fields'.aligned = AlignedFrames
      BY <1>4, <2>7 DEF TraverseGateStep, Goes, MissionsTypeOK
    <3>2. EndsWith(lately', AlignedFrames)
      BY <1>1, <2>4, <2>5, <2>7
    <3>. QED
      BY <1>1, <2>2, <3>1, <3>2 DEF CountInv
  <2>. QED
    BY <2>6, <2>7
<1>. QED
  BY <1>3, <1>4

(* A new mission has counted nothing, and remembers nothing.               *)
LEMMA NothingCounted ==
  /\ <<>> \in Seq(BOOLEAN)
  /\ Len(<<>>) <= LostLimit /\ Len(<<>>) <= AlignedRequired
  /\ EndsWith(<<>>, 0)
<1>1. <<>> \in Seq(BOOLEAN) /\ Len(<<>>) = 0
  BY EmptySeq
<1>2. LostLimit \in Nat /\ AlignedRequired \in Nat
  BY MissionsAssumption
<1>3. EndsWith(<<>>, 0)
  BY <1>1 DEF EndsWith
<1>. QED
  BY <1>1, <1>2, <1>3

LEMMA CountStep ==
  ASSUME MissionsInv, CountInv, [Next]_vars
  PROVE  CountInv'
<1>1. CASE ControlCycle
  <2>1. PICK t : Step(t)
    BY <1>1 DEF ControlCycle
  <2>2. status = "running" /\ lately' = LatelyAfter /\ key' = key
    BY <1>1 DEF ControlCycle
  <2>3. CASE key = "detect_path"
    <3>1. DetectPathStep(t)
      BY <2>1, <2>3
         DEF Step, HoldStep, WaitSubmergedStep, FindStep, ApproachMarkerStep,
             TraverseGateStep, PassGateStep, TransitForwardStep, CircleMarkerStep,
             TurnAroundStep, ReturnHomeStep
    <3>. QED
      BY <2>2, <3>1, LostCounted DEF MissionsInv
  <2>4. CASE key = "traverse_gate"
    <3>1. TraverseGateStep
      BY <2>1, <2>4
         DEF Step, HoldStep, WaitSubmergedStep, FindStep, ApproachMarkerStep,
             DetectPathStep, PassGateStep, TransitForwardStep, CircleMarkerStep,
             TurnAroundStep, ReturnHomeStep
    <3>. QED
      BY <2>2, <3>1, AlignedCounted DEF MissionsInv
  <2>5. CASE key \notin {"detect_path", "traverse_gate"}
    BY <2>2, <2>5 DEF CountInv, LatelyAfter
  <2>. QED
    BY <2>3, <2>4, <2>5
<1>2. ASSUME NEW k \in Behaviors, NewMission(k)
      PROVE  CountInv'
  <2>1. lately' = <<>> /\ fields'.lost = 0 /\ fields'.aligned = 0
    BY <1>2 DEF NewMission, NewFields, Blank
  <2>. QED
    BY <2>1, NothingCounted DEF CountInv
<1>3. CASE UnknownBehavior
  <2>1. lately' = <<>> /\ fields'.lost = 0 /\ fields'.aligned = 0
    BY <1>3 DEF UnknownBehavior, Blank
  <2>. QED
    BY <2>1, NothingCounted DEF CountInv
<1>4. CASE UNCHANGED <<key, status, fields, lately>>
  BY <1>4 DEF CountInv
<1>. QED
  BY <1>1, <1>2, <1>3, <1>4
     DEF Next, VisionCallback, RangeCallback, PoseCallback, vars, ghosts

(* The counters are right whatever becomes of the missions.                *)
THEOREM CountersCountRuns == Spec => []CountInv
<1>1. Init => CountInv
  <2>1. Init => lately = <<>> /\ key = "depth_hold"
    BY DEF Init
  <2>. QED
    BY <2>1, EmptySeq DEF CountInv
<1>2. MissionsInv /\ CountInv /\ [Next]_vars => CountInv'
  BY CountStep
<1>. QED
  BY <1>1, <1>2, MissionsCorrect, PTL DEF Spec

(* detect_path and the alignment of traverse_gate end on cycles in a row,  *)
(* for every limit, however detections come and missions are exchanged.    *)
THEOREM EndsOnARun == Spec => FramesInARow
<1>. DEFINE Ended ==
       /\ key = "detect_path" =>
            /\ elapsed' >= MinPathTime
            /\ Len(lately') = LostLimit
            /\ \A i \in DOMAIN lately' : lately'[i]
       /\ key = "traverse_gate" /\ ~GateReadyToCommit =>
            /\ Len(lately') = AlignedRequired
            /\ \A i \in DOMAIN lately' : lately'[i]
<1>1. MissionsInv /\ CountInv /\ CountInv' /\ [Next]_vars =>
        [status = "running" /\ status' = "succeeded" => Ended]_vars
  <2>. SUFFICES ASSUME MissionsInv, CountInv, CountInv', Next,
                       status = "running", status' = "succeeded"
                PROVE  Ended
    OBVIOUS
  <2>1. ControlCycle
    BY DEF Next, NewMission, UnknownBehavior, VisionCallback, RangeCallback, PoseCallback
  <2>2. PICK dt \in 1 .. MaxDelay : elapsed' = Later(dt) /\ Step(Later(dt))
    BY <2>1 DEF ControlCycle
  <2>3. /\ lately' = LatelyAfter /\ key' = key
        /\ DOMAIN lately' = 1 .. Len(lately')
    BY <2>1, LenProperties DEF ControlCycle, CountInv
  <2>4. CASE key = "detect_path"
    <3>1. DetectPathStep(Later(dt))
      BY <2>2, <2>4
         DEF Step, HoldStep, WaitSubmergedStep, FindStep, ApproachMarkerStep,
             TraverseGateStep, PassGateStep, TransitForwardStep, CircleMarkerStep,
             TurnAroundStep, ReturnHomeStep
    <3>2. Later(dt) >= MinPathTime /\ Full(lately', LostLimit)
      BY <2>3, <3>1, LostCounted DEF MissionsInv
    <3>. QED
      BY <2>2, <2>3, <2>4, <3>2 DEF Full
  <2>5. CASE key = "traverse_gate"
    <3>1. TraverseGateStep
      BY <2>2, <2>5
         DEF Step, HoldStep, WaitSubmergedStep, FindStep, ApproachMarkerStep,
             DetectPathStep, PassGateStep, TransitForwardStep, CircleMarkerStep,
             TurnAroundStep, ReturnHomeStep
    <3>2. ~GateReadyToCommit => Full(lately', AlignedRequired)
      BY <2>3, <3>1, AlignedCounted DEF MissionsInv
    <3>. QED
      BY <2>3, <2>5, <3>2 DEF Full
  <2>. QED
    BY <2>4, <2>5
<1>. QED
  BY <1>1, MissionsCorrect, CountersCountRuns, PTL DEF Spec, FramesInARow
-----------------------------------------------------------------------------
(* What MasterControl and CmdVelPath take for granted of a mission.        *)
Endless == {"hold", "depth_hold"}
CanFail == {"transit_forward"}

(* Without a pose return_home returns no command, depth_hold never does.   *)
Silent == key = "depth_hold" \/ (key = "return_home" /\ pose = None)

(* ActivateBehavior and MissionCompletes of MasterControl, or nothing.     *)
LivesOn ==
  \/ key' # key /\ status' = "running" /\ fields' = Blank
  \/ /\ key' = key /\ status = "running" /\ status' \in {"succeeded", "failed"}
     /\ key \notin Endless /\ (status' = "failed" => key \in CanFail)
     /\ fields' = Blank
  \/ UNCHANGED <<key, status>>

(* Outputs of CmdVelPath, which says that the missions that return no      *)
(* command are SilentMission or Intermittent.                              *)
Commands ==
  ControlCycle => /\ Silent => cmd' = "none"
                  /\ cmd' = "none" => Silent \/ key = "detect_path"

PoseStays == pose # None => pose' # None

CleanedUp == status # "running" => fields = Blank

(* The command of a step, and that the last step of a mission blanks it.   *)
LEMMA StepReturns ==
  ASSUME NEW t, Step(t)
  PROVE  /\ status' = "running" \/ (status' \in {"succeeded", "failed"} /\ fields' = Blank)
         /\ key \in Endless => status' = "running"
         /\ status' = "failed" => key \in CanFail
         /\ Silent => cmd' = "none"
         /\ cmd' = "none" => Silent \/ key = "detect_path"
<1>. USE DEF Completes, Goes, Endless, CanFail, Silent
<1>1. CASE HoldStep
  BY <1>1 DEF HoldStep
<1>2. CASE WaitSubmergedStep(t)
  BY <1>2 DEF WaitSubmergedStep
<1>3. CASE FindStep
  BY <1>3 DEF FindStep
<1>4. CASE ApproachMarkerStep
  BY <1>4 DEF ApproachMarkerStep
<1>5. CASE TraverseGateStep
  BY <1>5 DEF TraverseGateStep
<1>6. CASE PassGateStep(t)
  BY <1>6 DEF PassGateStep
<1>7. CASE TransitForwardStep(t)
  BY <1>7 DEF TransitForwardStep, TimedTransitStep, PoseTransitStep
<1>8. CASE CircleMarkerStep(t)
  BY <1>8 DEF CircleMarkerStep
<1>9. CASE TurnAroundStep
  BY <1>9 DEF TurnAroundStep
<1>10. CASE DetectPathStep(t)
  BY <1>10 DEF DetectPathStep
<1>11. CASE ReturnHomeStep
  BY <1>11 DEF ReturnHomeStep
<1>. QED
  BY <1>1, <1>2, <1>3, <1>4, <1>5, <1>6, <1>7, <1>8, <1>9, <1>10, <1>11 DEF Step

LEMMA CycleReturns ==
  ASSUME ControlCycle
  PROVE  LivesOn /\ Commands /\ PoseStays /\ CleanedUp'
<1>1. PICK t \in Int : Step(t)
  BY MissionsAssumption DEF ControlCycle, Later, MissionsTypeOK
<1>2. status = "running" /\ UNCHANGED <<key, pose>>
  BY DEF ControlCycle
<1>. QED
  BY <1>1, <1>2, StepReturns DEF LivesOn, Commands, PoseStays, CleanedUp

(* The step functions are missions as MasterControl and CmdVelPath know    *)
(* them: a mission that has completed stays so, is blank and not stepped   *)
(* until another one takes its place; hold and depth_hold never complete,  *)
(* only transit_forward fails; no command is returned by depth_hold, by    *)
(* return_home before the first pose, and now and then by detect_path.     *)
THEOREM MissionsAsAssumed ==
  Spec => []CleanedUp /\ [][LivesOn /\ Commands /\ PoseStays]_vars
<1>1. Init => CleanedUp
  BY DEF Init, CleanedUp
<1>2. MissionsInv /\ CleanedUp /\ [Next]_vars =>
        CleanedUp' /\ [LivesOn /\ Commands /\ PoseStays]_vars
  <2>. SUFFICES ASSUME MissionsInv, CleanedUp, [Next]_vars
                PROVE  CleanedUp' /\ [LivesOn /\ Commands /\ PoseStays]_vars
    OBVIOUS
  <2>1. CASE ControlCycle
    BY <2>1, CycleReturns
  <2>2. ASSUME ~ControlCycle, LivesOn, PoseStays, CleanedUp'
        PROVE  CleanedUp' /\ [LivesOn /\ Commands /\ PoseStays]_vars
    BY <2>2 DEF Commands
  <2>3. ASSUME NEW k, NewMission(k)
        PROVE  LivesOn /\ PoseStays /\ CleanedUp'
    BY <2>3 DEF NewMission, NewFields, LivesOn, PoseStays, CleanedUp
  <2>4. CASE UnknownBehavior
    <3>1. LivesOn /\ PoseStays /\ CleanedUp'
      BY <2>4 DEF UnknownBehavior, LivesOn, PoseStays, CleanedUp
    <3>. QED
      BY <2>1, <2>2, <3>1
  <2>5. ASSUME NEW v, VisionCallback(v) \/ RangeCallback(v)
        PROVE  LivesOn /\ PoseStays /\ CleanedUp'
    BY <2>5 DEF VisionCallback, RangeCallback, LivesOn, PoseStays, CleanedUp
  <2>6. ASSUME NEW x \in Positions, NEW turn \in Int, PoseCallback(x, turn)
        PROVE  LivesOn /\ PoseStays /\ CleanedUp'
    <3>1. UNCHANGED <<key, status, fields>>
      BY <2>6 DEF PoseCallback
    <3>2. pose' # None
      <4>1. pose # None => pose.yaw \in Int
        BY CircleFacts DEF MissionsInv, MissionsTypeOK, Poses
      <4>2. \A a \in Int : a % Circle \in Int
        BY CircleFacts
      <4>3. pose' \in [x : Int, yaw : Int]
        BY <2>6, <4>1, <4>2, MissionsAssumption DEF PoseCallback
      <4>. QED
        BY <4>3, MissionsAssumption
    <3>. QED
      BY <3>1, <3>2 DEF LivesOn, PoseStays, CleanedUp
  <2>7. CASE UNCHANGED vars
    BY <2>7 DEF vars, CleanedUp
  <2>. QED
    BY <2>1, <2>2, <2>3, <2>4, <2>5, <2>6, <2>7 DEF Next
<1>. QED
  BY <1>1, <1>2, MissionsCorrect, PTL DEF Spec
=============================================================================
