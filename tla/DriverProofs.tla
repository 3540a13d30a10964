----------------------------- MODULE DriverProofs -----------------------------
(***************************************************************************)
(* Theorems of the nodes between the hardware and the topics: FcuSetup,    *)
(* for all modes and parameters; FrontCamera, for all images and queues;   *)
(* PingProtocol and Ping1D, for all messages and for all bytes that a      *)
(* serial line may carry.  They have nothing in common but this place.     *)
(***************************************************************************)
EXTENDS FcuSetup, FrontCamera, Ping1D, SequenceTheorems, FiniteSetTheorems,
        WellFoundedInduction, TLAPS

LEMMA NoStateType ==
  /\ NoState \in [connected : BOOLEAN, mode : Modes \cup {NoMode}, armed : BOOLEAN]
  /\ NoState.mode # Wanted
BY FcuAssumption DEF NoState

LEMMA FcuStarts == FcuInit => FcuInv
<1>1. FcuInit => FcuTypeOK
  BY NoStateType DEF FcuInit, FcuTypeOK
<1>2. FcuInit => ModeInv
  BY NoStateType DEF FcuInit, ModeInv
<1>. QED
  BY <1>1, <1>2 DEF FcuInv

LEMMA FcuTypeStep == FcuTypeOK /\ [FcuNext]_fcuVars => FcuTypeOK'
<1>. SUFFICES ASSUME FcuTypeOK, [FcuNext]_fcuVars PROVE FcuTypeOK'
  OBVIOUS
<1>. USE DEF FcuTypeOK
<1>1. CASE Tick
  BY <1>1 DEF Tick, GiveUp, AskMode, AskArm, Ready, fcu
<1>2. CASE StateCallback
  <2>1. [connected |-> TRUE, mode |-> mode, armed |-> armed]
          \in [connected : BOOLEAN, mode : Modes \cup {NoMode}, armed : BOOLEAN]
    OBVIOUS
  <2>. QED
    BY <1>2, <2>1, NoStateType DEF StateCallback, fcu, node
<1>3. CASE OnSetMode
  BY <1>3 DEF OnSetMode, fcu
<1>4. CASE OnArm
  BY <1>4 DEF OnArm, fcu
<1>5. CASE FcuAnswers
  BY <1>5, FcuAssumption DEF FcuAnswers, fcu
<1>6. CASE ImuCallback
  BY <1>6 DEF ImuCallback, fcu, node
<1>7. CASE FcuDisarms
  BY <1>7 DEF FcuDisarms, node
<1>8. CASE DeadlinePasses
  BY <1>8 DEF DeadlinePasses, fcu, node
<1>9. CASE UNCHANGED fcuVars
  BY <1>9 DEF fcuVars, fcu, node
<1>. QED
  BY <1>1, <1>2, <1>3, <1>4, <1>5, <1>6, <1>7, <1>8, <1>9 DEF FcuNext

LEMMA ModeStep == ModeInv /\ [FcuNext]_fcuVars => ModeInv'
<1>. SUFFICES ASSUME ModeInv, [FcuNext]_fcuVars PROVE ModeInv'
  OBVIOUS
<1>. USE DEF ModeInv
<1>1. CASE GiveUp /\ UNCHANGED <<state, imuRx, late>>
  BY <1>1 DEF GiveUp, fcu
<1>2. CASE Ready /\ UNCHANGED <<state, imuRx, late>>
  BY <1>2 DEF Ready, fcu
<1>3. CASE AskMode /\ UNCHANGED <<state, imuRx, late>>
  BY <1>3 DEF AskMode, fcu
<1>4. CASE AskArm /\ UNCHANGED <<state, imuRx, late>>
  BY <1>4 DEF AskArm, ModeAsked
<1>5. CASE StateCallback
  <2>1. state'.mode = mode \/ state'.mode # Wanted
    BY <1>5, NoStateType DEF StateCallback
  <2>. QED
    BY <1>5, <2>1 DEF StateCallback, fcu, node
<1>6. CASE OnSetMode
  BY <1>6 DEF OnSetMode, fcu
<1>7. CASE OnArm
  BY <1>7 DEF OnArm, fcu
<1>8. CASE FcuAnswers
  BY <1>8 DEF FcuAnswers, fcu
<1>9. CASE UNCHANGED <<mode, state, node>>
  BY <1>9 DEF node
<1>. QED
  BY <1>1, <1>2, <1>3, <1>4, <1>5, <1>6, <1>7, <1>8, <1>9
     DEF FcuNext, Tick, ImuCallback, FcuDisarms, DeadlinePasses, fcuVars, fcu

(* The types, and the evidence of the mode that _tick relies on.           *)
THEOREM ModeEvidence == FcuSpec => []FcuInv
<1>1. FcuInv /\ [FcuNext]_fcuVars => FcuInv'
  BY FcuTypeStep, ModeStep DEF FcuInv
<1>. QED
  BY FcuStarts, <1>1, PTL DEF FcuSpec

(* An obedient FCU is armed by the setup in the wanted mode only: _tick    *)
(* arms on evidence of the mode, and an answer does not outlive it.        *)
THEOREM ArmedOnlyInMode == FcuSpec => ArmsInMode
<1>1. FcuInv /\ [FcuNext]_fcuVars => [Obeys /\ ~armed /\ armed' => mode' = Wanted]_fcuVars
  <2>. SUFFICES ASSUME FcuInv, FcuNext, Obeys, ~armed, armed' PROVE mode' = Wanted
    OBVIOUS
  <2>. USE DEF FcuInv, FcuTypeOK, ModeInv
  <2>1. CASE Tick
    BY <2>1 DEF Tick, GiveUp, AskMode, AskArm, Ready, ModeAsked, fcu
  <2>2. CASE FcuAnswers
    BY <2>2 DEF FcuAnswers, fcu
  <2>3. CASE ~Tick /\ ~FcuAnswers
    BY <2>3 DEF FcuNext, StateCallback, ImuCallback, OnSetMode, OnArm, FcuDisarms,
                DeadlinePasses, fcu
  <2>. QED
    BY <2>1, <2>2, <2>3
<1>. QED
  BY <1>1, ModeEvidence, PTL DEF FcuSpec, ArmsInMode

(* With auto_arm the setup reports success on a State that says armed.     *)
THEOREM SuccessIsArmed == FcuSpec => ReadyIsArmed
<1>1. [FcuNext]_fcuVars => [AutoArm /\ ~late /\ ~done /\ done' => state.armed]_fcuVars
  <2>. SUFFICES ASSUME FcuNext, AutoArm, ~late, ~done, done' PROVE state.armed
    OBVIOUS
  <2>1. CASE Tick
    BY <2>1 DEF Tick, GiveUp, AskMode, AskArm, Ready
  <2>2. CASE OnArm
    BY <2>2 DEF OnArm
  <2>3. CASE ~Tick /\ ~OnArm
    BY <2>3 DEF FcuNext, StateCallback, ImuCallback, OnSetMode, FcuAnswers, FcuDisarms,
                DeadlinePasses, node
  <2>. QED
    BY <2>1, <2>2, <2>3
<1>. QED
  BY <1>1, PTL DEF FcuSpec, ReadyIsArmed

(* What the operator relies on: whatever is refused, late, lost or forced, *)
(* the setup arms in its mode, and its success is an armed vehicle         *)
(* (fcu_setup_node._tick, _on_set_mode, _on_arm).                          *)
THEOREM ArmedAsTold == FcuSpec => ArmsAsTold
BY ArmedOnlyInMode, SuccessIsArmed DEF ArmsAsTold

(* The setup never ends while one of its service calls is on its way.      *)
THEOREM EndsQuietly == FcuSpec => []QuietWhenDone
<1>1. FcuInit => QuietWhenDone
  BY DEF FcuInit, QuietWhenDone
<1>2. QuietWhenDone /\ [FcuNext]_fcuVars => QuietWhenDone'
  BY DEF QuietWhenDone, FcuNext, fcuVars, Tick, GiveUp, AskMode, AskArm, Ready, Free, OnSetMode,
         OnArm, StateCallback, ImuCallback, FcuAnswers, FcuDisarms, DeadlinePasses, node
<1>. QED
  BY <1>1, <1>2, PTL DEF FcuSpec

-----------------------------------------------------------------------------
(* FrontCamera: images on their way from Gazebo to f_cam_node.             *)

Frames == [n : Nat \ {0}, image : SimImages]
Kept == IF latest = NoFrame THEN <<>> ELSE <<latest>>
Putting == IF put = Idle THEN <<>> ELSE <<put.frame>>

(* The images s are in the order they were rendered, the last of them is   *)
(* number r.                                                               *)
Ordered(s, r) ==
  /\ \A i, j \in DOMAIN s : i < j => s[i].n < s[j].n
  /\ \A i \in DOMAIN s : s[i].n <= r
  /\ r > 0 => s # <<>> /\ s[Len(s)].n = r

(* What BridgeInv rests on: types, that no image has a number yet to come, *)
(* and that get_nowait leaves room that nobody else takes.                 *)
CameraInv ==
  /\ rendered \in Nat
  /\ queue \in Seq(Frames) /\ topic \in Seq(Frames)
  /\ latest \in Frames \cup {NoFrame}
  /\ put \in {Idle} \cup [at : {"full", "again"}, frame : Frames]
  /\ Len(queue) <= QueueSize
  /\ put.at = "again" => Len(queue) < QueueSize
  /\ Ordered(Kept \o topic \o (queue \o Putting), rendered)

(* u is s with t behind it.                                               *)
Joined(s, t, u) ==
  /\ u \in Seq(Frames)
  /\ Len(s) \in Nat /\ Len(t) \in Nat /\ Len(u) = Len(s) + Len(t)
  /\ DOMAIN u = 1 .. Len(s) + Len(t)
  /\ \A i \in 1..Len(s) : u[i] = s[i]
  /\ \A i \in 1..Len(t) : u[Len(s) + i] = t[i]

LEMMA Concatenated ==
  ASSUME NEW s \in Seq(Frames), NEW t \in Seq(Frames)
  PROVE  Joined(s, t, s \o t)
<1>1. s \o t \in Seq(Frames) /\ Len(s \o t) = Len(s) + Len(t)
  OBVIOUS
<1>2. Len(s) \in Nat /\ Len(t) \in Nat
  OBVIOUS
<1>3. ASSUME NEW i \in 1..Len(s) PROVE (s \o t)[i] = s[i]
  OBVIOUS
<1>4. ASSUME NEW i \in 1..Len(t) PROVE (s \o t)[Len(s) + i] = t[i]
  BY <1>2
<1>. QED
  BY <1>1, <1>2, <1>3, <1>4 DEF Joined

LEMMA AppendOrdered ==
  ASSUME NEW s \in Seq(Frames), NEW r \in Nat, Ordered(s, r),
         NEW f \in Frames, f.n = r + 1
  PROVE  Ordered(Append(s, f), r + 1)
<1>. DEFINE t == Append(s, f)
<1>1. /\ t \in Seq(Frames) /\ t # <<>> /\ Len(t) = Len(s) + 1
      /\ \A i \in 1..Len(s) : t[i] = s[i]
      /\ t[Len(s) + 1] = f
  BY AppendProperties
<1>2. Len(s) \in Nat /\ DOMAIN s = 1..Len(s) /\ DOMAIN t = 1..Len(t)
  BY <1>1, LenProperties
<1>3. \A i \in 1..Len(s) : s[i].n \in Nat /\ s[i].n <= r
  <2>1. \A i \in 1..Len(s) : s[i] \in Frames
    BY ElementOfSeq
  <2>. QED
    BY <1>2, <2>1 DEF Ordered, Frames
<1>. HIDE DEF t
<1>4. \A i \in DOMAIN t : t[i].n <= r + 1
  BY <1>1, <1>2, <1>3
<1>5. ASSUME NEW i \in DOMAIN t, NEW j \in DOMAIN t, i < j
      PROVE  t[i].n < t[j].n
  <2>1. CASE j = Len(s) + 1
    BY <1>1, <1>2, <1>3, <1>5, <2>1
  <2>2. CASE j # Len(s) + 1
    BY <1>1, <1>2, <1>5, <2>2 DEF Ordered
  <2>. QED
    BY <2>1, <2>2
<1>6. t[Len(t)].n = r + 1
  BY <1>1
<1>. QED
  BY <1>1, <1>4, <1>5, <1>6 DEF Ordered, t

LEMMA TailOrdered ==
  ASSUME NEW s \in Seq(Frames), NEW r \in Nat, Ordered(s, r), Len(s) >= 2
  PROVE  Ordered(Tail(s), r)
<1>. DEFINE t == Tail(s)
<1>1. /\ t \in Seq(Frames) /\ Len(t) = Len(s) - 1 /\ DOMAIN t = 1..Len(t)
      /\ \A i \in 1..Len(t) : t[i] = s[i + 1]
      /\ Len(s) \in Nat /\ DOMAIN s = 1..Len(s)
  BY EmptySeq, HeadTailProperties, LenProperties
<1>. HIDE DEF t
<1>2. t # <<>> /\ t[Len(t)] = s[Len(s)]
  BY <1>1, EmptySeq
<1>. QED
  BY <1>1, <1>2 DEF Ordered, t

(* One of several images may be left out but not the last.                 *)
LEMMA MiddleOrdered ==
  ASSUME NEW a \in Seq(Frames), NEW q \in Seq(Frames), NEW f \in Frames, q # <<>>,
         NEW r \in Nat, Ordered(a \o (q \o <<f>>), r)
  PROVE  Ordered(a \o (Tail(q) \o <<f>>), r)
<1>. DEFINE c == <<f>>
            p == Tail(q)
            qc == q \o c
            pc == p \o c
            s == a \o qc
            t == a \o pc
            from(i) == IF i <= Len(a) THEN i ELSE i + 1
<1>1. c \in Seq(Frames) /\ Len(c) = 1 /\ c[1] = f
  OBVIOUS
<1>2. /\ Len(a) \in Nat /\ Len(q) \in Nat \ {0}
      /\ p \in Seq(Frames) /\ Len(p) = Len(q) - 1
      /\ \A i \in 1..Len(q) - 1 : p[i] = q[i + 1]
  BY EmptySeq, HeadTailProperties, LenProperties
<1>. HIDE DEF c, p
<1>3. Joined(q, c, qc) /\ Joined(p, c, pc)
  BY <1>1, <1>2, Concatenated
<1>. HIDE DEF qc, pc
<1>4. Joined(a, qc, s) /\ Joined(a, pc, t)
  BY <1>3, Concatenated DEF Joined
<1>. HIDE DEF s, t
<1>5. /\ Len(qc) = Len(q) + 1 /\ Len(pc) = Len(q)
      /\ \A i \in 1..Len(q) : pc[i] = qc[i + 1]
  <2>1. /\ \A i \in 1..Len(q) : qc[i] = q[i]
        /\ qc[Len(q) + 1] = f
    BY <1>1, <1>3 DEF Joined
  <2>2. /\ \A i \in 1..Len(q) - 1 : pc[i] = q[i + 1]
        /\ pc[Len(q)] = f
    BY <1>1, <1>2, <1>3 DEF Joined
  <2>3. Len(qc) = Len(q) + 1 /\ Len(pc) = Len(q)
    BY <1>1, <1>2, <1>3 DEF Joined
  <2>. QED
    BY <1>2, <2>1, <2>2, <2>3
<1>6. /\ s \in Seq(Frames) /\ DOMAIN s = 1 .. Len(a) + Len(q) + 1 /\ Len(s) = Len(a) + Len(q) + 1
      /\ \A i \in 1..Len(a) : s[i] = a[i]
      /\ \A i \in 1 .. Len(q) + 1 : s[Len(a) + i] = qc[i]
  BY <1>2, <1>4, <1>5 DEF Joined
<1>12. /\ t \in Seq(Frames) /\ DOMAIN t = 1 .. Len(a) + Len(q) /\ Len(t) = Len(a) + Len(q)
       /\ \A i \in 1..Len(a) : t[i] = a[i]
       /\ \A i \in 1..Len(q) : t[Len(a) + i] = pc[i]
  BY <1>2, <1>4, <1>5 DEF Joined
<1>7. ASSUME NEW i \in DOMAIN t
      PROVE  from(i) \in DOMAIN s /\ t[i] = s[from(i)]
  <2>1. CASE i <= Len(a)
    BY <1>2, <1>6, <1>12, <2>1
  <2>2. CASE ~(i <= Len(a))
    <3>. DEFINE k == i - Len(a)
    <3>1. k \in 1..Len(q) /\ i = Len(a) + k /\ from(i) = Len(a) + (k + 1)
      BY <1>2, <1>12, <2>2
    <3>. HIDE DEF k, from
    <3>2. t[Len(a) + k] = pc[k]
      BY <1>12, <3>1
    <3>3. k + 1 \in 1 .. Len(q) + 1 /\ from(i) \in DOMAIN s
      BY <1>2, <1>6, <3>1
    <3>4. s[Len(a) + (k + 1)] = qc[k + 1]
      BY <1>6, <3>3
    <3>. QED
      BY <1>5, <3>1, <3>2, <3>3, <3>4
  <2>. QED
    BY <2>1, <2>2
<1>8. \A i, j \in DOMAIN t : i < j => from(i) < from(j)
  BY <1>2, <1>12
<1>9. t # <<>> /\ t[Len(t)] = s[Len(s)]
  <2>1. Len(t) \in DOMAIN t /\ from(Len(t)) = Len(s)
    BY <1>2, <1>6, <1>12
  <2>. QED
    BY <1>7, <2>1, EmptySeq
<1>10. Ordered(s, r)
  BY DEF s, qc, c
<1>. HIDE DEF from
<1>11. Ordered(t, r)
  BY <1>7, <1>8, <1>9, <1>10 DEF Ordered
<1>. QED
  BY <1>11 DEF t, pc, p, c

LEMMA PartsType ==
  ASSUME CameraInv
  PROVE  /\ rendered \in Nat /\ Kept \in Seq(Frames) /\ Putting \in Seq(Frames)
         /\ queue \in Seq(Frames) /\ topic \in Seq(Frames)
         /\ Kept \o topic \in Seq(Frames) /\ queue \o Putting \in Seq(Frames)
         /\ Kept \o topic \o (queue \o Putting) \in Seq(Frames)
<1>1. /\ rendered \in Nat /\ queue \in Seq(Frames) /\ topic \in Seq(Frames)
      /\ latest = NoFrame \/ latest \in Frames
      /\ put = Idle \/ put.frame \in Frames
  BY DEF CameraInv
<1>2. Kept \in Seq(Frames)
  BY <1>1 DEF Kept
<1>3. Putting \in Seq(Frames)
  BY <1>1 DEF Putting
<1>4. Kept \o topic \in Seq(Frames) /\ queue \o Putting \in Seq(Frames)
  BY <1>1, <1>2, <1>3, ConcatProperties
<1>. QED
  BY <1>1, <1>2, <1>3, <1>4, ConcatProperties

(* What is kept, on its way and in the queue is what BridgeInv calls passing. *)
LEMMA CameraIsBridge == CameraInv => BridgeInv
<1>. SUFFICES ASSUME CameraInv PROVE BridgeInv
  OBVIOUS
<1>1. Passing = Kept \o topic \o (queue \o Putting)
  BY DEF Passing, Waiting, Kept, Putting
<1>2. Ordered(Passing, rendered) /\ Len(queue) <= QueueSize
  BY <1>1 DEF CameraInv
<1>3. put.at \in {"idle", "full", "again"}
  BY DEF CameraInv, Idle
<1>4. rendered > 0 => Passing # <<>> /\ Last(Passing).n = rendered
  BY <1>2 DEF Ordered, Last
<1>. QED
  BY <1>2, <1>3, <1>4 DEF BridgeInv, Ordered

LEMMA CameraStarts == CameraInit => CameraInv
<1>. SUFFICES ASSUME CameraInit PROVE CameraInv
  OBVIOUS
<1>1. Kept = <<>> /\ Putting = <<>> /\ topic = <<>> /\ queue = <<>>
  BY DEF CameraInit, Kept, Putting
<1>2. /\ <<>> \in Seq(Frames) /\ Len(<<>>) = 0 /\ DOMAIN <<>> = {}
      /\ <<>> \o <<>> \o (<<>> \o <<>>) = <<>>
  <2>1. <<>> \in Seq(Frames) /\ Len(<<>>) = 0
    BY EmptySeq
  <2>2. <<>> \o <<>> = <<>>
    BY <2>1, ConcatEmptySeq
  <2>. QED
    BY <2>1, <2>2
<1>3. Ordered(<<>>, 0)
  BY <1>2 DEF Ordered
<1>. QED
  BY <1>1, <1>2, <1>3, FrontCameraAssumption DEF CameraInit, CameraInv, Idle

LEMMA RenderStep ==
  ASSUME CameraInv, Render
  PROVE  CameraInv'
<1>. DEFINE s == Kept \o topic \o (queue \o Putting)
<1>1. /\ put = Idle /\ rendered' = rendered + 1 /\ UNCHANGED <<topic, latest>>
      /\ rendered \in Nat /\ queue \in Seq(Frames)
  BY DEF Render, nodeVars, CameraInv
<1>2. PICK f : /\ f.n = rendered + 1 /\ f \in Frames
               /\ IF Full THEN put' = [at |-> "full", frame |-> f] /\ UNCHANGED queue
                          ELSE queue' = Append(queue, f) /\ UNCHANGED put
  <2>1. PICK image \in SimImages :
          LET f == Frame(rendered', image) IN
            IF Full THEN put' = [at |-> "full", frame |-> f] /\ UNCHANGED queue
                    ELSE queue' = Append(queue, f) /\ UNCHANGED put
    BY DEF Render
  <2>2. Frame(rendered', image) \in Frames /\ Frame(rendered', image).n = rendered + 1
    BY <1>1 DEF Frame, Frames
  <2>. QED
    BY <2>1, <2>2
<1>3. Kept' = Kept /\ Putting = <<>> /\ queue \o Putting = queue
  BY <1>1, ConcatEmptySeq DEF Kept, Putting
<1>4. queue' \o Putting' = Append(queue, f)
  <2>1. CASE Full
    <3>1. put' # Idle /\ Putting' = <<f>> /\ queue' = queue
      BY <1>2, <2>1 DEF Putting, Idle
    <3>. QED
      BY <1>1, <1>2, <3>1, AppendIsConcat
  <2>2. CASE ~Full
    <3>1. Putting' = <<>> /\ queue' = Append(queue, f)
      BY <1>1, <1>2, <2>2 DEF Putting
    <3>2. Append(queue, f) \in Seq(Frames)
      BY <1>1, <1>2, AppendProperties
    <3>. QED
      BY <3>1, <3>2, ConcatEmptySeq
  <2>. QED
    BY <2>1, <2>2
<1>5. Kept' \o topic' \o (queue' \o Putting') = Append(s, f)
  <2>1. Append(queue, f) = queue \o <<f>> /\ Append(s, f) = s \o <<f>> /\ <<f>> \in Seq(Frames)
    BY <1>1, <1>2, PartsType, AppendIsConcat
  <2>2. s \o <<f>> = Kept \o topic \o (queue \o <<f>>)
    BY <1>3, <2>1, PartsType, ConcatAssociative
  <2>. QED
    BY <1>1, <1>3, <1>4, <2>1, <2>2
<1>6. Ordered(Append(s, f), rendered + 1)
  BY <1>1, <1>2, PartsType, AppendOrdered DEF CameraInv
<1>7. /\ queue' \in Seq(Frames) /\ Len(queue') <= QueueSize
      /\ put' \in {Idle} \cup [at : {"full", "again"}, frame : Frames]
      /\ put'.at # "again"
  <2>1. CASE Full
    BY <1>1, <1>2, <2>1 DEF CameraInv
  <2>2. CASE ~Full
    <3>1. queue' = Append(queue, f) /\ put' = Idle
      BY <1>1, <1>2, <2>2
    <3>2. Append(queue, f) \in Seq(Frames) /\ Len(Append(queue, f)) = Len(queue) + 1
      BY <1>1, <1>2, AppendProperties
    <3>3. Len(queue) \in Nat /\ Len(queue) < QueueSize
      BY <1>1, <2>2, LenProperties, FrontCameraAssumption DEF Full
    <3>. QED
      BY <3>1, <3>2, <3>3, FrontCameraAssumption DEF Idle
  <2>. QED
    BY <2>1, <2>2
<1>. QED
  BY <1>1, <1>5, <1>6, <1>7 DEF CameraInv

LEMMA DropOldestStep ==
  ASSUME CameraInv, DropOldest
  PROVE  CameraInv'
<1>1. /\ put \in [at : {"full", "again"}, frame : Frames] /\ put.at = "full"
      /\ put' = [put EXCEPT !.at = "again"]
      /\ queue' = IF queue = <<>> THEN queue ELSE Tail(queue)
      /\ UNCHANGED <<rendered, topic, latest>>
  BY DEF DropOldest, nodeVars, CameraInv, Idle
<1>2. /\ put' \in [at : {"full", "again"}, frame : Frames]
      /\ Putting = <<put.frame>> /\ Putting' = Putting /\ Kept' = Kept
  BY <1>1 DEF Putting, Idle, Kept
<1>3. Len(queue) \in Nat /\ QueueSize \in Nat \ {0} /\ Len(queue) <= QueueSize
  BY LenProperties, FrontCameraAssumption DEF CameraInv
<1>4. CASE queue = <<>>
  <2>1. queue' = queue /\ Len(queue) = 0
    BY <1>1, <1>4
  <2>. QED
    BY <1>1, <1>2, <1>3, <2>1 DEF CameraInv
<1>5. CASE queue # <<>>
  <2>1. queue' = Tail(queue) /\ Tail(queue) \in Seq(Frames) /\ Len(Tail(queue)) = Len(queue) - 1
    BY <1>1, <1>5, PartsType, HeadTailProperties
  <2>2. Ordered(Kept \o topic \o (Tail(queue) \o <<put.frame>>), rendered)
    BY <1>1, <1>2, <1>5, PartsType, MiddleOrdered DEF CameraInv
  <2>3. Ordered(Kept' \o topic' \o (queue' \o Putting'), rendered')
    BY <1>1, <1>2, <2>1, <2>2
  <2>4. Len(queue') < QueueSize /\ Len(queue') <= QueueSize
    BY <1>3, <2>1
  <2>. QED
    BY <1>1, <1>2, <2>1, <2>3, <2>4 DEF CameraInv
<1>. QED
  BY <1>4, <1>5

LEMMA PutAgainStep ==
  ASSUME CameraInv, PutAgain
  PROVE  CameraInv'
<1>1. /\ put \in [at : {"full", "again"}, frame : Frames] /\ put.at = "again"
      /\ Len(queue) < QueueSize /\ queue \in Seq(Frames)
      /\ UNCHANGED <<rendered, topic, latest>>
  BY DEF PutAgain, nodeVars, CameraInv, Idle
<1>2. ~Full
  BY <1>1, LenProperties, FrontCameraAssumption DEF Full
<1>3. put' = Idle /\ queue' = Append(queue, put.frame)
  BY <1>2 DEF PutAgain
<1>4. Putting = <<put.frame>> /\ Putting' = <<>> /\ Kept' = Kept
  BY <1>1, <1>3 DEF Putting, Idle, Kept
<1>5. /\ queue' \in Seq(Frames) /\ Len(queue') = Len(queue) + 1
      /\ queue' = queue \o <<put.frame>>
  BY <1>1, <1>3, AppendProperties, AppendIsConcat
<1>6. queue' \o Putting' = queue \o Putting
  BY <1>4, <1>5, ConcatEmptySeq
<1>7. Len(queue') <= QueueSize
  BY <1>1, <1>5, LenProperties, FrontCameraAssumption
<1>. QED
  BY <1>1, <1>3, <1>4, <1>5, <1>6, <1>7 DEF CameraInv, Idle

LEMMA Regrouped ==
  \A s, t, u \in Seq(Frames) : (s \o t) \o u = s \o (t \o u)
BY ConcatAssociative

LEMMA DrainStep ==
  ASSUME CameraInv, Drain
  PROVE  CameraInv'
<1>1. /\ queue # <<>> /\ topic' = Append(topic, Head(queue)) /\ queue' = Tail(queue)
      /\ UNCHANGED <<rendered, put, latest>>
  BY DEF Drain, nodeVars
<1>2. /\ Head(queue) \in Frames /\ Tail(queue) \in Seq(Frames)
      /\ Len(Tail(queue)) = Len(queue) - 1
  BY <1>1, PartsType, HeadTailProperties
<1>3. /\ topic' \in Seq(Frames) /\ topic' = topic \o <<Head(queue)>>
  BY <1>1, <1>2, PartsType, AppendProperties, AppendIsConcat
<1>4. Kept' = Kept /\ Putting' = Putting
  BY <1>1 DEF Kept, Putting
<1>5. queue = <<Head(queue)>> \o Tail(queue) /\ <<Head(queue)>> \in Seq(Frames)
  BY <1>1, <1>2, PartsType
<1>6. Kept' \o topic' \o (queue' \o Putting') = Kept \o topic \o (queue \o Putting)
  <2>. DEFINE h == <<Head(queue)>>
              q == Tail(queue)
              before == Kept \o topic
              rest == q \o Putting
  <2>1. h \in Seq(Frames) /\ q \in Seq(Frames) /\ before \in Seq(Frames)
        /\ Putting \in Seq(Frames) /\ Kept \in Seq(Frames) /\ topic \in Seq(Frames)
    BY <1>2, <1>5, PartsType
  <2>2. h \o q = queue /\ topic' = topic \o h /\ queue' = q
    BY <1>1, <1>3, <1>5
  <2>. HIDE DEF h, q
  <2>3. Kept \o (topic \o h) = before \o h
    BY <2>1, Regrouped, ZenonT(30)
  <2>4. h \o rest = queue \o Putting
    <3>1. (h \o q) \o Putting = h \o (q \o Putting)
      BY <2>1, Regrouped
    <3>. QED
      BY <2>2, <3>1
  <2>5. rest \in Seq(Frames)
    BY <2>1, ConcatProperties
  <2>. HIDE DEF before, rest
  <2>6. (before \o h) \o rest = before \o (h \o rest)
    BY <2>1, <2>5, Regrouped, ZenonT(30)
  <2>. QED
    BY <1>4, <2>2, <2>3, <2>4, <2>6 DEF before, rest
<1>7. Len(queue) \in Nat /\ QueueSize \in Nat /\ Len(queue) <= QueueSize
  BY LenProperties, FrontCameraAssumption DEF CameraInv
<1>8. Len(queue') <= QueueSize /\ (Len(queue) < QueueSize => Len(queue') < QueueSize)
  BY <1>1, <1>2, <1>7
<1>. QED
  BY <1>1, <1>2, <1>3, <1>6, <1>8 DEF CameraInv

LEMMA SimImageStep ==
  ASSUME CameraInv, SimImageCallback
  PROVE  CameraInv'
<1>1. /\ topic # <<>> /\ latest' = Head(topic) /\ topic' = Tail(topic)
      /\ UNCHANGED <<rendered, queue, put>>
  BY DEF SimImageCallback, bridgeVars
<1>2. /\ Head(topic) \in Frames /\ Tail(topic) \in Seq(Frames)
      /\ Len(topic) \in Nat \ {0}
  BY <1>1, PartsType, HeadTailProperties, EmptySeq
<1>3. Kept' = <<Head(topic)>> /\ Putting' = Putting
  BY <1>1, <1>2 DEF Kept, Putting, NoFrame, Frames
<1>4. Kept' \o topic' = topic
  BY <1>1, <1>2, <1>3, PartsType
<1>. DEFINE w == queue \o Putting
            s == Kept \o topic \o w
<1>5. w \in Seq(Frames) /\ topic \o w \in Seq(Frames) /\ s \in Seq(Frames) /\ Ordered(s, rendered)
  BY PartsType, ConcatProperties DEF CameraInv
<1>6. Ordered(topic \o w, rendered)
  <2>1. CASE latest = NoFrame
    <3>1. Kept = <<>> /\ <<>> \o topic = topic
      BY <2>1, PartsType, ConcatEmptySeq DEF Kept
    <3>. QED
      BY <1>5, <3>1
  <2>2. CASE latest # NoFrame
    <3>1. Kept = <<latest>> /\ latest \in Frames
      BY <2>2 DEF Kept, CameraInv
    <3>2. s = <<latest>> \o (topic \o w)
      BY <1>5, <3>1, PartsType, ConcatAssociative
    <3>. HIDE DEF w
    <3>3. Len(topic \o w) >= 1
      BY <1>2, <1>5, PartsType
    <3>. DEFINE v == topic \o w
    <3>. HIDE DEF v
    <3>4. v \in Seq(Frames) /\ Len(v) \in Nat /\ Len(v) >= 1
      BY <1>5, <3>3, LenProperties DEF v
    <3>5. Tail(<<latest>> \o v) = v /\ Len(<<latest>> \o v) >= 2
      BY <3>1, <3>4
    <3>6. Ordered(Tail(s), rendered)
      BY <1>5, <3>2, <3>5, PartsType, TailOrdered DEF v
    <3>. QED
      BY <3>2, <3>5, <3>6 DEF v
  <2>. QED
    BY <2>1, <2>2
<1>. QED
  BY <1>1, <1>2, <1>3, <1>4, <1>6 DEF CameraInv

LEMMA CameraStep == CameraInv /\ [CameraNext]_frontVars => CameraInv'
<1>. SUFFICES ASSUME CameraInv, [CameraNext]_frontVars PROVE CameraInv'
  OBVIOUS
<1>1. CASE UNCHANGED <<rendered, queue, put, topic, latest>>
  BY <1>1 DEF CameraInv, Kept, Putting
<1>. QED
  BY <1>1, RenderStep, DropOldestStep, PutAgainStep, DrainStep, SimImageStep
     DEF CameraNext, TimerCallback, frontVars, bridgeVars

(* Images pass from Gazebo to f_cam_node in their order, of which the      *)
(* bridge never loses the last, and the second put_nowait is not refused,  *)
(* for every queue size and however the two threads interleave.            *)
THEOREM ImagesPassInOrder == CameraSpec => []BridgeInv
<1>. QED
  BY CameraStarts, CameraStep, CameraIsBridge, PTL DEF CameraSpec

-----------------------------------------------------------------------------
(* Folds over sequences, of which the provers know nothing.  A fold is a   *)
(* function of sets of indices, of which the numbers up to k matter.       *)

LEMMA LeastOf ==
  ASSUME NEW S \in SUBSET Nat, S # {}
  PROVE  \E x \in S : \A y \in S : x <= y
<1>. DEFINE Less == {p \in Nat \X Nat : p[1] < p[2]}
<1>1. IsWellFoundedOn(Less, Nat)
  BY NatLessThanWellFounded DEF OpToRel
<1>. HIDE DEF Less
<1>2. PICK x \in S : \A y \in S : ~(<<y, x>> \in Less)
  BY <1>1, WFMin
<1>3. ASSUME NEW y \in S
      PROVE  x <= y
  <2>1. x \in Nat /\ y \in Nat
    OBVIOUS
  <2>2. y < x => <<y, x>> \in Less
    BY <2>1 DEF Less
  <2>3. ~(<<y, x>> \in Less)
    BY <1>2
  <2>. QED
    BY <2>1, <2>2, <2>3
<1>. QED
  BY <1>3

LEMMA UpTo ==
  ASSUME NEW k \in Nat \ {0}
  PROVE  Max(1..k) = k /\ (1..k) \ {k} = 1 .. k - 1 /\ 1..k # {}
<1>1. k \in 1..k /\ \A y \in 1..k : k >= y
  OBVIOUS
<1>2. Max(1..k) \in 1..k /\ Max(1..k) >= k
  BY <1>1 DEF Max
<1>. QED
  BY <1>1, <1>2

Folded(h, base, g, k) ==
  \A t \in SUBSET (1..k) :
    h[t] = IF t = {} THEN base ELSE g[<<h[t \ {Max(t)}], Max(t)>>]

LEMMA FoldExists ==
  ASSUME NEW T, NEW n \in Nat, NEW base \in T, NEW g \in [T \X (1..n) -> T]
  PROVE  \E h \in [SUBSET (1..n) -> T] : Folded(h, base, g, n)
<1>. USE DEF Folded
<1>. DEFINE Folds(h, k) == Folded(h, base, g, k)
            Bad == {k \in 0..n : ~\E h \in [SUBSET (1..k) -> T] : Folds(h, k)}
<1>1. SUFFICES ASSUME Bad # {} PROVE FALSE
  <2>1. n \in 0..n
    OBVIOUS
  <2>. QED
    BY <2>1
<1>2. PICK k \in Bad : \A j \in Bad : k <= j
  <2>1. Bad \in SUBSET Nat
    OBVIOUS
  <2>. HIDE DEF Bad
  <2>. QED
    BY <1>1, <2>1, LeastOf
<1>3. k \in 0..n /\ ~\E h \in [SUBSET (1..k) -> T] : Folds(h, k)
  OBVIOUS
<1>4. CASE k = 0
  <2>. DEFINE h == [t \in SUBSET (1..k) |-> base]
  <2>1. h \in [SUBSET (1..k) -> T]
    OBVIOUS
  <2>2. 1..k = {}
    BY <1>4
  <2>3. \A t \in SUBSET (1..k) : t = {}
    BY <2>2
  <2>4. Folds(h, k)
    BY <2>3
  <2>. QED
    BY <1>3, <2>1, <2>4
<1>5. CASE k # 0
  <2>1. k - 1 \in 0..n /\ k - 1 \notin Bad /\ k \in 1..n
    <3>. HIDE DEF Bad
    <3>. QED
      BY <1>2, <1>3, <1>5
  <2>2. PICK h \in [SUBSET (1 .. k - 1) -> T] : Folds(h, k - 1)
    BY <2>1
  <2>. DEFINE f == [t \in SUBSET (1..k) |-> IF k \in t THEN g[<<h[t \ {k}], k>>] ELSE h[t]]
  <2>3. \A t \in SUBSET (1..k) : /\ t \ {k} \in SUBSET (1 .. k - 1)
                                 /\ k \notin t => t \in SUBSET (1 .. k - 1)
    BY <2>1
  <2>4. f \in [SUBSET (1..k) -> T]
    BY <2>1, <2>2, <2>3
  <2>5. ASSUME NEW t \in SUBSET (1..k), k \in t
        PROVE  f[t] = IF t = {} THEN base ELSE g[<<f[t \ {Max(t)}], Max(t)>>]
    <3>1. Max(t) = k
      <4>1. \A y \in t : y \in Int /\ k >= y
        BY <2>1
      <4>2. Max(t) \in t /\ Max(t) >= k
        BY <2>5, <4>1 DEF Max
      <4>3. Max(t) \in Int /\ k >= Max(t)
        BY <4>1, <4>2
      <4>4. k \in Int
        BY <1>3
      <4>. HIDE DEF Bad, f
      <4>. QED
        BY <4>2, <4>3, <4>4
    <3>2. t \ {k} \in SUBSET (1..k) /\ k \notin t \ {k}
      OBVIOUS
    <3>3. f[t \ {k}] = h[t \ {k}]
      BY <3>2
    <3>4. f[t] = g[<<h[t \ {k}], k>>]
      BY <2>5
    <3>. QED
      BY <2>5, <3>1, <3>3, <3>4
  <2>6. ASSUME NEW t \in SUBSET (1..k), k \notin t
        PROVE  f[t] = IF t = {} THEN base ELSE g[<<f[t \ {Max(t)}], Max(t)>>]
    <3>1. t \in SUBSET (1 .. k - 1)
      BY <2>3, <2>6
    <3>2. t \ {Max(t)} \in SUBSET (1..k) /\ k \notin t \ {Max(t)}
      BY <2>6
    <3>3. f[t] = h[t] /\ f[t \ {Max(t)}] = h[t \ {Max(t)}]
      BY <2>6, <3>2
    <3>. QED
      BY <2>2, <3>1, <3>3
  <2>7. Folds(f, k)
    BY <2>5, <2>6
  <2>. QED
    BY <1>3, <2>4, <2>7
<1>. QED
  BY <1>4, <1>5

LEMMA CountedUp ==
  ASSUME NEW top \in Nat, NEW S, 0 \in S, \A k \in 1..top : k - 1 \in S => k \in S
  PROVE  \A k \in 0..top : k \in S
<1>. DEFINE Bad == {k \in 0..top : k \notin S}
<1>1. SUFFICES ASSUME Bad # {} PROVE FALSE
  OBVIOUS
<1>2. PICK k \in Bad : \A j \in Bad : k <= j
  <2>1. Bad \in SUBSET Nat
    OBVIOUS
  <2>. HIDE DEF Bad
  <2>. QED
    BY <1>1, <2>1, LeastOf
<1>3. k \in 0..top /\ k \notin S
  OBVIOUS
<1>4. k \in 1..top /\ k - 1 \in 0..top
  BY <1>3
<1>5. k - 1 \notin Bad
  <2>. HIDE DEF Bad
  <2>. QED
    BY <1>2, <1>4
<1>. QED
  BY <1>3, <1>4, <1>5

LEMMA CountedTo ==
  ASSUME NEW top \in Nat, NEW S, 0 \in S, \A k \in 1..top : k - 1 \in S => k \in S
  PROVE  top \in S
<1>1. \A k \in 0..top : k \in S
  BY CountedUp
<1>. QED
  BY <1>1

LEMMA FoldStays ==
  ASSUME NEW T, NEW n \in Nat, NEW h, h[{}] \in T,
         \A k \in 1..n : h[1 .. k - 1] \in T => h[1..k] \in T
  PROVE  h[1..n] \in T
<1>. DEFINE Bad == {k \in 0..n : h[1..k] \notin T}
<1>1. SUFFICES ASSUME Bad # {} PROVE FALSE
  OBVIOUS
<1>2. PICK k \in Bad : \A j \in Bad : k <= j
  <2>1. Bad \in SUBSET Nat
    OBVIOUS
  <2>. HIDE DEF Bad
  <2>. QED
    BY <1>1, <2>1, LeastOf
<1>3. k \in 0..n /\ h[1..k] \notin T
  OBVIOUS
<1>4. CASE k = 0
  <2>1. 1..k = {}
    BY <1>4
  <2>. QED
    BY <1>3, <2>1
<1>5. CASE k # 0
  <2>1. k - 1 \in 0..n /\ k - 1 \notin Bad /\ k \in 1..n
    BY <1>2, <1>3, <1>5
  <2>. QED
    BY <1>3, <2>1
<1>. QED
  BY <1>4, <1>5

-----------------------------------------------------------------------------
(* Ping1D: the parser and the driver, whatever bytes there are.            *)

(* The parser's buffer belongs to its state, and what it expects of the    *)
(* payload is what the header has declared so far.                         *)
Parsers ==
  {p \in [state : 1..11, buf : Seq(Byte), left : Nat] :
     /\ ParserShape(p)
     /\ p.state = WAIT_LENGTH_H => p.left = p.buf[3]
     /\ p.state \in WAIT_MSG_ID_L .. WAIT_DST_ID => p.left = Number(p.buf, 3)
     /\ p.state >= WAIT_PAYLOAD => Len(p.buf) >= HeaderLength}

LEMMA Appended ==
  ASSUME NEW p \in Parsers, NEW b \in Byte
  PROVE  /\ p.state \in 1..11 /\ p.left \in Nat /\ p.buf \in Seq(Byte) /\ Len(p.buf) \in Nat
         /\ Append(p.buf, b) \in Seq(Byte) /\ Len(Append(p.buf, b)) = Len(p.buf) + 1
         /\ \A i \in 1..Len(p.buf) : Append(p.buf, b)[i] = p.buf[i]
         /\ Append(p.buf, b)[Len(p.buf) + 1] = b
         /\ \A i \in 1..Len(p.buf) : p.buf[i] \in Nat
         /\ b \in Nat
<1>1. p.state \in 1..11 /\ p.left \in Nat /\ p.buf \in Seq(Byte)
  BY DEF Parsers
<1>2. Len(p.buf) \in Nat
  BY <1>1, LenProperties
<1>3. \A i \in 1..Len(p.buf) : p.buf[i] \in Byte
  BY <1>1, ElementOfSeq
<1>4. \A i \in 1..Len(p.buf) : p.buf[i] \in Nat
  <2>1. Byte \subseteq Nat
    BY DEF Byte
  <2>. QED
    BY <1>3, <2>1
<1>5. b \in Nat
  BY DEF Byte
<1>. DEFINE buf == p.buf
<1>6. buf \in Seq(Byte)
  BY <1>1
<1>. HIDE DEF buf
<1>7. /\ Append(buf, b) \in Seq(Byte) /\ Len(Append(buf, b)) = Len(buf) + 1
      /\ \A i \in 1..Len(buf) : Append(buf, b)[i] = buf[i]
      /\ Append(buf, b)[Len(buf) + 1] = b
  BY <1>6, AppendProperties
<1>. QED
  BY <1>1, <1>2, <1>4, <1>5, <1>7 DEF buf

IsParser(q, s, buf, n) ==
  /\ q \in [state : 1..11, buf : Seq(Byte), left : Nat]
  /\ q.state = s /\ q.buf = buf /\ q.left = n

LEMMA ParserMade ==
  ASSUME NEW p, NEW s \in 1..11, NEW buf \in Seq(Byte), NEW n \in Nat, IsParser(p, s, buf, n),
         s <= 8 => Len(buf) = s - 1,
         s = 4 => n = buf[3],
         s \in 5..8 => n = Number(buf, 3),
         s > 8 => Len(buf) >= 8,
         s = 9 => n > 0 /\ Len(buf) + n = 8 + Number(buf, 3),
         s > 9 => n = 0 /\ Len(buf) = 8 + Number(buf, 3) + s - 10
  PROVE  p \in Parsers
<1>1. p \in [state : 1..11, buf : Seq(Byte), left : Nat]
  BY DEF IsParser
<1>2. p.state = s /\ p.buf = buf /\ p.left = n
  BY DEF IsParser
<1>. USE DEF WAIT_DST_ID, WAIT_PAYLOAD, WAIT_CHECKSUM_L, HeaderLength, WAIT_LENGTH_H, WAIT_MSG_ID_L
<1>3. ParserShape(p)
  <2>1. CASE s <= 8
    BY <1>2, <2>1 DEF ParserShape
  <2>2. CASE s = 9
    BY <1>2, <2>2 DEF ParserShape
  <2>3. CASE s > 9
    <3>1. ~(s <= 8) /\ s # 9
      BY <2>3
    <3>. QED
      BY <1>2, <2>3, <3>1 DEF ParserShape
  <2>. QED
    BY <2>1, <2>2, <2>3
<1>. QED
  BY <1>1, <1>2, <1>3 DEF Parsers

LEMMA NewParserStays == NewParser \in Parsers
<1>. DEFINE p == NewParser
<1>1. <<>> \in Seq(Byte) /\ Len(<<>>) = 0
  BY EmptySeq
<1>2. p.state = 1 /\ p.buf = <<>> /\ p.left = 0
  BY DEF NewParser, WAIT_START
<1>3. p \in [state : 1..11, buf : Seq(Byte), left : Nat]
  BY <1>1 DEF NewParser, WAIT_START
<1>. HIDE DEF p
<1>4. p.state <= 8 /\ p.state # 4 /\ p.state \notin 5..8 /\ p.state # 9 /\ ~(p.state > 9)
  BY <1>2
<1>5. ParserShape(p)
  BY <1>1, <1>2, <1>4 DEF ParserShape, WAIT_DST_ID, WAIT_PAYLOAD
<1>6. p \in Parsers
  BY <1>3, <1>4, <1>5 DEF Parsers, WAIT_LENGTH_H, WAIT_MSG_ID_L, WAIT_DST_ID, WAIT_PAYLOAD
<1>. QED
  BY <1>6 DEF p

(* What a parser of a given state looks like.                              *)
LEMMA ParserIs ==
  ASSUME NEW p \in Parsers
  PROVE  /\ p.state <= 8 => Len(p.buf) = p.state - 1
         /\ p.state = 4 => p.left = p.buf[3]
         /\ p.state \in 5..8 => p.left = Number(p.buf, 3)
         /\ p.state > 8 => Len(p.buf) >= 8
         /\ p.state = 9 => p.left > 0 /\ Len(p.buf) + p.left = 8 + Number(p.buf, 3)
         /\ p.state > 9 => p.left = 0 /\ Len(p.buf) = 8 + Number(p.buf, 3) + p.state - 10
<1>. USE DEF WAIT_DST_ID, WAIT_PAYLOAD, WAIT_CHECKSUM_L, HeaderLength, WAIT_LENGTH_H, WAIT_MSG_ID_L
<1>1. p.state \in 1..11 /\ ParserShape(p)
  BY DEF Parsers
<1>2. /\ p.state = 4 => p.left = p.buf[3]
      /\ p.state \in 5..8 => p.left = Number(p.buf, 3)
      /\ p.state > 8 => Len(p.buf) >= 8
  BY DEF Parsers
<1>3. ASSUME p.state <= 8
      PROVE  Len(p.buf) = p.state - 1
  <2>1. p.state # 9 /\ ~(p.state > 9)
    BY <1>1, <1>3
  <2>. QED
    BY <1>1, <1>3, <2>1 DEF ParserShape
<1>4. ASSUME p.state = 9
      PROVE  p.left > 0 /\ Len(p.buf) + p.left = 8 + Number(p.buf, 3)
  <2>1. ~(p.state <= 8)
    BY <1>4
  <2>. QED
    BY <1>1, <1>4, <2>1 DEF ParserShape
<1>5. ASSUME p.state > 9
      PROVE  p.left = 0 /\ Len(p.buf) = 8 + Number(p.buf, 3) + p.state - 10
  <2>1. ~(p.state <= 8) /\ p.state # 9
    BY <1>1, <1>5
  <2>. QED
    BY <1>1, <1>5, <2>1 DEF ParserShape
<1>. QED
  BY <1>2, <1>3, <1>4, <1>5

LEMMA SameNumber ==
  ASSUME NEW p \in Parsers, NEW b \in Byte, Len(p.buf) >= 4
  PROVE  Number(Append(p.buf, b), 3) = Number(p.buf, 3) /\ Number(p.buf, 3) \in Nat
<1>1. /\ Append(p.buf, b)[3] = p.buf[3] /\ Append(p.buf, b)[4] = p.buf[4]
      /\ p.buf[3] \in Nat /\ p.buf[4] \in Nat
  <2>1. 3 \in 1..Len(p.buf) /\ 4 \in 1..Len(p.buf)
    BY Appended
  <2>. QED
    BY <2>1, Appended
<1>. QED
  BY <1>1 DEF Number

LEMMA AdvancesIs ==
  ASSUME NEW p \in Parsers, NEW b \in Byte, p.state # 11
  PROVE  IsParser(Advances(p, b), p.state + 1, Append(p.buf, b), p.left)
<1>. DEFINE buf == Append(p.buf, b)
            s == p.state + 1
            q == [p EXCEPT !.state = s, !.buf = buf]
<1>1. p \in [state : 1..11, buf : Seq(Byte), left : Nat] /\ buf \in Seq(Byte) /\ s \in 1..11
  BY Appended DEF Parsers
<1>2. Advances(p, b) = q
  BY DEF Advances
<1>. HIDE DEF buf, s
<1>3. q \in [state : 1..11, buf : Seq(Byte), left : Nat] /\ q.state = s /\ q.buf = buf /\ q.left = p.left
  BY <1>1
<1>. HIDE DEF q
<1>4. IsParser(q, s, buf, p.left)
  BY <1>3 DEF IsParser
<1>. QED
  BY <1>2, <1>4 DEF s, buf

LEMMA ParseByteIs ==
  ASSUME NEW p, NEW b, NEW s \in 1..11, p.state = s
  PROVE  /\ s = 1 => ParseByte(p, b) = WaitStart(p, b)
         /\ s = 2 => ParseByte(p, b) = WaitHeader(p, b)
         /\ s = 3 => ParseByte(p, b) = WaitLengthL(p, b)
         /\ s = 4 => ParseByte(p, b) = WaitLengthH(p, b)
         /\ s = 8 => ParseByte(p, b) = WaitDstId(p, b)
         /\ s = 9 => ParseByte(p, b) = WaitPayload(p, b)
         /\ s = 11 => ParseByte(p, b) = NewParser
         /\ s \in {5, 6, 7, 10} => ParseByte(p, b) = Advances(p, b)
BY DEF ParseByte, WAIT_START, WAIT_HEADER, WAIT_LENGTH_L, WAIT_LENGTH_H, WAIT_DST_ID,
       WAIT_PAYLOAD, WAIT_CHECKSUM_H

(* Where a byte that is not refused takes the parser.                      *)
StateAfter(s, n) ==
  IF s = 8 THEN IF n = 0 THEN 10 ELSE 9
  ELSE IF s = 9 THEN IF n = 1 THEN 10 ELSE 9 ELSE s + 1

LeftAfter(s, n, b) ==
  IF s = 3 THEN b ELSE IF s = 4 THEN n + 256 * b ELSE IF s = 9 THEN n - 1 ELSE n

LEMMA ParseByteMoves ==
  ASSUME NEW p \in Parsers, NEW b \in Byte, NEW s \in 1..10, p.state = s,
         s = 1 => b = 66, s = 2 => b = 82
  PROVE  IsParser(ParseByte(p, b), StateAfter(s, p.left), Append(p.buf, b), LeftAfter(s, p.left, b))
<1>. DEFINE buf == Append(p.buf, b)
            n == p.left
            q == ParseByte(p, b)
<1>1. n \in Nat /\ buf \in Seq(Byte) /\ b \in Nat
  BY Appended
<1>2. IsParser(Advances(p, b), s + 1, buf, n)
  BY AdvancesIs
<1>3. /\ s = 1 => q = WaitStart(p, b)
      /\ s = 2 => q = WaitHeader(p, b)
      /\ s = 3 => q = WaitLengthL(p, b)
      /\ s = 4 => q = WaitLengthH(p, b)
      /\ s = 8 => q = WaitDstId(p, b)
      /\ s = 9 => q = WaitPayload(p, b)
      /\ s \in {5, 6, 7, 10} => q = Advances(p, b)
  BY ParseByteIs
<1>4. n = p.left
  OBVIOUS
<1>5. s = 9 => n > 0
  BY ParserIs
<1>. HIDE DEF n, buf, q
<1>. DEFINE moved == IsParser(q, StateAfter(s, n), buf, LeftAfter(s, n, b))
<1>6. CASE s \in {1, 2, 5, 6, 7, 10}
  <2>1. q = Advances(p, b)
    BY <1>3, <1>6 DEF WaitStart, WaitHeader, StartBytes
  <2>2. StateAfter(s, n) = s + 1 /\ LeftAfter(s, n, b) = n
    BY <1>6 DEF StateAfter, LeftAfter
  <2>. QED
    BY <1>2, <2>1, <2>2 DEF q, n, buf
<1>7. CASE s = 3
  <2>1. IsParser(q, 4, buf, b)
    BY <1>1, <1>2, <1>3, <1>7 DEF WaitLengthL, IsParser
  <2>2. StateAfter(s, n) = 4 /\ LeftAfter(s, n, b) = b
    BY <1>7 DEF StateAfter, LeftAfter
  <2>. QED
    BY <2>1, <2>2 DEF q, n, buf
<1>8. CASE s = 4
  <2>1. IsParser(q, 5, buf, n + 256 * b)
    BY <1>1, <1>2, <1>3, <1>8 DEF WaitLengthH, IsParser
  <2>2. StateAfter(s, n) = 5 /\ LeftAfter(s, n, b) = n + 256 * b
    BY <1>8 DEF StateAfter, LeftAfter
  <2>. QED
    BY <2>1, <2>2 DEF q, n, buf
<1>9. CASE s = 8
  <2>1. IsParser(q, IF n = 0 THEN 10 ELSE 9, buf, n)
    BY <1>1, <1>2, <1>3, <1>4, <1>9 DEF WaitDstId, IsParser, WAIT_CHECKSUM_L, WAIT_PAYLOAD
  <2>2. StateAfter(s, n) = (IF n = 0 THEN 10 ELSE 9) /\ LeftAfter(s, n, b) = n
    BY <1>9 DEF StateAfter, LeftAfter
  <2>. QED
    BY <2>1, <2>2 DEF q, n, buf
<1>10. CASE s = 9
  <2>. DEFINE t == IF n = 1 THEN 10 ELSE 9
  <2>1. p \in [state : 1..11, buf : Seq(Byte), left : Nat] /\ Append(p.buf, b) = buf
    BY DEF Parsers, buf
  <2>2. t \in 1..11 /\ n - 1 \in Nat
    BY <1>1, <1>5, <1>10
  <2>3. q = [p EXCEPT !.buf = Append(@, b), !.left = @ - 1, !.state = t]
    BY <1>3, <1>4, <1>10 DEF WaitPayload, WAIT_CHECKSUM_L, WAIT_PAYLOAD
  <2>4. q = [p EXCEPT !.buf = buf, !.left = n - 1, !.state = t]
    BY <1>4, <2>1, <2>3
  <2>5. StateAfter(s, n) = t /\ LeftAfter(s, n, b) = n - 1
    BY <1>10 DEF StateAfter, LeftAfter
  <2>. HIDE DEF t
  <2>6. IsParser(q, t, buf, n - 1)
    BY <1>1, <2>1, <2>2, <2>4 DEF IsParser
  <2>. QED
    BY <2>5, <2>6 DEF q, n, buf
<1>. QED
  BY <1>6, <1>7, <1>8, <1>9, <1>10

LEMMA ParseByteStays ==
  ASSUME NEW p \in Parsers, NEW b \in Byte
  PROVE  ParseByte(p, b) \in Parsers
<1>. DEFINE s == p.state
            buf == Append(p.buf, b)
            n == p.left
            q == ParseByte(p, b)
<1>1. /\ s \in 1..11 /\ n \in Nat /\ buf \in Seq(Byte) /\ Len(p.buf) \in Nat
      /\ Len(buf) = Len(p.buf) + 1 /\ b \in Nat
  BY Appended
<1>2. /\ s <= 8 => Len(buf) = s
      /\ s = 3 => buf[3] = b
      /\ s = 4 => Number(buf, 3) = n + 256 * b
      /\ s \in 5..8 => n = Number(buf, 3)
      /\ s > 8 => Len(buf) >= 8 /\ Number(buf, 3) \in Nat
      /\ s = 9 => n > 0 /\ Len(buf) + n = 9 + Number(buf, 3)
      /\ s = 10 => n = 0 /\ Len(buf) = 9 + Number(buf, 3)
  <2>1. s <= 8 => Len(p.buf) = s - 1
    BY ParserIs
  <2>2. s = 3 => buf[3] = b
    BY <2>1, Appended
  <2>3. s = 4 => Number(buf, 3) = n + 256 * b
    <3>1. s = 4 => buf[3] = n /\ buf[4] = b
      BY <2>1, Appended, ParserIs
    <3>2. Number(buf, 3) = buf[3] + 256 * buf[4]
      BY DEF Number
    <3>. QED
      BY <3>1, <3>2
  <2>4. s \in 5..8 => n = Number(buf, 3)
    BY <2>1, ParserIs, SameNumber
  <2>5. /\ s > 8 => Len(p.buf) >= 8
        /\ s = 9 => n > 0 /\ Len(p.buf) + n = 8 + Number(p.buf, 3)
        /\ s = 10 => n = 0 /\ Len(p.buf) = 8 + Number(p.buf, 3) + s - 10
    BY ParserIs
  <2>6. s > 8 => Number(p.buf, 3) = Number(buf, 3) /\ Number(p.buf, 3) \in Nat
    BY <1>1, <2>5, SameNumber
  <2>. HIDE DEF s, n, buf
  <2>7. /\ s > 8 => Len(buf) >= 8 /\ Number(buf, 3) \in Nat
        /\ s = 9 => n > 0 /\ Len(buf) + n = 9 + Number(buf, 3)
        /\ s = 10 => n = 0 /\ Len(buf) = 9 + Number(buf, 3)
    BY <1>1, <2>5, <2>6
  <2>. QED
    BY <1>1, <2>1, <2>2, <2>3, <2>4, <2>7
<1>3. CASE s = 11 \/ (s = 1 /\ b # 66) \/ (s = 2 /\ b # 82)
  <2>1. /\ s = 1 => q = WaitStart(p, b)
        /\ s = 2 => q = WaitHeader(p, b)
        /\ s = 11 => q = NewParser
    BY <1>1, ParseByteIs
  <2>. HIDE DEF s, q
  <2>2. q \in {p, NewParser}
    BY <1>3, <2>1 DEF WaitStart, WaitHeader, StartBytes
  <2>. QED
    BY <2>2, NewParserStays DEF q
<1>4. CASE ~(s = 11 \/ (s = 1 /\ b # 66) \/ (s = 2 /\ b # 82))
  <2>1. s \in 1..10 /\ IsParser(q, StateAfter(s, n), buf, LeftAfter(s, n, b))
    BY <1>1, <1>4, ParseByteMoves
  <2>. HIDE DEF s, n, buf, q
  <2>. DEFINE t == StateAfter(s, n)
              m == LeftAfter(s, n, b)
  <2>2. /\ t \in 1..11 /\ m \in Nat
        /\ t <= 8 => s = t - 1
        /\ t = 4 => s = 3 /\ m = b
        /\ t = 5 => s = 4 /\ m = n + 256 * b
        /\ t \in 6..8 => s \in 5..7 /\ m = n
        /\ t = 9 => (s = 8 /\ m = n /\ n > 0) \/ (s = 9 /\ m = n - 1 /\ n > 1)
        /\ t = 10 => (s = 8 /\ n = 0 /\ m = 0) \/ (s = 9 /\ n = 1 /\ m = 0)
        /\ t = 11 => s = 10 /\ m = n
    BY <1>1, <1>2, <2>1 DEF StateAfter, LeftAfter
  <2>. HIDE DEF t, m
  <2>3. /\ t <= 8 => Len(buf) = t - 1
        /\ t = 4 => m = buf[3]
        /\ t \in 5..8 => m = Number(buf, 3)
    BY <1>1, <1>2, <2>2
  <2>4. /\ t > 8 => Len(buf) >= 8
        /\ t = 9 => m > 0 /\ Len(buf) + m = 8 + Number(buf, 3)
        /\ t > 9 => m = 0 /\ Len(buf) = 8 + Number(buf, 3) + t - 10
    BY <1>1, <1>2, <2>2
  <2>5. IsParser(q, t, buf, m)
    BY <2>1 DEF t, m
  <2>. QED
    BY <1>1, <2>2, <2>3, <2>4, <2>5, ParserMade DEF q
<1>. QED
  BY <1>3, <1>4

LEMMA MaxIn ==
  ASSUME NEW n \in Nat, NEW t \in SUBSET (1..n), t # {}
  PROVE  Max(t) \in t
<1>. DEFINE Below == {n - x : x \in t}
<1>1. Below \in SUBSET Nat /\ Below # {}
  <2>1. \A x \in t : n - x \in Nat
    OBVIOUS
  <2>2. PICK x \in t : TRUE
    OBVIOUS
  <2>3. n - x \in Below
    BY <2>2
  <2>. QED
    BY <2>1, <2>3
<1>2. PICK m \in Below : \A y \in Below : m <= y
  <2>. HIDE DEF Below
  <2>. QED
    BY <1>1, LeastOf
<1>3. PICK x \in t : m = n - x
  OBVIOUS
<1>4. \A y \in t : x >= y
  <2>1. \A y \in t : n - y \in Below /\ y \in Int
    OBVIOUS
  <2>. HIDE DEF Below
  <2>. QED
    BY <1>2, <1>3, <2>1
<1>. QED
  BY <1>4 DEF Max

LEMMA BytesAreNat ==
  ASSUME NEW s \in Seq(Byte), NEW i \in 1..Len(s)
  PROVE  s[i] \in Nat
<1>1. Byte \subseteq Nat
  BY DEF Byte
<1>2. s[i] \in Byte
  BY ElementOfSeq
<1>. QED
  BY <1>1, <1>2

(* The checksum, unfolded.                                                 *)
SumBy(s, h) ==
  [t \in SUBSET DOMAIN s |-> IF t = {} THEN 0 ELSE h[t \ {Max(t)}] + s[Max(t)]]

LEMMA SumExists ==
  ASSUME NEW s \in Seq(Byte)
  PROVE  \E h : h = SumBy(s, h)
<1>. DEFINE n == Len(s)
            g == [p \in Nat \X (1..n) |-> p[1] + s[p[2]]]
<1>1. n \in Nat /\ DOMAIN s = 1..n
  BY LenProperties
<1>2. g \in [Nat \X (1..n) -> Nat]
  <2>1. \A i \in 1..n : s[i] \in Nat
    BY BytesAreNat
  <2>. QED
    BY <2>1
<1>. HIDE DEF n
<1>3. PICK h \in [SUBSET (1..n) -> Nat] : \A t \in SUBSET (1..n) :
        h[t] = IF t = {} THEN 0 ELSE g[<<h[t \ {Max(t)}], Max(t)>>]
  <2>. DEFINE T == Nat
              base == 0
  <2>1. base \in T /\ g \in [T \X (1..n) -> T]
    BY <1>2
  <2>. HIDE DEF g, T, base
  <2>2. \E h \in [SUBSET (1..n) -> T] : Folded(h, base, g, n)
    BY <1>1, <2>1, FoldExists
  <2>. QED
    BY <2>2 DEF T, base, Folded
<1>4. ASSUME NEW t \in SUBSET (1..n)
      PROVE  h[t] = IF t = {} THEN 0 ELSE h[t \ {Max(t)}] + s[Max(t)]
  <2>1. CASE t = {}
    BY <1>3, <2>1
  <2>2. CASE t # {}
    <3>1. Max(t) \in 1..n /\ h[t \ {Max(t)}] \in Nat
      BY <1>1, <2>2, MaxIn
    <3>. QED
      BY <1>3, <2>2, <3>1
  <2>. QED
    BY <2>1, <2>2
<1>5. h = [t \in SUBSET (1..n) |-> IF t = {} THEN 0 ELSE h[t \ {Max(t)}] + s[Max(t)]]
  BY <1>4
<1>. QED
  BY <1>1, <1>5 DEF SumBy

(* Byte after byte: the sum up to each of them.                            *)
SumUpTo(s, r) ==
  /\ r \in [0..Len(s) -> Nat]
  /\ r[0] = 0
  /\ \A k \in 1..Len(s) : r[k] = r[k - 1] + s[k]
  /\ Checksum(s) = r[Len(s)] % 65536

LEMMA SumRuns ==
  ASSUME NEW s \in Seq(Byte)
  PROVE  \E r : SumUpTo(s, r)
<1>. DEFINE H == CHOOSE h : h = SumBy(s, h)
            n == Len(s)
<1>1. n \in Nat /\ DOMAIN s = 1..n
  BY LenProperties
<1>2. H = SumBy(s, H)
  <2>. DEFINE P(h) == h = SumBy(s, h)
  <2>1. \E h : P(h)
    BY SumExists
  <2>. HIDE DEF P
  <2>2. P(CHOOSE h : P(h))
    BY <2>1, Zenon
  <2>. QED
    BY <2>2 DEF P
<1>3. Checksum(s) = H[DOMAIN s] % 65536
  BY DEF Checksum, FoldLeft, MapThenFoldSet, SumBy
<1>. HIDE DEF H, n
<1>4. H[{}] = 0
  BY <1>2 DEF SumBy
<1>5. \A k \in 1..n : s[k] \in Nat
  BY <1>1, BytesAreNat DEF n
<1>6. \A k \in 1..n : H[1..k] = H[1 .. k - 1] + s[k]
  <2>1. SUFFICES ASSUME NEW k \in 1..n PROVE H[1..k] = H[1 .. k - 1] + s[k]
    OBVIOUS
  <2>2. 1..k \in SUBSET DOMAIN s /\ k \in Nat \ {0}
    BY <1>1
  <2>3. Max(1..k) = k /\ (1..k) \ {k} = 1 .. k - 1 /\ 1..k # {}
    BY <2>2, UpTo
  <2>4. H[1..k] = IF 1..k = {} THEN 0 ELSE H[(1..k) \ {Max(1..k)}] + s[Max(1..k)]
    BY <1>2, <2>2 DEF SumBy
  <2>. QED
    BY <2>3, <2>4
<1>. DEFINE r == [k \in 0..n |-> H[1..k]]
            Good == {k \in 0..n : H[1..k] \in Nat}
<1>7. 1..0 = {} /\ 0 \in 0..n /\ \A k \in 1..n : k \in 0..n /\ k - 1 \in 0..n
  BY <1>1
<1>8. \A k \in 0..n : k \in Good
  <2>1. 0 \in Good
    BY <1>4, <1>7
  <2>2. \A k \in 1..n : k - 1 \in Good => k \in Good
    BY <1>5, <1>6, <1>7
  <2>. HIDE DEF Good
  <2>. QED
    BY <1>1, <2>1, <2>2, CountedUp
<1>9. r \in [0..n -> Nat]
  BY <1>8
<1>10. r[0] = 0 /\ \A k \in 1..n : r[k] = r[k - 1] + s[k]
  BY <1>4, <1>6, <1>7
<1>11. Checksum(s) = r[n] % 65536
  BY <1>1, <1>3
<1>. HIDE DEF r
<1>12. SumUpTo(s, r)
  BY <1>9, <1>10, <1>11 DEF SumUpTo, n
<1>. QED
  BY <1>12

LEMMA ChecksumIs ==
  ASSUME NEW s \in Seq(Byte)
  PROVE  Checksum(s) \in Nat /\ Checksum(s) < 65536
<1>1. PICK r : SumUpTo(s, r)
  BY SumRuns
<1>2. Len(s) \in 0..Len(s)
  BY LenProperties
<1>3. PICK sum \in Nat : sum = r[Len(s)]
  BY <1>1, <1>2 DEF SumUpTo
<1>4. Checksum(s) = sum % 65536
  BY <1>1, <1>3 DEF SumUpTo
<1>. QED
  BY <1>4

(* A sum tells two sequences apart that differ in one byte.                *)
LEMMA OtherByteOtherSum ==
  ASSUME NEW s \in Seq(Byte), NEW t \in Seq(Byte), Len(s) = Len(t), NEW i \in 1..Len(s),
         \A k \in 1..Len(s) : k # i => s[k] = t[k], s[i] # t[i]
  PROVE  Checksum(s) # Checksum(t)
<1>. DEFINE n == Len(s)
<1>1. n \in Nat /\ i \in 1..n /\ n \in 0..n
  BY LenProperties
<1>2. PICK a : SumUpTo(s, a)
  BY SumRuns
<1>3. PICK b : SumUpTo(t, b)
  BY SumRuns
<1>4. /\ a \in [0..n -> Nat] /\ a[0] = 0
      /\ \A k \in 1..n : a[k] = a[k - 1] + s[k]
      /\ Checksum(s) = a[n] % 65536
      /\ b \in [0..n -> Nat] /\ b[0] = 0
      /\ \A k \in 1..n : b[k] = b[k - 1] + t[k]
      /\ Checksum(t) = b[n] % 65536
  BY <1>2, <1>3 DEF SumUpTo
<1>5. s[i] \in 0..255 /\ t[i] \in 0..255
  BY ElementOfSeq DEF Byte
<1>6. \A k \in 1..n : k # i => s[k] = t[k] /\ s[k] \in Nat
  BY BytesAreNat
<1>. DEFINE d == s[i] - t[i]
<1>7. d \in Int /\ d # 0 /\ 0 <= d + 255 /\ d <= 255
  <2>. DEFINE x == s[i]
              y == t[i]
  <2>1. x \in 0..255 /\ y \in 0..255 /\ x # y
    BY <1>5
  <2>. HIDE DEF x, y
  <2>2. x - y \in Int /\ x - y # 0 /\ 0 <= x - y + 255 /\ x - y <= 255
    BY <2>1
  <2>. QED
    BY <2>2 DEF x, y
<1>8. ASSUME NEW k \in 1..n
      PROVE  s[k] \in Nat /\ t[k] \in Nat /\ s[k] - t[k] = IF k = i THEN d ELSE 0
  <2>1. CASE k = i
    <3>1. s[i] \in Nat /\ t[i] \in Nat
      BY BytesAreNat
    <3>2. s[i] - t[i] = d
      OBVIOUS
    <3>. HIDE DEF d
    <3>. QED
      BY <2>1, <3>1, <3>2
  <2>2. CASE k # i
    <3>1. s[k] = t[k] /\ s[k] \in Nat
      BY <1>6, <2>2
    <3>. QED
      BY <2>2, <3>1
  <2>. QED
    BY <2>1, <2>2
<1>. HIDE DEF n, d
<1>. DEFINE Even == {k \in 0..n : a[k] - b[k] = IF k < i THEN 0 ELSE d}
<1>9. \A k \in 0..n : k \in Even
  <2>1. 0 \in Even
    BY <1>1, <1>4
  <2>2. \A k \in 1..n : k - 1 \in Even => k \in Even
    <3>1. SUFFICES ASSUME NEW k \in 1..n, k - 1 \in Even PROVE k \in Even
      OBVIOUS
    <3>2. /\ k \in 0..n /\ k - 1 \in 0..n
          /\ a[k - 1] \in Nat /\ b[k - 1] \in Nat
          /\ a[k - 1] - b[k - 1] = IF k - 1 < i THEN 0 ELSE d
      BY <1>1, <1>4, <3>1
    <3>3. a[k] = a[k - 1] + s[k] /\ b[k] = b[k - 1] + t[k]
      BY <1>4
    <3>4. a[k] - b[k] = IF k < i THEN 0 ELSE d
      <4>1. s[k] \in Nat /\ t[k] \in Nat /\ s[k] - t[k] = IF k = i THEN d ELSE 0
        BY <1>8
      <4>2. a[k] - b[k] = (a[k - 1] - b[k - 1]) + (s[k] - t[k])
        BY <3>2, <3>3, <4>1
      <4>3. CASE k < i
        BY <1>7, <3>2, <4>1, <4>2, <4>3
      <4>4. CASE k >= i
        BY <1>1, <1>7, <3>2, <4>1, <4>2, <4>4
      <4>. QED
        BY <1>1, <4>3, <4>4
    <3>. QED
      BY <3>2, <3>4
  <2>. HIDE DEF Even
  <2>. QED
    BY <1>1, <2>1, <2>2, CountedUp
<1>10. PICK x, y \in Nat : x = a[n] /\ y = b[n]
  BY <1>1, <1>4
<1>11. x - y = d
  BY <1>1, <1>9, <1>10
<1>12. x % 65536 # y % 65536
  BY <1>7, <1>11
<1>. QED
  BY <1>4, <1>10, <1>12

(* A parse, unfolded: the parser, what is left, and the message if any.    *)
Parsed == [parser : Parsers, rest : Seq(Byte), messages : SUBSET {Unpack(c) : c \in Seq(Byte)}]

LEMMA ParseNextStays ==
  ASSUME NEW r \in Parsed, NEW b \in Byte
  PROVE  ParseNext(r, b) \in Parsed
<1>1. /\ r.parser \in Parsers /\ r.rest \in Seq(Byte)
      /\ r.messages \in SUBSET {Unpack(c) : c \in Seq(Byte)}
  BY DEF Parsed
<1>2. ParseByte(r.parser, b) \in Parsers
  BY <1>1, ParseByteStays
<1>3. Append(r.parser.buf, b) \in Seq(Byte)
  BY <1>1, Appended
<1>4. <<>> \in Seq(Byte) /\ Append(r.rest, b) \in Seq(Byte)
  BY <1>1
<1>5. CASE r.messages # {}
  <2>1. ParseNext(r, b) = [r EXCEPT !.rest = Append(@, b)]
    BY <1>5 DEF ParseNext
  <2>. QED
    BY <1>4, <2>1 DEF Parsed
<1>6. CASE r.messages = {}
  <2>. DEFINE m == IF NewMessage(r.parser, b) THEN {Unpack(Append(r.parser.buf, b))} ELSE {}
              q == ParseByte(r.parser, b)
  <2>1. m \in SUBSET {Unpack(c) : c \in Seq(Byte)}
    BY <1>3
  <2>2. ParseNext(r, b) = [parser |-> q, rest |-> <<>>, messages |-> m]
    BY <1>6 DEF ParseNext
  <2>3. q \in Parsers
    BY <1>2
  <2>. HIDE DEF m, q
  <2>. QED
    BY <1>4, <2>1, <2>2, <2>3 DEF Parsed
<1>. QED
  BY <1>5, <1>6

ParseBy(p, s, h) ==
  [t \in SUBSET DOMAIN s |->
     IF t = {} THEN [parser |-> p, rest |-> <<>>, messages |-> {}]
     ELSE ParseNext(h[t \ {Max(t)}], s[Max(t)])]

LEMMA NothingParsed ==
  ASSUME NEW p \in Parsers
  PROVE  [parser |-> p, rest |-> <<>>, messages |-> {}] \in Parsed
BY DEF Parsed

LEMMA ParseExists ==
  ASSUME NEW p \in Parsers, NEW s \in Seq(Byte)
  PROVE  \E h : h = ParseBy(p, s, h)
<1>. DEFINE n == Len(s)
            base == [parser |-> p, rest |-> <<>>, messages |-> {}]
            g == [x \in Parsed \X (1..n) |-> ParseNext(x[1], s[x[2]])]
<1>1. n \in Nat /\ DOMAIN s = 1..n
  BY LenProperties
<1>2. g \in [Parsed \X (1..n) -> Parsed]
  <2>1. \A i \in 1..n : s[i] \in Byte
    BY ElementOfSeq
  <2>2. \A r \in Parsed, b \in Byte : ParseNext(r, b) \in Parsed
    BY ParseNextStays
  <2>. QED
    BY <2>1, <2>2
<1>3. base \in Parsed
  BY NothingParsed
<1>. HIDE DEF n, base
<1>4. PICK h \in [SUBSET (1..n) -> Parsed] : Folded(h, base, g, n)
  <2>. HIDE DEF g
  <2>. QED
    BY <1>1, <1>2, <1>3, FoldExists
<1>5. ASSUME NEW t \in SUBSET (1..n)
      PROVE  h[t] = IF t = {} THEN base ELSE ParseNext(h[t \ {Max(t)}], s[Max(t)])
  <2>1. CASE t = {}
    BY <1>4, <2>1 DEF Folded
  <2>2. CASE t # {}
    <3>1. Max(t) \in 1..n /\ h[t \ {Max(t)}] \in Parsed
      BY <1>1, <2>2, MaxIn
    <3>2. h[t] = g[<<h[t \ {Max(t)}], Max(t)>>]
      BY <1>4, <2>2 DEF Folded
    <3>. QED
      BY <2>2, <3>1, <3>2
  <2>. QED
    BY <2>1, <2>2
<1>. HIDE DEF g
<1>6. h = [t \in SUBSET (1..n) |-> IF t = {} THEN base ELSE ParseNext(h[t \ {Max(t)}], s[Max(t)])]
  BY <1>5
<1>. QED
  BY <1>1, <1>6 DEF ParseBy, base

(* Byte after byte: what there is after each of them.                      *)
ByteByByte(p, s, r) ==
  /\ r \in [0..Len(s) -> Parsed]
  /\ r[0] = [parser |-> p, rest |-> <<>>, messages |-> {}]
  /\ \A k \in 1..Len(s) : r[k] = ParseNext(r[k - 1], s[k])
  /\ Parse(p, s) = r[Len(s)]

LEMMA ParseRuns ==
  ASSUME NEW p \in Parsers, NEW s \in Seq(Byte)
  PROVE  \E r : ByteByByte(p, s, r)
<1>. DEFINE H == CHOOSE h : h = ParseBy(p, s, h)
            n == Len(s)
            start == [parser |-> p, rest |-> <<>>, messages |-> {}]
<1>1. n \in Nat /\ DOMAIN s = 1..n
  BY LenProperties
<1>2. H = ParseBy(p, s, H)
  <2>. DEFINE P(h) == h = ParseBy(p, s, h)
  <2>1. \E h : P(h)
    BY ParseExists
  <2>. HIDE DEF P
  <2>2. P(CHOOSE h : P(h))
    BY <2>1, Zenon
  <2>. QED
    BY <2>2 DEF P
<1>3. Parse(p, s) = H[DOMAIN s]
  BY DEF Parse, FoldLeft, MapThenFoldSet, ParseBy
<1>. HIDE DEF H
<1>4. H[{}] = start /\ start \in Parsed
  BY <1>2, NothingParsed DEF ParseBy
<1>5. \A k \in 1..n : s[k] \in Byte
  BY ElementOfSeq
<1>. HIDE DEF n, start
<1>6. \A k \in 1..n : H[1..k] = ParseNext(H[1 .. k - 1], s[k])
  <2>1. SUFFICES ASSUME NEW k \in 1..n PROVE H[1..k] = ParseNext(H[1 .. k - 1], s[k])
    OBVIOUS
  <2>2. 1..k \in SUBSET DOMAIN s /\ k \in Nat \ {0}
    BY <1>1
  <2>3. Max(1..k) = k /\ (1..k) \ {k} = 1 .. k - 1 /\ 1..k # {}
    BY <2>2, UpTo
  <2>4. 1..k # {} => H[1..k] = ParseNext(H[(1..k) \ {Max(1..k)}], s[Max(1..k)])
    BY <1>2, <2>2 DEF ParseBy
  <2>. QED
    BY <2>3, <2>4
<1>. DEFINE r == [k \in 0..n |-> H[1..k]]
            Good == {k \in 0..n : H[1..k] \in Parsed}
<1>7. \A k \in 0..n : k \in Good
  <2>1. 0 \in Good
    <3>1. 0 \in 0..n /\ 1..0 = {}
      BY <1>1
    <3>. QED
      BY <1>4, <3>1
  <2>2. \A k \in 1..n : k - 1 \in Good => k \in Good
    <3>1. SUFFICES ASSUME NEW k \in 1..n, k - 1 \in Good PROVE k \in Good
      OBVIOUS
    <3>2. k \in 0..n /\ H[1 .. k - 1] \in Parsed
      BY <1>1, <3>1
    <3>3. H[1..k] \in Parsed
      BY <1>5, <1>6, <3>2, ParseNextStays
    <3>. QED
      BY <3>2, <3>3
  <2>. HIDE DEF Good
  <2>. QED
    BY <1>1, <2>1, <2>2, CountedUp
<1>8. r \in [0..n -> Parsed]
  BY <1>7
<1>9. r[0] = start /\ \A k \in 1..n : r[k] = ParseNext(r[k - 1], s[k])
  <2>1. 1..0 = {} /\ 0 \in 0..n
    BY <1>1
  <2>2. \A k \in 1..n : k \in 0..n /\ k - 1 \in 0..n
    BY <1>1
  <2>. QED
    BY <1>4, <1>6, <2>1, <2>2
<1>10. Parse(p, s) = r[n]
  BY <1>1, <1>3
<1>. HIDE DEF r
<1>11. ByteByByte(p, s, r)
  BY <1>8, <1>9, <1>10 DEF ByteByByte, n, start
<1>. QED
  BY <1>11

LEMMA ParseStays ==
  ASSUME NEW p \in Parsers, NEW s \in Seq(Byte)
  PROVE  Parse(p, s) \in Parsed
<1>1. PICK r : r \in [0..Len(s) -> Parsed] /\ Parse(p, s) = r[Len(s)]
  BY ParseRuns DEF ByteByByte
<1>2. Len(s) \in 0..Len(s)
  BY LenProperties
<1>. QED
  BY <1>1, <1>2

(* What the device answers is made of bytes.                               *)
LEMMA LowHigh ==
  ASSUME NEW n \in Nat
  PROVE  Low(n) \in Byte /\ High(n) \in Byte
<1>1. n % 256 \in 0..255 /\ n \div 256 \in Nat
  OBVIOUS
<1>2. \A m \in Nat : m % 256 \in 0..255
  OBVIOUS
<1>. QED
  BY <1>1, <1>2 DEF Low, High, Byte

LEMMA PackIsBytes ==
  ASSUME NEW id \in Known, NEW payload \in Seq(Byte)
  PROVE  Pack(id, payload) \in Seq(Byte)
<1>. DEFINE n == Len(payload)
            header == <<Low(n), High(n), Low(id), High(id), 0, 0>>
            body == StartBytes \o header \o payload
            sum == Checksum(body)
            tail == <<Low(sum), High(sum)>>
<1>1. n \in Nat /\ id \in Nat
  BY LenProperties DEF Known, PayloadLength, PROTOCOL_VERSION, SPEED_OF_SOUND, RANGE, MODE_AUTO,
        PING_INTERVAL, GAIN_SETTING, GENERAL_INFO, DISTANCE_SIMPLE
<1>2. header \in Seq(Byte)
  <2>1. Low(n) \in Byte /\ High(n) \in Byte /\ Low(id) \in Byte /\ High(id) \in Byte /\ 0 \in Byte
    <3>1. 0 \in Byte
      BY DEF Byte
    <3>. HIDE DEF n
    <3>. QED
      BY <1>1, <3>1, LowHigh
  <2>. QED
    BY <2>1
<1>3. StartBytes \in Seq(Byte)
  BY DEF StartBytes, Byte
<1>. HIDE DEF header
<1>4. body \in Seq(Byte)
  BY <1>2, <1>3
<1>. HIDE DEF body
<1>5. sum \in Nat
  <2>. HIDE DEF sum
  <2>1. Checksum(body) \in Nat
    BY <1>4, ChecksumIs
  <2>. QED
    BY <2>1 DEF sum
<1>. HIDE DEF sum
<1>6. tail \in Seq(Byte)
  <2>1. Low(sum) \in Byte /\ High(sum) \in Byte
    BY <1>5, LowHigh
  <2>. QED
    BY <2>1
<1>7. Pack(id, payload) = body \o tail
  BY DEF Pack, body, header, sum
<1>. HIDE DEF tail
<1>. QED
  BY <1>4, <1>6, <1>7

LEMMA PayloadIsBytes ==
  ASSUME NEW id \in Known, pings \in Byte, length \in Byte
  PROVE  Payload(id) \in Seq(Byte)
<1>1. \A n \in Nat : Zeros(n) \in Seq(Byte)
  BY DEF Zeros, Byte
<1>2. PayloadLength[id] \in Nat
  BY DEF Known, PayloadLength
<1>3. <<pings>> \in Seq(Byte) /\ <<length>> \in Seq(Byte)
  OBVIOUS
<1>. DEFINE one == <<pings>>
            last == <<length>>
            z3 == Zeros(3)
            z4 == Zeros(4)
<1>4. one \in Seq(Byte) /\ last \in Seq(Byte) /\ z3 \in Seq(Byte) /\ z4 \in Seq(Byte)
  BY <1>1, <1>3
<1>5. \/ Payload(id) = one \o z4
      \/ Payload(id) = z4 \o last \o z3
      \/ Payload(id) = Zeros(PayloadLength[id])
  BY DEF Payload, RANGE, DISTANCE_SIMPLE
<1>6. Zeros(PayloadLength[id]) \in Seq(Byte)
  BY <1>1, <1>2
<1>. HIDE DEF one, last, z3, z4
<1>7. one \o z4 \in Seq(Byte) /\ z4 \o last \in Seq(Byte)
  BY <1>4, ConcatProperties
<1>8. (z4 \o last) \o z3 \in Seq(Byte)
  BY <1>4, <1>7, ConcatProperties
<1>. QED
  BY <1>5, <1>6, <1>7, <1>8

(* What the host writes fits the line.                                     *)
Exchanges == [set : {None} \cup Lengths, id : Known]

PingTypes ==
  /\ pings \in 1..MaxPings /\ length \in Lengths
  /\ requests \in Seq(Exchanges) /\ Len(requests) <= MaxLate
  /\ wire \in Seq(Byte) /\ faults \in 0..MaxFaults
  /\ parser \in Parsers
  /\ todo \in Seq(Exchanges)
  /\ job \in {"off", "idle", "exited"} \cup DOMAIN Mandatory
  /\ (todo # <<>>) = Running

LEMMA Names ==
  /\ DOMAIN Mandatory = {"init", "cycle", "param"}
  /\ Optional \subseteq Known
  /\ {PROTOCOL_VERSION, GENERAL_INFO, DISTANCE_SIMPLE, RANGE} \subseteq Known
BY PingAssumption DEF Mandatory, Known, PayloadLength

LEMMA ShorterOf ==
  ASSUME NEW a \in Int, NEW b \in Int
  PROVE  Min({a, b}) \in {a, b} /\ Min({a, b}) <= a /\ Min({a, b}) <= b
<1>1. \E x \in {a, b} : \A y \in {a, b} : x =< y
  OBVIOUS
<1>. QED
  BY <1>1 DEF Min

LEMMA GetIsExchange ==
  ASSUME NEW id \in Known
  PROVE  Get(id) \in Exchanges /\ \A v \in Lengths : SetRange(v) \in Exchanges
<1>1. RANGE \in Known
  BY Names
<1>. QED
  BY <1>1 DEF Get, SetRange, Exchanges

LEMMA WrittenStays ==
  ASSUME PingTypes, NEW x \in Exchanges
  PROVE  Written(x) \in Seq(Exchanges) /\ Len(Written(x)) <= MaxLate
<1>. DEFINE new == Messages(x)
            all == requests \o new
            m == Min({Len(all), MaxLate})
<1>1. x.id \in Known /\ Get(x.id) \in Exchanges
  BY GetIsExchange DEF Exchanges
<1>2. new \in Seq(Exchanges)
  BY <1>1 DEF Messages
<1>3. requests \in Seq(Exchanges) /\ MaxLate \in Nat
  BY PingAssumption DEF PingTypes
<1>. HIDE DEF new
<1>4. all \in Seq(Exchanges) /\ Len(all) \in Nat
  BY <1>2, <1>3, ConcatProperties, LenProperties
<1>. HIDE DEF all
<1>5. m \in 0..Len(all) /\ m <= MaxLate
  <2>. DEFINE n == Len(all)
  <2>1. n \in Int /\ MaxLate \in Int
    BY <1>3, <1>4
  <2>. HIDE DEF n
  <2>2. m \in {n, MaxLate} /\ m <= n /\ m <= MaxLate
    BY <2>1, ShorterOf DEF n
  <2>. HIDE DEF m
  <2>. QED
    BY <1>3, <1>4, <2>2 DEF n
<1>. HIDE DEF m
<1>6. SubSeq(all, 1, m) \in Seq(Exchanges) /\ Len(SubSeq(all, 1, m)) = m
  BY <1>4, <1>5
<1>7. Written(x) = SubSeq(all, 1, m)
  BY DEF Written, all, m, new
<1>. QED
  BY <1>5, <1>6, <1>7

LEMMA PlansAreExchanges ==
  ASSUME NEW v \in Lengths
  PROVE  /\ Initialize(v) \in Seq(Exchanges) /\ Initialize(v) # <<>>
         /\ Cycle \in Seq(Exchanges) /\ Cycle # <<>>
<1>1. \A id \in Known : Asked(id) \in Seq(Exchanges)
  BY GetIsExchange DEF Asked
<1>2. /\ Get(PROTOCOL_VERSION) \in Exchanges /\ Get(GENERAL_INFO) \in Exchanges
      /\ Get(DISTANCE_SIMPLE) \in Exchanges /\ Get(RANGE) \in Exchanges
      /\ SetRange(v) \in Exchanges
  BY GetIsExchange, Names
<1>3. {SPEED_OF_SOUND, PING_INTERVAL, GAIN_SETTING, MODE_AUTO} \subseteq Known
  BY DEF Known, PayloadLength
<1>. DEFINE first == <<Get(PROTOCOL_VERSION), Get(GENERAL_INFO)>>
            every == <<Get(DISTANCE_SIMPLE), Get(RANGE)>>
            sos == Asked(SPEED_OF_SOUND)
            int == Asked(PING_INTERVAL)
            gain == Asked(GAIN_SETTING)
            auto == Asked(MODE_AUTO)
            set == <<SetRange(v)>>
<1>4. /\ first \in Seq(Exchanges) /\ Len(first) = 2 /\ every \in Seq(Exchanges) /\ Len(every) = 2
      /\ set \in Seq(Exchanges)
  BY <1>2
<1>5. /\ sos \in Seq(Exchanges) /\ int \in Seq(Exchanges) /\ gain \in Seq(Exchanges)
      /\ auto \in Seq(Exchanges)
  BY <1>1, <1>3
<1>6. Initialize(v) = first \o sos \o int \o gain \o set \o auto
  BY DEF Initialize
<1>7. Cycle = every \o gain \o sos \o int \o auto
  BY DEF Cycle
<1>. HIDE DEF first, every, sos, int, gain, auto, set
<1>. DEFINE Long(s) == s \in Seq(Exchanges) /\ Len(s) >= 2
<1>8. ASSUME NEW s, Long(s), NEW t \in Seq(Exchanges)
      PROVE  Long(s \o t)
  <2>1. s \o t \in Seq(Exchanges) /\ Len(s \o t) = Len(s) + Len(t) /\ Len(t) \in Nat /\ Len(s) \in Nat
    BY <1>8, ConcatProperties, LenProperties
  <2>. QED
    BY <1>8, <2>1
<1>9. \A s : Long(s) => s \in Seq(Exchanges) /\ s # <<>>
  OBVIOUS
<1>10. Long(first) /\ Long(every)
  BY <1>4
<1>. HIDE DEF Long
<1>11. Long(first \o sos) /\ Long(every \o gain)
  BY <1>5, <1>8, <1>10
<1>12. Long(first \o sos \o int) /\ Long(every \o gain \o sos)
  BY <1>5, <1>8, <1>11
<1>13. Long(first \o sos \o int \o gain) /\ Long(every \o gain \o sos \o int)
  BY <1>5, <1>8, <1>12
<1>14. Long(first \o sos \o int \o gain \o set) /\ Long(every \o gain \o sos \o int \o auto)
  BY <1>4, <1>5, <1>8, <1>13
<1>15. Long(first \o sos \o int \o gain \o set \o auto)
  BY <1>5, <1>8, <1>14
<1>. QED
  BY <1>6, <1>7, <1>9, <1>14, <1>15

LEMMA TodoIs ==
  ASSUME PingTypes
  PROVE  /\ todo \in Seq(Exchanges)
         /\ Running => /\ todo # <<>>
                       /\ Head(todo) \in Exchanges
                       /\ Tail(todo) \in Seq(Exchanges)
                       /\ Tail(todo) # <<>> => Head(Tail(todo)) \in Exchanges
<1>1. todo \in Seq(Exchanges) /\ (Running => todo # <<>>)
  BY DEF PingTypes
<1>. QED
  BY <1>1

LEMMA PingStarts == PingInit => PingTypes
<1>. SUFFICES ASSUME PingInit PROVE PingTypes
  OBVIOUS
<1>1. pings \in 1..MaxPings /\ length \in Lengths /\ faults \in 0..MaxFaults
  BY PingAssumption DEF PingInit, Byte
<1>2. /\ requests \in Seq(Exchanges) /\ Len(requests) <= MaxLate
      /\ wire \in Seq(Byte) /\ todo \in Seq(Exchanges)
  <2>1. MaxLate \in Nat
    BY PingAssumption
  <2>2. requests = <<>> /\ wire = <<>> /\ todo = <<>>
    BY DEF PingInit
  <2>. QED
    BY <2>1, <2>2
<1>3. parser \in Parsers
  BY NewParserStays DEF PingInit
<1>4. job = "off" /\ ~Running /\ todo = <<>>
  BY Names DEF PingInit, Running
<1>5. (todo # <<>>) = Running /\ job \in {"off", "idle", "exited"} \cup DOMAIN Mandatory
  BY <1>4 DEF Running
<1>. QED
  BY <1>1, <1>2, <1>3, <1>5 DEF PingTypes

(* What the steps of the host have in common.                              *)
LEMMA StartsStep ==
  ASSUME PingTypes, NEW name \in DOMAIN Mandatory, NEW exchanges \in Seq(Exchanges),
         exchanges # <<>>, Starts(name, exchanges)
  PROVE  PingTypes'
<1>1. Head(exchanges) \in Exchanges
  OBVIOUS
<1>2. requests' \in Seq(Exchanges) /\ Len(requests') <= MaxLate
  BY <1>1, WrittenStays DEF Starts
<1>3. job' = name /\ todo' = exchanges /\ Running'
  BY DEF Starts, Running
<1>4. UNCHANGED <<pings, length, wire, faults, parser>>
  BY DEF Starts, deviceVars
<1>. QED
  BY <1>2, <1>3, <1>4 DEF PingTypes

LEMMA GoesOnKeeps ==
  ASSUME PingTypes, Running, NEW distance, GoesOn(distance)
  PROVE  /\ requests' \in Seq(Exchanges) /\ Len(requests') <= MaxLate
         /\ todo' \in Seq(Exchanges)
         /\ job' \in {"off", "idle", "exited"} \cup DOMAIN Mandatory
         /\ (todo' # <<>>) = Running'
<1>1. /\ Tail(todo) \in Seq(Exchanges) /\ todo' = Tail(todo)
      /\ Tail(todo) # <<>> => Head(Tail(todo)) \in Exchanges
  BY TodoIs DEF GoesOn
<1>2. CASE Tail(todo) # <<>>
  <2>1. requests' = Written(Head(Tail(todo))) /\ job' = job
    BY <1>2 DEF GoesOn
  <2>2. Running'
    BY <2>1 DEF Running
  <2>3. requests' \in Seq(Exchanges) /\ Len(requests') <= MaxLate
    BY <1>1, <1>2, <2>1, WrittenStays
  <2>. QED
    BY <1>1, <1>2, <2>1, <2>2, <2>3 DEF PingTypes
<1>3. CASE Tail(todo) = <<>>
  <2>1. requests' = requests /\ job' = "idle"
    BY <1>3 DEF GoesOn
  <2>2. ~Running'
    BY <2>1, Names DEF Running
  <2>3. (todo' # <<>>) = Running' /\ job' \in {"off", "idle", "exited"} \cup DOMAIN Mandatory
    BY <1>1, <1>3, <2>1, <2>2 DEF Running
  <2>. QED
    BY <1>1, <2>1, <2>3 DEF PingTypes
<1>. QED
  BY <1>2, <1>3

LEMMA ReadStep ==
  ASSUME PingTypes, Read
  PROVE  PingTypes'
<1>1. PICK n \in 1..Len(wire) :
        LET r == Parse(parser, SubSeq(wire, 1, n))
            handled == {m \in r.messages : HasFields(m)}
            taken == {m \in handled : m.id = Head(todo).id}
        IN /\ parser' = r.parser
           /\ wire' = r.rest \o SubSeq(wire, n + 1, Len(wire))
           /\ IF taken = {} THEN UNCHANGED <<job, todo, got, lastRange, requests>>
              ELSE GoesOn(IF Head(todo).id = DISTANCE_SIMPLE THEN attrs'.distance ELSE got)
  BY DEF Read
<1>. DEFINE r == Parse(parser, SubSeq(wire, 1, n))
            after == SubSeq(wire, n + 1, Len(wire))
<1>2. wire \in Seq(Byte) /\ parser \in Parsers /\ Running
  BY DEF PingTypes, Read
<1>3. SubSeq(wire, 1, n) \in Seq(Byte) /\ after \in Seq(Byte)
  BY <1>2
<1>4. r.parser \in Parsers /\ r.rest \in Seq(Byte)
  <2>1. r \in Parsed
    BY <1>2, <1>3, ParseStays
  <2>. HIDE DEF r
  <2>. QED
    BY <2>1 DEF Parsed
<1>5. parser' \in Parsers /\ wire' \in Seq(Byte)
  <2>1. parser' = r.parser /\ wire' = r.rest \o after
    BY <1>1
  <2>. HIDE DEF r, after
  <2>. QED
    BY <1>3, <1>4, <2>1, ConcatProperties
<1>6. \/ UNCHANGED <<job, todo, requests>>
      \/ \E d : GoesOn(d)
  BY <1>1
<1>7. UNCHANGED <<pings, length, faults>>
  BY DEF Read, deviceVars
<1>8. CASE UNCHANGED <<job, todo, requests>>
  BY <1>5, <1>7, <1>8 DEF PingTypes, Running
<1>9. CASE \E d : GoesOn(d)
  <2>1. /\ requests' \in Seq(Exchanges) /\ Len(requests') <= MaxLate
        /\ todo' \in Seq(Exchanges)
        /\ job' \in {"off", "idle", "exited"} \cup DOMAIN Mandatory
        /\ (todo' # <<>>) = Running'
    BY <1>2, <1>9, GoesOnKeeps
  <2>. QED
    BY <1>5, <1>7, <2>1 DEF PingTypes
<1>. QED
  BY <1>6, <1>8, <1>9

LEMMA TimesOutStep ==
  ASSUME PingTypes, TimesOut
  PROVE  PingTypes'
<1>1. Running /\ UNCHANGED <<pings, length, wire, faults, parser>>
  BY DEF TimesOut, deviceVars
<1>2. CASE job' \in {"exited", "idle"} /\ todo' = <<>> /\ UNCHANGED requests
  <2>1. ~Running' /\ todo' \in Seq(Exchanges)
    BY <1>2, Names DEF Running
  <2>2. (todo' # <<>>) = Running' /\ job' \in {"off", "idle", "exited"} \cup DOMAIN Mandatory
    BY <1>2, <2>1 DEF Running
  <2>. QED
    BY <1>1, <1>2, <2>1, <2>2 DEF PingTypes
<1>3. CASE GoesOn(got)
  <2>1. /\ requests' \in Seq(Exchanges) /\ Len(requests') <= MaxLate
        /\ todo' \in Seq(Exchanges)
        /\ job' \in {"off", "idle", "exited"} \cup DOMAIN Mandatory
        /\ (todo' # <<>>) = Running'
    BY <1>1, <1>3, GoesOnKeeps
  <2>. QED
    BY <1>1, <2>1 DEF PingTypes
<1>. QED
  BY <1>2, <1>3 DEF TimesOut

LEMMA HandleRequestStep ==
  ASSUME PingTypes, HandleRequest
  PROVE  PingTypes'
<1>. DEFINE x == Head(requests)
<1>1. requests \in Seq(Exchanges) /\ requests # <<>> /\ Len(requests) <= MaxLate
  BY DEF PingTypes, HandleRequest
<1>2. x \in Exchanges /\ requests' \in Seq(Exchanges) /\ Len(requests') <= MaxLate
  <2>1. /\ Head(requests) \in Exchanges /\ Tail(requests) \in Seq(Exchanges)
        /\ Len(Tail(requests)) = Len(requests) - 1 /\ Len(requests) \in Nat
    BY <1>1
  <2>2. MaxLate \in Nat /\ requests' = Tail(requests)
    BY PingAssumption DEF HandleRequest
  <2>. QED
    BY <1>1, <2>1, <2>2
<1>3. UNCHANGED <<pings, faults, parser, todo, job>>
  BY DEF HandleRequest, hostVars
<1>4. wire' \in Seq(Byte) /\ length' \in Lengths
  <2>1. wire \in Seq(Byte) /\ length \in Lengths /\ pings \in Byte /\ length \in Byte
    BY PingAssumption DEF PingTypes, Byte
  <2>2. CASE x.set = None /\ wire' = wire \o Pack(x.id, Payload(x.id)) /\ UNCHANGED length
    <3>1. x.id \in Known
      BY <1>2 DEF Exchanges
    <3>2. Payload(x.id) \in Seq(Byte)
      BY <2>1, <3>1, PayloadIsBytes
    <3>3. Pack(x.id, Payload(x.id)) \in Seq(Byte)
      BY <3>1, <3>2, PackIsBytes
    <3>4. wire \o Pack(x.id, Payload(x.id)) \in Seq(Byte)
      BY <2>1, <3>3, ConcatProperties
    <3>. QED
      BY <2>1, <2>2, <3>4
  <2>3. CASE x.set # None /\ length' = x.set /\ UNCHANGED wire
    BY <1>2, <2>1, <2>3 DEF Exchanges
  <2>. QED
    BY <2>2, <2>3 DEF HandleRequest
<1>. HIDE DEF x
<1>. QED
  BY <1>2, <1>3, <1>4 DEF PingTypes, Running

LEMMA LineFaultStep ==
  ASSUME PingTypes, LineFault
  PROVE  PingTypes'
<1>1. PICK i \in FaultAt \cap 1..Len(wire) :
        \/ wire' = RemoveAt(wire, i)
        \/ \E b \in Noise \ {wire[i]} : wire' = [wire EXCEPT ![i] = b]
  BY DEF LineFault
<1>2. wire \in Seq(Byte) /\ i \in 1..Len(wire)
  BY DEF PingTypes
<1>3. ASSUME wire' = RemoveAt(wire, i)
      PROVE  wire' \in Seq(Byte)
  <2>. DEFINE before == SubSeq(wire, 1, i - 1)
              after == SubSeq(wire, i + 1, Len(wire))
  <2>1. before \in Seq(Byte) /\ after \in Seq(Byte)
    BY <1>2
  <2>2. wire' = before \o after
    BY <1>3 DEF RemoveAt
  <2>. HIDE DEF before, after
  <2>3. before \o after \in Seq(Byte)
    BY <2>1, ConcatProperties
  <2>. QED
    BY <2>2, <2>3
<1>4. ASSUME \E b \in Noise \ {wire[i]} : wire' = [wire EXCEPT ![i] = b]
      PROVE  wire' \in Seq(Byte)
  <2>1. PICK b \in Byte : wire' = [wire EXCEPT ![i] = b]
    BY <1>4, PingAssumption
  <2>2. [wire EXCEPT ![i] = b] \in Seq(Byte)
    BY <1>2, ExceptSeq
  <2>. QED
    BY <2>1, <2>2
<1>5. wire' \in Seq(Byte)
  BY <1>1, <1>3, <1>4, Zenon
<1>6. faults' \in 0..MaxFaults
  BY PingAssumption DEF LineFault, PingTypes
<1>7. UNCHANGED <<pings, length, requests, parser, todo, job>>
  BY DEF LineFault, hostVars, deviceVars
<1>. QED
  BY <1>5, <1>6, <1>7 DEF PingTypes, Running

LEMMA OtherClientStep ==
  ASSUME PingTypes, OtherClient
  PROVE  PingTypes'
<1>1. PICK x \in {Get(DISTANCE_SIMPLE), Get(RANGE)} \cup {SetRange(v) : v \in Lengths} :
        requests' = Append(requests, x)
  BY DEF OtherClient
<1>2. x \in Exchanges
  BY GetIsExchange, Names
<1>3. requests' \in Seq(Exchanges) /\ Len(requests') <= MaxLate
  <2>1. /\ requests \in Seq(Exchanges) /\ Len(requests) < MaxLate /\ Len(requests) \in Nat
        /\ MaxLate \in Nat
    BY PingAssumption DEF PingTypes, OtherClient
  <2>2. Append(requests, x) \in Seq(Exchanges) /\ Len(Append(requests, x)) = Len(requests) + 1
    BY <1>2, <2>1, AppendProperties
  <2>. QED
    BY <1>1, <2>1, <2>2
<1>4. faults' \in 0..MaxFaults
  BY PingAssumption DEF OtherClient, PingTypes
<1>5. UNCHANGED <<pings, length, wire, parser, todo, job>>
  BY DEF OtherClient, hostVars, deviceVars
<1>. QED
  BY <1>3, <1>4, <1>5 DEF PingTypes, Running

LEMMA PingStep == PingTypes /\ [PingNext]_pingVars => PingTypes'
<1>. SUFFICES ASSUME PingTypes, [PingNext]_pingVars PROVE PingTypes'
  OBVIOUS
<1>1. CASE Connect
  <2>1. PICK v \in Lengths : Starts("init", Initialize(v))
    BY <1>1 DEF Connect
  <2>. QED
    BY <2>1, StartsStep, PlansAreExchanges, Names
<1>2. CASE RangeCallback
  <2>1. Starts("cycle", Cycle)
    BY <1>2 DEF RangeCallback
  <2>2. length \in Lengths
    BY DEF PingTypes
  <2>. QED
    BY <2>1, <2>2, StartsStep, PlansAreExchanges, Names
<1>3. CASE SetParamCallback
  <2>1. PICK x \in Exchanges : Starts("param", <<x>>)
    BY <1>3, GetIsExchange, Names DEF SetParamCallback
  <2>2. <<x>> \in Seq(Exchanges) /\ <<x>> # <<>>
    OBVIOUS
  <2>. QED
    BY <2>1, <2>2, StartsStep, Names
<1>4. CASE Read
  BY <1>4, ReadStep
<1>5. CASE TimesOut
  BY <1>5, TimesOutStep
<1>6. CASE HandleRequest
  BY <1>6, HandleRequestStep
<1>7. CASE Measure
  <2>1. pings' \in 1..MaxPings
    BY <1>7, PingAssumption DEF Measure, PingTypes, Byte
  <2>2. UNCHANGED <<length, requests, wire, faults, parser, todo, job>>
    BY <1>7 DEF Measure, lineVars, hostVars
  <2>. QED
    BY <2>1, <2>2 DEF PingTypes, Running
<1>8. CASE LoseRequest
  <2>1. requests' \in Seq(Exchanges) /\ Len(requests') <= MaxLate
    <3>1. requests \in Seq(Exchanges) /\ requests # <<>> /\ Len(requests) <= MaxLate
      BY <1>8 DEF PingTypes, LoseRequest
    <3>2. /\ Tail(requests) \in Seq(Exchanges)
          /\ Len(Tail(requests)) = Len(requests) - 1 /\ Len(requests) \in Nat
      BY <3>1
    <3>3. MaxLate \in Nat /\ requests' = Tail(requests)
      BY <1>8, PingAssumption DEF LoseRequest
    <3>. QED
      BY <3>1, <3>2, <3>3
  <2>2. UNCHANGED <<pings, length, wire, faults, parser, todo, job>>
    BY <1>8 DEF LoseRequest, deviceVars, hostVars
  <2>. QED
    BY <2>1, <2>2 DEF PingTypes, Running
<1>9. CASE OtherClient
  BY <1>9, OtherClientStep
<1>10. CASE LineFault
  BY <1>10, LineFaultStep
<1>11. CASE UNCHANGED pingVars
  BY <1>11 DEF pingVars, deviceVars, lineVars, hostVars, PingTypes, Running
<1>. QED
  BY <1>1, <1>2, <1>3, <1>4, <1>5, <1>6, <1>7, <1>8, <1>9, <1>10, <1>11 DEF PingNext

LEMMA TypesGivePingInv == PingTypes => PingInv
<1>. SUFFICES ASSUME PingTypes PROVE PingInv
  OBVIOUS
<1>1. \A i \in 1..Len(wire) : wire[i] \in Byte
  BY ElementOfSeq DEF PingTypes
<1>2. ParserShape(parser)
  BY DEF PingTypes, Parsers
<1>. QED
  BY <1>1, <1>2 DEF PingTypes, PingInv

(* Whatever bytes the line makes of what the device sent, and wherever a   *)
(* read cuts them, the parser's buffer is in step with its state: for every *)
(* length of the faults, of the backlog and of the stream.  The node has   *)
(* an exchange under way exactly when a callback runs.                     *)
THEOREM ParserInStep == PingSpec => []PingInv
<1>. QED
  BY PingStarts, PingStep, TypesGivePingInv, PTL DEF PingSpec

-----------------------------------------------------------------------------
(* What Pack makes of a message, the parser finds again.                   *)
Body(id, payload) ==
  LET n == Len(payload)
  IN StartBytes \o <<Low(n), High(n), Low(id), High(id), 0, 0>> \o payload

Sum(id, payload) == Checksum(Body(id, payload))

MadeOf(u, s, t) ==
  /\ u \in Seq(Byte) /\ Len(u) = Len(s) + Len(t)
  /\ \A i \in 1..Len(s) : u[i] = s[i]
  /\ \A i \in 1..Len(t) : u[Len(s) + i] = t[i]

LEMMA BothParts ==
  ASSUME NEW s \in Seq(Byte), NEW t \in Seq(Byte)
  PROVE  MadeOf(s \o t, s, t)
<1>1. Len(s) \in Nat /\ Len(t) \in Nat
  BY LenProperties
<1>2. /\ s \o t \in Seq(Byte) /\ Len(s \o t) = Len(s) + Len(t)
      /\ \A i \in 1 .. Len(s) + Len(t) :
           (s \o t)[i] = IF i <= Len(s) THEN s[i] ELSE t[i - Len(s)]
  BY ConcatProperties
<1>3. ASSUME NEW i \in 1..Len(s)
      PROVE  (s \o t)[i] = s[i]
  BY <1>1, <1>2
<1>4. ASSUME NEW i \in 1..Len(t)
      PROVE  (s \o t)[Len(s) + i] = t[i]
  <2>1. Len(s) + i \in 1 .. Len(s) + Len(t) /\ ~(Len(s) + i <= Len(s)) /\ Len(s) + i - Len(s) = i
    BY <1>1
  <2>. QED
    BY <1>2, <2>1
<1>. QED
  BY <1>2, <1>3, <1>4 DEF MadeOf

LEMMA BodyIs ==
  ASSUME NEW id \in Known, NEW payload \in Seq(Byte)
  PROVE  /\ Body(id, payload) \in Seq(Byte) /\ Len(Body(id, payload)) = 8 + Len(payload)
         /\ Body(id, payload)[1] = 66 /\ Body(id, payload)[2] = 82
         /\ Body(id, payload)[3] = Low(Len(payload)) /\ Body(id, payload)[4] = High(Len(payload))
         /\ Body(id, payload)[5] = Low(id) /\ Body(id, payload)[6] = High(id)
         /\ \A i \in 1..Len(payload) : Body(id, payload)[8 + i] = payload[i]
<1>. DEFINE n == Len(payload)
            header == <<Low(n), High(n), Low(id), High(id), 0, 0>>
            front == StartBytes \o header
            body == front \o payload
<1>1. n \in Nat /\ id \in Nat
  BY LenProperties DEF Known, PayloadLength, PROTOCOL_VERSION, SPEED_OF_SOUND, RANGE, MODE_AUTO,
        PING_INTERVAL, GAIN_SETTING, GENERAL_INFO, DISTANCE_SIMPLE
<1>2. header \in Seq(Byte)
  <2>1. Low(n) \in Byte /\ High(n) \in Byte /\ Low(id) \in Byte /\ High(id) \in Byte /\ 0 \in Byte
    <3>1. 0 \in Byte
      BY DEF Byte
    <3>. HIDE DEF n
    <3>. QED
      BY <1>1, <3>1, LowHigh
  <2>. QED
    BY <2>1
<1>3. /\ Len(header) = 6 /\ header[1] = Low(n) /\ header[2] = High(n)
      /\ header[3] = Low(id) /\ header[4] = High(id)
  OBVIOUS
<1>4. StartBytes \in Seq(Byte) /\ Len(StartBytes) = 2 /\ StartBytes[1] = 66 /\ StartBytes[2] = 82
  BY DEF StartBytes, Byte
<1>. HIDE DEF header
<1>5. MadeOf(front, StartBytes, header)
  BY <1>2, <1>4, BothParts
<1>. HIDE DEF front
<1>6. front \in Seq(Byte) /\ Len(front) = 8
  BY <1>3, <1>4, <1>5 DEF MadeOf
<1>7. /\ front[1] = 66 /\ front[2] = 82 /\ front[3] = Low(n) /\ front[4] = High(n)
      /\ front[5] = Low(id) /\ front[6] = High(id)
  <2>1. /\ \A i \in 1..2 : front[i] = StartBytes[i]
        /\ \A i \in 1..6 : front[2 + i] = header[i]
    BY <1>3, <1>4, <1>5 DEF MadeOf
  <2>2. /\ front[1] = StartBytes[1] /\ front[2] = StartBytes[2]
        /\ front[2 + 1] = header[1] /\ front[2 + 2] = header[2]
        /\ front[2 + 3] = header[3] /\ front[2 + 4] = header[4]
    BY <2>1
  <2>. QED
    BY <1>3, <1>4, <2>2
<1>8. MadeOf(body, front, payload)
  BY <1>6, BothParts
<1>. HIDE DEF body
<1>9. /\ body \in Seq(Byte) /\ Len(body) = 8 + n
      /\ \A i \in 1..8 : body[i] = front[i]
      /\ \A i \in 1..n : body[8 + i] = payload[i]
  BY <1>6, <1>8 DEF MadeOf
<1>10. Body(id, payload) = body
  BY DEF Body, body, front, header
<1>. QED
  BY <1>7, <1>9, <1>10

LEMMA PackIs ==
  ASSUME NEW id \in Known, NEW payload \in Seq(Byte)
  PROVE  LET f == Pack(id, payload)
             n == Len(payload)
         IN /\ f \in Seq(Byte) /\ Len(f) = 10 + n
            /\ \A i \in 1 .. 8 + n : f[i] = Body(id, payload)[i]
            /\ f[9 + n] = Low(Sum(id, payload)) /\ f[10 + n] = High(Sum(id, payload))
<1>. DEFINE n == Len(payload)
            body == Body(id, payload)
            sum == Sum(id, payload)
            tail == <<Low(sum), High(sum)>>
<1>1. n \in Nat /\ body \in Seq(Byte) /\ Len(body) = 8 + n
  BY BodyIs
<1>2. sum \in Nat
  <2>1. Checksum(body) \in Nat
    BY <1>1, ChecksumIs
  <2>. QED
    BY <2>1 DEF Sum
<1>. HIDE DEF body, sum, n
<1>3. tail \in Seq(Byte)
  <2>1. Low(sum) \in Byte /\ High(sum) \in Byte
    BY <1>2, LowHigh
  <2>. QED
    BY <2>1
<1>4. Len(tail) = 2 /\ tail[1] = Low(sum) /\ tail[2] = High(sum)
  OBVIOUS
<1>5. Pack(id, payload) = body \o tail
  BY DEF Pack, body, sum, Sum, Body
<1>. HIDE DEF tail
<1>. DEFINE f == body \o tail
<1>6. MadeOf(f, body, tail)
  BY <1>1, <1>3, BothParts
<1>. HIDE DEF f
<1>7. /\ f \in Seq(Byte) /\ Len(f) = 8 + n + 2
      /\ \A i \in 1 .. 8 + n : f[i] = body[i]
      /\ \A i \in 1..2 : f[8 + n + i] = tail[i]
  BY <1>1, <1>4, <1>6 DEF MadeOf
<1>8. f[9 + n] = tail[1] /\ f[10 + n] = tail[2] /\ Len(f) = 10 + n
  <2>1. f[8 + n + 1] = tail[1] /\ f[8 + n + 2] = tail[2]
    BY <1>7
  <2>2. 8 + n + 1 = 9 + n /\ 8 + n + 2 = 10 + n
    BY <1>1
  <2>. QED
    BY <1>7, <2>1, <2>2
<1>. QED
  BY <1>4, <1>5, <1>7, <1>8 DEF n, body, sum, f

(* 16-bit numbers survive their two bytes.                                 *)
LEMMA TwoBytes ==
  ASSUME NEW n \in Nat, n < 65536
  PROVE  Low(n) + 256 * High(n) = n
BY DEF Low, High

LEMMA FrameIs ==
  ASSUME NEW id \in Known, NEW payload \in Seq(Byte), Len(payload) < 65536
  PROVE  LET f == Pack(id, payload)
             n == Len(payload)
         IN /\ f[1] = 66 /\ f[2] = 82 /\ f[3] = Low(n) /\ f[4] = High(n)
            /\ Number(f, 3) = n /\ Number(f, 5) = id /\ Number(f, 9 + n) = Sum(id, payload)
            /\ SubSeq(f, 1, 8 + n) = Body(id, payload)
            /\ SubSeq(f, 9, 8 + n) = payload
<1>. DEFINE n == Len(payload)
            f == Pack(id, payload)
            body == Body(id, payload)
            sum == Sum(id, payload)
<1>1. n \in Nat /\ n < 65536 /\ id \in Nat /\ id < 65536
  BY LenProperties DEF Known, PayloadLength, PROTOCOL_VERSION, SPEED_OF_SOUND, RANGE, MODE_AUTO,
        PING_INTERVAL, GAIN_SETTING, GENERAL_INFO, DISTANCE_SIMPLE
<1>2. /\ body \in Seq(Byte) /\ Len(body) = 8 + n
      /\ body[1] = 66 /\ body[2] = 82 /\ body[3] = Low(n) /\ body[4] = High(n)
      /\ body[5] = Low(id) /\ body[6] = High(id)
      /\ \A i \in 1..n : body[8 + i] = payload[i]
  BY BodyIs
<1>3. /\ f \in Seq(Byte) /\ Len(f) = 10 + n
      /\ \A i \in 1 .. 8 + n : f[i] = body[i]
      /\ f[9 + n] = Low(sum) /\ f[10 + n] = High(sum)
  BY PackIs
<1>4. sum \in Nat /\ sum < 65536
  <2>1. Checksum(body) \in Nat /\ Checksum(body) < 65536
    <3>. HIDE DEF body
    <3>. QED
      BY <1>2, ChecksumIs
  <2>. QED
    BY <2>1 DEF Sum
<1>. HIDE DEF n, f, body, sum
<1>5. /\ f[1] = 66 /\ f[2] = 82 /\ f[3] = Low(n) /\ f[4] = High(n)
      /\ f[5] = Low(id) /\ f[6] = High(id)
  BY <1>1, <1>2, <1>3
<1>6. Number(f, 3) = n /\ Number(f, 5) = id /\ Number(f, 9 + n) = sum
  <2>1. Number(f, 3) = f[3] + 256 * f[4] /\ Number(f, 5) = f[5] + 256 * f[6]
    BY DEF Number
  <2>2. Number(f, 9 + n) = f[9 + n] + 256 * f[10 + n]
    <3>1. 9 + n + 1 = 10 + n
      BY <1>1
    <3>. QED
      BY <3>1 DEF Number
  <2>3. \A m \in Nat : m < 65536 => Low(m) + 256 * High(m) = m
    BY TwoBytes
  <2>. QED
    BY <1>1, <1>3, <1>4, <1>5, <2>1, <2>2, <2>3
<1>7. SubSeq(f, 1, 8 + n) = body
  <2>. DEFINE front == SubSeq(f, 1, 8 + n)
  <2>1. front \in Seq(Byte) /\ Len(front) = 8 + n /\ \A i \in 1 .. 8 + n : front[i] = f[i]
    BY <1>1, <1>3
  <2>. HIDE DEF front
  <2>2. Len(front) = Len(body) /\ \A i \in 1..Len(front) : front[i] = body[i]
    BY <1>2, <1>3, <2>1
  <2>3. front = body
    BY <1>2, <2>1, <2>2, SeqEqual
  <2>. QED
    BY <2>3 DEF front
<1>8. SubSeq(f, 9, 8 + n) = payload
  <2>. DEFINE middle == SubSeq(f, 9, 8 + n)
  <2>1. middle \in Seq(Byte) /\ Len(middle) = n /\ \A i \in 1..n : middle[i] = f[8 + i]
    BY <1>1, <1>3
  <2>. HIDE DEF middle
  <2>2. \A i \in 1..n : middle[i] = payload[i]
    BY <1>1, <1>2, <1>3, <2>1
  <2>3. middle = payload
    BY <2>1, <2>2, SeqEqual DEF n
  <2>. QED
    BY <2>3 DEF middle
<1>. QED
  BY <1>5, <1>6, <1>7, <1>8 DEF n, f, body, sum

(* A frame is unpacked to what was packed, and its checksum is right.      *)
LEMMA UnpackIs ==
  ASSUME NEW f, NEW n \in Nat, NEW id \in Known, NEW payload, NEW sum,
         Number(f, 3) = n, Number(f, 5) = id, Number(f, 9 + n) = sum,
         SubSeq(f, 9, 8 + n) = payload
  PROVE  Unpack(f) = [id |-> id, payload |-> payload, checksum |-> sum]
<1>1. Number(f, HeaderLength + Number(f, 3) + 1) = sum
  <2>1. HeaderLength + Number(f, 3) + 1 = 9 + n
    BY DEF HeaderLength
  <2>. QED
    BY <2>1
<1>2. SubSeq(f, HeaderLength + 1, HeaderLength + Number(f, 3)) = payload
  BY DEF HeaderLength
<1>. QED
  BY <1>1, <1>2 DEF Unpack

LEMMA VerifyIs ==
  ASSUME NEW f, NEW n \in Nat, NEW body, Number(f, 3) = n, SubSeq(f, 1, 8 + n) = body,
         Unpack(f).checksum = Checksum(body)
  PROVE  VerifyChecksum(f)
<1>1. SubSeq(f, 1, HeaderLength + Number(f, 3)) = body
  BY DEF HeaderLength
<1>. QED
  BY <1>1 DEF VerifyChecksum

LEMMA UnpacksWhatWasPacked ==
  ASSUME NEW id \in Known, NEW payload \in Seq(Byte), Len(payload) < 65536
  PROVE  /\ Unpack(Pack(id, payload)) =
              [id |-> id, payload |-> payload, checksum |-> Sum(id, payload)]
         /\ VerifyChecksum(Pack(id, payload))
<1>. DEFINE n == Len(payload)
            f == Pack(id, payload)
            sum == Sum(id, payload)
            body == Body(id, payload)
<1>1. /\ Number(f, 3) = n /\ Number(f, 5) = id /\ Number(f, 9 + n) = sum
      /\ SubSeq(f, 1, 8 + n) = body
      /\ SubSeq(f, 9, 8 + n) = payload
  BY FrameIs
<1>2. n \in Nat
  BY LenProperties
<1>3. sum = Checksum(body)
  BY DEF Sum
<1>. HIDE DEF n, f, sum, body
<1>4. Unpack(f) = [id |-> id, payload |-> payload, checksum |-> sum]
  BY <1>1, <1>2, UnpackIs
<1>5. VerifyChecksum(f)
  BY <1>1, <1>2, <1>3, <1>4, VerifyIs
<1>. QED
  BY <1>4, <1>5 DEF f, sum

(* The parser after k bytes of a frame whose payload has n.                *)
StateAt(k, n) == IF k < 8 THEN k + 1 ELSE IF k < 8 + n THEN 9 ELSE k + 2 - n
LeftAt(k, n) ==
  IF k < 3 THEN 0 ELSE IF k = 3 THEN Low(n) ELSE IF k < 8 THEN n
  ELSE IF k < 8 + n THEN 8 + n - k ELSE 0

LEMMA FrameAdvances ==
  ASSUME NEW n \in Nat, n < 65536, NEW k \in 0 .. 8 + n, NEW b,
         k = 2 => b = Low(n), k = 3 => b = High(n)
  PROVE  /\ StateAt(k, n) \in 1..10
         /\ (StateAt(k, n) = 1) = (k = 0) /\ (StateAt(k, n) = 2) = (k = 1)
         /\ StateAfter(StateAt(k, n), LeftAt(k, n)) = StateAt(k + 1, n)
         /\ LeftAfter(StateAt(k, n), LeftAt(k, n), b) = LeftAt(k + 1, n)
<1>1. Low(n) + 256 * High(n) = n
  BY TwoBytes
<1>. USE DEF StateAt, LeftAt, StateAfter, LeftAfter
<1>2. CASE k \in {0, 1}
  BY <1>2
<1>3. CASE k = 2
  BY <1>3
<1>4. CASE k = 3
  BY <1>1, <1>4
<1>5. CASE k \in 4..6
  BY <1>5
<1>6. CASE k = 7
  BY <1>6
<1>7. CASE k >= 8 /\ k < 8 + n
  BY <1>7
<1>8. CASE k >= 8 /\ k = 8 + n
  BY <1>8
<1>. QED
  BY <1>2, <1>3, <1>4, <1>5, <1>6, <1>7, <1>8

LEMMA OneByteMore ==
  ASSUME NEW f \in Seq(Byte), NEW k \in 0 .. Len(f) - 1
  PROVE  Append(SubSeq(f, 1, k), f[k + 1]) = SubSeq(f, 1, k + 1)
<1>. DEFINE s == Append(SubSeq(f, 1, k), f[k + 1])
            t == SubSeq(f, 1, k + 1)
<1>1. Len(f) \in Nat /\ k \in Nat /\ k + 1 \in 1..Len(f)
  BY LenProperties
<1>2. /\ SubSeq(f, 1, k) \in Seq(Byte) /\ Len(SubSeq(f, 1, k)) = k
      /\ \A i \in 1..k : SubSeq(f, 1, k)[i] = f[i]
  BY <1>1
<1>3. f[k + 1] \in Byte
  BY <1>1, ElementOfSeq
<1>4. /\ s \in Seq(Byte) /\ Len(s) = k + 1
      /\ \A i \in 1..k : s[i] = f[i]
      /\ s[k + 1] = f[k + 1]
  <2>. DEFINE u == SubSeq(f, 1, k)
              b == f[k + 1]
  <2>1. /\ u \in Seq(Byte) /\ Len(u) = k /\ \A i \in 1..k : u[i] = f[i]
        /\ b \in Byte
    BY <1>2, <1>3
  <2>. HIDE DEF u, b
  <2>2. /\ Append(u, b) \in Seq(Byte) /\ Len(Append(u, b)) = Len(u) + 1
        /\ \A i \in 1..Len(u) : Append(u, b)[i] = u[i]
        /\ Append(u, b)[Len(u) + 1] = b
    BY <2>1, AppendProperties
  <2>. QED
    BY <2>1, <2>2 DEF u, b
<1>5. t \in Seq(Byte) /\ Len(t) = k + 1 /\ \A i \in 1 .. k + 1 : t[i] = f[i]
  BY <1>1
<1>. HIDE DEF s, t
<1>6. \A i \in 1 .. k + 1 : s[i] = t[i]
  <2>1. \A i \in 1 .. k + 1 : i \in 1..k \/ i = k + 1
    BY <1>1
  <2>. QED
    BY <1>4, <1>5, <2>1
<1>7. s = t
  BY <1>4, <1>5, <1>6, SeqEqual
<1>. QED
  BY <1>7 DEF s, t

(* One byte of a well formed frame, not the last, takes the parser on.     *)
LEMMA FrameStep ==
  ASSUME NEW n \in Nat, n < 65536, NEW f \in Seq(Byte), Len(f) = 10 + n,
         f[1] = 66, f[2] = 82, f[3] = Low(n), f[4] = High(n),
         NEW k \in 0 .. 8 + n, NEW p \in Parsers,
         IsParser(p, StateAt(k, n), SubSeq(f, 1, k), LeftAt(k, n))
  PROVE  /\ IsParser(ParseByte(p, f[k + 1]), StateAt(k + 1, n), SubSeq(f, 1, k + 1), LeftAt(k + 1, n))
         /\ ~NewMessage(p, f[k + 1])
<1>. DEFINE b == f[k + 1]
            s == StateAt(k, n)
            l == LeftAt(k, n)
            u == SubSeq(f, 1, k)
            v == SubSeq(f, 1, k + 1)
            s1 == StateAt(k + 1, n)
            l1 == LeftAt(k + 1, n)
<1>1. /\ k = 0 => b = 66
      /\ k = 1 => b = 82
      /\ k = 2 => b = Low(n)
      /\ k = 3 => b = High(n)
  OBVIOUS
<1>2. b \in Byte
  BY ElementOfSeq
<1>3. Append(u, b) = v
  <2>1. k \in 0 .. Len(f) - 1
    OBVIOUS
  <2>. QED
    BY <2>1, OneByteMore
<1>4. p.state = s /\ p.buf = u /\ p.left = l
  BY DEF IsParser
<1>5. /\ s \in 1..10 /\ (s = 1) = (k = 0) /\ (s = 2) = (k = 1)
      /\ StateAfter(s, l) = s1 /\ LeftAfter(s, l, b) = l1
  <2>. HIDE DEF b
  <2>. QED
    BY <1>1, FrameAdvances
<1>. HIDE DEF b, s, l, u, v, s1, l1
<1>6. (s = 1 => b = 66) /\ (s = 2 => b = 82)
  BY <1>1, <1>5
<1>7. IsParser(ParseByte(p, b), StateAfter(s, l), Append(u, b), LeftAfter(s, l, b))
  BY <1>2, <1>4, <1>5, <1>6, ParseByteMoves
<1>8. IsParser(ParseByte(p, b), s1, v, l1)
  BY <1>3, <1>5, <1>7
<1>9. ~NewMessage(p, b)
  BY <1>4, <1>5 DEF NewMessage, WAIT_CHECKSUM_H
<1>. QED
  BY <1>8, <1>9 DEF b, s, l, u, v, s1, l1

(* The result after k bytes of the frame f, whose payload has n bytes:     *)
(* nothing yet, and the parser as far as it should be.                     *)
Underway(x, f, n, k) ==
  /\ x.messages = {}
  /\ x.parser \in Parsers
  /\ IsParser(x.parser, StateAt(k, n), SubSeq(f, 1, k), LeftAt(k, n))

LEMMA UnderwayStep ==
  ASSUME NEW n \in Nat, n < 65536, NEW f \in Seq(Byte), Len(f) = 10 + n,
         f[1] = 66, f[2] = 82, f[3] = Low(n), f[4] = High(n),
         NEW k \in 0 .. 8 + n, NEW x \in Parsed, Underway(x, f, n, k)
  PROVE  Underway(ParseNext(x, f[k + 1]), f, n, k + 1)
<1>. DEFINE p == x.parser
            b == f[k + 1]
            y == ParseNext(x, b)
<1>1. p \in Parsers /\ x.messages = {} /\ IsParser(p, StateAt(k, n), SubSeq(f, 1, k), LeftAt(k, n))
  BY DEF Underway
<1>2. b \in Byte
  BY ElementOfSeq
<1>3. /\ IsParser(ParseByte(p, b), StateAt(k + 1, n), SubSeq(f, 1, k + 1), LeftAt(k + 1, n))
      /\ ~NewMessage(p, b)
  <2>. HIDE DEF p
  <2>. QED
    BY <1>1, FrameStep
<1>4. y.parser = ParseByte(p, b) /\ y.messages = {}
  BY <1>1, <1>3 DEF ParseNext
<1>5. ParseByte(p, b) \in Parsers
  <2>. HIDE DEF p, b
  <2>. QED
    BY <1>1, <1>2, ParseByteStays
<1>. HIDE DEF y, p
<1>6. Underway(y, f, n, k + 1)
  BY <1>3, <1>4, <1>5 DEF Underway
<1>. QED
  BY <1>6 DEF y

LEMMA LastByte ==
  ASSUME NEW n \in Nat, NEW f \in Seq(Byte), Len(f) = 10 + n,
         NEW k \in Nat, k = 9 + n, NEW x \in Parsed, Underway(x, f, n, k)
  PROVE  ParseNext(x, f[k + 1]) =
           [parser |-> NewParser, rest |-> <<>>,
            messages |-> IF VerifyChecksum(f) THEN {Unpack(f)} ELSE {}]
<1>. DEFINE p == x.parser
            b == f[k + 1]
            u == SubSeq(f, 1, k)
<1>1. x.messages = {} /\ IsParser(p, StateAt(k, n), u, LeftAt(k, n))
  BY DEF Underway
<1>2. StateAt(k, n) = 11
  BY DEF StateAt
<1>3. p.state = 11 /\ p.buf = u
  BY <1>1, <1>2 DEF IsParser
<1>4. Append(u, b) = f
  <2>1. k \in 0 .. Len(f) - 1 /\ k + 1 = Len(f)
    OBVIOUS
  <2>2. Append(u, b) = SubSeq(f, 1, Len(f))
    BY <2>1, OneByteMore
  <2>3. SubSeq(f, 1, Len(f)) = f
    BY SubSeqFull
  <2>. QED
    BY <2>2, <2>3
<1>5. ParseNext(x, b) = [parser |-> ParseByte(p, b), rest |-> <<>>,
                         messages |-> IF NewMessage(p, b) THEN {Unpack(Append(p.buf, b))} ELSE {}]
  BY <1>1 DEF ParseNext
<1>. HIDE DEF p, b, u
<1>6. ParseByte(p, b) = NewParser
  BY <1>3, ParseByteIs
<1>7. NewMessage(p, b) <=> VerifyChecksum(f)
  BY <1>3, <1>4 DEF NewMessage, WAIT_CHECKSUM_H
<1>8. Append(p.buf, b) = f
  BY <1>3, <1>4
<1>9. ParseNext(x, b) = [parser |-> NewParser, rest |-> <<>>,
                         messages |-> IF VerifyChecksum(f) THEN {Unpack(f)} ELSE {}]
  BY <1>5, <1>6, <1>7, <1>8
<1>. QED
  BY <1>9 DEF b

(* A frame that starts as it should and is as long as it says is taken     *)
(* whole: it gives its message with its last byte, or none if the checksum *)
(* is wrong.                                                               *)
LEMMA FrameParsed ==
  ASSUME NEW n \in Nat, n < 65536, NEW f \in Seq(Byte), Len(f) = 10 + n,
         f[1] = 66, f[2] = 82, f[3] = Low(n), f[4] = High(n)
  PROVE  Parse(NewParser, f) =
           [parser |-> NewParser, rest |-> <<>>,
            messages |-> IF VerifyChecksum(f) THEN {Unpack(f)} ELSE {}]
<1>. DEFINE last == 9 + n
            result == [parser |-> NewParser, rest |-> <<>>,
                       messages |-> IF VerifyChecksum(f) THEN {Unpack(f)} ELSE {}]
<1>1. n \in Nat /\ n < 65536 /\ last \in Nat
  OBVIOUS
<1>2. /\ f \in Seq(Byte) /\ Len(f) = 10 + n
      /\ f[1] = 66 /\ f[2] = 82 /\ f[3] = Low(n) /\ f[4] = High(n)
  OBVIOUS
<1>3. PICK r : ByteByByte(NewParser, f, r)
  BY <1>2, NewParserStays, ParseRuns
<1>4. /\ r \in [0..Len(f) -> Parsed]
      /\ r[0] = [parser |-> NewParser, rest |-> <<>>, messages |-> {}]
      /\ \A k \in 1..Len(f) : r[k] = ParseNext(r[k - 1], f[k])
      /\ Parse(NewParser, f) = r[Len(f)]
  BY <1>3 DEF ByteByByte
<1>. DEFINE Reached == {k \in 0..last : Underway(r[k], f, n, k)}
<1>5. 0 \in Reached
  <2>1. r[0].messages = {} /\ r[0].parser = NewParser
    BY <1>4
  <2>2. StateAt(0, n) = 1 /\ LeftAt(0, n) = 0
    BY <1>1 DEF StateAt, LeftAt
  <2>3. SubSeq(f, 1, 0) = <<>>
    BY SubSeqEmpty
  <2>4. IsParser(NewParser, 1, <<>>, 0)
    BY DEF IsParser, NewParser, WAIT_START
  <2>5. Underway(r[0], f, n, 0)
    <3>. DEFINE x == r[0]
                s == StateAt(0, n)
                l == LeftAt(0, n)
                u == SubSeq(f, 1, 0)
    <3>1. IsParser(x.parser, s, u, l)
      <4>1. x.parser = NewParser /\ s = 1 /\ l = 0 /\ u = <<>>
        BY <2>1, <2>2, <2>3
      <4>. HIDE DEF x, s, l, u
      <4>. QED
        BY <2>4, <4>1
    <3>2. x.messages = {} /\ x.parser \in Parsers
      BY <2>1, NewParserStays
    <3>. HIDE DEF x
    <3>3. Underway(x, f, n, 0)
      BY <3>1, <3>2 DEF Underway
    <3>. QED
      BY <3>3 DEF x
  <2>. QED
    BY <1>1, <2>5
<1>6. ASSUME NEW j \in 1..last, j - 1 \in Reached
      PROVE  j \in Reached
  <2>. DEFINE k == j - 1
  <2>1. k \in 0 .. 8 + n /\ k \in 0..Len(f) /\ k + 1 = j /\ j \in 1..Len(f) /\ j \in 0..last
    BY <1>1, <1>2
  <2>2. Underway(r[k], f, n, k)
    BY <1>6
  <2>3. r[k] \in Parsed /\ r[j] = ParseNext(r[k], f[j])
    BY <1>4, <2>1
  <2>. HIDE DEF k
  <2>4. Underway(ParseNext(r[k], f[k + 1]), f, n, k + 1)
    BY <1>1, <1>2, <2>1, <2>2, <2>3, UnderwayStep
  <2>5. Underway(r[j], f, n, j)
    BY <2>1, <2>3, <2>4
  <2>. QED
    BY <2>1, <2>5
<1>7. Underway(r[last], f, n, last)
  <2>1. \A k \in 1..last : k - 1 \in Reached => k \in Reached
    BY <1>6
  <2>2. last \in Nat /\ 0 \in Reached
    BY <1>1, <1>5
  <2>. HIDE DEF last, Reached
  <2>3. last \in Reached
    BY <2>1, <2>2, CountedTo
  <2>. QED
    BY <2>3 DEF Reached
<1>8. r[Len(f)] = result
  <2>1. last \in 0..Len(f) /\ last + 1 = Len(f) /\ Len(f) \in 1..Len(f) /\ Len(f) - 1 = last
    BY <1>1, <1>2
  <2>2. last = 9 + n
    OBVIOUS
  <2>. HIDE DEF last
  <2>3. r[last] \in Parsed
    BY <1>4, <2>1
  <2>4. ParseNext(r[last], f[last + 1]) = result
    BY <1>1, <1>2, <1>7, <2>2, <2>3, LastByte
  <2>5. r[Len(f)] = ParseNext(r[last], f[last + 1])
    BY <1>4, <2>1
  <2>. QED
    BY <2>4, <2>5
<1>. HIDE DEF result
<1>9. Parse(NewParser, f) = result
  BY <1>4, <1>8
<1>. QED
  BY <1>9 DEF result

(* Whatever a message of at most 65535 bytes says, its frame is parsed to  *)
(* exactly that message, with its last byte and not before, and leaves the *)
(* parser ready for the next one: pack_msg_data, parse_byte and            *)
(* unpack_msg_data agree.                                                  *)
THEOREM FramesAreRead ==
  ASSUME NEW id \in Known, NEW payload \in Seq(Byte), Len(payload) < 65536
  PROVE  Parse(NewParser, Pack(id, payload)) =
           [parser |-> NewParser, rest |-> <<>>,
            messages |-> {[id |-> id, payload |-> payload, checksum |-> Sum(id, payload)]}]
<1>. DEFINE n == Len(payload)
            f == Pack(id, payload)
            m == [id |-> id, payload |-> payload, checksum |-> Sum(id, payload)]
<1>1. n \in Nat /\ n < 65536
  BY LenProperties
<1>2. /\ f \in Seq(Byte) /\ Len(f) = 10 + n
      /\ f[1] = 66 /\ f[2] = 82 /\ f[3] = Low(n) /\ f[4] = High(n)
  BY PackIs, FrameIs
<1>3. Unpack(f) = m /\ VerifyChecksum(f)
  BY UnpacksWhatWasPacked
<1>. HIDE DEF n, f, m
<1>4. Parse(NewParser, f) = [parser |-> NewParser, rest |-> <<>>,
                             messages |-> IF VerifyChecksum(f) THEN {Unpack(f)} ELSE {}]
  BY <1>1, <1>2, FrameParsed
<1>5. Parse(NewParser, f) = [parser |-> NewParser, rest |-> <<>>, messages |-> {m}]
  BY <1>3, <1>4
<1>. QED
  BY <1>5 DEF f, m

LEMMA VerifyTells ==
  ASSUME NEW g, NEW n \in Nat, Number(g, 3) = n, VerifyChecksum(g), Unpack(g).id \in Known
  PROVE  Number(g, 9 + n) = Checksum(SubSeq(g, 1, 8 + n))
<1>1. HeaderLength + Number(g, 3) + 1 = 9 + n /\ HeaderLength + Number(g, 3) = 8 + n
  BY DEF HeaderLength
<1>2. Unpack(g).id = Number(g, 5)
  BY DEF Unpack
<1>3. Unpack(g).checksum = Number(g, 9 + n)
  BY <1>1, <1>2 DEF Unpack
<1>. QED
  BY <1>1, <1>3 DEF VerifyChecksum

(* If one byte changes, the sum of a body and the one it carries do not    *)
(* change alike.                                                           *)
LEMMA FaultMakesADifference ==
  ASSUME NEW n \in Nat, NEW f \in Seq(Byte), NEW g \in Seq(Byte),
         Len(f) = 10 + n, Len(g) = 10 + n, NEW i \in 1 .. 10 + n, g[i] # f[i],
         \A k \in 1 .. 10 + n : k # i => g[k] = f[k],
         Number(f, 9 + n) = Checksum(SubSeq(f, 1, 8 + n))
  PROVE  Number(g, 9 + n) # Checksum(SubSeq(g, 1, 8 + n))
<1>. DEFINE s == SubSeq(f, 1, 8 + n)
            t == SubSeq(g, 1, 8 + n)
<1>1. /\ s \in Seq(Byte) /\ Len(s) = 8 + n /\ \A k \in 1 .. 8 + n : s[k] = f[k]
      /\ t \in Seq(Byte) /\ Len(t) = 8 + n /\ \A k \in 1 .. 8 + n : t[k] = g[k]
  OBVIOUS
<1>2. /\ Number(f, 9 + n) = f[9 + n] + 256 * f[10 + n]
      /\ Number(g, 9 + n) = g[9 + n] + 256 * g[10 + n]
  <2>1. 9 + n + 1 = 10 + n
    OBVIOUS
  <2>. QED
    BY <2>1 DEF Number
<1>3. Number(f, 9 + n) = Checksum(s)
  OBVIOUS
<1>. HIDE DEF s, t
<1>4. CASE i \in 1 .. 8 + n
  <2>1. Checksum(s) # Checksum(t)
    <3>1. s[i] # t[i] /\ \A k \in 1 .. 8 + n : k # i => s[k] = t[k]
      BY <1>1, <1>4
    <3>. QED
      BY <1>1, <1>4, <3>1, OtherByteOtherSum
  <2>2. g[9 + n] = f[9 + n] /\ g[10 + n] = f[10 + n]
    <3>1. 9 + n \in 1 .. 10 + n /\ 10 + n \in 1 .. 10 + n /\ 9 + n # i /\ 10 + n # i
      BY <1>4
    <3>. QED
      BY <3>1
  <2>. QED
    BY <1>2, <1>3, <2>1, <2>2 DEF t
<1>5. CASE i \in 9 + n .. 10 + n
  <2>1. t = s
    <3>1. \A k \in 1 .. 8 + n : t[k] = s[k]
      BY <1>1, <1>5
    <3>. QED
      BY <1>1, <3>1, SeqEqual
  <2>. DEFINE a == f[9 + n]
              b == f[10 + n]
              c == g[9 + n]
              d == g[10 + n]
  <2>2. a \in 0..255 /\ b \in 0..255 /\ c \in 0..255 /\ d \in 0..255
    <3>1. 9 + n \in 1 .. 10 + n /\ 10 + n \in 1 .. 10 + n
      OBVIOUS
    <3>. QED
      BY <3>1, ElementOfSeq DEF Byte
  <2>3. (a = c /\ b # d) \/ (a # c /\ b = d)
    <3>1. CASE i = 9 + n
      <4>1. 10 + n \in 1 .. 10 + n /\ 10 + n # i
        BY <3>1
      <4>. QED
        BY <3>1, <4>1
    <3>2. CASE i = 10 + n
      <4>1. 9 + n \in 1 .. 10 + n /\ 9 + n # i
        BY <3>2
      <4>. QED
        BY <3>2, <4>1
    <3>. QED
      BY <1>5, <3>1, <3>2
  <2>4. Number(f, 9 + n) = a + 256 * b /\ Number(g, 9 + n) = c + 256 * d
    BY <1>2
  <2>. HIDE DEF a, b, c, d
  <2>5. a + 256 * b # c + 256 * d
    <3>1. CASE a = c /\ b # d
      BY <2>2, <3>1
    <3>2. CASE a # c /\ b = d
      BY <2>2, <3>2
    <3>. QED
      BY <2>3, <3>1, <3>2
  <2>. QED
    BY <1>3, <2>1, <2>4, <2>5 DEF t
<1>. QED
  BY <1>4, <1>5

Changed(f, i, b) == [f EXCEPT ![i] = b]

(* A frame on which one byte after the length has changed is not taken for *)
(* another message: the checksum is wrong, or the id is one that nobody    *)
(* knows, and the parser is ready for the next frame.                      *)
THEOREM OneFaultIsNoticed ==
  ASSUME NEW id \in Known, NEW payload \in Seq(Byte), Len(payload) < 65536,
         NEW i \in 5 .. 10 + Len(payload), NEW b \in Byte, b # Pack(id, payload)[i]
  PROVE  LET result == Parse(NewParser, Changed(Pack(id, payload), i, b))
         IN /\ result.parser = NewParser /\ result.rest = <<>>
            /\ \A m \in result.messages : m.id \notin Known
<1>. DEFINE n == Len(payload)
            f == Pack(id, payload)
            g == Changed(f, i, b)
<1>1. n \in Nat /\ n < 65536 /\ i \in 5 .. 10 + n
  BY LenProperties
<1>2. /\ f \in Seq(Byte) /\ Len(f) = 10 + n
      /\ f[1] = 66 /\ f[2] = 82 /\ f[3] = Low(n) /\ f[4] = High(n)
      /\ Number(f, 3) = n /\ Number(f, 9 + n) = Sum(id, payload)
      /\ SubSeq(f, 1, 8 + n) = Body(id, payload)
  BY PackIs, FrameIs
<1>3. b # f[i]
  OBVIOUS
<1>. HIDE DEF n, f
<1>4. Number(f, 9 + n) = Checksum(SubSeq(f, 1, 8 + n))
  <2>. DEFINE x == Number(f, 9 + n)
              s == SubSeq(f, 1, 8 + n)
  <2>1. x = Sum(id, payload) /\ s = Body(id, payload)
    BY <1>2
  <2>. HIDE DEF x, s
  <2>2. x = Checksum(s)
    BY <2>1 DEF Sum
  <2>. QED
    BY <2>2 DEF x, s
<1>5. /\ g \in Seq(Byte) /\ Len(g) = 10 + n /\ g[i] = b
      /\ \A k \in 1 .. 10 + n : k # i => g[k] = f[k]
  BY <1>1, <1>2, ExceptSeq DEF Changed
<1>. HIDE DEF g
<1>6. g[1] = 66 /\ g[2] = 82 /\ g[3] = Low(n) /\ g[4] = High(n) /\ Number(g, 3) = n
  BY <1>1, <1>2, <1>5 DEF Number
<1>7. VerifyChecksum(g) => Unpack(g).id \notin Known
  <2>1. SUFFICES ASSUME VerifyChecksum(g), Unpack(g).id \in Known PROVE FALSE
    OBVIOUS
  <2>2. Number(g, 9 + n) = Checksum(SubSeq(g, 1, 8 + n))
    BY <1>1, <1>6, <2>1, VerifyTells
  <2>3. i \in 1 .. 10 + n /\ g[i] # f[i]
    BY <1>1, <1>3, <1>5
  <2>. QED
    BY <1>1, <1>2, <1>4, <1>5, <2>2, <2>3, FaultMakesADifference, SMTT(30)
<1>8. Parse(NewParser, g) = [parser |-> NewParser, rest |-> <<>>,
                             messages |-> IF VerifyChecksum(g) THEN {Unpack(g)} ELSE {}]
  BY <1>1, <1>5, <1>6, FrameParsed
<1>9. /\ Parse(NewParser, g).parser = NewParser /\ Parse(NewParser, g).rest = <<>>
      /\ \A m \in Parse(NewParser, g).messages : m.id \notin Known
  BY <1>7, <1>8
<1>. QED
  BY <1>9 DEF g, f

-----------------------------------------------------------------------------
(* Smoothing in f_cam_node: what it makes of detections above the          *)
(* threshold.                                                              *)
Sure == MinConfidence..100
Sources ==
  {"blue_screen_gate", "split_leg_pair", "checkerboard_4sq", "red_black_outer_panel_pair",
   "marker", "yolo"}
SureDetections == [class : Classes, confidence : Sure, x2 : Int, source : Sources]
Smoothed == [tracker : [Classes -> {0} \cup Sure], detections : Seq(SureDetections)]

LEMMA MeanIsSure ==
  ASSUME NEW x \in Sure, NEW y \in Sure
  PROVE  (Alpha * x + (100 - Alpha) * y) \div 100 \in Sure
<1>1. Alpha \in 0..100 /\ MinConfidence \in 0..100
  BY FrontCameraAssumption, GateVisionAssumption
<1>. DEFINE beta == 100 - Alpha
<1>2. /\ Alpha \in Nat /\ beta \in Nat /\ Alpha + beta = 100
      /\ x \in Nat /\ y \in Nat /\ MinConfidence \in Nat
      /\ MinConfidence <= x /\ x <= 100 /\ MinConfidence <= y /\ y <= 100
  BY <1>1 DEF Sure
<1>. HIDE DEF beta
<1>3. ASSUME NEW a \in Nat, NEW u \in Nat, NEW v \in Nat, u <= v
      PROVE  a * u <= a * v
  <2>1. PICK d \in Nat : v = u + d
    <3>1. v - u \in Nat /\ v = u + (v - u)
      BY <1>3
    <3>. QED
      BY <3>1
  <2>2. a * v = a * u + a * d /\ a * d \in Nat /\ a * u \in Nat
    BY <2>1
  <2>. QED
    BY <2>2
<1>4. /\ Alpha * MinConfidence <= Alpha * x /\ Alpha * x <= Alpha * 100
      /\ beta * MinConfidence <= beta * y /\ beta * y <= beta * 100
  BY <1>2, <1>3
<1>5. Alpha * MinConfidence + beta * MinConfidence = 100 * MinConfidence
  <2>1. Alpha * MinConfidence + beta * MinConfidence = (Alpha + beta) * MinConfidence
    BY <1>2
  <2>. QED
    BY <1>2, <2>1
<1>6. Alpha * x \in Nat /\ beta * y \in Nat /\ Alpha * MinConfidence \in Nat /\ beta * MinConfidence \in Nat
  BY <1>2
<1>. DEFINE s == Alpha * x + beta * y
<1>7. s \in Nat /\ 100 * MinConfidence <= s /\ s <= 10000
  BY <1>2, <1>4, <1>5, <1>6
<1>. HIDE DEF s
<1>8. s \div 100 \in MinConfidence..100
  BY <1>2, <1>7
<1>. QED
  BY <1>8 DEF s, beta, Sure

LEMMA SmoothStays ==
  ASSUME NEW s \in Smoothed, NEW d \in SureDetections
  PROVE  Smooth(s, d) \in Smoothed
<1>. DEFINE old == s.tracker[d.class]
            c == IF old = 0 THEN d.confidence ELSE (Alpha * d.confidence + (100 - Alpha) * old) \div 100
<1>1. /\ s.tracker \in [Classes -> {0} \cup Sure] /\ s.detections \in Seq(SureDetections)
      /\ d.class \in Classes /\ d.confidence \in Sure /\ old \in {0} \cup Sure
  BY DEF Smoothed, SureDetections
<1>2. c \in Sure
  <2>1. CASE old = 0
    BY <1>1, <2>1
  <2>2. CASE old # 0
    <3>. HIDE DEF old
    <3>1. old \in Sure
      BY <1>1, <2>2
    <3>2. (Alpha * d.confidence + (100 - Alpha) * old) \div 100 \in Sure
      BY <1>1, <3>1, MeanIsSure
    <3>. QED
      BY <2>2, <3>2
  <2>. QED
    BY <2>1, <2>2
<1>3. Smooth(s, d) = [tracker |-> [s.tracker EXCEPT ![d.class] = c],
                      detections |-> Append(s.detections, [d EXCEPT !.confidence = c])]
  BY DEF Smooth
<1>. HIDE DEF c, old
<1>. DEFINE t == [s.tracker EXCEPT ![d.class] = c]
            e == [d EXCEPT !.confidence = c]
<1>4. t \in [Classes -> {0} \cup Sure]
  BY <1>1, <1>2
<1>5. e \in SureDetections
  BY <1>1, <1>2 DEF SureDetections
<1>. HIDE DEF t, e
<1>6. Append(s.detections, e) \in Seq(SureDetections)
  BY <1>1, <1>5, AppendProperties
<1>. QED
  BY <1>3, <1>4, <1>6 DEF Smoothed, t, e

SmoothBy(s, h, start) ==
  [t \in SUBSET DOMAIN s |-> IF t = {} THEN start ELSE Smooth(h[t \ {Max(t)}], s[Max(t)])]

LEMMA SmoothExists ==
  ASSUME NEW start \in Smoothed, NEW s \in Seq(SureDetections)
  PROVE  \E h : h = SmoothBy(s, h, start)
<1>. DEFINE n == Len(s)
            g == [x \in Smoothed \X (1..n) |-> Smooth(x[1], s[x[2]])]
<1>1. n \in Nat /\ DOMAIN s = 1..n
  BY LenProperties
<1>2. g \in [Smoothed \X (1..n) -> Smoothed]
  <2>1. \A i \in 1..n : s[i] \in SureDetections
    BY ElementOfSeq
  <2>2. \A r \in Smoothed, d \in SureDetections : Smooth(r, d) \in Smoothed
    BY SmoothStays
  <2>. QED
    BY <2>1, <2>2
<1>. HIDE DEF n
<1>3. PICK h \in [SUBSET (1..n) -> Smoothed] : Folded(h, start, g, n)
  <2>. HIDE DEF g
  <2>. QED
    BY <1>1, <1>2, FoldExists
<1>4. ASSUME NEW t \in SUBSET (1..n)
      PROVE  h[t] = IF t = {} THEN start ELSE Smooth(h[t \ {Max(t)}], s[Max(t)])
  <2>1. CASE t = {}
    BY <1>3, <2>1 DEF Folded
  <2>2. CASE t # {}
    <3>1. Max(t) \in 1..n /\ h[t \ {Max(t)}] \in Smoothed
      BY <1>1, <2>2, MaxIn
    <3>2. h[t] = g[<<h[t \ {Max(t)}], Max(t)>>]
      BY <1>3, <2>2 DEF Folded
    <3>. QED
      BY <2>2, <3>1, <3>2
  <2>. QED
    BY <2>1, <2>2
<1>. HIDE DEF g
<1>5. h = [t \in SUBSET (1..n) |-> IF t = {} THEN start ELSE Smooth(h[t \ {Max(t)}], s[Max(t)])]
  BY <1>4
<1>. QED
  BY <1>1, <1>5 DEF SmoothBy

(* Smoothing keeps to the threshold, one detection for each, in the place  *)
(* where it was seen and of the detector that saw it.                      *)
Alike(d, e) == d.x2 = e.x2 /\ d.source = e.source

SmoothOf(r, s, k) ==
  /\ r \in Smoothed /\ Len(r.detections) = k
  /\ \A i \in 1..k : Alike(r.detections[i], s[i])

LEMMA SmoothOneMore ==
  ASSUME NEW s \in Seq(SureDetections), NEW k \in 1..Len(s), NEW r, SmoothOf(r, s, k - 1)
  PROVE  SmoothOf(Smooth(r, s[k]), s, k)
<1>. DEFINE d == s[k]
            old == r.tracker[d.class]
            c == IF old = 0 THEN d.confidence ELSE (Alpha * d.confidence + (100 - Alpha) * old) \div 100
            e == [d EXCEPT !.confidence = c]
            ds == r.detections
<1>1. Len(s) \in Nat
  BY LenProperties
<1>2. d \in SureDetections /\ r \in Smoothed /\ ds \in Seq(SureDetections) /\ Len(ds) = k - 1
  BY ElementOfSeq DEF SmoothOf, Smoothed
<1>3. Smooth(r, d) \in Smoothed
  BY <1>2, SmoothStays
<1>4. Smooth(r, d).detections = Append(ds, e)
  BY DEF Smooth
<1>5. Alike(e, d)
  <2>. HIDE DEF c, d
  <2>. QED
    BY <1>2 DEF Alike, SureDetections
<1>6. \A i \in 1 .. k - 1 : Alike(ds[i], s[i])
  BY DEF SmoothOf
<1>. HIDE DEF d, e, ds
<1>7. /\ Len(Append(ds, e)) = Len(ds) + 1
      /\ \A i \in 1..Len(ds) : Append(ds, e)[i] = ds[i]
      /\ Append(ds, e)[Len(ds) + 1] = e
  BY <1>2
<1>8. Len(Append(ds, e)) = k /\ \A i \in 1..k : Alike(Append(ds, e)[i], s[i])
  <2>1. ASSUME NEW i \in 1..k
        PROVE  Alike(Append(ds, e)[i], s[i])
    <3>1. CASE i = k
      BY <1>1, <1>2, <1>5, <1>7, <3>1 DEF d
    <3>2. CASE i # k
      <4>1. i \in 1 .. k - 1
        BY <1>1, <3>2
      <4>. QED
        BY <1>2, <1>6, <1>7, <4>1
    <3>. QED
      BY <3>1, <3>2
  <2>. QED
    BY <1>1, <1>2, <1>7, <2>1
<1>. QED
  BY <1>3, <1>4, <1>8 DEF SmoothOf, d

LEMMA SmoothRuns ==
  ASSUME NEW old \in [Classes -> {0} \cup Sure], NEW s \in Seq(SureDetections)
  PROVE  SmoothOf(FoldLeft(Smooth, [tracker |-> old, detections |-> <<>>], s), s, Len(s))
<1>. DEFINE start == [tracker |-> old, detections |-> <<>>]
            result == FoldLeft(Smooth, start, s)
            H == CHOOSE h : h = SmoothBy(s, h, start)
            n == Len(s)
            Done == {k \in 0..n : SmoothOf(H[1..k], s, k)}
<1>1. n \in Nat /\ DOMAIN s = 1..n
  BY LenProperties
<1>2. start \in Smoothed /\ Len(start.detections) = 0
  <2>1. start.tracker = old /\ start.detections = <<>>
    OBVIOUS
  <2>2. start \in Smoothed
    BY EmptySeq DEF Smoothed
  <2>. QED
    BY <2>1, <2>2, EmptySeq
<1>3. H = SmoothBy(s, H, start)
  <2>. DEFINE P(h) == h = SmoothBy(s, h, start)
  <2>. HIDE DEF start
  <2>1. \E h : P(h)
    BY <1>2, SmoothExists
  <2>. HIDE DEF P
  <2>2. P(CHOOSE h : P(h))
    BY <2>1, Zenon
  <2>. QED
    BY <2>2 DEF P
<1>4. result = H[DOMAIN s]
  BY DEF FoldLeft, MapThenFoldSet, SmoothBy
<1>. HIDE DEF H, start
<1>5. H[{}] = start
  BY <1>3 DEF SmoothBy
<1>6. \A k \in 1..n : s[k] \in SureDetections
  BY ElementOfSeq
<1>. HIDE DEF n
<1>7. \A k \in 1..n : H[1..k] = Smooth(H[1 .. k - 1], s[k])
  <2>1. SUFFICES ASSUME NEW k \in 1..n PROVE H[1..k] = Smooth(H[1 .. k - 1], s[k])
    OBVIOUS
  <2>2. 1..k \in SUBSET DOMAIN s /\ k \in Nat \ {0}
    BY <1>1
  <2>3. Max(1..k) = k /\ (1..k) \ {k} = 1 .. k - 1 /\ 1..k # {}
    BY <2>2, UpTo
  <2>4. 1..k # {} => H[1..k] = Smooth(H[(1..k) \ {Max(1..k)}], s[Max(1..k)])
    BY <1>3, <2>2 DEF SmoothBy
  <2>. QED
    BY <2>3, <2>4
<1>8. 0 \in Done
  <2>1. 1..0 = {}
    OBVIOUS
  <2>2. SmoothOf(start, s, 0)
    BY <1>2, <2>1 DEF SmoothOf
  <2>3. SmoothOf(H[1..0], s, 0)
    BY <1>5, <2>1, <2>2
  <2>. QED
    BY <1>1, <2>3
<1>9. ASSUME NEW k \in 1..n, k - 1 \in Done
      PROVE  k \in Done
  <2>1. SmoothOf(H[1 .. k - 1], s, k - 1)
    BY <1>9
  <2>2. SmoothOf(Smooth(H[1 .. k - 1], s[k]), s, k)
    BY <2>1, SmoothOneMore DEF n
  <2>3. H[1..k] = Smooth(H[1 .. k - 1], s[k])
    BY <1>7
  <2>4. SmoothOf(H[1..k], s, k)
    BY <2>2, <2>3
  <2>. QED
    BY <1>1, <2>4
<1>10. n \in Done
  <2>. HIDE DEF Done
  <2>. QED
    BY <1>1, <1>8, <1>9, CountedTo
<1>11. SmoothOf(H[1..n], s, n)
  BY <1>10
<1>. QED
  BY <1>1, <1>4, <1>11 DEF result, start, n

(* However long ago a class was seen and whatever smooth_alpha is: what    *)
(* SimpleTracker makes of detections above the threshold is above it, and  *)
(* so is what it will smooth the next ones against.  It is what            *)
(* StaysConfident asks of a callback whose detectors keep to the           *)
(* threshold.                                                              *)
THEOREM SmoothingKeepsConfidence ==
  ASSUME NEW old \in [Classes -> {0} \cup Sure], NEW s \in Seq(SureDetections)
  PROVE  LET result == FoldLeft(Smooth, [tracker |-> old, detections |-> <<>>], s)
         IN /\ result.tracker \in [Classes -> {0} \cup MinConfidence..100]
            /\ \A i \in DOMAIN result.detections :
                 result.detections[i].confidence \in MinConfidence..100
<1>. DEFINE result == FoldLeft(Smooth, [tracker |-> old, detections |-> <<>>], s)
<1>1. result \in Smoothed
  BY SmoothRuns DEF SmoothOf
<1>. HIDE DEF result
<1>2. result.tracker \in [Classes -> {0} \cup Sure] /\ result.detections \in Seq(SureDetections)
  BY <1>1 DEF Smoothed
<1>3. \A i \in DOMAIN result.detections : result.detections[i].confidence \in Sure
  <2>. DEFINE ds == result.detections
  <2>1. ds \in Seq(SureDetections)
    BY <1>2
  <2>. HIDE DEF ds
  <2>2. ASSUME NEW i \in DOMAIN ds
        PROVE  ds[i].confidence \in Sure
    <3>1. ds[i] \in SureDetections
      BY <2>1, LenProperties, ElementOfSeq
    <3>. QED
      BY <3>1 DEF SureDetections
  <2>. QED
    BY <2>2 DEF ds
<1>. QED
  BY <1>2, <1>3 DEF Sure, result

-----------------------------------------------------------------------------
(* prequal_cv.py: what the detectors make of an image, whatever is painted *)
(* on it.  Sets of boxes have a leftmost and a rightmost one because boxes *)
(* stand within the frame.                                                 *)
Boxes ==
  {b \in [x : Nat, y : Int, w : Nat, h : Int, area : Int] : Right(b) <= Width + 1}

LEMMA GreatestOf ==
  ASSUME NEW top \in Nat, NEW S, S # {}, NEW m, \A x \in S : m[x] \in 0..top
  PROVE  \E x \in S : \A y \in S : m[y] <= m[x]
<1>. DEFINE Below == {top - m[x] : x \in S}
<1>1. Below \in SUBSET Nat /\ Below # {}
  OBVIOUS
<1>2. PICK d \in Below : \A e \in Below : d <= e
  <2>. HIDE DEF Below
  <2>. QED
    BY <1>1, LeastOf
<1>3. PICK x \in S : d = top - m[x]
  OBVIOUS
<1>4. ASSUME NEW y \in S
      PROVE  m[y] <= m[x]
  <2>1. top - m[y] \in Below
    OBVIOUS
  <2>2. d <= top - m[y]
    <3>. HIDE DEF Below
    <3>. QED
      BY <1>2, <2>1
  <2>. QED
    BY <1>3, <2>2
<1>. QED
  BY <1>4

LEMMA SmallestOf ==
  ASSUME NEW S, S # {}, NEW m, \A x \in S : m[x] \in Nat
  PROVE  \E x \in S : \A y \in S : m[x] <= m[y]
<1>. DEFINE Values == {m[x] : x \in S}
<1>1. Values \in SUBSET Nat /\ Values # {}
  OBVIOUS
<1>2. PICK d \in Values : \A e \in Values : d <= e
  <2>. HIDE DEF Values
  <2>. QED
    BY <1>1, LeastOf
<1>3. PICK x \in S : d = m[x]
  OBVIOUS
<1>. QED
  BY <1>2, <1>3

LEMMA CentreIs ==
  ASSUME NEW b \in Boxes
  PROVE  /\ Centre2(b) \in 0 .. 2 * Width + 2
         /\ b.x \in Nat /\ Right(b) \in Nat /\ b.area \in Int /\ b.h \in Int /\ b.y \in Int
         /\ b.w \in Nat
<1>1. Width \in Nat
  BY GateVisionAssumption
<1>. QED
  BY <1>1 DEF Boxes, Centre2, Right

LEMMA LeftmostIs ==
  ASSUME NEW S \in SUBSET Boxes, S # {}
  PROVE  /\ Leftmost(S) \in S /\ \A c \in S : Centre2(Leftmost(S)) <= Centre2(c)
         /\ Rightmost(S) \in S /\ \A c \in S : Centre2(c) <= Centre2(Rightmost(S))
<1>. DEFINE m == [b \in S |-> Centre2(b)]
            top == 2 * Width + 2
<1>1. top \in Nat
  BY GateVisionAssumption
<1>2. \A b \in S : m[b] \in 0..top /\ m[b] = Centre2(b)
  BY CentreIs
<1>. HIDE DEF m, top
<1>3. \E b \in S : \A c \in S : m[b] <= m[c]
  <2>1. \A b \in S : m[b] \in Nat
    BY <1>1, <1>2
  <2>. QED
    BY <2>1, SmallestOf
<1>4. \E b \in S : \A c \in S : m[c] <= m[b]
  BY <1>1, <1>2, GreatestOf
<1>5. /\ \E b \in S : \A c \in S : Centre2(b) <= Centre2(c)
      /\ \E b \in S : \A c \in S : Centre2(c) <= Centre2(b)
  BY <1>2, <1>3, <1>4
<1>. QED
  BY <1>5 DEF Leftmost, Rightmost

LEMMA PaintedIs ==
  ASSUME NEW image
  PROVE  Painted(image) \in SUBSET (1..Width)
BY DEF Painted

(* A run has a first and a last column, in this order.                     *)
LEMMA RunsType ==
  ASSUME NEW columns \in SUBSET (1..Width), NEW r \in Runs(columns)
  PROVE  r[1] \in 1..Width /\ r[2] \in 1..Width /\ r[1] <= r[2] /\ r = <<r[1], r[2]>>
<1>. DEFINE lasts == {c \in columns : c + 1 \notin columns}
            From(a) == {b \in lasts : b >= a}
            LastFrom(a) == CHOOSE b \in lasts : b >= a /\ \A d \in lasts : d >= a => b <= d
<1>1. Width \in Nat
  BY GateVisionAssumption
<1>2. PICK a \in columns : r = <<a, LastFrom(a)>>
  BY DEF Runs
<1>3. a \in 1..Width /\ a \in Nat
  BY <1>1
<1>4. From(a) # {}
  <2>. DEFINE after == {c \in columns : c >= a}
              m == [c \in after |-> c]
  <2>1. a \in after /\ \A c \in after : m[c] \in 0..Width /\ m[c] = c
    BY <1>1, <1>3
  <2>. HIDE DEF m
  <2>2. PICK c \in after : \A d \in after : d <= c
    <3>. HIDE DEF after
    <3>1. after # {}
      BY <2>1
    <3>2. PICK c \in after : \A d \in after : m[d] <= m[c]
      BY <1>1, <2>1, <3>1, GreatestOf
    <3>. QED
      BY <2>1, <3>2
  <2>3. c + 1 \notin after
    BY <1>1, <2>2
  <2>4. c \in From(a)
    BY <1>1, <1>3, <2>2, <2>3
  <2>. QED
    BY <2>4
<1>5. PICK b \in From(a) : \A d \in From(a) : b <= d
  <2>1. From(a) \in SUBSET Nat
    <3>1. \A d \in From(a) : d \in 1..Width
      OBVIOUS
    <3>2. \A d \in 1..Width : d \in Nat
      BY <1>1
    <3>. HIDE DEF From
    <3>. QED
      BY <3>1, <3>2
  <2>. HIDE DEF From
  <2>. QED
    BY <1>4, <2>1, LeastOf
<1>6. LastFrom(a) \in lasts /\ LastFrom(a) >= a
  <2>1. b \in lasts /\ b >= a /\ \A d \in lasts : d >= a => b <= d
    BY <1>5
  <2>. HIDE DEF lasts
  <2>. QED
    BY <2>1
<1>. HIDE DEF LastFrom
<1>. QED
  BY <1>1, <1>2, <1>3, <1>6

(* What the contours give: as long as the frame is high at most, and an    *)
(* area that is within the frame's.                                        *)
FrameArea == Width * Height
Outlines == {b \in Boxes : b.area \in 0..FrameArea}

LEMMA AreaGrows ==
  ASSUME NEW a \in Nat, NEW u \in Nat, NEW v \in Nat, u <= v
  PROVE  u * a \in Nat /\ u * a <= v * a
<1>1. PICK d \in Nat : v = u + d
  <2>1. v - u \in Nat /\ v = u + (v - u)
    OBVIOUS
  <2>. QED
    BY <2>1
<1>2. v * a = u * a + d * a /\ d * a \in Nat /\ u * a \in Nat
  BY <1>1
<1>. QED
  BY <1>2

LEMMA BoxIs ==
  ASSUME NEW r1 \in 1..Width, NEW r2 \in 1..Width, r1 <= r2,
         NEW y \in Int, NEW h \in Int, NEW area \in 0..FrameArea
  PROVE  Box(r1, y, r2 - r1 + 1, h, area) \in Outlines
<1>. DEFINE w == r2 - r1 + 1
<1>1. Width \in Nat
  BY GateVisionAssumption
<1>2. r1 \in Nat /\ w \in Nat /\ r1 + w <= Width + 1
  BY <1>1
<1>3. FrameArea \in Nat
  BY GateVisionAssumption DEF FrameArea
<1>. HIDE DEF w
<1>4. Box(r1, y, w, h, area) \in Outlines
  BY <1>2, <1>3 DEF Box, Outlines, Boxes, Right
<1>. QED
  BY <1>4 DEF w

LEMMA ContoursAreOutlines ==
  ASSUME NEW image
  PROVE  ContourBoxes(image) \in SUBSET Outlines
<1>1. /\ Width \in Nat /\ Height \in Nat /\ HalfHeight \in Nat /\ HalfHeight <= Height
      /\ FrameArea = Width * Height /\ FrameArea \in Nat
  BY GateVisionAssumption DEF HalfHeight, FrameArea
<1>2. ASSUME NEW r \in Runs(Painted(image))
      PROVE  LET w == r[2] - r[1] + 1
                 gaps == Cardinality({c \in r[1]..r[2] : image.column[c] = "Twin"})
             IN /\ Box(r[1], 0, w, HalfHeight, w * HalfHeight) \in Outlines
                /\ Box(r[1], HalfHeight + 1, w, HalfHeight, w * HalfHeight) \in Outlines
                /\ Box(r[1], 0, w, Height, w * Height - gaps) \in Outlines
  <2>. DEFINE a == r[1]
              b == r[2]
              w == b - a + 1
              twins == {c \in a..b : image.column[c] = "Twin"}
              gaps == Cardinality(twins)
  <2>1. a \in 1..Width /\ b \in 1..Width /\ a <= b
    BY PaintedIs, RunsType
  <2>. HIDE DEF a, b
  <2>2. w \in Nat /\ w <= Width /\ a \in Int /\ b \in Int
    BY <1>1, <2>1
  <2>3. gaps \in Nat /\ gaps <= w
    <3>1. IsFiniteSet(a..b) /\ Cardinality(a..b) = w
      BY <2>1, <2>2, FS_Interval
    <3>2. IsFiniteSet(twins) /\ gaps <= Cardinality(a..b)
      BY <3>1, FS_Subset
    <3>3. gaps \in Nat
      BY <3>2, FS_CardinalityType
    <3>. QED
      BY <3>1, <3>2, <3>3
  <2>. HIDE DEF gaps, w
  <2>4. w * HalfHeight \in 0..FrameArea
    <3>1. w * HalfHeight \in Nat /\ w * HalfHeight <= Width * HalfHeight
      BY <1>1, <2>2, AreaGrows
    <3>2. HalfHeight * Width <= Height * Width
      BY <1>1, AreaGrows
    <3>3. HalfHeight * Width = Width * HalfHeight /\ Height * Width = Width * Height
      BY <1>1
    <3>. DEFINE p == w * HalfHeight
                q == Width * HalfHeight
    <3>4. p \in Nat /\ q \in Int /\ p <= q /\ q <= FrameArea
      BY <1>1, <3>1, <3>2, <3>3
    <3>. HIDE DEF p, q
    <3>5. p \in 0..FrameArea
      BY <1>1, <3>4
    <3>. QED
      BY <3>5 DEF p
  <2>5. w * Height - gaps \in 0..FrameArea
    <3>1. w * Height \in Nat /\ w * Height <= Width * Height
      BY <1>1, <2>2, AreaGrows
    <3>2. gaps <= w * Height
      <4>1. 1 <= Height
        BY GateVisionAssumption
      <4>2. 1 * w <= Height * w
        BY <1>1, <2>2, <4>1, AreaGrows
      <4>3. 1 * w = w /\ Height * w = w * Height
        BY <1>1, <2>2
      <4>. QED
        BY <2>2, <2>3, <3>1, <4>2, <4>3
    <3>. DEFINE p == w * Height
    <3>3. p \in Nat /\ p <= FrameArea /\ gaps <= p
      BY <1>1, <3>1, <3>2
    <3>. HIDE DEF p
    <3>4. p - gaps \in 0..FrameArea
      BY <1>1, <2>3, <3>3
    <3>. QED
      BY <3>4 DEF p
  <2>6. /\ Box(a, 0, w, HalfHeight, w * HalfHeight) \in Outlines
        /\ Box(a, HalfHeight + 1, w, HalfHeight, w * HalfHeight) \in Outlines
        /\ Box(a, 0, w, Height, w * Height - gaps) \in Outlines
    <3>. DEFINE half == w * HalfHeight
                whole == w * Height - gaps
                below == HalfHeight + 1
    <3>1. half \in 0..FrameArea /\ whole \in 0..FrameArea /\ w = b - a + 1 /\ below \in Int
      BY <1>1, <2>4, <2>5 DEF w
    <3>. HIDE DEF half, whole, below
    <3>2. /\ Box(a, 0, w, HalfHeight, half) \in Outlines
          /\ Box(a, below, w, HalfHeight, half) \in Outlines
          /\ Box(a, 0, w, Height, whole) \in Outlines
      <4>1. \A y, h \in Int, area \in 0..FrameArea : Box(a, y, b - a + 1, h, area) \in Outlines
        BY <2>1, BoxIs
      <4>2. \A y, h \in Int, area \in 0..FrameArea : Box(a, y, w, h, area) \in Outlines
        BY <3>1, <4>1
      <4>. QED
        BY <1>1, <3>1, <4>2
    <3>. QED
      BY <3>2 DEF half, whole, below
  <2>. QED
    BY <2>6 DEF a, b, w, gaps
<1>. DEFINE Of(r) ==
       LET w == r[2] - r[1] + 1
           gaps == Cardinality({c \in r[1]..r[2] : image.column[c] = "Twin"})
       IN IF \A c \in r[1]..r[2] : image.column[c] = "Twin"
          THEN {Box(r[1], 0, w, HalfHeight, w * HalfHeight),
                Box(r[1], HalfHeight + 1, w, HalfHeight, w * HalfHeight)}
          ELSE {Box(r[1], 0, w, Height, w * Height - gaps)}
<1>3. \A r \in Runs(Painted(image)) : Of(r) \in SUBSET Outlines
  BY <1>2
<1>4. ContourBoxes(image) = UNION {Of(r) : r \in Runs(Painted(image))}
  BY DEF ContourBoxes
<1>. HIDE DEF Of
<1>. QED
  BY <1>3, <1>4

(* There are finitely many contours: each run gives one or two.            *)
LEMMA ContoursAreFinite ==
  ASSUME NEW image
  PROVE  IsFiniteSet(ContourBoxes(image))
<1>. DEFINE runs == Runs(Painted(image))
            Of(r) ==
              LET w == r[2] - r[1] + 1
                  gaps == Cardinality({c \in r[1]..r[2] : image.column[c] = "Twin"})
              IN IF \A c \in r[1]..r[2] : image.column[c] = "Twin"
                 THEN {Box(r[1], 0, w, HalfHeight, w * HalfHeight),
                       Box(r[1], HalfHeight + 1, w, HalfHeight, w * HalfHeight)}
                 ELSE {Box(r[1], 0, w, Height, w * Height - gaps)}
            boxes == {Of(r) : r \in runs}
            f == [r \in runs |-> Of(r)]
<1>1. IsFiniteSet(runs)
  <2>1. IsFiniteSet(1..Width)
    <3>1. 1 \in Int /\ Width \in Int
      BY GateVisionAssumption
    <3>. QED
      BY <3>1, FS_Interval
  <2>2. IsFiniteSet((1..Width) \X (1..Width))
    BY <2>1, FS_Product
  <2>3. runs \in SUBSET ((1..Width) \X (1..Width))
    <3>1. \A r \in runs : r[1] \in 1..Width /\ r[2] \in 1..Width /\ r = <<r[1], r[2]>>
      BY PaintedIs, RunsType
    <3>. QED
      BY <3>1
  <2>. HIDE DEF runs
  <2>. QED
    BY <2>2, <2>3, FS_Subset
<1>2. \A r \in runs : IsFiniteSet(Of(r))
  <2>1. \A x, y : IsFiniteSet({x}) /\ IsFiniteSet({x, y})
    <3>1. SUFFICES ASSUME NEW x, NEW y PROVE IsFiniteSet({x}) /\ IsFiniteSet({x, y})
      OBVIOUS
    <3>2. IsFiniteSet({x})
      BY FS_Singleton
    <3>3. IsFiniteSet({x} \cup {y})
      BY <3>2, FS_AddElement
    <3>4. {x} \cup {y} = {x, y}
      OBVIOUS
    <3>. QED
      BY <3>2, <3>3, <3>4
  <2>. HIDE DEF runs
  <2>. QED
    BY <2>1
<1>3. ContourBoxes(image) = UNION boxes
  BY DEF ContourBoxes
<1>. HIDE DEF runs, Of
<1>4. f \in Surjection(runs, boxes)
  BY DEF Surjection
<1>5. IsFiniteSet(boxes)
  BY <1>1, <1>4, FS_Surjection
<1>6. \A T \in boxes : IsFiniteSet(T)
  BY <1>2
<1>. HIDE DEF boxes
<1>7. IsFiniteSet(UNION boxes)
  BY <1>5, <1>6, FS_UNION
<1>. QED
  BY <1>3, <1>7

-----------------------------------------------------------------------------
(* Clusters stay boxes within the frame, however many join.                *)
LEMMA MinMaxOfTwo ==
  ASSUME NEW a \in Int, NEW b \in Int
  PROVE  /\ Min({a, b}) \in {a, b} /\ Min({a, b}) <= a /\ Min({a, b}) <= b
         /\ Max({a, b}) \in {a, b} /\ Max({a, b}) >= a /\ Max({a, b}) >= b
<1>1. \E m \in {a, b} : \A y \in {a, b} : m <= y
  OBVIOUS
<1>2. \E m \in {a, b} : \A y \in {a, b} : m >= y
  OBVIOUS
<1>. QED
  BY <1>1, <1>2 DEF Min, Max

LEMMA MergeStays ==
  ASSUME NEW a \in Boxes, NEW b \in Boxes
  PROVE  Merge(a, b) \in Boxes
<1>. DEFINE x == Min({a.x, b.x})
            y == Min({a.y, b.y})
            right == Max({Right(a), Right(b)})
            low == Max({a.y + a.h, b.y + b.h})
            w == right - x
            h == low - y
            area == a.area + b.area
<1>1. /\ a.x \in Nat /\ b.x \in Nat /\ a.y \in Int /\ b.y \in Int /\ a.h \in Int /\ b.h \in Int
      /\ a.area \in Int /\ b.area \in Int /\ Right(a) \in Nat /\ Right(b) \in Nat
      /\ a.x <= Right(a) /\ b.x <= Right(b) /\ Right(a) <= Width + 1 /\ Right(b) <= Width + 1
      /\ Width \in Nat
  BY GateVisionAssumption DEF Boxes, Right
<1>2. x \in Nat /\ x <= a.x /\ x <= b.x
  <2>1. a.x \in Int /\ b.x \in Int
    BY <1>1
  <2>2. x \in {a.x, b.x} /\ x <= a.x /\ x <= b.x
    BY <2>1, MinMaxOfTwo
  <2>. HIDE DEF x
  <2>. QED
    BY <1>1, <2>2
<1>3. right \in Nat /\ right >= Right(a) /\ right <= Width + 1
  <2>1. Right(a) \in Int /\ Right(b) \in Int
    BY <1>1
  <2>2. right \in {Right(a), Right(b)} /\ right >= Right(a)
    BY <2>1, MinMaxOfTwo
  <2>. HIDE DEF right
  <2>. QED
    BY <1>1, <2>2
<1>4. y \in Int /\ low \in Int
  <2>1. a.y + a.h \in Int /\ b.y + b.h \in Int
    BY <1>1
  <2>. QED
    BY <1>1, <2>1, MinMaxOfTwo
<1>5. Merge(a, b) = Box(x, y, w, h, area)
  BY DEF Merge
<1>. HIDE DEF x, y, right, low
<1>6. w \in Nat /\ h \in Int /\ area \in Int /\ x + w <= Width + 1
  BY <1>1, <1>2, <1>3, <1>4
<1>. HIDE DEF w, h, area
<1>7. Box(x, y, w, h, area) \in Boxes
  BY <1>2, <1>4, <1>6 DEF Box, Boxes, Right
<1>. QED
  BY <1>5, <1>7

LEMMA MinOfIndices ==
  ASSUME NEW S \in SUBSET Nat, S # {}
  PROVE  Min(S) \in S /\ \A i \in S : Min(S) <= i
<1>1. \E i \in S : \A j \in S : i <= j
  BY LeastOf
<1>. QED
  BY <1>1 DEF Min

LEMMA JoinsStays ==
  ASSUME NEW D, \A a, b \in D : Merge(a, b) \in D,
         NEW c \in D, NEW clusters \in Seq(D)
  PROVE  Joins(c, clusters) \in Seq(D)
<1>. DEFINE near == {i \in DOMAIN clusters : Near(c, clusters[i])}
<1>1. CASE near = {}
  BY <1>1, AppendProperties DEF Joins
<1>2. CASE near # {}
  <2>. DEFINE m == Min(near)
              b == Merge(clusters[m], c)
  <2>1. near \in SUBSET Nat
    BY LenProperties
  <2>2. m \in near
    <3>. HIDE DEF near
    <3>. QED
      BY <1>2, <2>1, MinOfIndices
  <2>3. m \in 1..Len(clusters) /\ clusters[m] \in D
    BY <2>2, LenProperties, ElementOfSeq
  <2>4. b \in D
    BY <2>3
  <2>5. Joins(c, clusters) = [clusters EXCEPT ![m] = b]
    BY <1>2 DEF Joins
  <2>. HIDE DEF m, b
  <2>. QED
    BY <2>3, <2>4, <2>5, ExceptSeq
<1>. QED
  BY <1>1, <1>2

(* The clusters of a set of boxes, found from those of smaller ones.       *)
ClustersBy(S, h) ==
  [t \in SUBSET S |-> IF t = {} THEN <<>> ELSE Joins(Rightmost(t), h[t \ {Rightmost(t)}])]

LEMMA OneLess ==
  ASSUME NEW S, IsFiniteSet(S), S \in SUBSET Boxes, NEW t \in SUBSET S, t # {}
  PROVE  /\ Rightmost(t) \in t /\ Rightmost(t) \in Boxes /\ t \ {Rightmost(t)} \in SUBSET S
         /\ Cardinality(t) \in Nat /\ Cardinality(t \ {Rightmost(t)}) \in Nat
         /\ Cardinality(t \ {Rightmost(t)}) = Cardinality(t) - 1
<1>1. IsFiniteSet(t)
  BY FS_Subset
<1>2. Rightmost(t) \in t
  BY LeftmostIs
<1>3. IsFiniteSet(t \ {Rightmost(t)}) /\ Cardinality(t \ {Rightmost(t)}) = Cardinality(t) - 1
  BY <1>1, <1>2, FS_RemoveElement
<1>. QED
  BY <1>1, <1>2, <1>3, FS_CardinalityType

LEMMA ClustersExist ==
  ASSUME NEW S, IsFiniteSet(S), S \in SUBSET Boxes
  PROVE  \E h : h = ClustersBy(S, h)
<1>. DEFINE n == Cardinality(S)
            Step(h, t) == IF t = {} THEN <<>> ELSE Joins(Rightmost(t), h[t \ {Rightmost(t)}])
            Settled(h, k) == \A t \in SUBSET S : Cardinality(t) <= k => h[t] = Step(h, t)
            Done == {k \in 0..n : \E h \in [SUBSET S -> Seq(Boxes)] : Settled(h, k)}
<1>1. n \in Nat
  BY FS_CardinalityType
<1>2. \A t \in SUBSET S : Cardinality(t) \in Nat /\ Cardinality(t) <= n
  BY <1>1, FS_Subset, FS_CardinalityType
<1>3. 0 \in Done
  <2>. DEFINE h == [t \in SUBSET S |-> <<>>]
  <2>1. h \in [SUBSET S -> Seq(Boxes)]
    BY EmptySeq
  <2>2. ASSUME NEW t \in SUBSET S, Cardinality(t) <= 0
        PROVE  t = {}
    <3>1. IsFiniteSet(t) /\ Cardinality(t) = 0
      BY <1>2, <2>2, FS_Subset
    <3>. QED
      BY <3>1, FS_EmptySet
  <2>3. Settled(h, 0)
    BY <2>2
  <2>. HIDE DEF h, n, Settled
  <2>4. \E f \in [SUBSET S -> Seq(Boxes)] : Settled(f, 0)
    BY <2>1, <2>3
  <2>. QED
    BY <1>1, <2>4
<1>4. ASSUME NEW k \in 1..n, k - 1 \in Done
      PROVE  k \in Done
  <2>1. PICK h \in [SUBSET S -> Seq(Boxes)] : Settled(h, k - 1)
    BY <1>4
  <2>. DEFINE g == [t \in SUBSET S |-> Step(h, t)]
  <2>2. \A t \in SUBSET S : Step(h, t) \in Seq(Boxes)
    <3>1. SUFFICES ASSUME NEW t \in SUBSET S PROVE Step(h, t) \in Seq(Boxes)
      OBVIOUS
    <3>2. CASE t = {}
      BY <3>2, EmptySeq
    <3>3. CASE t # {}
      <4>1. Rightmost(t) \in Boxes /\ h[t \ {Rightmost(t)}] \in Seq(Boxes)
        BY <3>3, OneLess
      <4>. QED
        BY <3>3, <4>1, JoinsStays, MergeStays
    <3>. QED
      BY <3>2, <3>3
  <2>3. g \in [SUBSET S -> Seq(Boxes)]
    <3>. HIDE DEF Step
    <3>. QED
      BY <2>2
  <2>4. \A t \in SUBSET S : Cardinality(t) <= k - 1 => g[t] = h[t]
    <3>. HIDE DEF Step
    <3>. QED
      BY <2>1
  <2>5. ASSUME NEW t \in SUBSET S, Cardinality(t) <= k
        PROVE  g[t] = Step(g, t)
    <3>1. CASE t = {}
      BY <3>1
    <3>2. CASE t # {}
      <4>. DEFINE less == t \ {Rightmost(t)}
      <4>1. less \in SUBSET S /\ Cardinality(less) <= k - 1
        BY <1>1, <2>5, <3>2, OneLess
      <4>2. g[less] = h[less]
        <5>. HIDE DEF less, g
        <5>. QED
          BY <2>4, <4>1
      <4>3. g[t] = Joins(Rightmost(t), h[less])
        BY <3>2
      <4>4. Step(g, t) = Joins(Rightmost(t), g[less])
        <5>. HIDE DEF g
        <5>. QED
          BY <3>2
      <4>. QED
        BY <4>2, <4>3, <4>4
    <3>. QED
      BY <3>1, <3>2
  <2>. HIDE DEF Step, g, n
  <2>6. Settled(g, k)
    BY <2>5
  <2>7. k \in 0..n
    BY <1>1
  <2>. QED
    BY <2>3, <2>6, <2>7
<1>5. n \in Done
  <2>. HIDE DEF Done, n
  <2>. QED
    BY <1>1, <1>3, <1>4, CountedTo
<1>6. PICK h \in [SUBSET S -> Seq(Boxes)] : Settled(h, n)
  BY <1>5
<1>7. \A t \in SUBSET S : h[t] = Step(h, t)
  <2>. HIDE DEF Step, n
  <2>. QED
    BY <1>2, <1>6
<1>8. h = [t \in SUBSET S |-> Step(h, t)]
  <2>. HIDE DEF Step
  <2>. QED
    BY <1>7
<1>. QED
  BY <1>8 DEF ClustersBy

(* Induction: what each box that joins preserves.                          *)
LEMMA ClustersGrow ==
  ASSUME NEW S, IsFiniteSet(S), S \in SUBSET Boxes, NEW I, <<{}, <<>>>> \in I,
         \A clusters : \A t \in SUBSET S :
           t # {} /\ <<t \ {Rightmost(t)}, clusters>> \in I =>
             <<t, Joins(Rightmost(t), clusters)>> \in I
  PROVE  <<S, Clusters(S)>> \in I
<1>. DEFINE H == CHOOSE h : h = ClustersBy(S, h)
            n == Cardinality(S)
            Done == {k \in 0..n : \A t \in SUBSET S : Cardinality(t) <= k => <<t, H[t]>> \in I}
<1>1. H = ClustersBy(S, H)
  <2>. DEFINE P(h) == h = ClustersBy(S, h)
  <2>1. \E h : P(h)
    BY ClustersExist
  <2>. HIDE DEF P
  <2>2. P(CHOOSE h : P(h))
    BY <2>1, Zenon
  <2>. QED
    BY <2>2 DEF P
<1>2. Clusters(S) = H[S]
  BY DEF Clusters, MapThenFoldSet, ClustersBy
<1>. HIDE DEF H
<1>3. \A t \in SUBSET S :
        H[t] = IF t = {} THEN <<>> ELSE Joins(Rightmost(t), H[t \ {Rightmost(t)}])
  BY <1>1 DEF ClustersBy
<1>4. n \in Nat
  BY FS_CardinalityType
<1>5. \A t \in SUBSET S : Cardinality(t) \in Nat
  BY FS_Subset, FS_CardinalityType
<1>6. 0 \in Done
  <2>1. ASSUME NEW t \in SUBSET S, Cardinality(t) <= 0
        PROVE  <<t, H[t]>> \in I
    <3>1. IsFiniteSet(t) /\ Cardinality(t) = 0
      BY <1>5, <2>1, FS_Subset
    <3>2. t = {}
      BY <3>1, FS_EmptySet
    <3>3. H[t] = <<>>
      BY <1>3, <3>2
    <3>. QED
      BY <3>2, <3>3
  <2>. QED
    BY <1>4, <2>1
<1>7. ASSUME NEW k \in 1..n, k - 1 \in Done
      PROVE  k \in Done
  <2>1. ASSUME NEW t \in SUBSET S, Cardinality(t) <= k
        PROVE  <<t, H[t]>> \in I
    <3>1. CASE t = {}
      BY <1>3, <3>1
    <3>2. CASE t # {}
      <4>. DEFINE less == t \ {Rightmost(t)}
      <4>1. less \in SUBSET S /\ Cardinality(less) <= k - 1
        BY <1>4, <2>1, <3>2, OneLess
      <4>2. <<less, H[less]>> \in I
        BY <1>7, <4>1
      <4>3. H[t] = Joins(Rightmost(t), H[less])
        BY <1>3, <3>2
      <4>4. <<t, Joins(Rightmost(t), H[less])>> \in I
        BY <3>2, <4>2
      <4>. QED
        BY <4>3, <4>4
    <3>. QED
      BY <3>1, <3>2
  <2>. QED
    BY <1>4, <2>1
<1>8. n \in Done
  <2>. HIDE DEF Done, n
  <2>. QED
    BY <1>4, <1>6, <1>7, CountedTo
<1>9. <<S, H[S]>> \in I
  BY <1>4, <1>8
<1>. QED
  BY <1>2, <1>9

LEMMA ClustersStay ==
  ASSUME NEW D \in SUBSET Boxes, \A a, b \in D : Merge(a, b) \in D,
         NEW S \in SUBSET D, IsFiniteSet(S)
  PROVE  Clusters(S) \in Seq(D)
<1>. DEFINE I == (SUBSET S) \X Seq(D)
<1>1. <<{}, <<>>>> \in I
  BY EmptySeq
<1>2. ASSUME NEW t \in SUBSET S, NEW clusters, t # {}, <<t \ {Rightmost(t)}, clusters>> \in I
      PROVE  <<t, Joins(Rightmost(t), clusters)>> \in I
  <2>1. Rightmost(t) \in D /\ clusters \in Seq(D)
    BY <1>2, LeftmostIs
  <2>2. Joins(Rightmost(t), clusters) \in Seq(D)
    BY <2>1, JoinsStays
  <2>. QED
    BY <2>2
<1>. HIDE DEF I
<1>3. <<S, Clusters(S)>> \in I
  BY <1>1, <1>2, ClustersGrow
<1>. QED
  BY <1>3 DEF I

(* The legs of an image are among clusters of its contours, and tall.      *)
LEMMA LegsStay ==
  ASSUME NEW D \in SUBSET Boxes, \A a, b \in D : Merge(a, b) \in D,
         NEW image, ContourBoxes(image) \in SUBSET D
  PROVE  VerticalLegCandidates(image) \in SUBSET {b \in D : 10 * b.h > 12 * b.w}
<1>. DEFINE tall == {b \in ContourBoxes(image) : 10 * b.h >= Height /\ 10 * b.h > 11 * b.w}
            s == Clusters(tall)
<1>1. tall \in SUBSET ContourBoxes(image)
  OBVIOUS
<1>2. VerticalLegCandidates(image) = ClusterVerticalPanels(tall)
  BY DEF VerticalLegCandidates
<1>. HIDE DEF tall
<1>3. IsFiniteSet(tall)
  BY <1>1, ContoursAreFinite, FS_Subset
<1>4. tall \in SUBSET D
  BY <1>1
<1>5. s \in Seq(D)
  BY <1>3, <1>4, ClustersStay
<1>6. ClusterVerticalPanels(tall) \in SUBSET {b \in Range(s) : 10 * b.h > 12 * b.w}
  BY DEF ClusterVerticalPanels
<1>. HIDE DEF s
<1>7. \A i \in DOMAIN s : s[i] \in D
  BY <1>5, LenProperties, ElementOfSeq
<1>8. Range(s) \in SUBSET D
  BY <1>7 DEF Range
<1>. QED
  BY <1>2, <1>6, <1>8

LEMMA LegsAreBoxes ==
  ASSUME NEW image
  PROVE  VerticalLegCandidates(image) \in SUBSET Boxes
<1>. DEFINE D == Boxes
<1>1. D \in SUBSET Boxes /\ ContourBoxes(image) \in SUBSET D
  BY ContoursAreOutlines DEF Outlines
<1>2. \A a, b \in D : Merge(a, b) \in D
  BY MergeStays
<1>. HIDE DEF D
<1>3. VerticalLegCandidates(image) \in SUBSET D
  BY <1>1, <1>2, LegsStay
<1>. QED
  BY <1>3 DEF D

-----------------------------------------------------------------------------
(* A target is none, or stands on one box or two.                          *)
IsTarget(t) ==
  t = NoTarget \/ /\ \E l, r \in Boxes : t.boxes = {l, r}
                  /\ t.area \in Int /\ t.source \in Sources

LEMMA PairIsTarget ==
  ASSUME NEW l \in Boxes, NEW r \in Boxes, NEW s \in Sources
  PROVE  IsTarget(Pair(l, r, s))
<1>1. l.area + r.area \in Int
  BY CentreIs
<1>. QED
  BY <1>1 DEF IsTarget, Pair

LEMMA TwoAreSome ==
  ASSUME NEW S, Cardinality(S) >= 2
  PROVE  S # {}
BY FS_EmptySet

LEMMA BlueScreenTarget ==
  ASSUME NEW image
  PROVE  IsTarget(DetectBlueScreenGate(image))
<1>. DEFINE columns == ColumnFillRuns(image)
<1>1. columns \in SUBSET Boxes
  <2>1. SUFFICES ASSUME NEW b \in columns PROVE b \in Boxes
    OBVIOUS
  <2>2. PICK r \in Runs(Painted(image)) :
          b = Box(r[1], 0, r[2] - r[1] + 1, Height, (r[2] - r[1] + 1) * Height)
    BY DEF ColumnFillRuns
  <2>. DEFINE u == r[1]
              v == r[2]
              w == v - u + 1
              area == w * Height
  <2>3. u \in 1..Width /\ v \in 1..Width /\ u <= v
    BY PaintedIs, RunsType
  <2>4. Width \in Nat /\ Height \in Nat
    BY GateVisionAssumption
  <2>. HIDE DEF u, v
  <2>5. u \in Nat /\ w \in Nat /\ u + w <= Width + 1
    BY <2>3, <2>4
  <2>. HIDE DEF w
  <2>6. area \in Int
    BY <2>4, <2>5
  <2>. HIDE DEF area
  <2>7. Box(u, 0, w, Height, area) \in Boxes
    BY <2>4, <2>5, <2>6 DEF Box, Boxes, Right
  <2>. QED
    BY <2>2, <2>7 DEF u, v, w, area
<1>2. CASE DetectBlueScreenGate(image) = NoTarget
  BY <1>2 DEF IsTarget
<1>3. CASE DetectBlueScreenGate(image) # NoTarget
  <2>1. /\ Cardinality(columns) >= 2
        /\ DetectBlueScreenGate(image) =
             Pair(Leftmost(columns), Rightmost(columns), "blue_screen_gate")
    BY <1>3 DEF DetectBlueScreenGate
  <2>. HIDE DEF columns
  <2>2. Leftmost(columns) \in Boxes /\ Rightmost(columns) \in Boxes
    BY <1>1, <2>1, TwoAreSome, LeftmostIs
  <2>. DEFINE l == Leftmost(columns)
              r == Rightmost(columns)
              found == "blue_screen_gate"
  <2>3. l \in Boxes /\ r \in Boxes /\ found \in Sources
    BY <2>2 DEF Sources
  <2>4. DetectBlueScreenGate(image) = Pair(l, r, found)
    BY <2>1
  <2>. HIDE DEF l, r, found
  <2>5. IsTarget(Pair(l, r, found))
    BY <2>3, PairIsTarget
  <2>. QED
    BY <2>4, <2>5
<1>. QED
  BY <1>2, <1>3

LEMMA SplitLegTarget ==
  ASSUME NEW image
  PROVE  IsTarget(DetectSplitLegGatePair(image))
<1>. DEFINE legs == {leg \in VerticalLegCandidates(image) : IsSplitLeg(image, leg)}
<1>1. legs \in SUBSET Boxes
  BY LegsAreBoxes
<1>2. DetectSplitLegGatePair(image) = OutermostPair(image, legs)
  BY DEF DetectSplitLegGatePair
<1>. HIDE DEF legs
<1>3. CASE OutermostPair(image, legs) = NoTarget
  BY <1>2, <1>3 DEF IsTarget
<1>4. CASE OutermostPair(image, legs) # NoTarget
  <2>1. /\ Cardinality(legs) >= 2
        /\ OutermostPair(image, legs) = Pair(Leftmost(legs), Rightmost(legs), "split_leg_pair")
    BY <1>4 DEF OutermostPair
  <2>2. Leftmost(legs) \in Boxes /\ Rightmost(legs) \in Boxes
    BY <1>1, <2>1, TwoAreSome, LeftmostIs
  <2>. DEFINE l == Leftmost(legs)
              r == Rightmost(legs)
              found == "split_leg_pair"
  <2>3. l \in Boxes /\ r \in Boxes /\ found \in Sources
    BY <2>2 DEF Sources
  <2>4. DetectSplitLegGatePair(image) = Pair(l, r, found)
    BY <1>2, <2>1
  <2>. HIDE DEF l, r, found
  <2>5. IsTarget(Pair(l, r, found))
    BY <2>3, PairIsTarget
  <2>. QED
    BY <2>4, <2>5
<1>. QED
  BY <1>3, <1>4

LEMMA BoardTarget ==
  ASSUME NEW image
  PROVE  IsTarget(DetectCheckerboardGate(image))
<1>. DEFINE boards == {b \in ContourBoxes(image) :
                         /\ 1000 * b.area >= 15 * Width * Height
                         /\ 100 * b.w >= 35 * b.h /\ 10 * b.w <= 28 * b.h
                         /\ IsCheckerboard(image, b)}
            m == [b \in boards |-> b.area]
<1>1. boards \in SUBSET Outlines
  BY ContoursAreOutlines
<1>2. DetectCheckerboardGate(image) = Largest(boards)
  BY DEF DetectCheckerboardGate
<1>. HIDE DEF boards
<1>3. CASE boards = {}
  BY <1>2, <1>3 DEF Largest, IsTarget
<1>4. CASE boards # {}
  <2>1. FrameArea \in Nat
    BY GateVisionAssumption DEF FrameArea
  <2>2. \A b \in boards : m[b] = b.area /\ m[b] \in 0..FrameArea
    BY <1>1 DEF Outlines
  <2>. HIDE DEF m
  <2>3. PICK b \in boards : \A c \in boards : m[c] <= m[b]
    BY <1>4, <2>1, <2>2, GreatestOf
  <2>4. \A c \in boards : b.area >= c.area
    BY <2>1, <2>2, <2>3
  <2>. DEFINE best == CHOOSE x \in boards : \A c \in boards : x.area >= c.area
  <2>5. best \in boards
    BY <2>4
  <2>6. DetectCheckerboardGate(image) = OnlyBox(best)
    BY <1>2, <1>4 DEF Largest
  <2>. HIDE DEF best
  <2>7. best \in Boxes /\ best.area \in Int /\ {best} = {best, best}
    BY <1>1, <2>5, CentreIs DEF Outlines
  <2>8. IsTarget(OnlyBox(best))
    <3>. DEFINE t == OnlyBox(best)
    <3>1. t.boxes = {best, best} /\ t.area \in Int /\ t.source \in Sources
      BY <2>7 DEF OnlyBox, Sources
    <3>. HIDE DEF t
    <3>2. IsTarget(t)
      BY <2>7, <3>1 DEF IsTarget
    <3>. QED
      BY <3>2 DEF t
  <2>. QED
    BY <2>6, <2>8
<1>. QED
  BY <1>3, <1>4

LEMMA WidestIs ==
  ASSUME NEW pairs \in SUBSET (Boxes \X Boxes), pairs # {}
  PROVE  Widest(pairs) \in pairs
<1>. DEFINE m == [p \in pairs |-> 2 * Width + 2 + Centre2(p[2]) - Centre2(p[1])]
            top == 4 * Width + 4
<1>1. Width \in Nat /\ top \in Nat
  BY GateVisionAssumption
<1>2. ASSUME NEW p \in pairs
      PROVE  /\ Centre2(p[1]) \in Nat /\ Centre2(p[2]) \in Nat
             /\ m[p] = 2 * Width + 2 + Centre2(p[2]) - Centre2(p[1]) /\ m[p] \in 0..top
  <2>1. p[1] \in Boxes /\ p[2] \in Boxes
    OBVIOUS
  <2>2. Centre2(p[1]) \in 0 .. 2 * Width + 2 /\ Centre2(p[2]) \in 0 .. 2 * Width + 2
    BY <2>1, CentreIs
  <2>. QED
    BY <1>1, <2>2
<1>. HIDE DEF m, top
<1>3. PICK p \in pairs : \A q \in pairs : m[q] <= m[p]
  BY <1>1, <1>2, GreatestOf
<1>4. \A q \in pairs : Centre2(p[2]) - Centre2(p[1]) >= Centre2(q[2]) - Centre2(q[1])
  BY <1>1, <1>2, <1>3
<1>. QED
  BY <1>4 DEF Widest

LEMMA OuterPanelTarget ==
  ASSUME NEW image
  PROVE  IsTarget(SelectOuterPanelPair(image))
<1>. DEFINE pairs == ApartPairs(VerticalLegCandidates(image))
            w == Widest(pairs)
<1>1. pairs \in SUBSET (Boxes \X Boxes)
  BY LegsAreBoxes DEF ApartPairs
<1>2. SelectOuterPanelPair(image) = WidestPair(image, pairs)
  BY DEF SelectOuterPanelPair
<1>. HIDE DEF pairs
<1>3. CASE pairs = {}
  BY <1>2, <1>3 DEF WidestPair, IsTarget
<1>4. CASE pairs # {}
  <2>1. w \in pairs
    BY <1>1, <1>4, WidestIs
  <2>2. SelectOuterPanelPair(image) = GatePair(image, w[1], w[2])
    BY <1>2, <1>4 DEF WidestPair
  <2>. HIDE DEF w
  <2>3. w[1] \in Boxes /\ w[2] \in Boxes
    BY <1>1, <2>1
  <2>4. IsTarget(GatePair(image, w[1], w[2]))
    <3>1. CASE IsCompetitionGatePair(image, w[1], w[2])
      <4>. DEFINE found == "red_black_outer_panel_pair"
      <4>1. GatePair(image, w[1], w[2]) = Pair(w[1], w[2], found) /\ found \in Sources
        BY <3>1 DEF GatePair, Sources
      <4>. HIDE DEF found
      <4>2. IsTarget(Pair(w[1], w[2], found))
        BY <2>3, <4>1, PairIsTarget
      <4>. QED
        BY <4>1, <4>2
    <3>2. CASE ~IsCompetitionGatePair(image, w[1], w[2])
      BY <3>2 DEF GatePair, IsTarget
    <3>. QED
      BY <3>1, <3>2
  <2>. QED
    BY <2>2, <2>4
<1>. QED
  BY <1>3, <1>4

LEMMA GateTargetFrom ==
  ASSUME NEW image
  PROVE  GateTarget(image) \in
           {NoTarget, DetectBlueScreenGate(image), DetectSplitLegGatePair(image),
            DetectCheckerboardGate(image), SelectOuterPanelPair(image)}
<1>. DEFINE ts == <<DetectBlueScreenGate(image), DetectSplitLegGatePair(image),
                    DetectCheckerboardGate(image), SelectOuterPanelPair(image)>>
            all == {ts[1], ts[2], ts[3], ts[4]}
            found == {i \in DOMAIN ts : ts[i] # NoTarget}
<1>1. GateTarget(image) = FirstFound(ts)
  BY DEF GateTarget
<1>2. DOMAIN ts = 1..4 /\ \A i \in 1..4 : ts[i] \in all
  <2>1. \A i \in 1..4 : i = 1 \/ i = 2 \/ i = 3 \/ i = 4
    OBVIOUS
  <2>2. DOMAIN ts = 1..4
    OBVIOUS
  <2>. HIDE DEF ts
  <2>. QED
    BY <2>1, <2>2
<1>3. all = {DetectBlueScreenGate(image), DetectSplitLegGatePair(image),
             DetectCheckerboardGate(image), SelectOuterPanelPair(image)}
  OBVIOUS
<1>. HIDE DEF ts, all
<1>4. CASE found = {}
  BY <1>1, <1>4 DEF FirstFound
<1>5. CASE found # {}
  <2>1. found \in SUBSET Nat
    BY <1>2
  <2>2. Min(found) \in found
    <3>. HIDE DEF found
    <3>. QED
      BY <1>5, <2>1, MinOfIndices
  <2>3. GateTarget(image) = ts[Min(found)]
    BY <1>1, <1>5 DEF FirstFound
  <2>4. GateTarget(image) \in all
    BY <1>2, <2>2, <2>3
  <2>. QED
    BY <1>3, <2>4
<1>. QED
  BY <1>4, <1>5

LEMMA GateTargetIs ==
  ASSUME NEW image
  PROVE  IsTarget(GateTarget(image))
<1>1. IsTarget(NoTarget)
  BY DEF IsTarget
<1>. QED
  BY <1>1, GateTargetFrom, BlueScreenTarget, SplitLegTarget, BoardTarget, OuterPanelTarget

-----------------------------------------------------------------------------
(* What the detectors publish keeps to the threshold.                      *)
LEMMA GateIsSure ==
  ASSUME NEW t, IsTarget(t)
  PROVE  GateDetection(t) \in Seq(SureDetections)
<1>. DEFINE share == (400 * t.area) \div (Width * Height)
            low == Min({99, share})
            confidence == Max({20, low})
            x2 == Min({b.x : b \in t.boxes}) + Max({Right(b) : b \in t.boxes})
            d == Detection("gate", confidence, x2, t.source)
<1>1. GateDetection(t) = IF t = NoTarget \/ confidence < MinConfidence THEN <<>> ELSE <<d>>
  BY DEF GateDetection
<1>2. CASE t = NoTarget \/ confidence < MinConfidence
  <2>1. GateDetection(t) = <<>>
    BY <1>1, <1>2
  <2>. QED
    BY <2>1, EmptySeq
<1>3. CASE ~(t = NoTarget \/ confidence < MinConfidence)
  <2>1. PICK l \in Boxes, r \in Boxes : t.boxes = {l, r}
    BY <1>3 DEF IsTarget
  <2>2. t.area \in Int /\ t.source \in Sources
    BY <1>3 DEF IsTarget
  <2>3. confidence \in Sure
    <3>1. share \in Int
      <4>1. Width \in Nat \ {0} /\ Height \in Nat \ {0}
        BY GateVisionAssumption
      <4>2. Width * Height \in Nat /\ Width * Height # 0 /\ 400 * t.area \in Int
        BY <2>2, <4>1
      <4>. QED
        BY <4>2
    <3>. HIDE DEF share
    <3>2. low \in Int /\ low <= 99
      <4>1. low \in {99, share} /\ low <= 99
        <5>1. \A a \in Int : Min({a, share}) \in {a, share} /\ Min({a, share}) <= a
          BY <3>1, MinMaxOfTwo
        <5>. QED
          BY <5>1
      <4>. HIDE DEF low
      <4>. QED
        BY <3>1, <4>1
    <3>. HIDE DEF low
    <3>3. confidence \in {20, low}
      <4>1. \A a \in Int : Max({a, low}) \in {a, low}
        BY <3>2, MinMaxOfTwo
      <4>. QED
        BY <4>1
    <3>4. ~(confidence < MinConfidence) /\ MinConfidence \in 0..100
      BY <1>3, GateVisionAssumption
    <3>. HIDE DEF confidence
    <3>. QED
      BY <3>2, <3>3, <3>4 DEF Sure
  <2>4. x2 \in Int
    <3>1. {b.x : b \in t.boxes} = {l.x, r.x} /\ {Right(b) : b \in t.boxes} = {Right(l), Right(r)}
      BY <2>1
    <3>2. l.x \in Int /\ r.x \in Int /\ Right(l) \in Int /\ Right(r) \in Int
      BY CentreIs
    <3>3. Min({l.x, r.x}) \in Int /\ Max({Right(l), Right(r)}) \in Int
      <4>1. Min({l.x, r.x}) \in {l.x, r.x}
        BY <3>2, MinMaxOfTwo
      <4>2. Max({Right(l), Right(r)}) \in {Right(l), Right(r)}
        BY <3>2, MinMaxOfTwo
      <4>. QED
        BY <3>2, <4>1, <4>2
    <3>. DEFINE xs == {b.x : b \in t.boxes}
                rights == {Right(b) : b \in t.boxes}
    <3>. HIDE DEF xs, rights
    <3>4. xs = {l.x, r.x} /\ rights = {Right(l), Right(r)}
      BY <3>1 DEF xs, rights
    <3>5. Min(xs) \in Int /\ Max(rights) \in Int
      BY <3>3, <3>4
    <3>6. Min(xs) + Max(rights) \in Int
      BY <3>5
    <3>. QED
      BY <3>6 DEF xs, rights
  <2>5. GateDetection(t) = <<d>>
    BY <1>1, <1>3
  <2>. HIDE DEF confidence, x2
  <2>6. d \in SureDetections
    BY <2>2, <2>3, <2>4 DEF Detection, SureDetections, Classes
  <2>. HIDE DEF d
  <2>. QED
    BY <2>5, <2>6
<1>. QED
  BY <1>2, <1>3

LEMMA MarkerIsSure ==
  ASSUME NEW image, MinConfidence <= 99
  PROVE  DetectMarker(image) \in Seq(SureDetections)
<1>. DEFINE columns == {c \in 1..Width : image.column[c] = "Pole"}
            poles == {r \in Runs(columns) : 10 * Height >= 14 * (r[2] - r[1] + 1)}
            best == CHOOSE r \in poles : \A q \in poles : r[2] - r[1] <= q[2] - q[1]
            d == Detection("neon_orange", 99, best[1] + best[2] + 1, "marker")
            m == [r \in poles |-> r[2] - r[1]]
<1>1. DetectMarker(image) = IF poles = {} THEN <<>> ELSE <<d>>
  BY DEF DetectMarker
<1>2. ASSUME NEW r \in poles
      PROVE  r[1] \in 1..Width /\ r[2] \in 1..Width /\ r[1] <= r[2]
  <2>1. columns \in SUBSET (1..Width) /\ r \in Runs(columns)
    OBVIOUS
  <2>. HIDE DEF columns
  <2>. QED
    BY <2>1, RunsType
<1>. HIDE DEF poles
<1>3. CASE poles = {}
  <2>1. DetectMarker(image) = <<>>
    BY <1>1, <1>3
  <2>. QED
    BY <2>1, EmptySeq
<1>4. CASE poles # {}
  <2>1. Width \in Nat
    BY GateVisionAssumption
  <2>2. \A r \in poles : m[r] = r[2] - r[1] /\ m[r] \in Nat
    BY <1>2, <2>1
  <2>. HIDE DEF m
  <2>3. PICK r \in poles : \A q \in poles : m[r] <= m[q]
    BY <1>4, <2>2, SmallestOf
  <2>4. \A q \in poles : r[2] - r[1] <= q[2] - q[1]
    BY <2>2, <2>3
  <2>5. best \in poles
    BY <2>4
  <2>. HIDE DEF best
  <2>6. best[1] + best[2] + 1 \in Int
    BY <1>2, <2>1, <2>5
  <2>7. 99 \in Sure
    BY GateVisionAssumption DEF Sure
  <2>. DEFINE x2 == best[1] + best[2] + 1
  <2>. HIDE DEF x2
  <2>8. Detection("neon_orange", 99, x2, "marker") \in SureDetections
    BY <2>6, <2>7 DEF Detection, SureDetections, Classes, Sources, x2
  <2>9. DetectMarker(image) = <<d>> /\ d \in SureDetections
    BY <1>1, <1>4, <2>8 DEF x2
  <2>. HIDE DEF d
  <2>. QED
    BY <2>9
<1>. QED
  BY <1>3, <1>4

LEMMA CvIsSure ==
  ASSUME NEW image, MinConfidence <= 99
  PROVE  ProcessPrequalCv(image) \in Seq(SureDetections)
<1>1. GateDetection(GateTarget(image)) \in Seq(SureDetections)
  BY GateTargetIs, GateIsSure
<1>2. DetectMarker(image) \in Seq(SureDetections)
  BY MarkerIsSure
<1>. QED
  BY <1>1, <1>2, ConcatProperties DEF ProcessPrequalCv

(* Merging keeps some of the detections.                                   *)
LEMMA KeepStays ==
  ASSUME NEW D, NEW best \in Seq(D), NEW d \in D
  PROVE  Keep(best, d) \in Seq(D)
<1>. DEFINE same == {i \in DOMAIN best : best[i].class = d.class}
            kept == [i \in DOMAIN best |->
                       IF i \in same /\ d.confidence > best[i].confidence THEN d ELSE best[i]]
<1>1. Keep(best, d) = IF same = {} THEN Append(best, d) ELSE kept
  BY DEF Keep
<1>2. Append(best, d) \in Seq(D)
  BY AppendProperties
<1>3. kept \in Seq(D)
  <2>1. DOMAIN best = 1..Len(best) /\ Len(best) \in Nat
    BY LenProperties
  <2>2. \A i \in 1..Len(best) : best[i] \in D
    BY ElementOfSeq
  <2>. HIDE DEF same
  <2>3. kept \in [1..Len(best) -> D]
    BY <2>1, <2>2
  <2>. HIDE DEF kept
  <2>. QED
    BY <2>1, <2>3, SeqDef
<1>. HIDE DEF same, kept
<1>. QED
  BY <1>1, <1>2, <1>3

KeepBy(s, h) ==
  [t \in SUBSET DOMAIN s |-> IF t = {} THEN <<>> ELSE Keep(h[t \ {Max(t)}], s[Max(t)])]

LEMMA KeepExists ==
  ASSUME NEW D, NEW s \in Seq(D)
  PROVE  \E h : h = KeepBy(s, h)
<1>. DEFINE n == Len(s)
            T == Seq(D)
            start == <<>>
            g == [x \in T \X (1..n) |-> Keep(x[1], s[x[2]])]
<1>1. n \in Nat /\ DOMAIN s = 1..n /\ start \in T
  BY LenProperties, EmptySeq
<1>2. g \in [T \X (1..n) -> T]
  <2>1. \A i \in 1..n : s[i] \in D
    BY ElementOfSeq
  <2>2. \A r \in T, d \in D : Keep(r, d) \in T
    BY KeepStays
  <2>. HIDE DEF T
  <2>. QED
    BY <2>1, <2>2
<1>. HIDE DEF n, T, start
<1>3. PICK h \in [SUBSET (1..n) -> T] : Folded(h, start, g, n)
  <2>. HIDE DEF g
  <2>. QED
    BY <1>1, <1>2, FoldExists
<1>4. ASSUME NEW t \in SUBSET (1..n)
      PROVE  h[t] = IF t = {} THEN start ELSE Keep(h[t \ {Max(t)}], s[Max(t)])
  <2>1. CASE t = {}
    BY <1>3, <2>1 DEF Folded
  <2>2. CASE t # {}
    <3>1. Max(t) \in 1..n /\ h[t \ {Max(t)}] \in T
      BY <1>1, <2>2, MaxIn
    <3>2. h[t] = g[<<h[t \ {Max(t)}], Max(t)>>]
      BY <1>3, <2>2 DEF Folded
    <3>. QED
      BY <2>2, <3>1, <3>2
  <2>. QED
    BY <2>1, <2>2
<1>. HIDE DEF g
<1>5. h = [t \in SUBSET (1..n) |-> IF t = {} THEN start ELSE Keep(h[t \ {Max(t)}], s[Max(t)])]
  BY <1>4
<1>. QED
  BY <1>1, <1>5 DEF KeepBy, start

LEMMA MergedStays ==
  ASSUME NEW D, NEW s \in Seq(D)
  PROVE  MergeByClass(s) \in Seq(D)
<1>. DEFINE T == Seq(D)
            H == CHOOSE h : h = KeepBy(s, h)
            n == Len(s)
<1>1. n \in Nat /\ DOMAIN s = 1..n
  BY LenProperties
<1>2. H = KeepBy(s, H)
  <2>. DEFINE P(h) == h = KeepBy(s, h)
  <2>1. \E h : P(h)
    BY KeepExists
  <2>. HIDE DEF P
  <2>2. P(CHOOSE h : P(h))
    BY <2>1, Zenon
  <2>. QED
    BY <2>2 DEF P
<1>3. MergeByClass(s) = H[DOMAIN s]
  BY DEF MergeByClass, FoldLeft, MapThenFoldSet, KeepBy
<1>. HIDE DEF H
<1>4. H[{}] \in T
  <2>1. H[{}] = <<>>
    BY <1>2 DEF KeepBy
  <2>. QED
    BY <2>1, EmptySeq
<1>5. \A k \in 1..n : s[k] \in D
  BY ElementOfSeq
<1>. HIDE DEF n
<1>6. \A k \in 1..n : H[1..k] = Keep(H[1 .. k - 1], s[k])
  <2>1. SUFFICES ASSUME NEW k \in 1..n PROVE H[1..k] = Keep(H[1 .. k - 1], s[k])
    OBVIOUS
  <2>2. 1..k \in SUBSET DOMAIN s /\ k \in Nat \ {0}
    BY <1>1
  <2>3. Max(1..k) = k /\ (1..k) \ {k} = 1 .. k - 1 /\ 1..k # {}
    BY <2>2, UpTo
  <2>4. 1..k # {} => H[1..k] = Keep(H[(1..k) \ {Max(1..k)}], s[Max(1..k)])
    BY <1>2, <2>2 DEF KeepBy
  <2>. QED
    BY <2>3, <2>4
<1>7. \A k \in 1..n : H[1 .. k - 1] \in T => H[1..k] \in T
  BY <1>5, <1>6, KeepStays
<1>. HIDE DEF T
<1>8. H[1..n] \in T
  BY <1>1, <1>4, <1>7, FoldStays
<1>. QED
  BY <1>1, <1>3, <1>8 DEF T

(* What is found of a frame is what OpenCV or YOLO found of it.            *)
LEMMA RunKeeps ==
  ASSUME NEW D, NEW frame, NEW yolo \in Seq(D), ProcessPrequalCv(frame.image) \in Seq(D)
  PROVE  RunDetection(frame, yolo) \in Seq(D)
<1>. DEFINE cv == ProcessPrequalCv(frame.image)
<1>1. cv \in Seq(D)
  OBVIOUS
<1>2. WithYolo(cv, yolo) \in Seq(D)
  <2>. HIDE DEF cv
  <2>1. cv \o yolo \in Seq(D)
    BY <1>1, ConcatProperties
  <2>2. MergeByClass(cv \o yolo) \in Seq(D)
    BY <2>1, MergedStays
  <2>. QED
    BY <1>1, <2>2 DEF WithYolo
<1>3. CASE frame = NoFrame
  <2>1. RunDetection(frame, yolo) = <<>>
    BY <1>3 DEF RunDetection
  <2>. QED
    BY <2>1, EmptySeq
<1>4. CASE frame # NoFrame /\ profile = "default"
  <2>1. RunDetection(frame, yolo) = yolo
    BY <1>4 DEF RunDetection
  <2>. QED
    BY <2>1
<1>5. CASE frame # NoFrame /\ profile # "default"
  <2>1. RunDetection(frame, yolo) = WithYolo(cv, yolo)
    BY <1>5 DEF RunDetection
  <2>. QED
    BY <1>2, <2>1
<1>. QED
  BY <1>3, <1>4, <1>5

Theirs == [class : Classes, confidence : Sure, x2 : Int, source : {"yolo"}]

LEMMA YoloStays ==
  ASSUME NEW D, Theirs \in SUBSET D, NEW yolo \in YoloResults
  PROVE  yolo \in Seq(D)
<1>1. yolo \in Seq(Theirs)
  BY YoloAssumption DEF Theirs, Sure
<1>2. DOMAIN yolo = 1..Len(yolo) /\ Len(yolo) \in Nat /\ yolo \in [1..Len(yolo) -> Theirs]
  BY <1>1, LenProperties
<1>3. yolo \in [1..Len(yolo) -> D]
  BY <1>2
<1>. QED
  BY <1>2, <1>3, SeqDef

LEMMA RunIsSure ==
  ASSUME NEW frame, NEW yolo \in YoloResults, MinConfidence <= 99
  PROVE  RunDetection(frame, yolo) \in Seq(SureDetections)
<1>1. Theirs \in SUBSET SureDetections
  BY DEF Theirs, SureDetections, Sources
<1>2. yolo \in Seq(SureDetections)
  BY <1>1, YoloStays
<1>3. ProcessPrequalCv(frame.image) \in Seq(SureDetections)
  BY CvIsSure
<1>. QED
  BY <1>2, <1>3, RunKeeps

(* Whatever the cameras show and YOLO answers, in every profile and for    *)
(* every setting of smooth_alpha: what f_cam_node publishes stays above    *)
(* the threshold, and so does what it smooths later detections against.    *)
(* OpenCV's markers are never surer than 0.99, so a threshold of 1 is left *)
(* out.                                                                    *)
THEOREM StaysAboveThreshold ==
  ASSUME MinConfidence <= 99
  PROVE  CameraSpec => []StaysConfident
<1>1. CameraInit => StaysConfident
  <2>1. SUFFICES ASSUME CameraInit PROVE StaysConfident
    OBVIOUS
  <2>2. tracker = [c \in Classes |-> 0] /\ published.detections = <<>>
    BY <2>1 DEF CameraInit
  <2>3. tracker \in [Classes -> {0} \cup MinConfidence..100]
    BY <2>2
  <2>4. DOMAIN published.detections = {}
    BY <2>2
  <2>. QED
    BY <2>3, <2>4 DEF StaysConfident
<1>2. StaysConfident /\ [CameraNext]_frontVars => StaysConfident'
  <2>1. SUFFICES ASSUME StaysConfident, [CameraNext]_frontVars PROVE StaysConfident'
    OBVIOUS
  <2>2. CASE UNCHANGED nodeVars
    BY <2>1, <2>2 DEF StaysConfident, nodeVars
  <2>3. CASE TimerCallback
    <3>. DEFINE start == [tracker |-> tracker, detections |-> <<>>]
    <3>1. PICK frame \in Readable, yolo \in YoloResults :
            LET s == FoldLeft(Smooth, start, RunDetection(frame, yolo))
            IN tracker' = s.tracker /\ published'.detections = s.detections
      BY <2>3 DEF TimerCallback
    <3>. DEFINE found == RunDetection(frame, yolo)
                s == FoldLeft(Smooth, start, found)
    <3>2. found \in Seq(SureDetections)
      BY RunIsSure
    <3>3. tracker \in [Classes -> {0} \cup Sure]
      BY <2>1 DEF StaysConfident, Sure
    <3>. HIDE DEF found
    <3>4. /\ s.tracker \in [Classes -> {0} \cup MinConfidence..100]
          /\ \A i \in DOMAIN s.detections : s.detections[i].confidence \in MinConfidence..100
      BY <3>2, <3>3, SmoothingKeepsConfidence
    <3>5. tracker' = s.tracker /\ published'.detections = s.detections
      BY <3>1 DEF found
    <3>. HIDE DEF s
    <3>. QED
      BY <3>4, <3>5 DEF StaysConfident
  <2>4. CASE Render \/ DropOldest \/ PutAgain \/ Drain \/ SimImageCallback
    <3>1. UNCHANGED nodeVars
      BY <2>4 DEF Render, DropOldest, PutAgain, Drain, SimImageCallback
    <3>. QED
      BY <2>2, <3>1
  <2>5. CASE UNCHANGED frontVars
    <3>1. UNCHANGED nodeVars
      BY <2>5 DEF frontVars
    <3>. QED
      BY <2>2, <3>1
  <2>. QED
    BY <2>1, <2>3, <2>4, <2>5 DEF CameraNext
<1>. QED
  BY <1>1, <1>2, PTL DEF CameraSpec

-----------------------------------------------------------------------------
(* Where it aims.  Every contour is of one run of painted columns.         *)
Whole(image, r) == \A c \in r[1]..r[2] : image.column[c] # "Twin"

LEMMA ContourOf ==
  ASSUME NEW image, NEW b \in ContourBoxes(image)
  PROVE  \E r \in Runs(Painted(image)) :
           /\ b.x = r[1] /\ b.w = r[2] - r[1] + 1 /\ Right(b) = r[2] + 1
           /\ b.y \in Nat /\ b.h \in Nat /\ b.y + b.h <= Height
           /\ Whole(image, r) => b.y = 0 /\ b.h = Height /\ b.area = b.w * Height
<1>1. Width \in Nat /\ Height \in Nat /\ HalfHeight \in Nat /\ HalfHeight + 1 + HalfHeight = Height
  BY GateVisionAssumption DEF HalfHeight
<1>. DEFINE Twins(r) == \A c \in r[1]..r[2] : image.column[c] = "Twin"
            W(r) == r[2] - r[1] + 1
            Gaps(r) == Cardinality({c \in r[1]..r[2] : image.column[c] = "Twin"})
            Of(r) == IF Twins(r)
                     THEN {Box(r[1], 0, W(r), HalfHeight, W(r) * HalfHeight),
                           Box(r[1], HalfHeight + 1, W(r), HalfHeight, W(r) * HalfHeight)}
                     ELSE {Box(r[1], 0, W(r), Height, W(r) * Height - Gaps(r))}
<1>2. ContourBoxes(image) = UNION {Of(r) : r \in Runs(Painted(image))}
  BY DEF ContourBoxes
<1>. HIDE DEF Of
<1>3. PICK r \in Runs(Painted(image)) : b \in Of(r)
  BY <1>2
<1>4. r[1] \in 1..Width /\ r[2] \in 1..Width /\ r[1] <= r[2]
  BY PaintedIs, RunsType
<1>. DEFINE u == r[1]
            v == r[2]
<1>5. u \in Int /\ v \in Int /\ u <= v /\ W(r) \in Nat /\ u + W(r) = v + 1
  BY <1>1, <1>4
<1>6. CASE Twins(r)
  <2>1. ~Whole(image, r)
    BY <1>5, <1>6 DEF Whole
  <2>2. \/ b = Box(u, 0, W(r), HalfHeight, W(r) * HalfHeight)
        \/ b = Box(u, HalfHeight + 1, W(r), HalfHeight, W(r) * HalfHeight)
    BY <1>3, <1>6 DEF Of
  <2>. HIDE DEF W, Twins
  <2>3. /\ b.x = u /\ b.w = W(r) /\ b.h = HalfHeight /\ b.y \in {0, HalfHeight + 1}
    BY <2>2 DEF Box
  <2>4. b.y \in Nat /\ b.h \in Nat /\ b.y + b.h <= Height
    BY <1>1, <2>3
  <2>. QED
    BY <1>5, <2>1, <2>3, <2>4 DEF Right, W
<1>7. CASE ~Twins(r)
  <2>1. b = Box(u, 0, W(r), Height, W(r) * Height - Gaps(r))
    BY <1>3, <1>7 DEF Of
  <2>2. Whole(image, r) => Gaps(r) = 0
    <3>1. Whole(image, r) => {c \in u..v : image.column[c] = "Twin"} = {}
      BY DEF Whole
    <3>. QED
      BY <3>1, FS_EmptySet
  <2>3. W(r) * Height \in Nat
    BY <1>1, <1>5
  <2>. HIDE DEF W, Gaps, Twins
  <2>4. b.x = u /\ b.w = W(r) /\ b.y = 0 /\ b.h = Height /\ b.area = W(r) * Height - Gaps(r)
    BY <2>1 DEF Box
  <2>. DEFINE full == W(r) * Height
  <2>5. full \in Nat /\ b.area = full - Gaps(r)
    BY <2>3, <2>4
  <2>. HIDE DEF full
  <2>6. Whole(image, r) => b.area = full
    BY <2>2, <2>5
  <2>7. b.y \in Nat /\ b.h \in Nat /\ b.y + b.h <= Height
    BY <1>1, <2>4
  <2>. QED
    BY <1>5, <2>4, <2>6, <2>7 DEF Right, W, full
<1>. QED
  BY <1>6, <1>7

LEMMA MergeIs ==
  ASSUME NEW a \in Boxes, NEW b \in Boxes
  PROVE  LET m == Merge(a, b) IN
         /\ m \in Boxes /\ m.area = a.area + b.area
         /\ m.x \in {a.x, b.x} /\ m.x <= a.x /\ m.x <= b.x
         /\ Right(m) \in {Right(a), Right(b)} /\ Right(m) >= Right(a) /\ Right(m) >= Right(b)
         /\ m.y \in {a.y, b.y} /\ m.y <= a.y /\ m.y <= b.y
         /\ m.y + m.h \in {a.y + a.h, b.y + b.h}
         /\ m.y + m.h >= a.y + a.h /\ m.y + m.h >= b.y + b.h
<1>. DEFINE x == Min({a.x, b.x})
            y == Min({a.y, b.y})
            right == Max({Right(a), Right(b)})
            low == Max({a.y + a.h, b.y + b.h})
            m == Merge(a, b)
<1>1. /\ a.x \in Int /\ b.x \in Int /\ a.y \in Int /\ b.y \in Int /\ a.h \in Int /\ b.h \in Int
      /\ Right(a) \in Int /\ Right(b) \in Int /\ a.y + a.h \in Int /\ b.y + b.h \in Int
  BY CentreIs
<1>2. x \in {a.x, b.x} /\ x <= a.x /\ x <= b.x /\ x \in Int
  BY <1>1, MinMaxOfTwo
<1>3. y \in {a.y, b.y} /\ y <= a.y /\ y <= b.y /\ y \in Int
  BY <1>1, MinMaxOfTwo
<1>4. right \in {Right(a), Right(b)} /\ right >= Right(a) /\ right >= Right(b) /\ right \in Int
  BY <1>1, MinMaxOfTwo
<1>5. low \in {a.y + a.h, b.y + b.h} /\ low >= a.y + a.h /\ low >= b.y + b.h /\ low \in Int
  BY <1>1, MinMaxOfTwo
<1>6. m = Box(x, y, right - x, low - y, a.area + b.area) /\ m \in Boxes
  BY MergeStays DEF Merge
<1>. HIDE DEF x, y, right, low, m
<1>7. /\ m.x = x /\ m.y = y /\ m.w = right - x /\ m.h = low - y /\ m.area = a.area + b.area
  BY <1>6 DEF Box
<1>8. Right(m) = right /\ m.y + m.h = low
  BY <1>2, <1>3, <1>4, <1>5, <1>7 DEF Right
<1>. QED
  BY <1>2, <1>3, <1>4, <1>5, <1>6, <1>7, <1>8 DEF m

(* What stands between the first column of a run and the last of one.      *)
Spanning(image) ==
  {b \in Boxes :
     /\ b.y >= 0 /\ b.y + b.h <= Height
     /\ \E r \in Runs(Painted(image)) : b.x = r[1] /\ r[2] < Right(b)
     /\ \E r \in Runs(Painted(image)) : Right(b) = r[2] + 1 /\ b.x <= r[1]}

LEMMA LegsSpan ==
  ASSUME NEW image
  PROVE  VerticalLegCandidates(image) \in SUBSET {b \in Spanning(image) : 10 * b.h > 12 * b.w}
<1>. DEFINE D == Spanning(image)
<1>1. D \in SUBSET Boxes
  BY DEF Spanning
<1>2. ContourBoxes(image) \in SUBSET D
  <2>1. SUFFICES ASSUME NEW b \in ContourBoxes(image) PROVE b \in D
    OBVIOUS
  <2>2. b \in Boxes
    BY ContoursAreOutlines DEF Outlines
  <2>3. PICK r \in Runs(Painted(image)) :
          /\ b.x = r[1] /\ Right(b) = r[2] + 1
          /\ b.y \in Nat /\ b.h \in Nat /\ b.y + b.h <= Height
    BY ContourOf
  <2>4. r[1] \in 1..Width /\ r[2] \in 1..Width /\ r[1] <= r[2] /\ Width \in Nat
    BY PaintedIs, RunsType, GateVisionAssumption
  <2>5. r[2] < Right(b) /\ b.x <= r[1] /\ b.y >= 0
    BY <2>3, <2>4
  <2>. QED
    BY <2>2, <2>3, <2>5 DEF Spanning
<1>3. ASSUME NEW a \in D, NEW b \in D
      PROVE  Merge(a, b) \in D
  <2>. DEFINE m == Merge(a, b)
              runs == Runs(Painted(image))
  <2>1. a \in Boxes /\ b \in Boxes
    BY <1>1
  <2>2. /\ m \in Boxes
        /\ m.x \in {a.x, b.x} /\ m.x <= a.x /\ m.x <= b.x
        /\ Right(m) \in {Right(a), Right(b)} /\ Right(m) >= Right(a) /\ Right(m) >= Right(b)
        /\ m.y \in {a.y, b.y} /\ m.y + m.h \in {a.y + a.h, b.y + b.h}
    BY <2>1, MergeIs
  <2>3. \A c \in {a, b} :
          /\ c.y >= 0 /\ c.y + c.h <= Height
          /\ \E r \in runs : c.x = r[1] /\ r[2] < Right(c)
          /\ \E r \in runs : Right(c) = r[2] + 1 /\ c.x <= r[1]
    BY DEF Spanning
  <2>4. \A r \in runs : r[1] \in Int /\ r[2] \in Int
    BY PaintedIs, RunsType
  <2>5. /\ a.x \in Int /\ b.x \in Int /\ Right(a) \in Int /\ Right(b) \in Int
        /\ m.x \in Int /\ Right(m) \in Int
    BY <2>1, <2>2, CentreIs
  <2>. HIDE DEF m, D, runs
  <2>6. \E r \in runs : m.x = r[1] /\ r[2] < Right(m)
    <3>1. PICK c \in {a, b} : m.x = c.x
      BY <2>2
    <3>2. PICK r \in runs : c.x = r[1] /\ r[2] < Right(c)
      BY <2>3
    <3>3. Right(c) <= Right(m) /\ Right(c) \in Int
      BY <2>2, <2>5
    <3>4. r[2] < Right(m)
      BY <2>4, <2>5, <3>2, <3>3
    <3>. QED
      BY <3>1, <3>2, <3>4
  <2>7. \E r \in runs : Right(m) = r[2] + 1 /\ m.x <= r[1]
    <3>1. PICK c \in {a, b} : Right(m) = Right(c)
      BY <2>2
    <3>2. PICK r \in runs : Right(c) = r[2] + 1 /\ c.x <= r[1]
      BY <2>3
    <3>3. m.x <= c.x /\ c.x \in Int
      BY <2>2, <2>5
    <3>4. m.x <= r[1]
      BY <2>4, <2>5, <3>2, <3>3
    <3>. QED
      BY <3>1, <3>2, <3>4
  <2>8. m.y >= 0 /\ m.y + m.h <= Height
    BY <2>2, <2>3
  <2>9. m \in D
    BY <2>2, <2>6, <2>7, <2>8 DEF D, Spanning, runs
  <2>. QED
    BY <2>9 DEF m
<1>. HIDE DEF D
<1>4. VerticalLegCandidates(image) \in SUBSET {b \in D : 10 * b.h > 12 * b.w}
  BY <1>1, <1>2, <1>3, LegsStay
<1>. QED
  BY <1>4 DEF D

(* Two legs as far apart as the detectors ask, none of their runs wide:    *)
(* the middle lies between two runs.                                       *)
LEMMA AimsBetween ==
  ASSUME NEW image, NarrowLegs(image),
         NEW l \in Spanning(image), NEW r \in Spanning(image),
         10 * l.h > 12 * l.w, 10 * r.h > 12 * r.w, Apart(l, r)
  PROVE  \E p, q \in LegRuns(image) :
           Between(p, q, Min({l.x, r.x}) + Max({Right(l), Right(r)}))
<1>. DEFINE x == Min({l.x, r.x})
            right == Max({Right(l), Right(r)})
<1>1. /\ Width \in Nat /\ Height \in Nat
      /\ \A b \in {l, r} : /\ b.x \in Int /\ b.w \in Int /\ b.h \in Int /\ b.y \in Int
                           /\ Right(b) \in Int /\ Right(b) = b.x + b.w
                           /\ Centre2(b) = 2 * b.x + b.w
  BY CentreIs, GateVisionAssumption DEF Spanning, Right, Centre2
<1>2. \A b \in {l, r} :
        /\ 12 * b.w < 10 * Height
        /\ \E p \in Runs(Painted(image)) : b.x = p[1] /\ p[2] < Right(b)
        /\ \E p \in Runs(Painted(image)) : Right(b) = p[2] + 1 /\ b.x <= p[1]
  <2>1. \A b \in {l, r} : b.y >= 0 /\ b.y + b.h <= Height /\ 10 * b.h > 12 * b.w
    BY DEF Spanning
  <2>2. \A b \in {l, r} : 12 * b.w < 10 * Height
    BY <1>1, <2>1
  <2>. QED
    BY <2>2 DEF Spanning
<1>3. x \in {l.x, r.x} /\ x <= l.x /\ x <= r.x
  BY <1>1, MinMaxOfTwo
<1>4. right \in {Right(l), Right(r)} /\ right >= Right(l) /\ right >= Right(r)
  BY <1>1, MinMaxOfTwo
<1>. HIDE DEF x, right
<1>5. 2 * (right - x) >= l.w + r.w + (Centre2(r) - Centre2(l))
  BY <1>1, <1>3, <1>4
<1>6. \A w \in Int : 100 * w <= 12 * Width /\ (w <= l.w \/ w <= r.w) /\ l.w >= 0 /\ r.w >= 0
                       => right - x >= 2 * w
  <2>1. 100 * (Centre2(r) - Centre2(l)) >= 36 * Width
    BY <1>1 DEF Apart
  <2>2. x \in Int /\ right \in Int /\ Centre2(l) \in Int /\ Centre2(r) \in Int
    BY <1>1, <1>3, <1>4
  <2>. QED
    BY <1>1, <1>5, <2>1, <2>2
<1>7. l.w >= 0 /\ r.w >= 0
  BY CentreIs DEF Spanning
<1>8. \A p \in Runs(Painted(image)) : p[1] \in Int /\ p[2] \in Int /\ p[1] <= p[2]
  BY PaintedIs, RunsType
<1>9. \A p \in Runs(Painted(image)), b \in {l, r} :
        b.x <= p[1] /\ p[2] < Right(b) =>
          p \in LegRuns(image) /\ right - x >= 2 * (p[2] - p[1] + 1)
  <2>1. SUFFICES ASSUME NEW p \in Runs(Painted(image)), NEW b \in {l, r},
                        b.x <= p[1], p[2] < Right(b)
                 PROVE  p \in LegRuns(image) /\ right - x >= 2 * (p[2] - p[1] + 1)
    OBVIOUS
  <2>. DEFINE w == p[2] - p[1] + 1
  <2>2. w \in Int /\ w <= b.w
    BY <1>1, <1>8, <2>1
  <2>3. 10 * Height > 12 * w
    BY <1>1, <1>2, <2>2
  <2>4. p \in LegRuns(image)
    BY <2>3 DEF LegRuns
  <2>5. 100 * w <= 12 * Width
    BY <2>4 DEF NarrowLegs
  <2>. HIDE DEF w
  <2>6. right - x >= 2 * w
    BY <1>6, <1>7, <2>2, <2>5
  <2>. QED
    BY <2>4, <2>6 DEF w
<1>10. PICK p \in Runs(Painted(image)) :
         /\ x = p[1] /\ p \in LegRuns(image) /\ right - x >= 2 * (p[2] - p[1] + 1)
  <2>1. PICK b \in {l, r} : x = b.x
    BY <1>3
  <2>2. PICK p \in Runs(Painted(image)) : b.x = p[1] /\ p[2] < Right(b)
    BY <1>2
  <2>. QED
    BY <1>8, <1>9, <2>1, <2>2
<1>11. PICK q \in Runs(Painted(image)) :
         /\ right = q[2] + 1 /\ q \in LegRuns(image) /\ right - x >= 2 * (q[2] - q[1] + 1)
  <2>1. PICK b \in {l, r} : right = Right(b)
    BY <1>4
  <2>2. PICK q \in Runs(Painted(image)) : Right(b) = q[2] + 1 /\ b.x <= q[1]
    BY <1>2
  <2>3. q[2] < Right(b)
    BY <1>8, <2>2
  <2>. QED
    BY <1>9, <2>1, <2>2, <2>3
<1>12. Between(p, q, x + right)
  BY <1>8, <1>10, <1>11 DEF Between
<1>. QED
  BY <1>10, <1>11, <1>12 DEF x, right

LegSources == {"split_leg_pair", "red_black_outer_panel_pair"}

(* A target that was found by legs stands on two legs that are apart.      *)
LegTarget(image, t) ==
  t.source \in LegSources =>
    \E l, r \in VerticalLegCandidates(image) : t.boxes = {l, r} /\ Apart(l, r)

LEMMA SplitLegsAreLegs ==
  ASSUME NEW image
  PROVE  LegTarget(image, DetectSplitLegGatePair(image))
<1>. DEFINE legs == {leg \in VerticalLegCandidates(image) : IsSplitLeg(image, leg)}
<1>1. legs \in SUBSET Boxes /\ legs \in SUBSET VerticalLegCandidates(image)
  BY LegsAreBoxes
<1>2. DetectSplitLegGatePair(image) = OutermostPair(image, legs)
  BY DEF DetectSplitLegGatePair
<1>. HIDE DEF legs
<1>3. CASE OutermostPair(image, legs) = NoTarget
  BY <1>2, <1>3 DEF LegTarget, LegSources, NoTarget
<1>4. CASE OutermostPair(image, legs) # NoTarget
  <2>. DEFINE l == Leftmost(legs)
              r == Rightmost(legs)
  <2>1. /\ Cardinality(legs) >= 2 /\ Apart(l, r)
        /\ OutermostPair(image, legs) = Pair(l, r, "split_leg_pair")
    BY <1>4 DEF OutermostPair
  <2>2. l \in legs /\ r \in legs
    BY <1>1, <2>1, TwoAreSome, LeftmostIs
  <2>. HIDE DEF l, r
  <2>3. DetectSplitLegGatePair(image).boxes = {l, r}
    BY <1>2, <2>1 DEF Pair
  <2>. QED
    BY <1>1, <2>1, <2>2, <2>3 DEF LegTarget
<1>. QED
  BY <1>3, <1>4

LEMMA OuterPanelsAreLegs ==
  ASSUME NEW image
  PROVE  LegTarget(image, SelectOuterPanelPair(image))
<1>. DEFINE pairs == ApartPairs(VerticalLegCandidates(image))
            w == Widest(pairs)
<1>1. pairs \in SUBSET (Boxes \X Boxes)
  BY LegsAreBoxes DEF ApartPairs
<1>2. SelectOuterPanelPair(image) = WidestPair(image, pairs)
  BY DEF SelectOuterPanelPair
<1>3. \A p \in pairs : /\ Apart(p[1], p[2])
                       /\ p[1] \in VerticalLegCandidates(image)
                       /\ p[2] \in VerticalLegCandidates(image)
  BY DEF ApartPairs
<1>. HIDE DEF pairs
<1>4. CASE SelectOuterPanelPair(image) = NoTarget
  BY <1>4 DEF LegTarget, LegSources, NoTarget
<1>5. CASE SelectOuterPanelPair(image) # NoTarget
  <2>1. pairs # {} /\ WidestPair(image, pairs) = GatePair(image, w[1], w[2])
    BY <1>2, <1>5 DEF WidestPair
  <2>2. w \in pairs
    BY <1>1, <2>1, WidestIs
  <2>. HIDE DEF w
  <2>3. GatePair(image, w[1], w[2]) = Pair(w[1], w[2], "red_black_outer_panel_pair")
    BY <1>2, <1>5, <2>1 DEF GatePair
  <2>4. SelectOuterPanelPair(image).boxes = {w[1], w[2]}
    BY <1>2, <2>1, <2>3 DEF Pair
  <2>. QED
    BY <1>3, <2>2, <2>4 DEF LegTarget
<1>. QED
  BY <1>4, <1>5

LEMMA GateStandsOnLegs ==
  ASSUME NEW image
  PROVE  LegTarget(image, GateTarget(image))
<1>1. LegTarget(image, NoTarget)
  BY DEF LegTarget, LegSources, NoTarget
<1>2. LegTarget(image, DetectBlueScreenGate(image))
  <2>1. DetectBlueScreenGate(image).source \in {"blue_screen_gate", "none"}
    BY DEF DetectBlueScreenGate, Pair, NoTarget
  <2>. QED
    BY <2>1 DEF LegTarget, LegSources
<1>3. LegTarget(image, DetectCheckerboardGate(image))
  <2>1. DetectCheckerboardGate(image).source \in {"checkerboard_4sq", "none"}
    BY DEF DetectCheckerboardGate, Largest, OnlyBox, NoTarget
  <2>. QED
    BY <2>1 DEF LegTarget, LegSources
<1>. QED
  BY <1>1, <1>2, <1>3, GateTargetFrom, SplitLegsAreLegs, OuterPanelsAreLegs

(* The detection of a target: where it is, and by what it was found.       *)
Middle(boxes) == Min({b.x : b \in boxes}) + Max({Right(b) : b \in boxes})

LEMMA GateDetectionIs ==
  ASSUME NEW t, GateDetection(t) # <<>>
  PROVE  \E d : GateDetection(t) = <<d>> /\ d.x2 = Middle(t.boxes) /\ d.source = t.source
<1>. DEFINE confidence == Max({20, Min({99, (400 * t.area) \div (Width * Height)})})
            x2 == Min({b.x : b \in t.boxes}) + Max({Right(b) : b \in t.boxes})
            d == Detection("gate", confidence, x2, t.source)
<1>1. GateDetection(t) = IF t = NoTarget \/ confidence < MinConfidence THEN <<>> ELSE <<d>>
  BY DEF GateDetection
<1>2. x2 = Middle(t.boxes)
  BY DEF Middle
<1>. HIDE DEF confidence, x2
<1>3. d.x2 = x2 /\ d.source = t.source
  BY DEF Detection
<1>. HIDE DEF d
<1>. QED
  BY <1>1, <1>2, <1>3

Aimed(image) ==
  {d \in SureDetections :
     d.source \in LegSources => \E p, q \in LegRuns(image) : Between(p, q, d.x2)}

LEMMA CvAims ==
  ASSUME NEW image, NarrowLegs(image), MinConfidence <= 99
  PROVE  ProcessPrequalCv(image) \in Seq(Aimed(image))
<1>. DEFINE t == GateTarget(image)
            D == Aimed(image)
<1>1. GateDetection(t) \in Seq(D)
  <2>1. CASE GateDetection(t) = <<>>
    BY <2>1, EmptySeq
  <2>2. CASE GateDetection(t) # <<>>
    <3>1. PICK d : GateDetection(t) = <<d>> /\ d.x2 = Middle(t.boxes) /\ d.source = t.source
      BY <2>2, GateDetectionIs
    <3>2. d \in SureDetections
      <4>1. GateDetection(t) \in Seq(SureDetections)
        BY GateTargetIs, GateIsSure
      <4>2. <<d>> \in Seq(SureDetections)
        BY <3>1, <4>1
      <4>. QED
        BY <4>2
    <3>3. ASSUME d.source \in LegSources
          PROVE  \E p, q \in LegRuns(image) : Between(p, q, d.x2)
      <4>1. PICK l \in VerticalLegCandidates(image), r \in VerticalLegCandidates(image) :
              t.boxes = {l, r} /\ Apart(l, r)
        BY <3>1, <3>3, GateStandsOnLegs DEF LegTarget
      <4>2. /\ l \in Spanning(image) /\ r \in Spanning(image)
            /\ 10 * l.h > 12 * l.w /\ 10 * r.h > 12 * r.w
        BY LegsSpan
      <4>3. PICK p \in LegRuns(image), q \in LegRuns(image) :
              Between(p, q, Min({l.x, r.x}) + Max({Right(l), Right(r)}))
        BY <4>1, <4>2, AimsBetween
      <4>4. {b.x : b \in t.boxes} = {l.x, r.x} /\ {Right(b) : b \in t.boxes} = {Right(l), Right(r)}
        BY <4>1
      <4>5. d.x2 = Min({l.x, r.x}) + Max({Right(l), Right(r)})
        BY <3>1, <4>4 DEF Middle
      <4>. QED
        BY <4>3, <4>5
    <3>4. d \in D
      BY <3>2, <3>3 DEF Aimed
    <3>. HIDE DEF D
    <3>. QED
      BY <3>1, <3>4
  <2>. QED
    BY <2>1, <2>2
<1>2. DetectMarker(image) \in Seq(D)
  <2>1. CASE DetectMarker(image) = <<>>
    BY <2>1, EmptySeq
  <2>2. CASE DetectMarker(image) # <<>>
    <3>1. PICK d : DetectMarker(image) = <<d>> /\ d.source = "marker"
      <4>1. PICK x2 : DetectMarker(image) = <<Detection("neon_orange", 99, x2, "marker")>>
        BY <2>2 DEF DetectMarker
      <4>. DEFINE e == Detection("neon_orange", 99, x2, "marker")
      <4>2. e.source = "marker" /\ DetectMarker(image) = <<e>>
        BY <4>1 DEF Detection
      <4>. HIDE DEF e
      <4>. QED
        BY <4>2
    <3>2. d \in SureDetections
      <4>1. <<d>> \in Seq(SureDetections)
        BY <3>1, MarkerIsSure
      <4>. QED
        BY <4>1
    <3>3. d \in D
      BY <3>1, <3>2 DEF Aimed, LegSources
    <3>. HIDE DEF D
    <3>. QED
      BY <3>1, <3>3
  <2>. QED
    BY <2>1, <2>2
<1>. QED
  BY <1>1, <1>2, ConcatProperties DEF ProcessPrequalCv

LEMMA RunAims ==
  ASSUME NEW frame, NEW yolo \in YoloResults, NarrowLegs(frame.image), MinConfidence <= 99
  PROVE  RunDetection(frame, yolo) \in Seq(Aimed(frame.image))
<1>1. Theirs \in SUBSET Aimed(frame.image)
  BY DEF Theirs, Aimed, SureDetections, Sources, LegSources
<1>2. yolo \in Seq(Aimed(frame.image))
  BY <1>1, YoloStays
<1>3. ProcessPrequalCv(frame.image) \in Seq(Aimed(frame.image))
  BY CvAims
<1>. QED
  BY <1>2, <1>3, RunKeeps

-----------------------------------------------------------------------------
(* That it finds the gate.  Where runs stand apart a cluster is of one run *)
(* only, and each run that has a contour has a cluster.                    *)
RunOf(b) == <<b.x, Right(b) - 1>>

OneRun(image) ==
  {b \in Boxes :
     /\ RunOf(b) \in Runs(Painted(image))
     /\ b.y >= 0 /\ b.y + b.h <= Height /\ b.area >= 0
     /\ Whole(image, RunOf(b)) => b.y = 0 /\ b.h = Height /\ b.area >= b.w * Height}

LEMMA ContoursOneRun ==
  ASSUME NEW image
  PROVE  ContourBoxes(image) \in SUBSET OneRun(image)
<1>1. SUFFICES ASSUME NEW b \in ContourBoxes(image) PROVE b \in OneRun(image)
  OBVIOUS
<1>2. b \in Boxes /\ b.area \in 0..FrameArea /\ FrameArea \in Nat
  BY ContoursAreOutlines, GateVisionAssumption DEF Outlines, FrameArea
<1>3. PICK r \in Runs(Painted(image)) :
        /\ b.x = r[1] /\ b.w = r[2] - r[1] + 1 /\ Right(b) = r[2] + 1
        /\ b.y \in Nat /\ b.h \in Nat /\ b.y + b.h <= Height
        /\ Whole(image, r) => b.y = 0 /\ b.h = Height /\ b.area = b.w * Height
  BY ContourOf
<1>4. r[1] \in 1..Width /\ r[2] \in 1..Width /\ r = <<r[1], r[2]>>
  BY PaintedIs, RunsType
<1>5. RunOf(b) = r
  <2>1. Right(b) - 1 = r[2]
    BY <1>3, <1>4
  <2>. QED
    BY <1>3, <1>4, <2>1 DEF RunOf
<1>6. b.area \in Int /\ b.area >= 0
  BY <1>2
<1>7. Whole(image, r) => b.area >= b.w * Height
  BY <1>3, <1>6
<1>. QED
  BY <1>2, <1>3, <1>5, <1>6, <1>7 DEF OneRun

LEMMA RunOfIs ==
  ASSUME NEW image, NEW b \in OneRun(image)
  PROVE  LET r == RunOf(b) IN
         /\ r \in Runs(Painted(image)) /\ r[1] \in 1..Width /\ r[2] \in 1..Width /\ r[1] <= r[2]
         /\ b.x = r[1] /\ Right(b) = r[2] + 1 /\ b.w = r[2] - r[1] + 1
         /\ Centre2(b) = r[1] + r[2] + 1
<1>. DEFINE r == RunOf(b)
<1>1. r \in Runs(Painted(image)) /\ b \in Boxes
  BY DEF OneRun
<1>2. r[1] \in 1..Width /\ r[2] \in 1..Width /\ r[1] <= r[2]
  BY <1>1, PaintedIs, RunsType
<1>3. r[1] = b.x /\ r[2] = Right(b) - 1
  BY DEF RunOf
<1>. HIDE DEF r
<1>4. b.x \in Int /\ Right(b) \in Int /\ b.w \in Int
  BY <1>1, CentreIs
<1>5. b.x = r[1] /\ Right(b) = r[2] + 1 /\ b.w = r[2] - r[1] + 1 /\ Centre2(b) = r[1] + r[2] + 1
  BY <1>2, <1>3, <1>4 DEF Right, Centre2
<1>. QED
  BY <1>1, <1>2, <1>5 DEF r

LEMMA NearIsSameRun ==
  ASSUME NEW image, StandApart(image), NEW a \in OneRun(image), NEW b \in OneRun(image)
  PROVE  Near(a, b) <=> RunOf(a) = RunOf(b)
<1>. DEFINE r == RunOf(a)
            s == RunOf(b)
            d == Centre2(a) - Centre2(b)
<1>1. /\ r \in Runs(Painted(image)) /\ s \in Runs(Painted(image)) /\ Width \in Nat
      /\ r[1] \in Int /\ r[2] \in Int /\ s[1] \in Int /\ s[2] \in Int
      /\ Centre2(a) = r[1] + r[2] + 1 /\ Centre2(b) = s[1] + s[2] + 1
  BY RunOfIs, GateVisionAssumption
<1>2. Near(a, b) <=> 100 * Max({d, -d}) <= 2 * 4 * Width
  BY DEF Near
<1>3. d = r[1] + r[2] - s[1] - s[2]
  BY <1>1
<1>4. d \in Int /\ Max({d, -d}) \in {d, -d}
  <2>1. d \in Int /\ -d \in Int
    BY <1>1, <1>3
  <2>. HIDE DEF d
  <2>. QED
    BY <2>1, MinMaxOfTwo
<1>5. CASE r = s
  <2>1. d = 0
    BY <1>1, <1>3, <1>5
  <2>. HIDE DEF d
  <2>2. Max({d, -d}) = 0
    BY <1>4, <2>1
  <2>. QED
    BY <1>1, <1>2, <1>5, <2>2
<1>6. CASE r # s
  <2>1. 100 * Max({d, -d}) > 2 * 4 * Width
    <3>. HIDE DEF d, r, s
    <3>. QED
      BY <1>1, <1>3, <1>6 DEF StandApart
  <2>2. Max({d, -d}) \in Int
    BY <1>4
  <2>. HIDE DEF d
  <2>. QED
    BY <1>1, <1>2, <1>6, <2>1, <2>2
<1>. QED
  BY <1>5, <1>6

LEMMA MergeOneRun ==
  ASSUME NEW image, NEW a \in OneRun(image), NEW b \in OneRun(image), RunOf(a) = RunOf(b)
  PROVE  Merge(a, b) \in OneRun(image) /\ RunOf(Merge(a, b)) = RunOf(a)
<1>. DEFINE m == Merge(a, b)
<1>1. a \in Boxes /\ b \in Boxes
  BY DEF OneRun
<1>2. /\ m \in Boxes /\ m.area = a.area + b.area
      /\ m.x \in {a.x, b.x} /\ Right(m) \in {Right(a), Right(b)}
      /\ m.y \in {a.y, b.y} /\ m.y + m.h \in {a.y + a.h, b.y + b.h}
  BY <1>1, MergeIs
<1>. HIDE DEF m
<1>3. a.x = b.x /\ Right(a) = Right(b)
  BY RunOfIs
<1>4. m.x = a.x /\ Right(m) = Right(a)
  BY <1>2, <1>3
<1>5. RunOf(m) = RunOf(a)
  BY <1>4 DEF RunOf
<1>6. m.w = a.w
  BY <1>1, <1>2, <1>4, CentreIs DEF Right
<1>7. /\ a.area \in Int /\ b.area \in Int /\ a.w \in Int /\ Height \in Int
      /\ m.y \in Int /\ m.h \in Int
  BY <1>1, <1>2, CentreIs, GateVisionAssumption
<1>8. m.area >= 0 /\ m.area >= a.area
  BY <1>2, <1>7 DEF OneRun
<1>9. m.y >= 0 /\ m.y + m.h <= Height
  BY <1>2 DEF OneRun
<1>10. ASSUME Whole(image, RunOf(m))
       PROVE  m.y = 0 /\ m.h = Height /\ m.area >= m.w * Height
  <2>1. /\ a.y = 0 /\ a.h = Height /\ a.area >= a.w * Height
        /\ b.y = 0 /\ b.h = Height
    BY <1>5, <1>10 DEF OneRun
  <2>2. m.y = 0 /\ m.h = Height
    BY <1>2, <1>7, <2>1
  <2>. DEFINE full == a.w * Height
  <2>3. full \in Int /\ a.area >= full
    BY <1>7, <2>1
  <2>. HIDE DEF full
  <2>4. m.area >= full
    BY <1>2, <1>7, <1>8, <2>3
  <2>. QED
    BY <1>6, <2>2, <2>4 DEF full
<1>11. RunOf(m) \in Runs(Painted(image))
  BY <1>5 DEF OneRun
<1>12. m \in OneRun(image)
  BY <1>2, <1>8, <1>9, <1>10, <1>11 DEF OneRun
<1>. QED
  BY <1>5, <1>12 DEF m

LEMMA JoinsItsRun ==
  ASSUME NEW image, StandApart(image), NEW c \in OneRun(image),
         NEW clusters \in Seq(OneRun(image))
  PROVE  LET s == Joins(c, clusters) IN
         /\ s \in Seq(OneRun(image))
         /\ \E i \in DOMAIN s : RunOf(s[i]) = RunOf(c)
         /\ \A j \in DOMAIN clusters : j \in DOMAIN s /\ RunOf(s[j]) = RunOf(clusters[j])
<1>. DEFINE D == OneRun(image)
            near == {i \in DOMAIN clusters : Near(c, clusters[i])}
            n == Len(clusters)
<1>1. n \in Nat /\ DOMAIN clusters = 1..n /\ \A i \in 1..n : clusters[i] \in D
  BY LenProperties, ElementOfSeq
<1>2. \A i \in 1..n : Near(c, clusters[i]) => RunOf(clusters[i]) = RunOf(c)
  BY <1>1, NearIsSameRun
<1>3. CASE near = {}
  <2>. DEFINE s == Append(clusters, c)
  <2>1. Joins(c, clusters) = s
    BY <1>3 DEF Joins
  <2>. HIDE DEF D, n
  <2>2. s \in Seq(D) /\ Len(s) = n + 1 /\ s[n + 1] = c /\ \A i \in 1..n : s[i] = clusters[i]
    BY AppendProperties DEF D, n
  <2>3. DOMAIN s = 1 .. n + 1
    BY <2>2, LenProperties
  <2>. HIDE DEF s
  <2>4. \E i \in DOMAIN s : RunOf(s[i]) = RunOf(c)
    BY <1>1, <2>2, <2>3
  <2>5. \A j \in DOMAIN clusters : j \in DOMAIN s /\ RunOf(s[j]) = RunOf(clusters[j])
    BY <1>1, <2>2, <2>3
  <2>. QED
    BY <2>1, <2>2, <2>4, <2>5 DEF D
<1>4. CASE near # {}
  <2>. DEFINE m == Min(near)
              b == Merge(clusters[m], c)
              s == [clusters EXCEPT ![m] = b]
  <2>1. near \in SUBSET Nat
    BY <1>1
  <2>2. m \in near
    <3>. HIDE DEF near
    <3>. QED
      BY <1>4, <2>1, MinOfIndices
  <2>3. Joins(c, clusters) = s
    BY <1>4 DEF Joins
  <2>4. m \in 1..n /\ clusters[m] \in D /\ RunOf(clusters[m]) = RunOf(c)
    BY <1>1, <1>2, <2>2
  <2>5. b \in D /\ RunOf(b) = RunOf(c)
    BY <2>4, MergeOneRun
  <2>. HIDE DEF m, b
  <2>6. s \in Seq(D)
    <3>1. clusters \in Seq(D) /\ m \in 1..Len(clusters)
      BY <2>4
    <3>. HIDE DEF D, n
    <3>. QED
      BY <2>5, <3>1, ExceptSeq
  <2>7. DOMAIN s = 1..n /\ \A j \in 1..n : s[j] = IF j = m THEN b ELSE clusters[j]
    BY <1>1
  <2>. HIDE DEF s
  <2>8. \E i \in DOMAIN s : RunOf(s[i]) = RunOf(c)
    BY <2>4, <2>5, <2>7
  <2>9. \A j \in DOMAIN clusters : j \in DOMAIN s /\ RunOf(s[j]) = RunOf(clusters[j])
    BY <1>1, <2>4, <2>5, <2>7
  <2>. QED
    BY <2>3, <2>6, <2>8, <2>9
<1>. QED
  BY <1>3, <1>4

LEMMA ClustersByRun ==
  ASSUME NEW image, StandApart(image), NEW S \in SUBSET OneRun(image), IsFiniteSet(S)
  PROVE  LET s == Clusters(S) IN
         /\ s \in Seq(OneRun(image))
         /\ \A c \in S : \E i \in DOMAIN s : RunOf(s[i]) = RunOf(c)
<1>. DEFINE Has(t, s) == \A c \in t : \E i \in DOMAIN s : RunOf(s[i]) = RunOf(c)
            I == {x \in (SUBSET S) \X Seq(OneRun(image)) : Has(x[1], x[2])}
<1>1. S \in SUBSET Boxes
  BY DEF OneRun
<1>2. <<{}, <<>>>> \in I
  BY EmptySeq
<1>3. ASSUME NEW t \in SUBSET S, NEW clusters, t # {}, <<t \ {Rightmost(t)}, clusters>> \in I
      PROVE  <<t, Joins(Rightmost(t), clusters)>> \in I
  <2>. DEFINE c == Rightmost(t)
              s == Joins(c, clusters)
  <2>1. c \in t /\ c \in OneRun(image)
    BY <1>1, <1>3, LeftmostIs
  <2>2. clusters \in Seq(OneRun(image)) /\ Has(t \ {c}, clusters)
    BY <1>3
  <2>. HIDE DEF c
  <2>3. /\ s \in Seq(OneRun(image))
        /\ \E i \in DOMAIN s : RunOf(s[i]) = RunOf(c)
        /\ \A j \in DOMAIN clusters : j \in DOMAIN s /\ RunOf(s[j]) = RunOf(clusters[j])
    BY <2>1, <2>2, JoinsItsRun
  <2>. HIDE DEF s
  <2>4. Has(t, s)
    <3>1. SUFFICES ASSUME NEW d \in t PROVE \E i \in DOMAIN s : RunOf(s[i]) = RunOf(d)
      OBVIOUS
    <3>2. CASE d = c
      BY <2>3, <3>2
    <3>3. CASE d # c
      <4>1. PICK j \in DOMAIN clusters : RunOf(clusters[j]) = RunOf(d)
        BY <2>2, <3>3
      <4>. QED
        BY <2>3, <4>1
    <3>. QED
      BY <3>2, <3>3
  <2>. HIDE DEF Has
  <2>. QED
    BY <2>3, <2>4 DEF c, s
<1>. HIDE DEF I
<1>4. <<S, Clusters(S)>> \in I
  BY <1>1, <1>2, <1>3, ClustersGrow
<1>. QED
  BY <1>4 DEF I

LEMMA WholeRunHasContour ==
  ASSUME NEW image, NEW r \in Runs(Painted(image)), Whole(image, r)
  PROVE  \E b \in ContourBoxes(image) : RunOf(b) = r /\ b.h = Height /\ b.w = r[2] - r[1] + 1
<1>. DEFINE Twins(q) == \A c \in q[1]..q[2] : image.column[c] = "Twin"
            W(q) == q[2] - q[1] + 1
            Gaps(q) == Cardinality({c \in q[1]..q[2] : image.column[c] = "Twin"})
            Of(q) == IF Twins(q)
                     THEN {Box(q[1], 0, W(q), HalfHeight, W(q) * HalfHeight),
                           Box(q[1], HalfHeight + 1, W(q), HalfHeight, W(q) * HalfHeight)}
                     ELSE {Box(q[1], 0, W(q), Height, W(q) * Height - Gaps(q))}
            area == W(r) * Height - Gaps(r)
            b == Box(r[1], 0, W(r), Height, area)
<1>1. r[1] \in Int /\ r[2] \in Int /\ r[1] <= r[2] /\ r = <<r[1], r[2]>>
  BY PaintedIs, RunsType
<1>2. ContourBoxes(image) = UNION {Of(q) : q \in Runs(Painted(image))}
  BY DEF ContourBoxes
<1>3. ~Twins(r)
  <2>1. r[1] \in r[1]..r[2]
    BY <1>1
  <2>2. image.column[r[1]] # "Twin"
    BY <2>1 DEF Whole
  <2>. QED
    BY <2>1, <2>2
<1>4. Of(r) = {b}
  BY <1>3
<1>. HIDE DEF Of
<1>5. b \in ContourBoxes(image)
  BY <1>2, <1>4
<1>. HIDE DEF area
<1>6. b.x = r[1] /\ b.w = W(r) /\ b.h = Height
  BY DEF Box
<1>. HIDE DEF b
<1>7. Right(b) - 1 = r[2]
  BY <1>1, <1>6 DEF Right
<1>8. RunOf(b) = r
  BY <1>1, <1>6, <1>7 DEF RunOf
<1>. QED
  BY <1>5, <1>6, <1>8

(* The legs are the tall runs, one each, where nothing else is near.       *)
LEMMA LegsByRun ==
  ASSUME NEW image, StandApart(image)
  PROVE  /\ \A b \in VerticalLegCandidates(image) :
              b \in OneRun(image) /\ RunOf(b) \in LegRuns(image)
         /\ \A r \in LegRuns(image) :
              Whole(image, r) => \E b \in VerticalLegCandidates(image) : RunOf(b) = r
<1>. DEFINE tall == {b \in ContourBoxes(image) : 10 * b.h >= Height /\ 10 * b.h > 11 * b.w}
            s == Clusters(tall)
<1>1. VerticalLegCandidates(image) = {b \in Range(s) : 10 * b.h > 12 * b.w}
  BY DEF VerticalLegCandidates, ClusterVerticalPanels
<1>2. Width \in Nat /\ Height \in Nat /\ Height > 0
  BY GateVisionAssumption
<1>3. tall \in SUBSET OneRun(image) /\ IsFiniteSet(tall)
  <2>1. tall \in SUBSET ContourBoxes(image)
    OBVIOUS
  <2>2. tall \in SUBSET OneRun(image)
    BY <2>1, ContoursOneRun
  <2>. HIDE DEF tall
  <2>. QED
    BY <2>1, <2>2, ContoursAreFinite, FS_Subset
<1>4. s \in Seq(OneRun(image)) /\ \A c \in tall : \E i \in DOMAIN s : RunOf(s[i]) = RunOf(c)
  <2>. HIDE DEF tall
  <2>. QED
    BY <1>3, ClustersByRun
<1>5. \A i \in DOMAIN s : s[i] \in OneRun(image) /\ s[i] \in Range(s)
  <2>. HIDE DEF s
  <2>. QED
    BY <1>4, LenProperties, ElementOfSeq DEF Range
<1>6. ASSUME NEW b \in VerticalLegCandidates(image)
      PROVE  b \in OneRun(image) /\ RunOf(b) \in LegRuns(image)
  <2>. HIDE DEF s
  <2>1. b \in OneRun(image) /\ 10 * b.h > 12 * b.w
    BY <1>1, <1>5 DEF Range
  <2>. DEFINE r == RunOf(b)
  <2>2. r \in Runs(Painted(image)) /\ r[1] \in Int /\ r[2] \in Int /\ b.w = r[2] - r[1] + 1
    BY <2>1, RunOfIs
  <2>3. b.h \in Int /\ b.y \in Int /\ b.w \in Int /\ b.y >= 0 /\ b.y + b.h <= Height
    BY <2>1, CentreIs DEF OneRun
  <2>4. 10 * Height > 12 * b.w
    BY <1>2, <2>1, <2>3
  <2>5. r \in LegRuns(image)
    BY <2>2, <2>4 DEF LegRuns
  <2>. QED
    BY <2>1, <2>5
<1>7. ASSUME NEW r \in LegRuns(image), Whole(image, r)
      PROVE  \E b \in VerticalLegCandidates(image) : RunOf(b) = r
  <2>1. /\ r \in Runs(Painted(image)) /\ r[1] \in Int /\ r[2] \in Int /\ r[1] <= r[2]
        /\ 10 * Height > 12 * (r[2] - r[1] + 1)
    BY PaintedIs, RunsType DEF LegRuns
  <2>2. PICK c \in ContourBoxes(image) :
          RunOf(c) = r /\ c.h = Height /\ c.w = r[2] - r[1] + 1
    BY <1>7, <2>1, WholeRunHasContour
  <2>3. 10 * c.h >= Height /\ 10 * c.h > 11 * c.w
    BY <1>2, <2>1, <2>2
  <2>4. c \in tall
    BY <2>3
  <2>. HIDE DEF s, tall
  <2>5. PICK i \in DOMAIN s : RunOf(s[i]) = r
    BY <1>4, <2>2, <2>4
  <2>. DEFINE b == s[i]
  <2>6. b \in OneRun(image) /\ b \in Range(s) /\ RunOf(b) = r
    BY <1>5, <2>5
  <2>. HIDE DEF b
  <2>7. b.h = Height /\ b.w = r[2] - r[1] + 1
    BY <1>7, <2>6, RunOfIs DEF OneRun
  <2>8. 10 * b.h > 12 * b.w
    BY <2>1, <2>7
  <2>. QED
    BY <1>1, <2>6, <2>8
<1>. QED
  BY <1>6, <1>7

(* The colours of a leg that is painted alike in all its columns.          *)
AllOf(image, kind, columns) == \A c \in columns : image.column[c] = kind

LEMMA CountOfSolid ==
  ASSUME NEW image, NEW kind, NEW columns, AllOf(image, kind, columns),
         NEW half, NEW colours
  PROVE  Count(image, columns, half, colours) =
           IF Paint[kind][half] \in colours THEN Cardinality(columns) ELSE 0
<1>. DEFINE counted == {c \in columns : Paint[image.column[c]][half] \in colours}
<1>1. Count(image, columns, half, colours) = Cardinality(counted)
  BY DEF Count
<1>2. CASE Paint[kind][half] \in colours
  <2>1. counted = columns
    BY <1>2 DEF AllOf
  <2>. QED
    BY <1>1, <1>2, <2>1
<1>3. CASE Paint[kind][half] \notin colours
  <2>1. counted = {}
    BY <1>3 DEF AllOf
  <2>. QED
    BY <1>1, <1>3, <2>1, FS_EmptySet
<1>. QED
  BY <1>2, <1>3

LEMMA LabelOfSolid ==
  ASSUME NEW image, NEW kind, NEW columns, \A c \in columns : image.column[c] = kind,
         Cardinality(columns) \in Nat \ {0}, NEW half
  PROVE  /\ Paint[kind][half] \in Red => Label(image, columns, half, 18) = "R"
         /\ Paint[kind][half] \in Black => Label(image, columns, half, 18) = "B"
<1>. DEFINE n == Cardinality(columns)
            red == Count(image, columns, half, Red)
            black == Count(image, columns, half, Black)
<1>1. n \in Nat /\ n > 0
  OBVIOUS
<1>2. Label(image, columns, half, 18) = ColourOf(red, black, 18 * n)
  BY DEF Label
<1>3. /\ red = IF Paint[kind][half] \in Red THEN n ELSE 0
      /\ black = IF Paint[kind][half] \in Black THEN n ELSE 0
  <2>1. ASSUME NEW colours
        PROVE  Count(image, columns, half, colours) =
                 IF Paint[kind][half] \in colours THEN Cardinality(columns) ELSE 0
    <3>1. AllOf(image, kind, columns)
      BY DEF AllOf
    <3>. QED
      BY <3>1, CountOfSolid
  <2>. QED
    BY <2>1
<1>4. Red \cap Black = {}
  BY DEF Red, Black
<1>. HIDE DEF n, red, black
<1>5. CASE Paint[kind][half] \in Red
  <2>1. red = n /\ black = 0
    BY <1>3, <1>4, <1>5
  <2>2. ColourOf(red, black, 18 * n) = "R"
    BY <1>1, <2>1 DEF ColourOf
  <2>. QED
    BY <1>2, <1>4, <1>5, <2>2
<1>6. CASE Paint[kind][half] \in Black
  <2>1. red = 0 /\ black = n
    BY <1>3, <1>4, <1>6
  <2>2. ColourOf(red, black, 18 * n) = "B"
    BY <1>1, <2>1 DEF ColourOf
  <2>. QED
    BY <1>2, <1>4, <1>6, <2>2
<1>. QED
  BY <1>5, <1>6

Solids == {"RB", "BR", "RR", "Pole"}

LEMMA ColoursOfSolid ==
  ASSUME NEW image, NEW b \in OneRun(image), NEW kind \in Solids,
         \A c \in RunOf(b)[1] .. RunOf(b)[2] : image.column[c] = kind
  PROVE  /\ SplitColors(image, b)[1] = IF kind = "BR" THEN "B" ELSE "R"
         /\ SplitColors(image, b)[2] = IF kind = "RB" THEN "B" ELSE "R"
<1>. DEFINE r == RunOf(b)
            columns == r[1] .. r[2]
<1>1. r[1] \in Int /\ r[2] \in Int /\ r[1] <= r[2] /\ b.x = r[1] /\ Right(b) = r[2] + 1
  BY RunOfIs
<1>2. Whole(image, r)
  BY DEF Whole, Solids
<1>3. b.h = Height
  BY <1>2 DEF OneRun
<1>. HIDE DEF r
<1>4. Cardinality(columns) \in Nat \ {0}
  <2>1. Cardinality(columns) = r[2] - r[1] + 1
    BY <1>1, FS_Interval
  <2>. QED
    BY <1>1, <2>1
<1>5. Right(b) - 1 = r[2] /\ b.x .. Right(b) - 1 = columns
  BY <1>1
<1>6. Halves(b)[1] = 1 /\ Halves(b)[2] = 2
  BY <1>3 DEF Halves
<1>7. /\ SplitColors(image, b)[1] = Label(image, columns, 1, 18)
      /\ SplitColors(image, b)[2] = Label(image, columns, 2, 18)
  <2>. HIDE DEF columns
  <2>. QED
    BY <1>5, <1>6 DEF SplitColors
<1>8. \A c \in columns : image.column[c] = kind
  BY DEF r
<1>. HIDE DEF columns
<1>9. \A half \in 1..2 :
        /\ Paint[kind][half] \in Red => Label(image, columns, half, 18) = "R"
        /\ Paint[kind][half] \in Black => Label(image, columns, half, 18) = "B"
  BY <1>4, <1>8, LabelOfSolid
<1>10. /\ Paint[kind][1] \in IF kind = "BR" THEN Black ELSE Red
       /\ Paint[kind][2] \in IF kind = "RB" THEN Black ELSE Red
  BY DEF Solids, Paint, Red, Black
<1>. QED
  BY <1>7, <1>9, <1>10

(* Outer legs that complement each other, and nothing else that is split.  *)
LEMMA LegsAreFinite ==
  ASSUME NEW image
  PROVE  IsFiniteSet(VerticalLegCandidates(image))
<1>. DEFINE tall == {b \in ContourBoxes(image) : 10 * b.h >= Height /\ 10 * b.h > 11 * b.w}
            s == Clusters(tall)
            n == Len(s)
<1>1. VerticalLegCandidates(image) \in SUBSET Range(s)
  BY DEF VerticalLegCandidates, ClusterVerticalPanels
<1>2. tall \in SUBSET Boxes /\ IsFiniteSet(tall)
  <2>1. tall \in SUBSET ContourBoxes(image)
    OBVIOUS
  <2>2. tall \in SUBSET Boxes
    BY <2>1, ContoursAreOutlines DEF Outlines
  <2>. HIDE DEF tall
  <2>. QED
    BY <2>1, <2>2, ContoursAreFinite, FS_Subset
<1>. HIDE DEF tall
<1>3. s \in Seq(Boxes)
  <2>. DEFINE D == Boxes
  <2>1. D \in SUBSET Boxes /\ \A a, b \in D : Merge(a, b) \in D
    BY MergeStays
  <2>2. tall \in SUBSET D
    BY <1>2
  <2>. HIDE DEF D
  <2>3. s \in Seq(D)
    BY <1>2, <2>1, <2>2, ClustersStay
  <2>. QED
    BY <2>3 DEF D
<1>. HIDE DEF s
<1>4. n \in Nat /\ DOMAIN s = 1..n
  BY <1>3, LenProperties
<1>5. IsFiniteSet(DOMAIN s)
  BY <1>4, FS_Interval
<1>6. [i \in DOMAIN s |-> s[i]] \in Surjection(DOMAIN s, Range(s))
  BY DEF Surjection, Range
<1>7. IsFiniteSet(Range(s))
  BY <1>5, <1>6, FS_Surjection
<1>. QED
  BY <1>1, <1>7, FS_Subset

LEMMA TwoAtLeast ==
  ASSUME NEW S, IsFiniteSet(S), NEW a \in S, NEW b \in S, a # b
  PROVE  Cardinality(S) >= 2
<1>1. IsFiniteSet({a}) /\ Cardinality({a}) = 1
  BY FS_Singleton
<1>2. Cardinality({a} \cup {b}) = 2
  BY <1>1, FS_AddElement
<1>3. {a} \cup {b} \in SUBSET S
  OBVIOUS
<1>4. Cardinality({a} \cup {b}) <= Cardinality(S)
  BY <1>3, FS_Subset
<1>5. Cardinality(S) \in Nat
  BY FS_CardinalityType
<1>. QED
  BY <1>2, <1>4, <1>5

LEMMA SplitLegsOfGate ==
  ASSUME NEW image, StandApart(image), NEW p \in GateLegs(image)
  PROVE  LET legs == {leg \in VerticalLegCandidates(image) : IsSplitLeg(image, leg)} IN
         /\ \A b \in legs : b \in OneRun(image) /\ RunOf(b) \in {p[1], p[2]}
         /\ \A b \in legs : RunOf(b) = p[1] => /\ SplitColors(image, b)[1] = "R"
                                               /\ SplitColors(image, b)[2] = "B"
         /\ \A b \in legs : RunOf(b) = p[2] => /\ SplitColors(image, b)[1] = "B"
                                               /\ SplitColors(image, b)[2] = "R"
         /\ \E b \in legs : RunOf(b) = p[1]
         /\ \E b \in legs : RunOf(b) = p[2]
<1>. DEFINE legs == {leg \in VerticalLegCandidates(image) : IsSplitLeg(image, leg)}
<1>1. /\ p[1] \in Solid(image, "RB") /\ p[2] \in Solid(image, "BR")
      /\ \A r \in LegRuns(image) :
           r \in Solid(image, "Pole") \cup Solid(image, "RR") \cup {p[1], p[2]}
  BY DEF GateLegs
<1>2. \A b \in VerticalLegCandidates(image) : b \in OneRun(image) /\ RunOf(b) \in LegRuns(image)
  BY LegsByRun
<1>3. ASSUME NEW b \in VerticalLegCandidates(image), NEW kind \in Solids,
             RunOf(b) \in Solid(image, kind)
      PROVE  /\ SplitColors(image, b)[1] = IF kind = "BR" THEN "B" ELSE "R"
             /\ SplitColors(image, b)[2] = IF kind = "RB" THEN "B" ELSE "R"
  <2>1. \A c \in RunOf(b)[1] .. RunOf(b)[2] : image.column[c] = kind
    BY <1>3 DEF Solid
  <2>. QED
    BY <1>2, <2>1, ColoursOfSolid
<1>4. \A b \in VerticalLegCandidates(image) :
        RunOf(b) = p[1] => SplitColors(image, b)[1] = "R" /\ SplitColors(image, b)[2] = "B"
  BY <1>1, <1>3 DEF Solids
<1>5. \A b \in VerticalLegCandidates(image) :
        RunOf(b) = p[2] => SplitColors(image, b)[1] = "B" /\ SplitColors(image, b)[2] = "R"
  BY <1>1, <1>3 DEF Solids
<1>6. \A b \in VerticalLegCandidates(image) :
        RunOf(b) \in {p[1], p[2]} => IsSplitLeg(image, b)
  BY <1>4, <1>5 DEF IsSplitLeg
<1>7. ASSUME NEW b \in legs
      PROVE  b \in OneRun(image) /\ RunOf(b) \in {p[1], p[2]}
  <2>1. RunOf(b) \in Solid(image, "Pole") \cup Solid(image, "RR") =>
          SplitColors(image, b)[1] = "R" /\ SplitColors(image, b)[2] = "R"
    BY <1>3 DEF Solids
  <2>2. SplitColors(image, b)[1] # SplitColors(image, b)[2]
    BY DEF IsSplitLeg
  <2>. QED
    BY <1>1, <1>2, <2>1, <2>2
<1>8. \A r \in {p[1], p[2]} : \E b \in legs : RunOf(b) = r
  <2>1. SUFFICES ASSUME NEW r \in {p[1], p[2]} PROVE \E b \in legs : RunOf(b) = r
    OBVIOUS
  <2>2. r \in LegRuns(image) /\ Whole(image, r)
    <3>1. PICK kind \in {"RB", "BR"} : r \in Solid(image, kind)
      BY <1>1
    <3>. QED
      BY <3>1 DEF Solid, Whole
  <2>3. PICK b \in VerticalLegCandidates(image) : RunOf(b) = r
    BY <2>2, LegsByRun
  <2>. QED
    BY <1>6, <2>3
<1>. QED
  BY <1>4, <1>5, <1>7, <1>8

LEMMA GateIsOutermost ==
  ASSUME NEW image, StandApart(image), NEW p \in GateLegs(image), ShowsTheGate(p[1], p[2])
  PROVE  \E l, r \in OneRun(image) :
           /\ RunOf(l) = p[1] /\ RunOf(r) = p[2]
           /\ DetectSplitLegGatePair(image) = Pair(l, r, "split_leg_pair")
<1>. DEFINE legs == {leg \in VerticalLegCandidates(image) : IsSplitLeg(image, leg)}
            l == Leftmost(legs)
            r == Rightmost(legs)
<1>1. DetectSplitLegGatePair(image) = OutermostPair(image, legs)
  BY DEF DetectSplitLegGatePair
<1>2. /\ legs \in SUBSET VerticalLegCandidates(image) /\ legs \in SUBSET Boxes
      /\ \A b \in legs : IsSplitLeg(image, b)
  BY LegsAreBoxes
<1>3. /\ \A b \in legs : b \in OneRun(image) /\ RunOf(b) \in {p[1], p[2]}
      /\ \A b \in legs : RunOf(b) = p[1] => SplitColors(image, b)[1] = "R"
                                            /\ SplitColors(image, b)[2] = "B"
      /\ \A b \in legs : RunOf(b) = p[2] => SplitColors(image, b)[1] = "B"
                                            /\ SplitColors(image, b)[2] = "R"
      /\ \E b \in legs : RunOf(b) = p[1]
      /\ \E b \in legs : RunOf(b) = p[2]
  BY SplitLegsOfGate
<1>. HIDE DEF legs
<1>4. PICK a \in legs, b \in legs : RunOf(a) = p[1] /\ RunOf(b) = p[2]
  BY <1>3
<1>5. /\ p[1][1] \in Int /\ p[1][2] \in Int /\ p[2][1] \in Int /\ p[2][2] \in Int
      /\ p[1][1] <= p[1][2] /\ p[2][1] <= p[2][2] /\ Width \in Nat
      /\ \A c \in legs : \/ RunOf(c) = p[1] /\ Centre2(c) = p[1][1] + p[1][2] + 1
                         \/ RunOf(c) = p[2] /\ Centre2(c) = p[2][1] + p[2][2] + 1
  <2>1. \A c \in legs : /\ RunOf(c)[1] \in Int /\ RunOf(c)[2] \in Int
                        /\ RunOf(c)[1] <= RunOf(c)[2]
                        /\ Centre2(c) = RunOf(c)[1] + RunOf(c)[2] + 1
    BY <1>3, RunOfIs
  <2>. QED
    BY <1>3, <1>4, <2>1, GateVisionAssumption
<1>6. /\ p[1][2] < p[2][1]
      /\ 100 * (p[2][1] + p[2][2] - p[1][1] - p[1][2]) >= 36 * Width
  BY DEF ShowsTheGate
<1>7. a # b
  BY <1>4, <1>5, <1>6
<1>8. Cardinality(legs) >= 2
  <2>1. IsFiniteSet(legs)
    BY <1>2, LegsAreFinite, FS_Subset
  <2>. QED
    BY <1>7, <2>1, TwoAtLeast
<1>9. /\ l \in legs /\ r \in legs
      /\ \A c \in legs : Centre2(l) <= Centre2(c) /\ Centre2(c) <= Centre2(r)
  BY <1>2, LeftmostIs
<1>. HIDE DEF l, r
<1>10. RunOf(l) = p[1] /\ Centre2(l) = p[1][1] + p[1][2] + 1
  <2>1. Centre2(l) <= Centre2(a)
    BY <1>9
  <2>2. Centre2(a) = p[1][1] + p[1][2] + 1
    BY <1>4, <1>5, <1>6
  <2>3. Centre2(l) # p[2][1] + p[2][2] + 1
    BY <1>5, <1>6, <2>1, <2>2
  <2>. QED
    BY <1>5, <1>9, <2>3
<1>11. RunOf(r) = p[2] /\ Centre2(r) = p[2][1] + p[2][2] + 1
  <2>1. Centre2(b) <= Centre2(r)
    BY <1>9
  <2>2. Centre2(b) = p[2][1] + p[2][2] + 1
    BY <1>4, <1>5, <1>6
  <2>3. Centre2(r) # p[1][1] + p[1][2] + 1
    BY <1>5, <1>6, <2>1, <2>2
  <2>. QED
    BY <1>5, <1>9, <2>3
<1>12. Apart(l, r)
  BY <1>5, <1>6, <1>10, <1>11 DEF Apart
<1>13. IsCompetitionGatePair(image, l, r)
  <2>1. SplitColors(image, l)[1] = "R" /\ SplitColors(image, l)[2] = "B"
    BY <1>3, <1>9, <1>10
  <2>2. SplitColors(image, r)[1] = "B" /\ SplitColors(image, r)[2] = "R"
    BY <1>3, <1>9, <1>11
  <2>3. IsSplitLeg(image, l) /\ IsSplitLeg(image, r)
    BY <1>2, <1>9
  <2>. QED
    BY <2>1, <2>2, <2>3 DEF IsCompetitionGatePair
<1>14. OutermostPair(image, legs) = Pair(l, r, "split_leg_pair")
  BY <1>8, <1>12, <1>13 DEF OutermostPair, l, r
<1>. QED
  BY <1>1, <1>3, <1>9, <1>10, <1>11, <1>14

LEMMA GateIsFoundFirst ==
  ASSUME NEW image, ~image.blue, DetectSplitLegGatePair(image) # NoTarget
  PROVE  GateTarget(image) = DetectSplitLegGatePair(image)
<1>. DEFINE ts == <<DetectBlueScreenGate(image), DetectSplitLegGatePair(image),
                    DetectCheckerboardGate(image), SelectOuterPanelPair(image)>>
            found == {i \in DOMAIN ts : ts[i] # NoTarget}
<1>1. GateTarget(image) = FirstFound(ts)
  BY DEF GateTarget
<1>2. DetectBlueScreenGate(image) = NoTarget
  BY DEF DetectBlueScreenGate
<1>3. /\ DOMAIN ts = 1..4 /\ ts[1] = NoTarget
      /\ ts[2] = DetectSplitLegGatePair(image)
  BY <1>2
<1>. HIDE DEF ts
<1>4. found \in SUBSET Nat /\ 2 \in found /\ 1 \notin found /\ 0 \notin found
  BY <1>3
<1>. HIDE DEF found
<1>5. Min(found) \in found /\ \A i \in found : Min(found) <= i
  BY <1>4, MinOfIndices
<1>6. Min(found) = 2
  <2>1. Min(found) <= 2 /\ Min(found) \in Nat
    BY <1>4, <1>5
  <2>. QED
    BY <1>4, <1>5, <2>1
<1>7. FirstFound(ts) = ts[2]
  BY <1>4, <1>6 DEF FirstFound, found
<1>. QED
  BY <1>1, <1>3, <1>7

(* A quotient is as large as what it was compared with.                    *)
LEMMA QuotientAtLeast ==
  ASSUME NEW a \in Nat, NEW d \in Nat \ {0}, NEW m \in Nat, m * d <= a
  PROVE  m <= a \div d
<1>. DEFINE q == a \div d
<1>1. q \in Nat /\ a < (q + 1) * d
  <2>1. q \in Nat /\ a = d * q + (a % d) /\ a % d \in Nat /\ a % d < d
    OBVIOUS
  <2>2. (q + 1) * d = d * q + d /\ d * q \in Nat
    BY <2>1
  <2>. HIDE DEF q
  <2>. QED
    BY <2>1, <2>2
<1>. HIDE DEF q
<1>2. ASSUME q + 1 <= m
      PROVE  FALSE
  <2>1. (q + 1) * d <= m * d /\ (q + 1) * d \in Nat
    BY <1>1, <1>2, AreaGrows
  <2>2. m * d \in Nat
    OBVIOUS
  <2>. QED
    BY <1>1, <2>1, <2>2
<1>3. m <= q
  BY <1>1, <1>2
<1>. QED
  BY <1>3 DEF q

LEMMA GateIsFound ==
  ASSUME NEW image, ~image.blue, NarrowLegs(image), StandApart(image),
         NEW p \in GateLegs(image), ShowsTheGate(p[1], p[2]), MinConfidence <= 99
  PROVE  \E d : /\ GateDetection(GateTarget(image)) = <<d>>
                /\ d.source = "split_leg_pair" /\ Between(p[1], p[2], d.x2)
<1>. DEFINE t == GateTarget(image)
            share == (400 * t.area) \div (Width * Height)
            low == Min({99, share})
            confidence == Max({20, low})
<1>1. PICK l \in OneRun(image), r \in OneRun(image) :
        /\ RunOf(l) = p[1] /\ RunOf(r) = p[2]
        /\ DetectSplitLegGatePair(image) = Pair(l, r, "split_leg_pair")
  BY GateIsOutermost
<1>2. Pair(l, r, "split_leg_pair") # NoTarget
  <2>1. Pair(l, r, "split_leg_pair").source # NoTarget.source
    BY DEF Pair, NoTarget
  <2>. QED
    BY <2>1
<1>3. t = Pair(l, r, "split_leg_pair") /\ t # NoTarget
  BY <1>1, <1>2, GateIsFoundFirst
<1>4. t.boxes = {l, r} /\ t.area = l.area + r.area /\ t.source = "split_leg_pair"
  BY <1>3 DEF Pair
<1>. HIDE DEF t
<1>. DEFINE u == p[1]
            v == p[2]
<1>5. /\ u[1] \in Int /\ u[2] \in Int /\ v[1] \in Int /\ v[2] \in Int
      /\ u[1] <= u[2] /\ v[1] <= v[2]
      /\ l.x = u[1] /\ Right(l) = u[2] + 1 /\ l.w = u[2] - u[1] + 1
      /\ r.x = v[1] /\ Right(r) = v[2] + 1 /\ r.w = v[2] - v[1] + 1
  BY <1>1, RunOfIs
<1>6. Width \in Nat \ {0} /\ Height \in Nat \ {0} /\ MinConfidence \in 0..100
  BY GateVisionAssumption
<1>7. u \in Solid(image, "RB") /\ v \in Solid(image, "BR")
  BY DEF GateLegs
<1>8. /\ u[2] < v[1] /\ 100 * (v[1] + v[2] - u[1] - u[2]) >= 36 * Width
      /\ 800 >= MinConfidence * Width
  BY DEF ShowsTheGate
<1>9. /\ 100 * (u[2] - u[1] + 1) <= 12 * Width /\ 100 * (v[2] - v[1] + 1) <= 12 * Width
      /\ Whole(image, u) /\ Whole(image, v)
  BY <1>7 DEF Solid, NarrowLegs, Whole
<1>10. /\ l.area \in Int /\ r.area \in Int /\ l.w \in Nat /\ r.w \in Nat
       /\ l.area >= l.w * Height /\ r.area >= r.w * Height
  BY <1>1, <1>9, CentreIs DEF OneRun
<1>. HIDE DEF u, v
<1>11. l.area >= Height /\ r.area >= Height
  <2>1. \A b \in {l, r} : 1 * Height <= b.w * Height /\ b.w * Height \in Nat
    <3>1. \A b \in {l, r} : b.w \in Nat /\ 1 <= b.w
      BY <1>5, <1>10
    <3>. QED
      BY <1>6, <3>1, AreaGrows
  <2>2. 1 * Height = Height
    BY <1>6
  <2>. DEFINE lw == l.w * Height
              rw == r.w * Height
  <2>3. Height <= lw /\ Height <= rw /\ lw <= l.area /\ rw <= r.area /\ lw \in Nat /\ rw \in Nat
    BY <1>10, <2>1, <2>2
  <2>. HIDE DEF lw, rw
  <2>. QED
    BY <1>6, <1>10, <2>3
<1>12. share \in Nat /\ MinConfidence <= share
  <2>. DEFINE d == Width * Height
              m == MinConfidence * Width
  <2>1. m \in Nat /\ m <= 800 /\ d \in Nat \ {0}
    BY <1>6, <1>8
  <2>2. MinConfidence * d = m * Height
    BY <1>6
  <2>3. m * Height <= 800 * Height
    <3>. HIDE DEF m
    <3>. QED
      BY <1>6, <2>1, AreaGrows
  <2>4. 400 * t.area \in Nat /\ 800 * Height <= 400 * t.area
    BY <1>4, <1>6, <1>10, <1>11
  <2>5. MinConfidence * d <= 400 * t.area
    <3>. DEFINE x == MinConfidence * d
    <3>1. x = m * Height /\ m * Height \in Nat /\ 800 * Height \in Nat
      BY <1>6, <2>1, <2>2
    <3>. HIDE DEF x
    <3>. QED
      BY <2>3, <2>4, <3>1 DEF x
  <2>. DEFINE a == 400 * t.area
  <2>6. a \in Nat /\ MinConfidence * d <= a /\ MinConfidence \in Nat
    BY <1>6, <2>4, <2>5
  <2>. HIDE DEF a, d
  <2>7. a \div d \in Nat /\ MinConfidence <= a \div d
    BY <2>1, <2>6, QuotientAtLeast
  <2>. QED
    BY <2>7 DEF a, d
<1>. HIDE DEF share
<1>13. ~(confidence < MinConfidence)
  <2>1. low \in {99, share}
    <3>1. \A a \in Int : Min({a, share}) \in {a, share}
      BY <1>12, MinMaxOfTwo
    <3>. QED
      BY <3>1
  <2>. HIDE DEF low
  <2>2. low \in Int /\ MinConfidence <= low
    BY <1>6, <1>12, <2>1
  <2>3. confidence \in {20, low} /\ confidence >= low
    <3>1. \A a \in Int : Max({a, low}) \in {a, low} /\ Max({a, low}) >= low
      BY <2>2, MinMaxOfTwo
    <3>. QED
      BY <3>1
  <2>. HIDE DEF confidence
  <2>. QED
    BY <1>6, <2>2, <2>3
<1>14. GateDetection(t) # <<>>
  <2>. DEFINE d == Detection("gate", confidence,
                     Min({b.x : b \in t.boxes}) + Max({Right(b) : b \in t.boxes}), t.source)
  <2>1. GateDetection(t) = IF t = NoTarget \/ confidence < MinConfidence THEN <<>> ELSE <<d>>
    BY DEF GateDetection, share
  <2>. HIDE DEF confidence, d
  <2>2. GateDetection(t) = <<d>>
    BY <1>3, <1>13, <2>1
  <2>. QED
    BY <2>2
<1>15. PICK d : GateDetection(t) = <<d>> /\ d.x2 = Middle(t.boxes) /\ d.source = t.source
  BY <1>14, GateDetectionIs
<1>16. Middle(t.boxes) = u[1] + (v[2] + 1)
  <2>1. {b.x : b \in t.boxes} = {u[1], v[1]} /\ {Right(b) : b \in t.boxes} = {u[2] + 1, v[2] + 1}
    BY <1>4, <1>5
  <2>2. Min({u[1], v[1]}) = u[1]
    <3>1. Min({u[1], v[1]}) \in {u[1], v[1]} /\ Min({u[1], v[1]}) <= u[1]
      BY <1>5, MinMaxOfTwo
    <3>. QED
      BY <1>5, <1>8, <3>1
  <2>3. Max({u[2] + 1, v[2] + 1}) = v[2] + 1
    <3>1. u[2] + 1 \in Int /\ v[2] + 1 \in Int /\ u[2] + 1 < v[2] + 1
      BY <1>5, <1>8
    <3>. DEFINE e == u[2] + 1
                f == v[2] + 1
    <3>2. Max({e, f}) \in {e, f} /\ Max({e, f}) >= f
      BY <3>1, MinMaxOfTwo
    <3>. HIDE DEF e, f
    <3>3. Max({e, f}) = f
      BY <3>1, <3>2 DEF e, f
    <3>. QED
      BY <3>3 DEF e, f
  <2>. QED
    BY <2>1, <2>2, <2>3 DEF Middle
<1>17. Between(u, v, d.x2)
  <2>1. d.x2 = u[1] + v[2] + 1
    BY <1>5, <1>15, <1>16
  <2>2. 2 * (u[2] + 1) <= u[1] + v[2] + 1
    BY <1>5, <1>6, <1>8, <1>9
  <2>3. u[1] + v[2] + 1 <= 2 * v[1]
    BY <1>5, <1>6, <1>8, <1>9
  <2>. QED
    BY <2>1, <2>2, <2>3 DEF Between
<1>. QED
  BY <1>4, <1>15, <1>17 DEF t, u, v

(* What a callback publishes of an image.                                  *)
Aim(image, detections) ==
  \A i \in DOMAIN detections :
    detections[i].source \in LegSources =>
      \E l, r \in LegRuns(image) : Between(l, r, detections[i].x2)

Find(image, detections) ==
  \A p \in GateLegs(image) :
    ShowsTheGate(p[1], p[2]) =>
      \E i \in DOMAIN detections :
        detections[i].source \in LegSources /\ Between(p[1], p[2], detections[i].x2)

LEMMA SmoothedAims ==
  ASSUME NEW image, NEW old \in [Classes -> {0} \cup Sure], NEW found \in Seq(Aimed(image))
  PROVE  LET s == FoldLeft(Smooth, [tracker |-> old, detections |-> <<>>], found) IN
         /\ Aim(image, s.detections)
         /\ DOMAIN s.detections = DOMAIN found
         /\ \A i \in DOMAIN found : Alike(s.detections[i], found[i])
<1>. DEFINE s == FoldLeft(Smooth, [tracker |-> old, detections |-> <<>>], found)
            n == Len(found)
<1>1. n \in Nat /\ DOMAIN found = 1..n /\ \A i \in 1..n : found[i] \in Aimed(image)
  BY LenProperties, ElementOfSeq
<1>2. found \in Seq(SureDetections)
  <2>1. \A i \in 1..n : found[i] \in SureDetections
    BY <1>1 DEF Aimed
  <2>2. found \in [1..n -> SureDetections]
    BY <1>1, <2>1, LenProperties
  <2>. HIDE DEF n
  <2>. QED
    BY <1>1, <2>2, SeqDef
<1>3. SmoothOf(s, found, n)
  BY <1>2, SmoothRuns
<1>. HIDE DEF s, n
<1>4. DOMAIN s.detections = 1..n /\ \A i \in 1..n : Alike(s.detections[i], found[i])
  <2>1. s.detections \in Seq(SureDetections) /\ Len(s.detections) = n
    BY <1>3 DEF SmoothOf, Smoothed
  <2>. DEFINE d == s.detections
  <2>. HIDE DEF d
  <2>2. DOMAIN d = 1..n
    BY <2>1, LenProperties DEF d
  <2>. QED
    BY <1>3, <2>2 DEF SmoothOf, d
<1>5. Aim(image, s.detections)
  BY <1>1, <1>4 DEF Aim, Alike, Aimed
<1>. QED
  BY <1>1, <1>4, <1>5 DEF s

LEMMA CallbackAims ==
  ASSUME NEW image, NarrowLegs(image), StandApart(image), MinConfidence <= 99,
         NEW old \in [Classes -> {0} \cup Sure], NEW yolo \in YoloResults,
         NEW n
  PROVE  LET found == RunDetection(Frame(n, image), yolo)
             s == FoldLeft(Smooth, [tracker |-> old, detections |-> <<>>], found)
         IN /\ Aim(image, s.detections)
            /\ Frame(n, image) # NoFrame /\ profile = "prequal_cv" /\ ~image.blue =>
                 Find(image, s.detections)
<1>. DEFINE frame == Frame(n, image)
            found == RunDetection(frame, yolo)
            s == FoldLeft(Smooth, [tracker |-> old, detections |-> <<>>], found)
            d == s.detections
<1>1. frame.image = image
  BY DEF Frame
<1>2. found \in Seq(Aimed(image))
  <2>. HIDE DEF frame
  <2>. QED
    BY <1>1, RunAims
<1>3. frame # NoFrame /\ profile = "prequal_cv" => found = ProcessPrequalCv(image)
  <2>. HIDE DEF frame
  <2>. QED
    BY <1>1 DEF RunDetection, WithYolo
<1>. HIDE DEF found, frame
<1>4. /\ Aim(image, d) /\ DOMAIN d = DOMAIN found
      /\ \A i \in DOMAIN found : Alike(d[i], found[i])
  BY <1>2, SmoothedAims
<1>. HIDE DEF s
<1>5. ASSUME frame # NoFrame, profile = "prequal_cv", ~image.blue,
             NEW p \in GateLegs(image), ShowsTheGate(p[1], p[2])
      PROVE  \E i \in DOMAIN d : d[i].source \in LegSources /\ Between(p[1], p[2], d[i].x2)
  <2>1. PICK e : /\ GateDetection(GateTarget(image)) = <<e>>
                 /\ e.source = "split_leg_pair" /\ Between(p[1], p[2], e.x2)
    BY <1>5, GateIsFound
  <2>2. found = <<e>> \o DetectMarker(image)
    BY <1>3, <1>5, <2>1 DEF ProcessPrequalCv
  <2>3. 1 \in DOMAIN found /\ found[1] = e
    <3>. DEFINE m == DetectMarker(image)
    <3>1. <<e>> \in Seq({e} \cup SureDetections) /\ m \in Seq({e} \cup SureDetections)
      <4>1. m \in Seq(SureDetections)
        BY MarkerIsSure
      <4>. HIDE DEF m
      <4>2. m \in Seq({e} \cup SureDetections)
        <5>1. /\ DOMAIN m = 1..Len(m) /\ Len(m) \in Nat
              /\ m \in [1..Len(m) -> SureDetections]
          BY <4>1, LenProperties
        <5>2. m \in [1..Len(m) -> {e} \cup SureDetections]
          BY <5>1
        <5>. QED
          BY <5>1, <5>2, SeqDef
      <4>. QED
        BY <4>2
    <3>. HIDE DEF m
    <3>2. Len(<<e>>) = 1 /\ <<e>>[1] = e /\ Len(m) \in Nat
      BY <3>1, LenProperties
    <3>. DEFINE D == {e} \cup SureDetections
                f == <<e>> \o m
    <3>. HIDE DEF D
    <3>3. f \in Seq(D) /\ Len(f) = 1 + Len(m) /\ f[1] = e
      <4>1. <<e>> \in Seq(D) /\ m \in Seq(D)
        BY <3>1 DEF D
      <4>. QED
        BY <3>2, <4>1, ConcatProperties
    <3>. HIDE DEF f
    <3>4. DOMAIN f = 1 .. 1 + Len(m)
      BY <3>3, LenProperties
    <3>. QED
      BY <2>2, <3>2, <3>3, <3>4 DEF f, m
  <2>. QED
    BY <1>4, <2>1, <2>3 DEF Alike, LegSources
<1>6. frame # NoFrame /\ profile = "prequal_cv" /\ ~image.blue => Find(image, d)
  BY <1>5 DEF Find
<1>. QED
  BY <1>4, <1>6 DEF s, found, frame

LEMMA AimIs ==
  ASSUME NEW image, NEW ds
  PROVE  LET all == {ds[i] : i \in DOMAIN ds}
             gates == {d \in all : d.source \in {"split_leg_pair", "red_black_outer_panel_pair"}}
         IN /\ (\A d \in gates : \E l, r \in LegRuns(image) : Between(l, r, d.x2)) <=> Aim(image, ds)
            /\ (\A p \in GateLegs(image) :
                  ShowsTheGate(p[1], p[2]) => \E d \in gates : Between(p[1], p[2], d.x2))
               <=> Find(image, ds)
<1>. DEFINE all == {ds[i] : i \in DOMAIN ds}
            gates == {d \in all : d.source \in LegSources}
<1>1. (\A d \in gates : \E l, r \in LegRuns(image) : Between(l, r, d.x2)) <=> Aim(image, ds)
  BY DEF Aim
<1>2. (\A p \in GateLegs(image) :
         ShowsTheGate(p[1], p[2]) => \E d \in gates : Between(p[1], p[2], d.x2))
      <=> Find(image, ds)
  <2>1. \A l, r : (\E d \in gates : Between(l, r, d.x2)) <=>
                  (\E i \in DOMAIN ds : ds[i].source \in LegSources /\ Between(l, r, ds[i].x2))
    OBVIOUS
  <2>. HIDE DEF gates
  <2>. QED
    BY <2>1 DEF Find
<1>. HIDE DEF Aim, Find
<1>. QED
  BY <1>1, <1>2 DEF LegSources

(* What a USB camera looks at is one of the images.                        *)
Viewed == source = "usb" => view \in Images

LEMMA AimsStep ==
  ASSUME MinConfidence <= 99,
         \A image \in Images \cup SimImages : NarrowLegs(image) /\ StandApart(image),
         CameraInv, StaysConfident, Viewed, AimsAtTheOpening, [CameraNext]_frontVars
  PROVE  AimsAtTheOpening'
<1>1. CASE UNCHANGED <<profile, published>>
  BY <1>1 DEF AimsAtTheOpening
<1>2. CASE TimerCallback
  <2>. DEFINE start == [tracker |-> tracker, detections |-> <<>>]
  <2>1. PICK frame \in Readable, yolo \in YoloResults :
          LET s == FoldLeft(Smooth, start, RunDetection(frame, yolo))
          IN published' = [frame |-> frame, detections |-> s.detections] /\ profile' = profile
    BY <1>2 DEF TimerCallback, cameraVars
  <2>. DEFINE found == RunDetection(frame, yolo)
              d == FoldLeft(Smooth, start, found).detections
              image == frame.image
  <2>2. tracker \in [Classes -> {0} \cup Sure]
    BY DEF StaysConfident, Sure
  <2>3. /\ Aim(image, d)
        /\ frame # NoFrame /\ profile = "prequal_cv" /\ ~image.blue => Find(image, d)
    <3>1. CASE frame = NoFrame
      <4>1. found = <<>>
        BY <3>1 DEF RunDetection
      <4>. HIDE DEF found, image
      <4>2. found \in Seq(Aimed(image))
        BY <4>1, EmptySeq
      <4>3. Aim(image, d)
        BY <2>2, <4>2, SmoothedAims
      <4>. QED
        BY <3>1, <4>3
    <3>2. CASE frame # NoFrame
      <4>1. image \in Images \cup SimImages /\ frame = Frame(frame.n, image)
        <5>1. CASE source = "usb"
          <6>1. frame = Frame(1, view) /\ view \in Images
            BY <3>2, <5>1 DEF Readable, Viewed
          <6>. QED
            BY <6>1 DEF Frame
        <5>2. CASE source # "usb"
          <6>1. frame \in Frames
            BY <3>2, <5>2 DEF Readable, CameraInv
          <6>. QED
            BY <6>1 DEF Frame, Frames
        <5>. QED
          BY <5>1, <5>2
      <4>2. NarrowLegs(image) /\ StandApart(image)
        BY <4>1
      <4>. DEFINE n == frame.n
                  found2 == RunDetection(Frame(n, image), yolo)
                  d2 == FoldLeft(Smooth, start, found2).detections
      <4>3. found2 = found
        BY <4>1
      <4>. HIDE DEF image, n
      <4>4. /\ Aim(image, d2)
            /\ Frame(n, image) # NoFrame /\ profile = "prequal_cv" /\ ~image.blue =>
                 Find(image, d2)
        BY <2>2, <4>2, CallbackAims
      <4>5. Frame(n, image) = frame
        BY <4>1 DEF image, n
      <4>. HIDE DEF found, found2
      <4>6. d2 = d
        BY <4>3
      <4>. QED
        BY <4>4, <4>5, <4>6
    <3>. QED
      BY <3>1, <3>2
  <2>4. published'.frame = frame /\ published'.detections = d /\ profile' = profile
    BY <2>1
  <2>. HIDE DEF d, image
  <2>5. /\ Aim(published'.frame.image, published'.detections)
        /\ published'.frame # NoFrame /\ profile' = "prequal_cv" /\ ~published'.frame.image.blue =>
             Find(published'.frame.image, published'.detections)
    BY <2>3, <2>4 DEF image
  <2>. QED
    BY <2>5, AimIs DEF AimsAtTheOpening
<1>3. CASE Render \/ DropOldest \/ PutAgain \/ Drain \/ SimImageCallback
  <2>1. UNCHANGED <<profile, published>>
    BY <1>3 DEF Render, DropOldest, PutAgain, Drain, SimImageCallback, cameraVars, nodeVars
  <2>. QED
    BY <1>1, <2>1
<1>4. CASE UNCHANGED frontVars
  <2>1. UNCHANGED <<profile, published>>
    BY <1>4 DEF frontVars, cameraVars, nodeVars
  <2>. QED
    BY <1>1, <2>1
<1>. QED
  BY <1>2, <1>3, <1>4 DEF CameraNext

(* In every profile, of every image whose legs are narrow and stand apart: *)
(* a gate that is found by legs is steered for between two of them, and    *)
(* outer legs that complement each other are found as the gate, whatever   *)
(* stands between and beside them.                                         *)
THEOREM AimsBetweenTheLegs ==
  ASSUME MinConfidence <= 99,
         \A image \in Images \cup SimImages : NarrowLegs(image) /\ StandApart(image)
  PROVE  CameraSpec => []AimsAtTheOpening
<1>1. CameraInit => Viewed /\ AimsAtTheOpening
  <2>1. SUFFICES ASSUME CameraInit PROVE Viewed /\ AimsAtTheOpening
    OBVIOUS
  <2>2. published.frame = NoFrame /\ DOMAIN published.detections = {}
    BY <2>1 DEF CameraInit
  <2>3. Viewed
    BY <2>1 DEF CameraInit, Viewed
  <2>. QED
    BY <2>2, <2>3 DEF AimsAtTheOpening
<1>2. Viewed /\ [CameraNext]_frontVars => Viewed'
  BY DEF Viewed, CameraNext, frontVars, cameraVars, bridgeVars, Render, DropOldest, PutAgain,
         Drain, SimImageCallback, TimerCallback
<1>3. CameraInv /\ StaysConfident /\ Viewed /\ AimsAtTheOpening /\ [CameraNext]_frontVars =>
        AimsAtTheOpening'
  BY AimsStep
<1>4. CameraSpec => []CameraInv
  BY CameraStarts, CameraStep, PTL DEF CameraSpec
<1>5. CameraSpec => []StaysConfident
  BY StaysAboveThreshold
<1>. QED
  BY <1>1, <1>2, <1>3, <1>4, <1>5, PTL DEF CameraSpec

-----------------------------------------------------------------------------
(* Ping1D on a line that changes no byte: what the host has not made a     *)
(* message of is what is left of one frame and then whole frames.          *)
Streams(F) ==
  {s \in Seq(Byte) : \A X \in SUBSET Seq(Byte) :
     <<>> \in X /\ (\A f \in F, t \in X : f \o t \in X) => s \in X}

LEMMA StreamsAre ==
  ASSUME NEW F \in SUBSET Seq(Byte)
  PROVE  <<>> \in Streams(F) /\ \A f \in F, t \in Streams(F) : f \o t \in Streams(F)
<1>. DEFINE Closed(X) == <<>> \in X /\ \A f \in F, t \in X : f \o t \in X
<1>1. \A s \in Seq(Byte) : (\A X \in SUBSET Seq(Byte) : Closed(X) => s \in X) => s \in Streams(F)
  BY DEF Streams
<1>2. \A s \in Streams(F), X \in SUBSET Seq(Byte) : Closed(X) => s \in X
  BY DEF Streams
<1>3. <<>> \in Seq(Byte)
  BY EmptySeq
<1>4. ASSUME NEW f \in F, NEW t \in Streams(F)
      PROVE  f \o t \in Streams(F)
  <2>1. t \in Seq(Byte) /\ f \in Seq(Byte)
    BY DEF Streams
  <2>2. f \o t \in Seq(Byte)
    BY <2>1, ConcatProperties
  <2>3. \A X \in SUBSET Seq(Byte) : Closed(X) => f \o t \in X
    BY <1>2
  <2>. HIDE DEF Closed
  <2>. QED
    BY <1>1, <2>2, <2>3
<1>. QED
  BY <1>1, <1>3, <1>4

LEMMA StreamStarts ==
  ASSUME NEW F \in SUBSET Seq(Byte), NEW s \in Streams(F)
  PROVE  s = <<>> \/ \E f \in F, t \in Streams(F) : s = f \o t
<1>. DEFINE Made == {x \in Streams(F) : x = <<>> \/ \E f \in F, t \in Streams(F) : x = f \o t}
<1>1. Made \in SUBSET Seq(Byte)
  BY DEF Streams
<1>2. <<>> \in Made /\ \A f \in F, t \in Made : f \o t \in Made
  BY StreamsAre
<1>. HIDE DEF Made
<1>3. s \in Made
  BY <1>1, <1>2 DEF Streams
<1>. QED
  BY <1>3 DEF Made

LEMMA StreamGrows ==
  ASSUME NEW F \in SUBSET Seq(Byte), NEW s \in Streams(F), NEW g \in F
  PROVE  s \o g \in Streams(F)
<1>. DEFINE Good == {x \in Seq(Byte) : x \o g \in Streams(F)}
<1>1. <<>> \in Good
  <2>1. <<>> \o g = g /\ g \o <<>> = g
    BY ConcatEmptySeq
  <2>2. g \o <<>> \in Streams(F)
    BY StreamsAre
  <2>. QED
    BY <2>1, <2>2, EmptySeq
<1>2. ASSUME NEW f \in F, NEW t \in Good
      PROVE  f \o t \in Good
  <2>1. f \in Seq(Byte) /\ t \in Seq(Byte) /\ g \in Seq(Byte) /\ t \o g \in Streams(F)
    OBVIOUS
  <2>2. f \o t \in Seq(Byte) /\ (f \o t) \o g = f \o (t \o g)
    BY <2>1, ConcatProperties, ConcatAssociative
  <2>3. f \o (t \o g) \in Streams(F)
    BY <2>1, StreamsAre
  <2>. QED
    BY <2>2, <2>3
<1>3. Good \in SUBSET Seq(Byte)
  OBVIOUS
<1>. HIDE DEF Good
<1>4. s \in Good
  BY <1>1, <1>2, <1>3 DEF Streams
<1>. QED
  BY <1>4 DEF Good

LEMMA StreamsOfMore ==
  ASSUME NEW F, NEW G \in SUBSET Seq(Byte), F \subseteq G
  PROVE  Streams(F) \subseteq Streams(G)
<1>1. Streams(G) \in SUBSET Seq(Byte)
  BY DEF Streams
<1>2. <<>> \in Streams(G) /\ \A f \in F, t \in Streams(G) : f \o t \in Streams(G)
  BY StreamsAre
<1>3. ASSUME NEW s \in Streams(F)
      PROVE  s \in Streams(G)
  <2>. DEFINE X == Streams(G)
  <2>1. \A Y \in SUBSET Seq(Byte) : <<>> \in Y /\ (\A f \in F, t \in Y : f \o t \in Y) => s \in Y
    BY DEF Streams
  <2>2. X \in SUBSET Seq(Byte) /\ <<>> \in X /\ \A f \in F, t \in X : f \o t \in X
    BY <1>1, <1>2
  <2>. HIDE DEF X
  <2>3. s \in X
    BY <2>1, <2>2
  <2>. QED
    BY <2>3 DEF X
<1>. QED
  BY <1>3

(* Frames whose payload says no more than what was measured till n.        *)
Telling(n, id, payload) ==
  /\ id = DISTANCE_SIMPLE => payload[1] \in 0..n
  /\ id = RANGE => payload[5] \in Lengths

FramesOf(n) ==
  {f \in Seq(Byte) : \E id \in Known, payload \in Seq(Byte) :
     Len(payload) < 65536 /\ Telling(n, id, payload) /\ f = Pack(id, payload)}

(* A frame as the parser takes it: size is that of the payload.            *)
IsFrame(f, size) ==
  /\ size \in Nat /\ size < 65536 /\ f \in Seq(Byte) /\ Len(f) = 10 + size
  /\ f[1] = 66 /\ f[2] = 82 /\ f[3] = Low(size) /\ f[4] = High(size)
  /\ VerifyChecksum(f)

LEMMA FramesOfAre ==
  ASSUME NEW n, NEW f \in FramesOf(n)
  PROVE  /\ IsFrame(f, Len(f) - 10)
         /\ Unpack(f).id = DISTANCE_SIMPLE => Unpack(f).payload[1] \in 0..n
         /\ Unpack(f).id = RANGE => Unpack(f).payload[5] \in Lengths
<1>1. PICK id \in Known, payload \in Seq(Byte) :
        Len(payload) < 65536 /\ Telling(n, id, payload) /\ f = Pack(id, payload)
  BY DEF FramesOf
<1>. DEFINE size == Len(payload)
<1>2. size \in Nat /\ size < 65536
  BY <1>1, LenProperties
<1>3. /\ f \in Seq(Byte) /\ Len(f) = 10 + size
      /\ f[1] = 66 /\ f[2] = 82 /\ f[3] = Low(size) /\ f[4] = High(size)
  BY <1>1, PackIs, FrameIs
<1>4. Unpack(f) = [id |-> id, payload |-> payload, checksum |-> Sum(id, payload)] /\ VerifyChecksum(f)
  BY <1>1, UnpacksWhatWasPacked
<1>. HIDE DEF size
<1>5. Len(f) - 10 = size
  BY <1>2, <1>3
<1>6. IsFrame(f, size)
  BY <1>2, <1>3, <1>4 DEF IsFrame
<1>. QED
  BY <1>1, <1>4, <1>5, <1>6 DEF Telling

LEMMA FrameGoesOn ==
  ASSUME NEW f, NEW size, IsFrame(f, size), NEW k \in 0 .. 8 + size, NEW x \in Parsed,
         Underway(x, f, size, k)
  PROVE  Underway(ParseNext(x, f[k + 1]), f, size, k + 1)
<1>1. /\ size \in Nat /\ size < 65536 /\ f \in Seq(Byte) /\ Len(f) = 10 + size
      /\ f[1] = 66 /\ f[2] = 82 /\ f[3] = Low(size) /\ f[4] = High(size)
  BY DEF IsFrame
<1>. QED
  BY <1>1, UnderwayStep

(* Part of a frame, from the byte after the k-th on, leaves the parser     *)
(* that much further.                                                      *)
LEMMA PartParsed ==
  ASSUME NEW f, NEW size, IsFrame(f, size), NEW k \in Nat, NEW p \in Parsers,
         IsParser(p, StateAt(k, size), SubSeq(f, 1, k), LeftAt(k, size)),
         NEW c \in Seq(Byte), NEW r, ByteByByte(p, c, r),
         NEW last \in 0..Len(c), k + last <= 9 + size, \A i \in 1..last : c[i] = f[k + i]
  PROVE  Underway(r[last], f, size, k + last) /\ r[last].rest = <<>>
<1>. DEFINE Reached == {j \in 0..last : Underway(r[j], f, size, k + j) /\ r[j].rest = <<>>}
<1>1. /\ r \in [0..Len(c) -> Parsed]
      /\ r[0] = [parser |-> p, rest |-> <<>>, messages |-> {}]
      /\ \A j \in 1..Len(c) : r[j] = ParseNext(r[j - 1], c[j])
  BY DEF ByteByByte
<1>2. /\ size \in Nat /\ size < 65536 /\ f \in Seq(Byte) /\ Len(f) = 10 + size
      /\ f[1] = 66 /\ f[2] = 82 /\ f[3] = Low(size) /\ f[4] = High(size)
  BY DEF IsFrame
<1>3. Len(c) \in Nat /\ last \in Nat
  BY LenProperties
<1>4. 0 \in Reached
  <2>. DEFINE x == r[0]
  <2>1. x.parser = p /\ x.rest = <<>> /\ x.messages = {} /\ k + 0 = k
    BY <1>1
  <2>. HIDE DEF x
  <2>2. Underway(x, f, size, k)
    BY <2>1 DEF Underway
  <2>3. Underway(x, f, size, k + 0)
    BY <2>1, <2>2
  <2>. QED
    BY <1>3, <2>1, <2>3 DEF x
<1>5. ASSUME NEW j \in 1..last, j - 1 \in Reached
      PROVE  j \in Reached
  <2>. DEFINE i == j - 1
              x == r[i]
              y == r[j]
              b == c[j]
  <2>1. i \in 0..Len(c) /\ j \in 1..Len(c) /\ k + i \in 0 .. 8 + size /\ (k + i) + 1 = k + j /\ j \in 0..last
    BY <1>2, <1>3
  <2>2. x \in Parsed /\ Underway(x, f, size, k + i) /\ y = ParseNext(x, b)
    BY <1>1, <1>5, <2>1
  <2>3. b = f[(k + i) + 1]
    BY <2>1
  <2>. HIDE DEF i, x, y, b
  <2>4. Underway(ParseNext(x, f[(k + i) + 1]), f, size, (k + i) + 1)
    <3>. DEFINE at == k + i
    <3>1. at \in 0 .. 8 + size /\ Underway(x, f, size, at)
      BY <2>1, <2>2
    <3>. HIDE DEF at
    <3>2. Underway(ParseNext(x, f[at + 1]), f, size, at + 1)
      BY <2>2, <3>1, FrameGoesOn
    <3>. QED
      BY <3>2 DEF at
  <2>5. Underway(y, f, size, k + j)
    BY <2>1, <2>2, <2>3, <2>4
  <2>6. y.rest = <<>>
    <3>1. x.messages = {}
      BY <2>2 DEF Underway
    <3>. QED
      BY <2>2, <3>1 DEF ParseNext
  <2>. QED
    BY <2>1, <2>5, <2>6 DEF y
<1>6. last \in Reached
  <2>. HIDE DEF Reached
  <2>. QED
    BY <1>3, <1>4, <1>5, CountedTo
<1>. QED
  BY <1>6

(* What completes a frame gives its message; what comes after it is left.  *)
LEMMA RestParsed ==
  ASSUME NEW f, NEW size, IsFrame(f, size), NEW k \in 0 .. 9 + size, NEW p \in Parsers,
         IsParser(p, StateAt(k, size), SubSeq(f, 1, k), LeftAt(k, size)),
         NEW c \in Seq(Byte), NEW lack \in Nat, lack = 10 + size - k, lack <= Len(c),
         \A i \in 1..lack : c[i] = f[k + i]
  PROVE  Parse(p, c) = [parser |-> NewParser, rest |-> SubSeq(c, lack + 1, Len(c)),
                        messages |-> {Unpack(f)}]
<1>1. /\ size \in Nat /\ size < 65536 /\ f \in Seq(Byte) /\ Len(f) = 10 + size
      /\ VerifyChecksum(f)
  BY DEF IsFrame
<1>2. Len(c) \in Nat
  BY LenProperties
<1>3. PICK r : ByteByByte(p, c, r)
  BY ParseRuns
<1>4. /\ r \in [0..Len(c) -> Parsed]
      /\ \A j \in 1..Len(c) : r[j] = ParseNext(r[j - 1], c[j])
      /\ Parse(p, c) = r[Len(c)]
  BY <1>3 DEF ByteByByte
<1>. DEFINE last == lack - 1
            Left(i) == [parser |-> NewParser, rest |-> SubSeq(c, lack + 1, i),
                        messages |-> {Unpack(f)}]
            more == Len(c) - lack
            Reached == {j \in 0..more : r[lack + j] = Left(lack + j)}
<1>5. /\ last \in 0..Len(c) /\ k + last = 9 + size /\ lack \in 1..Len(c) /\ lack - 1 = last
      /\ more \in Nat
  BY <1>1, <1>2
<1>6. Underway(r[last], f, size, 9 + size)
  <2>1. k \in Nat /\ k + last <= 9 + size /\ \A i \in 1..last : c[i] = f[k + i]
    <3>1. \A i \in 1..last : i \in 1..lack
      BY <1>5
    <3>2. k \in Nat /\ k + last <= 9 + size
      BY <1>1, <1>5
    <3>. QED
      BY <3>1, <3>2
  <2>2. last \in 0..Len(c) /\ k + last = 9 + size
    BY <1>5
  <2>. HIDE DEF last
  <2>. QED
    BY <1>3, <2>1, <2>2, PartParsed
<1>7. r[lack] = Left(lack)
  <2>. DEFINE x == r[last]
              at == 9 + size
  <2>1. x \in Parsed
    BY <1>4, <1>5
  <2>2. Underway(x, f, size, at) /\ at \in Nat /\ at = 9 + size
    BY <1>1, <1>6
  <2>3. c[lack] = f[at + 1] /\ r[lack] = ParseNext(x, c[lack])
    <3>1. k + lack = at + 1
      BY <1>1, <1>5
    <3>2. c[lack] = f[k + lack]
      <4>1. lack \in 1..lack
        BY <1>5
      <4>. QED
        BY <4>1
    <3>3. r[lack] = ParseNext(r[lack - 1], c[lack])
      BY <1>4, <1>5
    <3>. HIDE DEF at, last
    <3>. QED
      BY <1>5, <3>1, <3>2, <3>3
  <2>4. SubSeq(c, lack + 1, lack) = <<>>
    BY <1>5, SubSeqEmpty
  <2>. HIDE DEF x, at, last
  <2>5. ParseNext(x, f[at + 1]) =
          [parser |-> NewParser, rest |-> <<>>,
           messages |-> IF VerifyChecksum(f) THEN {Unpack(f)} ELSE {}]
    BY <1>1, <2>1, <2>2, LastByte
  <2>. DEFINE u == {Unpack(f)}
              v == SubSeq(c, lack + 1, lack)
  <2>6. r[lack] = [parser |-> NewParser, rest |-> <<>>, messages |-> u]
    BY <1>1, <2>3, <2>5
  <2>7. v = <<>>
    BY <2>4
  <2>. HIDE DEF u, v
  <2>8. r[lack] = [parser |-> NewParser, rest |-> v, messages |-> u]
    BY <2>6, <2>7
  <2>. QED
    BY <2>8 DEF u, v
<1>8. 0 \in Reached
  <2>1. lack + 0 = lack
    OBVIOUS
  <2>. HIDE DEF Left
  <2>. QED
    BY <1>5, <1>7, <2>1
<1>9. ASSUME NEW j \in 1..more, j - 1 \in Reached
      PROVE  j \in Reached
  <2>. DEFINE i == lack + j
              s == SubSeq(c, lack + 1, i - 1)
              t == SubSeq(c, lack + 1, i)
  <2>1. i \in 1..Len(c) /\ i - 1 = lack + (j - 1) /\ j \in 0..more /\ lack + 1 \in 1..Len(c)
        /\ i \in lack + 1 .. Len(c)
    <3>1. more = Len(c) - lack
      OBVIOUS
    <3>. HIDE DEF more
    <3>2. j \in Nat /\ 1 <= j /\ j <= more
      BY <1>5
    <3>3. i \in Nat /\ i - 1 = lack + (j - 1) /\ lack + 1 <= i
      BY <3>2
    <3>4. i <= Len(c)
      BY <1>2, <3>1, <3>2
    <3>. HIDE DEF i
    <3>. QED
      BY <1>2, <3>2, <3>3, <3>4
  <2>2. r[i - 1] = Left(i - 1)
    <3>. HIDE DEF Left
    <3>1. r[lack + (j - 1)] = Left(lack + (j - 1))
      BY <1>9
    <3>. QED
      BY <2>1, <3>1
  <2>3. r[i] = ParseNext(Left(i - 1), c[i])
    BY <1>4, <2>1, <2>2
  <2>4. Append(s, c[i]) = t
    <3>1. t = s \o <<c[i]>>
      BY <2>1, SubSeqRecursiveSecond
    <3>2. c[i] \in Byte
      BY <2>1, ElementOfSeq
    <3>3. s \in Seq(Byte)
      <4>1. \A h \in lack + 1 .. i - 1 : c[h] \in Byte
        <5>1. \A h \in lack + 1 .. i - 1 : h \in 1..Len(c)
          BY <1>2, <2>1
        <5>. QED
          BY <5>1, ElementOfSeq
      <4>2. lack + 1 \in Int /\ i - 1 \in Int
        BY <1>5
      <4>. QED
        BY <4>1, <4>2, SubSeqProperties
    <3>. HIDE DEF s, t
    <3>. QED
      BY <3>1, <3>2, <3>3, AppendIsConcat
  <2>5. ParseNext(Left(i - 1), c[i]) = Left(i)
    <3>1. ParseNext(Left(i - 1), c[i]) =
            [parser |-> NewParser, rest |-> Append(s, c[i]), messages |-> {Unpack(f)}]
      BY DEF ParseNext
    <3>. QED
      BY <2>4, <3>1
  <2>. HIDE DEF Left
  <2>6. r[lack + j] = Left(lack + j)
    BY <2>3, <2>5
  <2>. QED
    BY <2>1, <2>6
<1>10. more \in Reached
  <2>. HIDE DEF Reached, more
  <2>. QED
    BY <1>5, <1>8, <1>9, CountedTo
<1>11. lack + more = Len(c)
  BY <1>2
<1>. QED
  BY <1>4, <1>10, <1>11

LEMMA PartOf ==
  ASSUME NEW s \in Seq(Byte), NEW k \in Nat, NEW m \in Nat, k + m <= Len(s)
  PROVE  /\ SubSeq(s, k + 1, k + m) \in Seq(Byte)
         /\ Len(SubSeq(s, k + 1, k + m)) = m
         /\ \A i \in 1..m : SubSeq(s, k + 1, k + m)[i] = s[k + i]
<1>1. Len(s) \in Nat
  BY LenProperties
<1>2. \A i \in k + 1 .. k + m : i \in 1..Len(s)
  BY <1>1
<1>3. \A i \in k + 1 .. k + m : s[i] \in Byte
  BY <1>2
<1>4. /\ SubSeq(s, k + 1, k + m) \in Seq(Byte)
      /\ Len(SubSeq(s, k + 1, k + m)) = IF k + 1 <= k + m THEN (k + m) - (k + 1) + 1 ELSE 0
      /\ \A i \in 1 .. (k + m) - (k + 1) + 1 : SubSeq(s, k + 1, k + m)[i] = s[(k + 1) + i - 1]
  BY <1>3, SubSeqProperties
<1>5. (k + m) - (k + 1) + 1 = m /\ \A i \in 1..m : (k + 1) + i - 1 = k + i
  OBVIOUS
<1>. QED
  BY <1>4, <1>5

LEMMA PartLeft ==
  ASSUME NEW q \in Seq(Byte), NEW t \in Seq(Byte), NEW j \in 0..Len(q)
  PROVE  SubSeq(q \o t, j + 1, Len(q \o t)) = SubSeq(q, j + 1, Len(q)) \o t
<1>. DEFINE w == q \o t
            u == SubSeq(w, j + 1, Len(w))
            v == SubSeq(q, j + 1, Len(q))
            z == v \o t
            m == Len(q)
            n == Len(t)
<1>1. m \in Nat /\ n \in Nat /\ j \in 0..m
  BY LenProperties
<1>2. w \in Seq(Byte) /\ Len(w) = m + n /\ \A i \in 1 .. m + n : w[i] = IF i <= m THEN q[i] ELSE t[i - m]
  BY ConcatProperties
<1>. HIDE DEF w
<1>3. v \in Seq(Byte) /\ Len(v) = m - j /\ \A i \in 1 .. m - j : v[i] = q[j + i]
  BY <1>1
<1>4. u \in Seq(Byte) /\ Len(u) = m + n - j /\ \A i \in 1 .. m + n - j : u[i] = w[j + i]
  BY <1>1, <1>2
<1>. HIDE DEF u, v
<1>5. z \in Seq(Byte) /\ Len(z) = Len(v) + n /\ \A i \in 1 .. Len(v) + n : z[i] = IF i <= Len(v) THEN v[i] ELSE t[i - Len(v)]
  BY <1>3, ConcatProperties
<1>. HIDE DEF z, m, n
<1>6. Len(u) = Len(z)
  BY <1>1, <1>3, <1>4, <1>5
<1>7. ASSUME NEW i \in 1..Len(u)
      PROVE  u[i] = z[i]
  <2>1. i \in Int /\ j + i \in 1 .. m + n /\ u[i] = w[j + i]
    BY <1>1, <1>4
  <2>2. CASE i <= m - j
    <3>1. j + i <= m /\ w[j + i] = q[j + i] /\ i \in 1 .. m - j
      BY <1>1, <1>2, <2>1, <2>2
    <3>2. z[i] = v[i]
      BY <1>1, <1>3, <1>5, <2>1, <3>1
    <3>. QED
      BY <1>3, <2>1, <3>1, <3>2
  <2>3. CASE ~(i <= m - j)
    <3>1. ~(j + i <= m) /\ w[j + i] = t[(j + i) - m]
      BY <1>1, <1>2, <2>1, <2>3
    <3>2. z[i] = t[i - (m - j)]
      BY <1>1, <1>3, <1>5, <1>6, <2>1, <2>3
    <3>3. (j + i) - m = i - (m - j)
      BY <1>1, <2>1
    <3>. QED
      BY <2>1, <3>1, <3>2, <3>3
  <2>. QED
    BY <2>2, <2>3
<1>8. u = z
  BY <1>4, <1>5, <1>6, <1>7, SeqEqual
<1>. QED
  BY <1>8 DEF u, z, v, w

LEMMA RestLeft ==
  ASSUME NEW q \in Seq(Byte), NEW t \in Seq(Byte), NEW j \in Nat,
         Len(q) <= j, j <= Len(q \o t)
  PROVE  LET c == SubSeq(q \o t, 1, j)
         IN SubSeq(c, Len(q) + 1, Len(c)) \o SubSeq(q \o t, j + 1, Len(q \o t)) = t
<1>. DEFINE w == q \o t
            m == Len(q)
            n == Len(t)
            c == SubSeq(w, 1, j)
            a == SubSeq(c, m + 1, Len(c))
            b == SubSeq(w, m + 1, j)
            d == SubSeq(w, j + 1, Len(w))
<1>1. m \in Nat /\ n \in Nat
  BY LenProperties
<1>2. w \in Seq(Byte) /\ Len(w) = m + n
  BY ConcatProperties
<1>3. m <= j /\ j <= m + n
  BY <1>2
<1>4. SubSeq(w, m + 1, Len(w)) = t
  <2>1. SubSeq(w, m + 1, Len(w)) = SubSeq(q, m + 1, m) \o t
    <3>1. m \in 0..Len(q)
      BY <1>1
    <3>. QED
      BY <3>1, PartLeft
  <2>2. SubSeq(q, m + 1, m) = <<>>
    BY <1>1, SubSeqEmpty
  <2>3. <<>> \o t = t
    BY ConcatEmptySeq
  <2>. QED
    BY <2>1, <2>2, <2>3
<1>. HIDE DEF w, m, n
<1>5. c \in Seq(Byte) /\ Len(c) = j /\ \A i \in 1..j : c[i] = w[i]
  BY <1>1, <1>2, <1>3
<1>. HIDE DEF c
<1>6. a \in Seq(Byte) /\ Len(a) = j - m /\ \A i \in 1 .. j - m : a[i] = c[m + i]
  BY <1>1, <1>3, <1>5
<1>7. b \in Seq(Byte) /\ Len(b) = j - m /\ \A i \in 1 .. j - m : b[i] = w[m + i]
  <2>. DEFINE k == j - m
              p == SubSeq(w, m + 1, m + k)
  <2>1. k \in Nat /\ m + k = j /\ m + k <= Len(w)
    BY <1>1, <1>2, <1>3
  <2>. HIDE DEF k
  <2>2. p \in Seq(Byte) /\ Len(p) = k /\ \A i \in 1..k : p[i] = w[m + i]
    BY <1>1, <1>2, <2>1, PartOf
  <2>3. b = p
    BY <2>1
  <2>. HIDE DEF b, p
  <2>. QED
    BY <2>2, <2>3 DEF k
<1>. HIDE DEF a, b
<1>8. a = b
  <2>1. \A i \in 1 .. j - m : m + i \in 1..j
    BY <1>1, <1>3
  <2>2. \A i \in 1..Len(a) : a[i] = b[i]
    BY <1>5, <1>6, <1>7, <2>1
  <2>. QED
    BY <1>6, <1>7, <2>2, SeqEqual
<1>9. b \o d = SubSeq(w, m + 1, Len(w))
  <2>1. m + 1 \in 1 .. Len(w) + 1 /\ j \in (m + 1) - 1 .. Len(w) /\ Len(w) \in j .. Len(w)
    BY <1>1, <1>2, <1>3
  <2>. QED
    BY <1>2, <2>1, ConcatAdjacentSubSeq DEF b
<1>10. a \o d = t
  BY <1>4, <1>8, <1>9
<1>. QED
  BY <1>10 DEF a, c, d, w, m

(* The parser has taken k bytes of a frame.                                *)
AtByte(p, f, k) ==
  IsParser(p, StateAt(k, Len(f) - 10), SubSeq(f, 1, k), LeftAt(k, Len(f) - 10))

InFrame(p, w, F) ==
  \/ p = NewParser /\ w = <<>>
  \/ \E f \in F, t \in Streams(F), k \in Nat :
       k < Len(f) /\ AtByte(p, f, k) /\ w = SubSeq(f, k + 1, Len(f)) \o t

LEMMA BetweenFrames ==
  ASSUME NEW n, NEW t \in Streams(FramesOf(n))
  PROVE  InFrame(NewParser, t, FramesOf(n))
<1>. DEFINE F == FramesOf(n)
<1>1. F \in SUBSET Seq(Byte)
  BY DEF FramesOf
<1>2. CASE t = <<>>
  BY <1>2 DEF InFrame
<1>3. CASE t # <<>>
  <2>1. PICK f \in F, s \in Streams(F) : t = f \o s
    <3>. HIDE DEF F
    <3>1. t \in Streams(F)
      BY DEF F
    <3>. QED
      BY <1>1, <1>3, <3>1, StreamStarts
  <2>2. IsFrame(f, Len(f) - 10)
    BY FramesOfAre
  <2>3. Len(f) - 10 \in Nat /\ f \in Seq(Byte) /\ Len(f) \in Nat /\ 0 < Len(f)
    BY <2>2, LenProperties DEF IsFrame
  <2>4. SubSeq(f, 0 + 1, Len(f)) = f /\ SubSeq(f, 1, 0) = <<>>
    BY <2>3, SubSeqFull, SubSeqEmpty
  <2>5. AtByte(NewParser, f, 0)
    <3>1. StateAt(0, Len(f) - 10) = 1 /\ LeftAt(0, Len(f) - 10) = 0
      BY <2>3 DEF StateAt, LeftAt
    <3>2. IsParser(NewParser, 1, <<>>, 0)
      BY DEF IsParser, NewParser, WAIT_START
    <3>. QED
      BY <2>4, <3>1, <3>2 DEF AtByte
  <2>6. 0 \in Nat /\ 0 < Len(f) /\ AtByte(NewParser, f, 0) /\ t = SubSeq(f, 0 + 1, Len(f)) \o s
    BY <2>1, <2>3, <2>4, <2>5
  <2>. HIDE DEF F
  <2>7. InFrame(NewParser, t, F)
    BY <2>6 DEF InFrame
  <2>. QED
    BY <2>7 DEF F
<1>. QED
  BY <1>2, <1>3

(* A read takes the parser on within its frame, or to the end of it, and   *)
(* what it has not parsed is still a stream.                               *)
LEMMA ReadOn ==
  ASSUME NEW n, NEW p \in Parsers, NEW w \in Seq(Byte), InFrame(p, w, FramesOf(n)),
         NEW j \in 1..Len(w)
  PROVE  LET r == Parse(p, SubSeq(w, 1, j))
         IN /\ InFrame(r.parser, r.rest \o SubSeq(w, j + 1, Len(w)), FramesOf(n))
            /\ \A m \in r.messages :
                 /\ m.id = DISTANCE_SIMPLE => m.payload[1] \in 0..n
                 /\ m.id = RANGE => m.payload[5] \in Lengths
<1>. DEFINE F == FramesOf(n)
            c == SubSeq(w, 1, j)
            after == SubSeq(w, j + 1, Len(w))
            r == Parse(p, c)
<1>1. Len(w) \in Nat /\ c \in Seq(Byte) /\ Len(c) = j /\ \A i \in 1..j : c[i] = w[i]
  BY LenProperties
<1>2. PICK f \in F, t \in Streams(F), k \in Nat :
        k < Len(f) /\ AtByte(p, f, k) /\ w = SubSeq(f, k + 1, Len(f)) \o t
  <2>1. w # <<>>
    BY <1>1
  <2>. QED
    BY <2>1 DEF InFrame
<1>. DEFINE size == Len(f) - 10
            q == SubSeq(f, k + 1, Len(f))
            lack == Len(q)
<1>3. /\ IsFrame(f, size)
      /\ Unpack(f).id = DISTANCE_SIMPLE => Unpack(f).payload[1] \in 0..n
      /\ Unpack(f).id = RANGE => Unpack(f).payload[5] \in Lengths
  BY FramesOfAre
<1>4. size \in Nat /\ f \in Seq(Byte) /\ Len(f) = 10 + size /\ k \in 0 .. 9 + size
  BY <1>2, <1>3 DEF IsFrame
<1>. HIDE DEF size
<1>5. q \in Seq(Byte) /\ lack = 10 + size - k /\ lack \in Nat /\ \A i \in 1..lack : q[i] = f[k + i]
  <2>. DEFINE m == 10 + size - k
  <2>1. m \in Nat /\ k \in Nat /\ Len(f) = k + m
    BY <1>4
  <2>. HIDE DEF m
  <2>2. q \in Seq(Byte) /\ Len(q) = m /\ \A i \in 1..m : q[i] = f[k + i]
    BY <1>4, <2>1
  <2>. QED
    BY <2>1, <2>2 DEF m
<1>6. t \in Seq(Byte)
  BY DEF Streams
<1>7. \A i \in 1..j : i <= lack => c[i] = f[k + i]
  <2>1. \A i \in 1 .. Len(w) : w[i] = IF i <= Len(q) THEN q[i] ELSE t[i - Len(q)]
    <3>. HIDE DEF q
    <3>. QED
      BY <1>2, <1>5, <1>6, ConcatProperties DEF q
  <2>. HIDE DEF c, q
  <2>2. ASSUME NEW i \in 1..j, i <= lack
        PROVE  c[i] = f[k + i]
    <3>1. i \in 1..Len(w) /\ i \in 1..lack
      BY <1>1, <1>5, <2>2
    <3>. QED
      BY <1>1, <1>5, <2>1, <3>1
  <2>. QED
    BY <2>2
<1>8. IsParser(p, StateAt(k, size), SubSeq(f, 1, k), LeftAt(k, size))
  BY <1>2 DEF AtByte, size
<1>9. CASE j < lack
  <2>1. PICK x : ByteByByte(p, c, x)
    BY <1>1, ParseRuns
  <2>2. r = x[j]
    BY <1>1, <2>1 DEF ByteByByte
  <2>. DEFINE at == k + j
  <2>3. /\ at <= 9 + size /\ j \in 0..Len(c) /\ at \in Nat /\ at < Len(f) /\ j \in 0..lack
    <3>. HIDE DEF c, lack
    <3>. QED
      BY <1>1, <1>4, <1>5, <1>9
  <2>4. \A i \in 1..j : c[i] = f[k + i]
    <3>1. \A i \in 1..j : i <= lack
      BY <1>5, <1>9
    <3>. QED
      BY <1>7, <3>1
  <2>. HIDE DEF r, c
  <2>5. Underway(x[j], f, size, k + j) /\ x[j].rest = <<>>
    BY <1>1, <1>3, <1>4, <1>8, <2>1, <2>3, <2>4, PartParsed
  <2>6. r.messages = {} /\ AtByte(r.parser, f, at) /\ r.rest = <<>>
    BY <2>2, <2>5 DEF Underway, AtByte, size
  <2>7. after = SubSeq(f, at + 1, Len(f)) \o t
    <3>1. SubSeq(w, j + 1, Len(w)) = SubSeq(q, j + 1, Len(q)) \o t
      <4>. HIDE DEF q
      <4>. QED
        BY <1>2, <1>5, <1>6, <2>3, PartLeft DEF q
    <3>2. SubSeq(q, j + 1, lack) = SubSeq(f, at + 1, Len(f))
      <4>. DEFINE u == SubSeq(q, j + 1, lack)
                  v == SubSeq(f, at + 1, Len(f))
                  m == lack - j
      <4>1. m \in Nat /\ lack = j + m /\ Len(f) = at + m /\ j \in Nat /\ at \in Nat
        BY <1>4, <1>5, <2>3
      <4>. HIDE DEF q, m, at
      <4>2. u \in Seq(Byte) /\ Len(u) = m /\ \A i \in 1..m : u[i] = q[j + i]
        BY <1>5, <4>1, PartOf
      <4>3. v \in Seq(Byte) /\ Len(v) = m /\ \A i \in 1..m : v[i] = f[at + i]
        BY <1>4, <4>1, PartOf
      <4>. HIDE DEF u, v
      <4>4. \A i \in 1..m : u[i] = v[i]
        <5>1. SUFFICES ASSUME NEW i \in 1..m PROVE u[i] = v[i]
          OBVIOUS
        <5>2. j + i \in 1..lack /\ k + (j + i) = at + i
          BY <1>4, <4>1 DEF at
        <5>. QED
          BY <1>5, <4>2, <4>3, <5>2
      <4>5. u = v
        BY <4>2, <4>3, <4>4, SeqEqual
      <4>. QED
        BY <4>5 DEF u, v
    <3>. QED
      BY <3>1, <3>2
  <2>8. r.rest \o after = after
    <3>1. after \in Seq(Byte)
      BY <1>1
    <3>. HIDE DEF after
    <3>. QED
      BY <2>6, <3>1, ConcatEmptySeq
  <2>. HIDE DEF F, after, at
  <2>9. InFrame(r.parser, r.rest \o after, F)
    BY <2>3, <2>6, <2>7, <2>8 DEF InFrame
  <2>. QED
    BY <2>6, <2>9 DEF r, c, after, F
<1>10. CASE ~(j < lack)
  <2>1. lack <= Len(c) /\ \A i \in 1..lack : c[i] = f[k + i]
    <3>1. lack <= j /\ \A i \in 1..lack : i \in 1..j /\ i <= lack
      BY <1>1, <1>5, <1>10
    <3>. QED
      BY <1>1, <1>7, <3>1
  <2>2. r = [parser |-> NewParser, rest |-> SubSeq(c, lack + 1, Len(c)), messages |-> {Unpack(f)}]
    <3>1. /\ IsFrame(f, size) /\ k \in 0 .. 9 + size /\ c \in Seq(Byte)
          /\ lack \in Nat /\ lack = 10 + size - k
      BY <1>1, <1>3, <1>4, <1>5
    <3>. HIDE DEF c, lack
    <3>. QED
      BY <1>8, <2>1, <3>1, RestParsed
  <2>3. SubSeq(c, lack + 1, Len(c)) \o after = t
    <3>1. q \in Seq(Byte) /\ t \in Seq(Byte) /\ Len(q) <= j /\ j <= Len(q \o t) /\ j \in Nat
      BY <1>1, <1>2, <1>5, <1>6, <1>10
    <3>. HIDE DEF q
    <3>2. LET d == SubSeq(q \o t, 1, j)
          IN SubSeq(d, Len(q) + 1, Len(d)) \o SubSeq(q \o t, j + 1, Len(q \o t)) = t
      BY <3>1, RestLeft
    <3>3. w = q \o t
      BY <1>2 DEF q
    <3>. QED
      BY <3>2, <3>3
  <2>4. r.parser = NewParser /\ r.rest \o after = t /\ r.messages = {Unpack(f)}
    <3>. HIDE DEF r, c, after, lack
    <3>. QED
      BY <2>2, <2>3
  <2>5. InFrame(NewParser, t, F)
    BY BetweenFrames
  <2>. HIDE DEF r, F, after
  <2>6. InFrame(r.parser, r.rest \o after, F)
    BY <2>4, <2>5
  <2>. QED
    BY <1>3, <2>4, <2>6 DEF r, c, after, F
<1>. QED
  BY <1>9, <1>10

LEMMA FrameSent ==
  ASSUME NEW n, NEW p, NEW w, InFrame(p, w, FramesOf(n)), NEW g \in FramesOf(n)
  PROVE  InFrame(p, w \o g, FramesOf(n))
<1>. DEFINE F == FramesOf(n)
<1>1. F \in SUBSET Seq(Byte) /\ g \in F /\ g \in Seq(Byte)
  BY DEF FramesOf
<1>2. CASE p = NewParser /\ w = <<>>
  <2>1. w \o g = g \o <<>>
    BY <1>1, <1>2, ConcatEmptySeq
  <2>2. g \o <<>> \in Streams(F)
    <3>. HIDE DEF F
    <3>. QED
      BY <1>1, StreamsAre
  <2>. QED
    BY <1>2, <2>1, <2>2, BetweenFrames
<1>3. CASE \E f \in F, t \in Streams(F), k \in Nat :
             k < Len(f) /\ AtByte(p, f, k) /\ w = SubSeq(f, k + 1, Len(f)) \o t
  <2>. HIDE DEF F
  <2>1. PICK f \in F, t \in Streams(F), k \in Nat :
          k < Len(f) /\ AtByte(p, f, k) /\ w = SubSeq(f, k + 1, Len(f)) \o t
    BY <1>3
  <2>. DEFINE q == SubSeq(f, k + 1, Len(f))
  <2>2. f \in Seq(Byte) /\ t \in Seq(Byte)
    BY <1>1 DEF Streams
  <2>3. q \in Seq(Byte)
    BY <2>1, <2>2, LenProperties
  <2>. HIDE DEF q
  <2>4. (q \o t) \o g = q \o (t \o g)
    BY <1>1, <2>2, <2>3, ConcatAssociative
  <2>5. t \o g \in Streams(F)
    BY <1>1, StreamGrows
  <2>6. k < Len(f) /\ AtByte(p, f, k) /\ w \o g = SubSeq(f, k + 1, Len(f)) \o (t \o g)
    BY <2>1, <2>4 DEF q
  <2>7. InFrame(p, w \o g, F)
    BY <2>5, <2>6 DEF InFrame
  <2>. QED
    BY <2>7 DEF F
<1>. QED
  BY <1>2, <1>3 DEF InFrame

(* What the device answers says what it measured last.                     *)
LEMMA PayloadTells ==
  ASSUME NEW id \in Known, pings \in Byte, pings > 0, length \in Lengths
  PROVE  Pack(id, Payload(id)) \in FramesOf(pings)
<1>1. length \in Byte
  BY PingAssumption
<1>2. Payload(id) \in Seq(Byte)
  BY <1>1, PayloadIsBytes
<1>3. Pack(id, Payload(id)) \in Seq(Byte)
  BY <1>2, PackIsBytes
<1>. DEFINE z3 == Zeros(3)
            z4 == Zeros(4)
            one == <<pings>>
            last == <<length>>
<1>4. /\ z3 \in Seq(Byte) /\ Len(z3) = 3 /\ z4 \in Seq(Byte) /\ Len(z4) = 4
      /\ one \in Seq(Byte) /\ Len(one) = 1 /\ one[1] = pings
      /\ last \in Seq(Byte) /\ Len(last) = 1 /\ last[1] = length
  BY <1>1 DEF Zeros, Byte
<1>. HIDE DEF z3, z4, one, last
<1>5. Len(Payload(id)) < 65536 /\ Telling(pings, id, Payload(id))
  <2>1. CASE id = DISTANCE_SIMPLE
    <3>1. Payload(id) = <<pings>> \o Zeros(4)
      BY <2>1 DEF Payload, DISTANCE_SIMPLE, RANGE
    <3>2. Payload(id) = one \o z4
      BY <3>1 DEF one, z4
    <3>3. Len(one \o z4) = 5 /\ (one \o z4)[1] = pings
      <4>1. MadeOf(one \o z4, one, z4)
        BY <1>4, BothParts
      <4>. QED
        BY <1>4, <4>1 DEF MadeOf
    <3>4. id # RANGE /\ pings \in 0..pings
      BY <2>1 DEF DISTANCE_SIMPLE, RANGE, Byte
    <3>. QED
      BY <3>2, <3>3, <3>4 DEF Telling
  <2>2. CASE id = RANGE
    <3>. DEFINE front == z4 \o last
    <3>1. Payload(id) = front \o z3 /\ id # DISTANCE_SIMPLE
      BY <2>2 DEF Payload, z4, last, z3, DISTANCE_SIMPLE, RANGE
    <3>2. front \in Seq(Byte) /\ Len(front) = 5 /\ front[5] = length
      <4>1. MadeOf(front, z4, last)
        BY <1>4, BothParts
      <4>2. front[Len(z4) + 1] = last[1]
        BY <1>4, <4>1 DEF MadeOf
      <4>. HIDE DEF front
      <4>. QED
        BY <1>4, <4>1, <4>2, ConcatProperties DEF MadeOf, front
    <3>. HIDE DEF front
    <3>3. Len(front \o z3) = 8 /\ (front \o z3)[5] = length
      <4>1. MadeOf(front \o z3, front, z3)
        BY <1>4, <3>2, BothParts
      <4>. QED
        BY <1>4, <3>2, <4>1 DEF MadeOf
    <3>. QED
      BY <3>1, <3>3 DEF Telling
  <2>3. CASE id \notin {DISTANCE_SIMPLE, RANGE}
    <3>1. Payload(id) = Zeros(PayloadLength[id])
      BY <2>3 DEF Payload
    <3>2. PayloadLength[id] \in Nat /\ PayloadLength[id] <= 10
      BY DEF Known, PayloadLength
    <3>3. \A n \in Nat : Len(Zeros(n)) = n
      BY DEF Zeros
    <3>4. Len(Payload(id)) < 65536
      BY <3>1, <3>2, <3>3
    <3>. QED
      BY <2>3, <3>4 DEF Telling
  <2>. QED
    BY <2>1, <2>2, <2>3
<1>. QED
  BY <1>2, <1>3, <1>5 DEF FramesOf

StreamInv ==
  PingTypes /\ OnlyWhatWasMeasured /\ InFrame(parser, wire, FramesOf(pings))

LEMMA StreamRead ==
  ASSUME StreamInv, Read
  PROVE  OnlyWhatWasMeasured' /\ InFrame(parser, wire, FramesOf(pings))'
<1>1. PICK j \in 1..Len(wire) :
        LET r == Parse(parser, SubSeq(wire, 1, j))
            handled == {m \in r.messages : HasFields(m)}
        IN /\ parser' = r.parser
           /\ wire' = r.rest \o SubSeq(wire, j + 1, Len(wire))
           /\ attrs' = IF handled = {} THEN attrs
                       ELSE HandleMessage(CHOOSE m \in handled : TRUE)
  BY DEF Read
<1>. DEFINE r == Parse(parser, SubSeq(wire, 1, j))
            handled == {m \in r.messages : HasFields(m)}
<1>2. parser \in Parsers /\ wire \in Seq(Byte) /\ InFrame(parser, wire, FramesOf(pings))
  BY DEF StreamInv, PingTypes
<1>3. /\ InFrame(r.parser, r.rest \o SubSeq(wire, j + 1, Len(wire)), FramesOf(pings))
      /\ \A m \in r.messages :
           /\ m.id = DISTANCE_SIMPLE => m.payload[1] \in 0..pings
           /\ m.id = RANGE => m.payload[5] \in Lengths
  BY <1>2, ReadOn
<1>4. UNCHANGED <<pings, length>>
  BY DEF Read, deviceVars
<1>5. InFrame(parser', wire', FramesOf(pings)')
  <2>1. parser' = r.parser /\ wire' = r.rest \o SubSeq(wire, j + 1, Len(wire))
    BY <1>1
  <2>2. FramesOf(pings)' = FramesOf(pings)
    BY <1>4 DEF FramesOf, Telling
  <2>. HIDE DEF r
  <2>. QED
    BY <1>3, <2>1, <2>2
<1>6. attrs.distance \in 0..pings /\ attrs.length \in Lengths \cup {None}
  BY DEF StreamInv, OnlyWhatWasMeasured
<1>7. attrs'.distance \in 0..pings /\ attrs'.length \in Lengths \cup {None}
  <2>1. attrs' = IF handled = {} THEN attrs ELSE HandleMessage(CHOOSE m \in handled : TRUE)
    BY <1>1
  <2>2. CASE handled = {}
    BY <1>6, <2>1, <2>2
  <2>3. CASE handled # {}
    <3>. DEFINE m == CHOOSE x \in handled : TRUE
    <3>1. m \in r.messages
      BY <2>3
    <3>2. attrs' = HandleMessage(m)
      BY <2>1, <2>3
    <3>. HIDE DEF m, r
    <3>3. /\ m.id = DISTANCE_SIMPLE => Value(m) \in 0..pings
          /\ m.id = RANGE => Value(m) \in Lengths
      BY <1>3, <3>1 DEF Value, DISTANCE_SIMPLE, RANGE
    <3>. QED
      BY <1>6, <3>2, <3>3 DEF HandleMessage
  <2>. QED
    BY <2>2, <2>3
<1>. QED
  BY <1>4, <1>5, <1>7 DEF OnlyWhatWasMeasured, InFrame

LEMMA StreamStep ==
  StreamInv /\ [PingNext]_pingVars /\ [~LineFault]_pingVars => StreamInv'
<1>. SUFFICES ASSUME StreamInv, [PingNext]_pingVars, [~LineFault]_pingVars PROVE StreamInv'
  OBVIOUS
<1>1. PingTypes'
  BY PingStep DEF StreamInv
<1>2. OnlyWhatWasMeasured' /\ InFrame(parser, wire, FramesOf(pings))'
  <2>1. CASE UNCHANGED <<pings, wire, parser, attrs>>
    <3>1. FramesOf(pings)' = FramesOf(pings)
      BY <2>1 DEF FramesOf, Telling
    <3>2. InFrame(parser', wire', FramesOf(pings)')
      BY <2>1, <3>1 DEF StreamInv
    <3>. QED
      BY <2>1, <3>2 DEF StreamInv, OnlyWhatWasMeasured, InFrame
  <2>2. CASE Read
    BY <2>2, StreamRead
  <2>3. CASE HandleRequest
    <3>1. UNCHANGED <<pings, parser, attrs>>
      BY <2>3 DEF HandleRequest, hostVars
    <3>2. PICK id \in Known : UNCHANGED wire \/ wire' = wire \o Pack(id, Payload(id))
      <4>1. requests \in Seq(Exchanges) /\ requests # <<>>
        BY <2>3 DEF StreamInv, PingTypes, HandleRequest
      <4>2. Head(requests) \in Exchanges
        BY <4>1
      <4>3. Head(requests).id \in Known
        BY <4>2 DEF Exchanges
      <4>. QED
        BY <2>3, <4>3 DEF HandleRequest
    <3>3. CASE UNCHANGED wire
      BY <2>1, <3>1, <3>3
    <3>4. CASE wire' = wire \o Pack(id, Payload(id))
      <4>1. pings \in Byte /\ pings > 0 /\ length \in Lengths /\ MaxPings \in Byte
        BY PingAssumption DEF StreamInv, PingTypes, Byte
      <4>2. Pack(id, Payload(id)) \in FramesOf(pings)
        BY <4>1, PayloadTells
      <4>3. InFrame(parser, wire \o Pack(id, Payload(id)), FramesOf(pings))
        BY <4>2, FrameSent DEF StreamInv
      <4>4. FramesOf(pings)' = FramesOf(pings)
        BY <3>1 DEF FramesOf, Telling
      <4>5. InFrame(parser', wire', FramesOf(pings)')
        BY <3>1, <3>4, <4>3, <4>4
      <4>. QED
        BY <3>1, <4>5 DEF StreamInv, OnlyWhatWasMeasured, InFrame
    <3>. QED
      BY <3>2, <3>3, <3>4
  <2>4. CASE Measure
    <3>1. pings \in Nat /\ pings' = pings + 1 /\ UNCHANGED <<wire, parser, attrs>>
      BY <2>4, PingAssumption DEF StreamInv, PingTypes, Measure, lineVars, hostVars
    <3>2. OnlyWhatWasMeasured'
      BY <3>1 DEF StreamInv, OnlyWhatWasMeasured
    <3>. DEFINE F == FramesOf(pings)
                G == FramesOf(pings')
    <3>3. F \subseteq G
      <4>1. \A id \in Known, payload \in Seq(Byte) :
              Telling(pings, id, payload) => Telling(pings', id, payload)
        BY <3>1 DEF Telling
      <4>. QED
        BY <4>1 DEF FramesOf
    <3>4. G \in SUBSET Seq(Byte)
      BY DEF FramesOf
    <3>5. InFrame(parser, wire, F)
      BY DEF StreamInv
    <3>. HIDE DEF F, G
    <3>6. Streams(F) \subseteq Streams(G)
      BY <3>3, <3>4, StreamsOfMore
    <3>7. InFrame(parser, wire, G)
      BY <3>3, <3>5, <3>6 DEF InFrame
    <3>8. FramesOf(pings)' = G
      BY DEF FramesOf, Telling, G
    <3>9. InFrame(parser', wire', FramesOf(pings)')
      BY <3>1, <3>7, <3>8
    <3>. QED
      BY <3>2, <3>9 DEF InFrame
  <2>5. CASE Connect \/ RangeCallback \/ SetParamCallback
    <3>1. UNCHANGED <<pings, wire, parser, attrs>>
      BY <2>5 DEF Connect, RangeCallback, SetParamCallback, Starts, deviceVars
    <3>. QED
      BY <2>1, <3>1
  <2>6. CASE TimesOut \/ LoseRequest \/ OtherClient
    <3>1. UNCHANGED <<pings, wire, parser, attrs>>
      BY <2>6 DEF TimesOut, LoseRequest, OtherClient, deviceVars, hostVars
    <3>. QED
      BY <2>1, <3>1
  <2>7. CASE UNCHANGED pingVars
    <3>1. UNCHANGED <<pings, wire, parser, attrs>>
      BY <2>7 DEF pingVars, deviceVars, lineVars, hostVars
    <3>. QED
      BY <2>1, <3>1
  <2>8. \/ Connect \/ RangeCallback \/ SetParamCallback \/ Read \/ TimesOut
        \/ HandleRequest \/ Measure \/ LoseRequest \/ OtherClient \/ UNCHANGED pingVars
    BY DEF PingNext
  <2>. QED
    BY <2>2, <2>3, <2>4, <2>5, <2>6, <2>7, <2>8
<1>. QED
  BY <1>1, <1>2 DEF StreamInv

(* As long as the line loses and changes no byte, however late, cut, lost  *)
(* or doubled the answers are and whatever other clients ask and set: what *)
(* the node takes for a distance the device had measured by then, and for  *)
(* a scan length it had been set to.                                       *)
THEOREM MeasuredOnCleanLine ==
  PingSpec /\ [][~LineFault]_pingVars => []OnlyWhatWasMeasured
<1>1. PingInit => StreamInv
  <2>1. SUFFICES ASSUME PingInit PROVE StreamInv
    OBVIOUS
  <2>2. PingTypes
    BY <2>1, PingStarts
  <2>3. parser = NewParser /\ wire = <<>> /\ attrs = [distance |-> None, length |-> None] /\ pings = 1
    BY <2>1 DEF PingInit
  <2>4. InFrame(parser, wire, FramesOf(pings))
    BY <2>3 DEF InFrame
  <2>5. OnlyWhatWasMeasured
    BY <2>3 DEF OnlyWhatWasMeasured, None
  <2>. QED
    BY <2>2, <2>4, <2>5 DEF StreamInv
<1>2. StreamInv => OnlyWhatWasMeasured
  BY DEF StreamInv
<1>. QED
  BY <1>1, <1>2, StreamStep, PTL DEF PingSpec
=============================================================================
