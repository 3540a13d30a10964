----------------------------- MODULE UnityProofs ------------------------------
(***************************************************************************)
(* Theorems of UnityEndpoint for any number of connections, calls and      *)
(* topics, any behavior of Unity and any threads of the executor.          *)
(***************************************************************************)
EXTENDS UnityEndpoint, SequenceTheorems, FiniteSetTheorems, TLAPS

-----------------------------------------------------------------------------
(* What the types rest on: what is read and sent is a message or an item.  *)
LEMMA MessageKinds ==
  ASSUME NEW m \in Message
  PROVE  /\ m # None
         /\ m.kind = "register" => m.topic \in Topics
         /\ m.kind = "request" => m.id \in Requests
         /\ m.kind = "response" => m.id \in Nat
BY NoneAssumption DEF Message, Plain

LEMMA ItemKinds ==
  ASSUME NEW x \in Item, x.kind = "request"
  PROVE  x.id \in Nat
BY DEF Item

LEMMA Messages ==
  /\ Plain \in Message
  /\ \A t \in Topics : Register(t) \in Message
  /\ \A r \in Requests : Request(r) \in Message /\ Contents(r) \in Message
  /\ \A i \in Nat : Response(i) \in Message /\ Contents(i) \in Message
BY DEF Message, Plain, Register, Request, Response, Contents

LEMMA Items ==
  /\ \A i \in Nat : Request(i) \in Item
  /\ \A r \in Requests : Response(r) \in Item
BY DEF Item, Request, Response

(* A call that is about to queue its request has its number.               *)
Numbered == \A k \in Calls : caller[k] = "entered" => id[k] # None
Typed == TypeOK /\ Numbered

LEMMA TypedInit == Init => Typed
BY BoundsAssumption
   DEF Init, Typed, TypeOK, Numbered, ReaderPlaces, SenderPlaces, CallerPlaces, ServicePlaces

(* A thread moves from place to place.                                     *)
LEMMA ReaderMoves ==
  ASSUME Typed, NEW c \in Conns,
         reader' = reader \/ \E p \in ReaderPlaces : reader' = [reader EXCEPT ![c] = p]
  PROVE  reader' \in [Conns -> ReaderPlaces]
BY DEF Typed, TypeOK

LEMMA PutTyped ==
  ASSUME Typed, NEW items \in Seq(Item),
         out' = out \/ (queue # None /\ out' = [out EXCEPT ![queue] = @ \o items])
  PROVE  out' \in [Conns -> Seq(Item)]
<1>. CASE out' = out
  BY DEF Typed, TypeOK
<1>. CASE queue # None /\ out' = [out EXCEPT ![queue] = @ \o items]
  <2>. queue \in Conns /\ out[queue] \o items \in Seq(Item)
    BY ConcatProperties DEF Typed, TypeOK
  <2>. QED
    BY DEF Typed, TypeOK
<1>. QED
  OBVIOUS

LEMMA CallerMoves ==
  ASSUME Typed, NEW k,
         \/ caller' = caller
         \/ \E p \in CallerPlaces \ {"entered"} : caller' = [caller EXCEPT ![k] = p]
  PROVE  /\ caller' \in [Calls -> CallerPlaces]
         /\ \A j \in Calls : caller'[j] = "entered" => caller[j] = "entered"
BY DEF Typed, TypeOK

-----------------------------------------------------------------------------
LEMMA ReadTyped ==
  ASSUME Typed, NEW c \in Conns, Read(c)
  PROVE  Typed'
<1>. DEFINE m == Head(inbox[c])
<1>1. m \in Message /\ Tail(inbox[c]) \in Seq(Message)
  BY HeadTailProperties DEF Typed, TypeOK, Read
<1>2. /\ m.kind = "register" => m.topic \in Topics
      /\ m.kind = "request" => m.id \in Requests
      /\ m.kind = "response" => m.id \in Nat
  BY <1>1, MessageKinds
<1>3. inbox' \in [Conns -> Seq(Message)] /\ topic' \in [Conns -> Topics \cup {None}]
  BY <1>1, <1>2 DEF Typed, TypeOK, Read
<1>4. CASE Answer(c, m)
  <2>1. waiting' \in SUBSET [id : Nat, call : Calls]
    BY <1>4 DEF Typed, TypeOK, Answer
  <2>2. result' \in [Calls -> Message \cup {None}]
    BY <1>1, <1>4 DEF Typed, TypeOK, Answer
  <2>3. /\ caller' \in [Calls -> CallerPlaces]
        /\ \A k \in Calls : caller'[k] = "entered" => caller[k] = "entered"
    <3>1. \/ caller' = caller
          \/ \E k : caller' = [caller EXCEPT ![k] = "returned"]
      BY <1>4 DEF Answer
    <3>2. "returned" \in CallerPlaces \ {"entered"}
      BY DEF CallerPlaces
    <3>. QED
      BY <3>1, <3>2, CallerMoves
  <2>4. reader' \in [Conns -> ReaderPlaces]
    BY <1>4, ReaderMoves DEF Answer, Go, ReaderPlaces
  <2>5. Numbered'
    BY <1>4, <2>3 DEF Typed, Numbered, Answer
  <2>. QED
    BY <1>3, <1>4, <2>1, <2>2, <2>3, <2>4, <2>5
       DEF Typed, TypeOK, Read, Answer, senderVars, nodeVars
<1>5. CASE Serve(c)
  BY <1>3, <1>5
     DEF Typed, TypeOK, Numbered, Read, Serve, Go, callVars, senderVars, nodeVars,
         ReaderPlaces, ServicePlaces
<1>6. CASE Dispatch(c, m)
  <2>1. pending' \in Announced \cup {None}
    <3>1. CASE m.kind = "request" /\ pending' = [request |-> m.kind = "request", id |-> m.id]
      BY <1>2, <3>1, (m.kind = "request") = TRUE DEF Announced
    <3>2. CASE m.kind = "response" /\ pending' = [request |-> m.kind = "request", id |-> m.id]
      BY <1>2, <3>2, (m.kind = "request") = FALSE DEF Announced
    <3>3. CASE pending' = pending
      BY <3>3 DEF Typed, TypeOK
    <3>. QED
      BY <1>6, <3>1, <3>2, <3>3 DEF Dispatch
  <2>2. reader' \in [Conns -> ReaderPlaces]
    <3>1. reader' = reader \/ \E p \in ReaderPlaces : reader' = [reader EXCEPT ![c] = p]
      BY <1>6 DEF Dispatch, Continue, Go, ReaderPlaces
    <3>. QED
      BY <3>1, ReaderMoves
  <2>. QED
    BY <1>3, <1>6, <2>1, <2>2
       DEF Typed, TypeOK, Numbered, Read, Dispatch, callVars, senderVars, nodeVars
<1>. QED
  BY <1>4, <1>5, <1>6 DEF Read

LEMMA ReaderTyped ==
  ASSUME Typed, NEW c \in Conns, ReaderStep(c)
  PROVE  Typed'
<1>. USE DEF Typed, TypeOK, Numbered, callVars, senderVars, nodeVars, unityVars
<1>1. CASE Read(c)
  BY <1>1, ReadTyped
<1>2. CASE ReadFails(c)
  BY <1>2 DEF ReadFails, Go, ReaderPlaces
<1>3. CASE ClearPending(c)
  BY <1>3 DEF ClearPending, Continue, ReaderPlaces
<1>4. CASE Refuse(c)
  <2>1. out' = out \/ out' = [out EXCEPT ![queue] = @ \o <<>>]
    BY <1>4 DEF Refuse, Put, IfQueue
  <2>2. out' \in [Conns -> Seq(Item)]
    BY <2>1
  <2>3. reader' \in [Conns -> ReaderPlaces]
    <3>1. \/ reader[c] = "refusing" /\ IfQueue(Go(c, "refuse"), Continue(c))
          \/ reader[c] = "unserved" /\ IfQueue(Go(c, "unserve"), Go(c, "used"))
          \/ Continue(c) \/ Go(c, "closing") \/ Go(c, "used")
      BY <1>4, Zenon DEF Refuse, Put, IfQueue
    <3>2. \E p \in ReaderPlaces : reader' = [reader EXCEPT ![c] = p]
      BY <3>1, Zenon DEF IfQueue, Go, Continue, ReaderPlaces
    <3>. QED
      BY <3>2, ReaderMoves
  <2>. QED
    BY <1>4, <2>2, <2>3 DEF Refuse
<1>5. CASE Retire(c)
  BY <1>5 DEF Retire, Go, ReaderPlaces
<1>6. CASE Install(c)
  <2>1. reader' \in [Conns -> ReaderPlaces]
    BY <1>6, ReaderMoves DEF Install, Continue, ReaderPlaces
  <2>2. made + 1 \in Nat /\ made' = made + 1
    BY <1>6 DEF Install
  <2>3. live' \in SUBSET Nat
    BY <1>6, <2>2 DEF Install
  <2>4. table' \in [Topics -> Nat \cup {None}]
    BY <1>6, <2>2 DEF Install
  <2>. QED
    BY <1>6, <2>1, <2>2, <2>3, <2>4 DEF Install
<1>7. CASE Close(c)
  BY <1>7 DEF Close, Go, ReaderPlaces
<1>. QED
  BY <1>1, <1>2, <1>3, <1>4, <1>5, <1>6, <1>7 DEF ReaderStep

LEMMA SenderTyped ==
  ASSUME Typed, NEW c \in Conns, SenderStep(c)
  PROVE  Typed'
<1>. USE DEF Typed, TypeOK, Numbered, callVars, readerVars, nodeVars, unityVars
<1>1. CASE SenderStarts(c)
  BY <1>1 DEF SenderStarts, SenderPlaces
<1>2. CASE Send(c)
  <2>1. Head(out[c]) \in Item /\ Tail(out[c]) \in Seq(Item)
    BY <1>2, HeadTailProperties DEF Send
  <2>2. owed' \in [Conns -> SUBSET Nat]
    <3>1. CASE owed' = owed
      BY <3>1
    <3>2. CASE Head(out[c]).kind = "request" /\ owed' = [owed EXCEPT ![c] = @ \cup {Head(out[c]).id}]
      <4>1. Head(out[c]).id \in Nat
        BY <2>1, <3>2, ItemKinds
      <4>. QED
        BY <3>2, <4>1
    <3>. QED
      BY <1>2, <3>1, <3>2 DEF Send
  <2>3. sender' \in [Conns -> SenderPlaces]
    BY <1>2 DEF Send, SenderPlaces
  <2>. QED
    BY <1>2, <2>1, <2>2, <2>3 DEF Send
<1>3. CASE SenderHalts(c)
  BY <1>3 DEF SenderHalts, SenderPlaces
<1>4. CASE SenderStops(c)
  BY <1>4 DEF SenderStops, SenderPlaces
<1>. QED
  BY <1>1, <1>2, <1>3, <1>4 DEF SenderStep

LEMMA NetworkTyped ==
  ASSUME Typed, NEW c \in Conns,
         Accept(c) \/ UnityAnswers(c) \/ UnitySends(c) \/ LinkFails(c)
  PROVE  Typed'
<1>. USE DEF Typed, TypeOK, Numbered, callVars, readerVars, senderVars, nodeVars
<1>1. CASE Accept(c)
  BY <1>1 DEF Accept, ReaderPlaces, SenderPlaces
<1>2. CASE UnityAnswers(c)
  <2>1. PICK i \in Nat : /\ Arrive(c, <<Response(i), Contents(i)>>)
                         /\ owed' = [owed EXCEPT ![c] = @ \ {i}]
                         /\ sent' = sent
    BY <1>2 DEF UnityAnswers
  <2>2. <<Response(i), Contents(i)>> \in Seq(Message)
    BY Messages
  <2>3. inbox' \in [Conns -> Seq(Message)]
    BY <2>1, <2>2 DEF Arrive
  <2>. QED
    BY <2>1, <2>3 DEF Arrive
<1>3. CASE UnitySends(c)
  <2>1. PICK ms \in {<<Plain>>} \cup {<<Register(t)>> : t \in Topics}
                \cup {<<Request(r), Contents(r)>> : r \in {s \in Requests : service[s] = "none"}} :
               Arrive(c, ms)
    BY <1>3 DEF UnitySends
  <2>2. ms \in Seq(Message)
    <3>1. CASE ms = <<Plain>>
      BY <3>1, Messages
    <3>2. ASSUME NEW t \in Topics, ms = <<Register(t)>> PROVE ms \in Seq(Message)
      BY <3>2, Messages
    <3>3. ASSUME NEW r \in Requests, ms = <<Request(r), Contents(r)>> PROVE ms \in Seq(Message)
      BY <3>3, Messages
    <3>. QED
      BY <3>1, <3>2, <3>3
  <2>3. inbox' \in [Conns -> Seq(Message)]
    BY <2>1, <2>2 DEF Arrive
  <2>4. sent' \in [Conns -> 0..MaxSent]
    BY <1>3, BoundsAssumption DEF UnitySends
  <2>. QED
    BY <1>3, <2>1, <2>3, <2>4 DEF UnitySends, Arrive
<1>4. CASE LinkFails(c)
  BY <1>4 DEF LinkFails
<1>. QED
  BY <1>1, <1>2, <1>3, <1>4

LEMMA CallTyped ==
  ASSUME Typed, NEW k \in Calls, Call(k) \/ Enqueue(k) \/ Sleep(k)
  PROVE  Typed'
<1>. USE DEF Typed, TypeOK, readerVars, senderVars, nodeVars, unityVars
<1>1. CASE Call(k) /\ queue = None
  BY <1>1 DEF Numbered, Call, Goes, CallerPlaces
<1>4. CASE Call(k) /\ queue # None
  <2>1. /\ id' = [id EXCEPT ![k] = nextId]
        /\ nextId' = nextId + 1
        /\ waiting' = waiting \cup {[id |-> nextId, call |-> k]}
        /\ caller' = [caller EXCEPT ![k] = "entered"]
    BY <1>4 DEF Call, Goes
  <2>2. caller' \in [Calls -> CallerPlaces]
    BY <2>1 DEF CallerPlaces
  <2>3. Numbered'
    BY <2>1, NoneAssumption DEF Numbered
  <2>. QED
    BY <1>4, <2>1, <2>2, <2>3 DEF Call
<1>2. CASE Enqueue(k)
  <2>1. Request(id[k]) \in Item
    BY <1>2, Items DEF Enqueue, Numbered
  <2>2. out' \in [Conns -> Seq(Item)]
    <3>1. out' = out \/ (queue # None /\ out' = [out EXCEPT ![queue] = @ \o <<Request(id[k])>>])
      <4>. HIDE DEF Typed, TypeOK
      <4>. QED
        BY <1>2 DEF Enqueue, Put, IfQueue
    <3>2. <<Request(id[k])>> \in Seq(Item)
      BY <2>1
    <3>. QED
      BY <3>1, <3>2, PutTyped
  <2>3. /\ caller' \in [Calls -> CallerPlaces]
        /\ \A j \in Calls : caller'[j] = "entered" => caller[j] = "entered"
    <3>1. \E p \in CallerPlaces \ {"entered"} : caller' = [caller EXCEPT ![k] = p]
      BY <1>2 DEF Enqueue, Put, IfQueue, Goes, CallerPlaces
    <3>. QED
      BY <3>1, CallerMoves
  <2>. QED
    BY <1>2, <2>2, <2>3 DEF Enqueue, Numbered
<1>3. CASE Sleep(k)
  BY <1>3 DEF Numbered, Sleep, Goes, CallerPlaces
<1>. QED
  BY <1>1, <1>2, <1>3, <1>4

LEMMA ServiceTyped ==
  ASSUME Typed, Forward \/ \E r \in Requests : Complete(r) \/ Respond(r)
  PROVE  Typed'
<1>. USE DEF Typed, TypeOK, Numbered, callVars, readerVars, nodeVars, unityVars
<1>1. CASE Forward
  <2>1. out' = out \/ out' = [out EXCEPT ![queue] = @ \o <<>>]
    BY <1>1 DEF Forward, Put, IfQueue
  <2>2. out' \in [Conns -> Seq(Item)]
    BY <2>1
  <2>. QED
    BY <1>1, <2>2 DEF Forward, Put, IfQueue
<1>2. ASSUME NEW r \in Requests, Complete(r) PROVE Typed'
  BY <1>2 DEF Complete, Stage, senderVars, ServicePlaces
<1>3. ASSUME NEW r \in Requests, Respond(r) PROVE Typed'
  <2>1. out' \in [Conns -> Seq(Item)]
    <3>1. out' = out \/ (queue # None /\ out' = [out EXCEPT ![queue] = @ \o <<Response(r)>>])
      <4>. HIDE DEF Typed, TypeOK
      <4>. QED
        BY <1>3 DEF Respond, Put, IfQueue
    <3>2. <<Response(r)>> \in Seq(Item)
      BY Items
    <3>. QED
      BY <3>1, <3>2, PutTyped
  <2>2. service' \in [Requests -> ServicePlaces]
    <3>1. \E p \in ServicePlaces : service' = [service EXCEPT ![r] = p]
      BY <1>3 DEF Respond, Put, IfQueue, Stage, ServicePlaces
    <3>. QED
      BY <3>1
  <2>. QED
    BY <1>3, <2>1, <2>2 DEF Respond
<1>. QED
  BY <1>1, <1>2, <1>3

LEMMA TypedStep == Typed /\ [Next]_vars => Typed'
<1>1. ASSUME Typed, UNCHANGED vars PROVE Typed'
  BY <1>1 DEF Typed, TypeOK, Numbered, vars, unityVars, readerVars, senderVars, callVars, nodeVars
<1>. QED
  BY <1>1, ReaderTyped, SenderTyped, NetworkTyped, CallTyped, ServiceTyped DEF Next

-----------------------------------------------------------------------------
(* A call waits under a number of its own until it has a result.  That two *)
(* calls never share a number rests on nextId being above all of them.     *)
CallInv ==
  /\ \A w \in waiting : id[w.call] = w.id /\ result[w.call] = None
  /\ \A k \in Calls : id[k] # None /\ result[k] = None => [id |-> id[k], call |-> k] \in waiting
  /\ \A k \in Calls : id[k] # None => id[k] < nextId
  /\ \A k, l \in Calls : id[k] # None /\ id[k] = id[l] => k = l
  /\ \A k \in Calls : caller[k] = "idle" => id[k] = None
  /\ \A k \in Calls : id[k] = None => result[k] = None

LEMMA CallInvInit == Init => CallInv
BY DEF Init, CallInv

LEMMA AnswerKeepsCalls ==
  ASSUME Typed, CallInv, NEW c \in Conns, NEW m \in Message, Answer(c, m)
  PROVE  CallInv'
<1>1. id' = id /\ nextId' = nextId
  BY DEF Answer
<1>2. CASE \A w \in waiting : w.id # pending.id
  <2>1. UNCHANGED <<result, caller, waiting>>
    BY <1>2 DEF Answer
  <2>. QED
    BY <1>1, <2>1 DEF CallInv
<1>3. CASE ~\A w \in waiting : w.id # pending.id
  <2>1. PICK w \in waiting :
          /\ waiting' = waiting \ {w}
          /\ result' = [result EXCEPT ![w.call] = m]
          /\ \/ caller' = caller
             \/ caller' = [caller EXCEPT ![w.call] = "returned"]
    BY <1>3 DEF Answer
  <2>2. w.call \in Calls /\ w.id \in Nat /\ id[w.call] = w.id
    BY DEF Typed, TypeOK, CallInv
  <2>3. ASSUME NEW v \in waiting' PROVE id'[v.call] = v.id /\ result'[v.call] = None
    <3>1. v \in waiting /\ v # w
      BY <2>1
    <3>2. v = [id |-> v.id, call |-> v.call] /\ w = [id |-> w.id, call |-> w.call]
      BY <3>1 DEF Typed, TypeOK
    <3>3. v.call # w.call /\ v.call \in Calls
      BY <3>1, <3>2, <2>2 DEF Typed, TypeOK, CallInv
    <3>. QED
      BY <1>1, <2>1, <3>1, <3>3 DEF Typed, TypeOK, CallInv
  <2>4. ASSUME NEW k \in Calls, id'[k] # None, result'[k] = None
        PROVE  [id |-> id'[k], call |-> k] \in waiting'
    <3>1. k # w.call /\ result[k] = None
      BY <2>1, <2>2, <2>4, MessageKinds DEF Typed, TypeOK
    <3>2. [id |-> id[k], call |-> k] \in waiting /\ [id |-> id[k], call |-> k].call # w.call
      BY <1>1, <2>4, <3>1 DEF CallInv
    <3>. QED
      BY <1>1, <2>1, <3>2
  <2>5. \A k \in Calls : caller'[k] = "idle" => caller[k] = "idle"
    BY <2>1, <2>2 DEF Typed, TypeOK
  <2>6. ASSUME NEW k \in Calls, id'[k] = None PROVE result'[k] = None
    BY <1>1, <2>1, <2>2, <2>6, NoneAssumption DEF Typed, TypeOK, CallInv
  <2>. QED
    BY <1>1, <2>3, <2>4, <2>5, <2>6 DEF CallInv
<1>. QED
  BY <1>2, <1>3

LEMMA CallKeepsCalls ==
  ASSUME Typed, CallInv, NEW k \in Calls, Call(k)
  PROVE  CallInv'
<1>0. caller[k] = "idle" /\ id[k] = None /\ result[k] = None /\ result' = result
  BY DEF Call, CallInv
<1>1. CASE queue = None
  <2>1. UNCHANGED <<nextId, waiting, id>> /\ caller' = [caller EXCEPT ![k] = "refused"]
    BY <1>1 DEF Call, Goes
  <2>. QED
    BY <1>0, <2>1 DEF Typed, TypeOK, CallInv
<1>2. CASE queue # None
  <2>1. /\ id' = [id EXCEPT ![k] = nextId]
        /\ nextId' = nextId + 1
        /\ waiting' = waiting \cup {[id |-> nextId, call |-> k]}
        /\ caller' = [caller EXCEPT ![k] = "entered"]
    BY <1>2 DEF Call, Goes
  <2>2. nextId \in Nat /\ nextId # None /\ id'[k] = nextId
    BY <2>1, NoneAssumption DEF Typed, TypeOK
  <2>3. \A j \in Calls : j # k => id'[j] = id[j]
    BY <2>1 DEF Typed, TypeOK
  <2>4. \A j \in Calls : id[j] # None => id[j] \in Nat /\ id[j] < nextId
    BY DEF Typed, TypeOK, CallInv
  <2>5. ASSUME NEW w \in waiting' PROVE id'[w.call] = w.id /\ result'[w.call] = None
    <3>1. CASE w = [id |-> nextId, call |-> k]
      BY <1>0, <2>2, <3>1
    <3>2. CASE w \in waiting
      <4>1. w.call \in Calls /\ w.id \in Nat /\ id[w.call] = w.id /\ result[w.call] = None
        BY <3>2 DEF Typed, TypeOK, CallInv
      <4>2. w.call # k
        BY <1>0, <4>1, NoneAssumption
      <4>. QED
        BY <1>0, <2>3, <4>1, <4>2
    <3>. QED
      BY <2>1, <3>1, <3>2
  <2>6. ASSUME NEW j \in Calls, id'[j] # None, result'[j] = None
        PROVE  [id |-> id'[j], call |-> j] \in waiting'
    <3>1. CASE j = k
      BY <2>1, <2>2, <3>1
    <3>2. CASE j # k
      <4>1. [id |-> id[j], call |-> j] \in waiting
        BY <1>0, <2>3, <2>6, <3>2 DEF CallInv
      <4>. QED
        BY <2>1, <2>3, <3>2, <4>1
    <3>. QED
      BY <3>1, <3>2
  <2>7. \A j \in Calls : id'[j] # None => id'[j] < nextId'
    BY <2>1, <2>2, <2>3, <2>4
  <2>8. \A i, j \in Calls : id'[i] # None /\ id'[i] = id'[j] => i = j
    BY <2>2, <2>3, <2>4 DEF CallInv
  <2>9. \A j \in Calls : caller'[j] = "idle" => id'[j] = None
    BY <2>1, <2>3 DEF Typed, TypeOK, CallInv
  <2>10. \A j \in Calls : id'[j] = None => result'[j] = None
    BY <1>0, <2>2, <2>3 DEF CallInv
  <2>. QED
    BY <2>5, <2>6, <2>7, <2>8, <2>9, <2>10 DEF CallInv
<1>. QED
  BY <1>1, <1>2

LEMMA CallInvStep == Typed /\ CallInv /\ [Next]_vars => CallInv'
<1>. SUFFICES ASSUME Typed, CallInv, [Next]_vars PROVE CallInv'
  OBVIOUS
<1>1. CASE \E c \in Conns : Read(c)
  <2>1. PICK c \in Conns : Read(c)
    BY <1>1
  <2>2. Head(inbox[c]) \in Message
    BY <2>1, HeadTailProperties DEF Typed, TypeOK, Read
  <2>. QED
    BY <2>1, <2>2, AnswerKeepsCalls DEF Read, Serve, Dispatch, callVars, CallInv
<1>2. CASE \E k \in Calls : Call(k)
  BY <1>2, CallKeepsCalls
<1>3. CASE \E k \in Calls : Enqueue(k) \/ Sleep(k)
  <2>1. PICK k \in Calls : Enqueue(k) \/ Sleep(k)
    BY <1>3
  <2>2. UNCHANGED <<nextId, waiting, id, result>>
    BY <2>1 DEF Enqueue, Sleep
  <2>3. \E p \in {"queued", "raised", "asleep"} : caller' = [caller EXCEPT ![k] = p]
    BY <2>1 DEF Enqueue, Sleep, Put, IfQueue, Goes
  <2>4. \A j \in Calls : caller'[j] = "idle" => caller[j] = "idle"
    BY <2>3 DEF Typed, TypeOK
  <2>. QED
    BY <2>2, <2>4 DEF CallInv
<1>4. CASE UNCHANGED callVars
  BY <1>4 DEF callVars, CallInv
<1>5. UNCHANGED callVars \/ (\E c \in Conns : Read(c)) \/ \E k \in Calls : Call(k) \/ Enqueue(k) \/ Sleep(k)
  BY DEF Next, vars, ReaderStep, SenderStep, ReadFails, ClearPending, Refuse, Retire, Install, Close,
         SenderStarts, Send, SenderHalts, SenderStops, Accept, UnityAnswers, UnitySends, Arrive,
         LinkFails, Forward, Complete, Respond
<1>. QED
  BY <1>1, <1>2, <1>3, <1>4, <1>5

(* From the moment it is numbered until its result a call is in            *)
(* services_waiting under its own number, and never after                  *)
(* (tcp_sender.send_unity_service_request, client.run).                    *)
THEOREM CallsWaitUnderTheirIds == Spec => []WaitsUnderItsId
<1>1. CallInv /\ Typed => WaitsUnderItsId
  <2>. SUFFICES ASSUME CallInv, Typed PROVE WaitsUnderItsId
    OBVIOUS
  <2>1. ASSUME NEW k \in Calls, id[k] # None
        PROVE  result[k] = None <=> \E w \in waiting : w.call = k
    <3>1. result[k] = None => [id |-> id[k], call |-> k] \in waiting
      BY <2>1 DEF CallInv
    <3>2. [id |-> id[k], call |-> k].call = k
      OBVIOUS
    <3>. QED
      BY <3>1, <3>2 DEF CallInv
  <2>. QED
    BY <2>1 DEF CallInv, WaitsUnderItsId
<1>2. Typed /\ CallInv /\ [Next]_vars => (Typed /\ CallInv)'
  BY TypedStep, CallInvStep
<1>. QED
  BY TypedInit, CallInvInit, <1>1, <1>2, PTL DEF Spec

-----------------------------------------------------------------------------
(* Until a connection is accepted it has neither reader nor sender.        *)
Unaccepted == \A c \in Conns : link[c] = "none" => reader[c] = "none" /\ sender[c] = "none"

LEMMA UnacceptedStep == Typed /\ Unaccepted /\ [Next]_vars => Unaccepted'
<1>. SUFFICES ASSUME Typed, Unaccepted, [Next]_vars PROVE Unaccepted'
  OBVIOUS
<1>0. /\ link \in [Conns -> {"none", "up", "lost"}]
      /\ sender \in [Conns -> SenderPlaces]
      /\ reader \in [Conns -> ReaderPlaces]
  BY DEF Typed, TypeOK
<1>1. ASSUME NEW c \in Conns, Accept(c) PROVE Unaccepted'
  BY <1>0, <1>1 DEF Accept, Unaccepted
<1>2. ASSUME NEW c \in Conns, SenderStep(c) PROVE Unaccepted'
  <2>1. sender[c] # "none" /\ UNCHANGED <<link, reader>>
    BY <1>2 DEF SenderStep, SenderStarts, Send, SenderHalts, SenderStops, readerVars, unityVars
  <2>2. sender' = sender \/ \E p : sender' = [sender EXCEPT ![c] = p]
    BY <1>2 DEF SenderStep, SenderStarts, Send, SenderHalts, SenderStops
  <2>. QED
    BY <1>0, <2>1, <2>2 DEF Unaccepted
<1>3. ASSUME NEW c \in Conns, ReaderStep(c) PROVE Unaccepted'
  <2>1. /\ reader[c] # "none" /\ UNCHANGED sender
        /\ link' = link \/ link' = [link EXCEPT ![c] = "lost"]
    BY <1>3 DEF ReaderStep, Read, ReadFails, ClearPending, Refuse, Retire, Install, Close,
                senderVars, unityVars
  <2>2. \E p : reader' = [reader EXCEPT ![c] = p]
    <3>1. CASE Refuse(c)
      BY <3>1, Zenon DEF Refuse, Put, IfQueue, Go, Continue
    <3>2. CASE Read(c)
      BY <3>2 DEF Read, Answer, Serve, Dispatch, Go, Continue
    <3>. QED
      BY <1>3, <3>1, <3>2 DEF ReaderStep, ReadFails, ClearPending, Retire, Install, Close, Go, Continue
  <2>. QED
    BY <1>0, <2>1, <2>2 DEF Unaccepted
<1>4. ASSUME NEW c \in Conns, UnityAnswers(c) \/ UnitySends(c) \/ LinkFails(c) PROVE Unaccepted'
  <2>1. UNCHANGED <<reader, sender>> /\ (link' = link \/ link' = [link EXCEPT ![c] = "lost"])
    BY <1>4 DEF UnityAnswers, UnitySends, LinkFails, Arrive, readerVars, senderVars
  <2>. QED
    BY <1>0, <2>1 DEF Unaccepted
<1>5. CASE \/ \E k \in Calls : Call(k) \/ Enqueue(k) \/ Sleep(k)
           \/ Forward
           \/ \E r \in Requests : Complete(r) \/ Respond(r)
           \/ UNCHANGED vars
  <2>1. UNCHANGED <<reader, sender, link>>
    BY <1>5 DEF Call, Enqueue, Sleep, Forward, Complete, Respond, vars, readerVars, senderVars, unityVars
  <2>. QED
    BY <2>1 DEF Unaccepted
<1>. QED
  BY <1>1, <1>2, <1>3, <1>4, <1>5 DEF Next

(* The current queue is that of a sender that runs: a connection that is   *)
(* accepted has none yet, and its sender is the only one that moves it.    *)
LEMMA ServedStep == Typed /\ Unaccepted /\ QueueIsServed /\ [Next]_vars => QueueIsServed'
<1>. SUFFICES ASSUME Typed, Unaccepted, QueueIsServed, [Next]_vars PROVE QueueIsServed'
  OBVIOUS
<1>0. /\ link \in [Conns -> {"none", "up", "lost"}]
      /\ sender \in [Conns -> SenderPlaces]
      /\ queue \in Conns \cup {None} /\ None \notin Conns
  BY NoneAssumption DEF Typed, TypeOK
<1>1. ASSUME NEW c \in Conns, Accept(c) PROVE QueueIsServed'
  BY <1>0, <1>1 DEF Accept, Unaccepted, QueueIsServed
<1>2. ASSUME NEW c \in Conns, SenderStep(c) PROVE QueueIsServed'
  <2>. USE <1>0 DEF QueueIsServed, unityVars
  <2>1. CASE SenderStarts(c)
    BY <2>1 DEF SenderStarts
  <2>2. CASE Send(c)
    BY <2>2 DEF Send
  <2>3. CASE SenderHalts(c)
    BY <2>3 DEF SenderHalts
  <2>4. CASE SenderStops(c)
    BY <2>4 DEF SenderStops
  <2>. QED
    BY <1>2, <2>1, <2>2, <2>3, <2>4 DEF SenderStep
<1>3. ASSUME UNCHANGED <<sender, queue>> PROVE QueueIsServed'
  BY <1>3 DEF QueueIsServed
<1>4. ASSUME NEW c \in Conns, ReaderStep(c) PROVE QueueIsServed'
  <2>1. UNCHANGED <<sender, queue>>
    BY <1>4 DEF ReaderStep, Read, ReadFails, ClearPending, Refuse, Retire, Install, Close,
                senderVars
  <2>. QED
    BY <1>3, <2>1
<1>5. ASSUME NEW c \in Conns, UnityAnswers(c) \/ UnitySends(c) \/ LinkFails(c) PROVE QueueIsServed'
  <2>1. UNCHANGED <<sender, queue>>
    BY <1>5 DEF UnityAnswers, UnitySends, LinkFails, Arrive, senderVars
  <2>. QED
    BY <1>3, <2>1
<1>6. CASE \/ \E k \in Calls : Call(k) \/ Enqueue(k) \/ Sleep(k)
           \/ Forward
           \/ \E r \in Requests : Complete(r) \/ Respond(r)
  <2>1. UNCHANGED <<sender, queue>>
    BY <1>6 DEF Call, Enqueue, Sleep, Forward, Complete, Respond, senderVars
  <2>. QED
    BY <1>3, <2>1
<1>7. CASE UNCHANGED vars
  BY <1>3, <1>7 DEF vars, senderVars
<1>. QED
  BY <1>1, <1>2, <1>4, <1>5, <1>6, <1>7 DEF Next

(* What is put into the current queue has a sender that has not ended,     *)
(* whatever connections come, are lost and are replaced in between         *)
(* (UnityTcpSender.sender_loop).                                           *)
THEOREM CurrentQueueIsServed == Spec => []QueueIsServed
<1>1. Init => Unaccepted /\ QueueIsServed
  BY DEF Init, Unaccepted, QueueIsServed
<1>2. Typed /\ Unaccepted /\ QueueIsServed /\ [Next]_vars => (Typed /\ Unaccepted /\ QueueIsServed)'
  BY TypedStep, UnacceptedStep, ServedStep
<1>. QED
  BY TypedInit, <1>1, <1>2, PTL DEF Spec

-----------------------------------------------------------------------------
(* A retired node is taken for nobody else's: no two topics have the same  *)
(* node, and every node there is was made earlier than the next one.       *)
NodeInv ==
  /\ \A t \in Topics : table[t] # None => table[t] <= made
  /\ \A t, u \in Topics : table[t] # None /\ table[t] = table[u] => t = u
  /\ \A c \in Conns : reader[c] \in {"retiring", "installing"} => topic[c] \in Topics
  /\ TableIsLive

(* A step that leaves the nodes alone and moves no reader into or out of   *)
(* "installing" keeps them.                                                *)
LEMMA NodesKept ==
  ASSUME NodeInv, UNCHANGED nodeVars,
         \A c \in Conns :
           /\ reader[c] = "installing" => reader'[c] = "installing" /\ topic'[c] = topic[c]
           /\ reader'[c] \in {"retiring", "installing"} => topic'[c] \in Topics
  PROVE  NodeInv'
BY DEF NodeInv, TableIsLive, Registering, nodeVars

LEMMA RetireKeepsNodes ==
  ASSUME Typed, NodeInv, NEW c \in Conns, Retire(c)
  PROVE  NodeInv'
<1>1. /\ topic[c] \in Topics /\ topic' = topic
      /\ live' = live \ {table[topic[c]]}
      /\ reader' = [reader EXCEPT ![c] = "installing"]
      /\ UNCHANGED <<table, made>>
  BY DEF Retire, Go, NodeInv
<1>2. reader'[c] = "installing" /\ \A d \in Conns : d # c => reader'[d] = reader[d]
  BY <1>1 DEF Typed, TypeOK
<1>3. ASSUME NEW t \in Topics, table'[t] # None, ~Registering(t)' PROVE table'[t] \in live'
  <2>1. t # topic[c] /\ ~Registering(t)
    BY <1>1, <1>2, <1>3 DEF Registering
  <2>2. table[t] \in live /\ table[t] # table[topic[c]]
    BY <1>1, <1>3, <2>1 DEF NodeInv, TableIsLive
  <2>. QED
    BY <1>1, <2>2
<1>. QED
  BY <1>1, <1>2, <1>3 DEF NodeInv, TableIsLive

LEMMA InstallKeepsNodes ==
  ASSUME Typed, NodeInv, NEW c \in Conns, Install(c)
  PROVE  NodeInv'
<1>1. /\ topic[c] \in Topics /\ topic' = topic
      /\ made' = made + 1
      /\ table' = [table EXCEPT ![topic[c]] = made + 1]
      /\ live' = live \cup {made + 1}
      /\ \A d \in Conns : d # c => reader'[d] = reader[d]
      /\ reader'[c] \in {"closing", "reading"}
  BY DEF Install, Continue, NodeInv, Typed, TypeOK
<1>2. made \in Nat /\ \A t \in Topics : table[t] \in Nat \cup {None}
  BY DEF Typed, TypeOK
<1>3. /\ table'[topic[c]] = made + 1
      /\ \A t \in Topics : t # topic[c] => table'[t] = table[t]
  BY <1>1 DEF Typed, TypeOK
<1>4. \A t \in Topics : table'[t] # None => table'[t] <= made'
  BY <1>1, <1>2, <1>3 DEF NodeInv
<1>5. \A t, u \in Topics : table'[t] # None /\ table'[t] = table'[u] => t = u
  <2>1. \A t \in Topics : t # topic[c] => table[t] # made + 1
    BY <1>2, NoneAssumption DEF NodeInv
  <2>. QED
    BY <1>3, <2>1 DEF NodeInv
<1>6. ASSUME NEW t \in Topics, table'[t] # None, ~Registering(t)' PROVE table'[t] \in live'
  <2>1. CASE t = topic[c]
    BY <1>1, <1>3, <2>1
  <2>2. CASE t # topic[c]
    <3>1. ~Registering(t)
      BY <1>1, <1>6, <2>2 DEF Registering
    <3>. QED
      BY <1>1, <1>3, <1>6, <2>2, <3>1 DEF NodeInv, TableIsLive
  <2>. QED
    BY <2>1, <2>2
<1>. QED
  BY <1>1, <1>4, <1>5, <1>6 DEF NodeInv, TableIsLive

(* What a reader does before a registration, and after it.                 *)
LEMMA ReaderPaths ==
  ASSUME Typed, NEW c \in Conns, ReaderStep(c), ~Retire(c), ~Install(c)
  PROVE  /\ reader[c] \notin {"none", "retiring", "installing"}
         /\ reader'[c] # "installing"
         /\ \A d \in Conns : d # c => reader'[d] = reader[d] /\ topic'[d] = topic[d]
         /\ UNCHANGED nodeVars
<1>1. CASE Refuse(c)
  <2>1. \E p \in {"reading", "closing", "refuse", "unserve", "used"} :
          reader' = [reader EXCEPT ![c] = p]
    BY <1>1, Zenon DEF Refuse, Put, IfQueue, Go, Continue
  <2>. QED
    BY <1>1, <2>1 DEF Refuse, Typed, TypeOK
<1>2. CASE Read(c)
  <2>1. \E p \in {"reading", "closing", "refusing", "unserved", "used", "retiring"} :
          reader' = [reader EXCEPT ![c] = p]
    BY <1>2 DEF Read, Answer, Serve, Dispatch, Go, Continue
  <2>. QED
    BY <1>2, <2>1 DEF Read, Typed, TypeOK
<1>3. CASE ReadFails(c) \/ ClearPending(c) \/ Close(c)
  BY <1>3 DEF ReadFails, ClearPending, Close, Go, Continue, Typed, TypeOK
<1>. QED
  BY <1>1, <1>2, <1>3 DEF ReaderStep

LEMMA ReaderKeepsNodes ==
  ASSUME Typed, NodeInv, NEW c \in Conns, ReaderStep(c)
  PROVE  NodeInv'
<1>1. CASE Read(c)
  <2>. DEFINE m == Head(inbox[c])
  <2>1. m \in Message
    BY <1>1, HeadTailProperties DEF Typed, TypeOK, Read
  <2>2. reader'[c] = "retiring" => m.kind = "register"
    BY <1>1 DEF Read, Answer, Serve, Dispatch, Go, Continue, Typed, TypeOK
  <2>3. topic'[c] = IF m.kind = "register" THEN m.topic ELSE None
    BY <1>1 DEF Read, Typed, TypeOK
  <2>4. reader'[c] = "retiring" => topic'[c] \in Topics
    BY <2>1, <2>2, <2>3, MessageKinds
  <2>. QED
    BY <1>1, <2>4, ReaderPaths, NodesKept DEF NodeInv, Read, Retire, Install
<1>2. CASE ReadFails(c) \/ ClearPending(c) \/ Refuse(c) \/ Close(c)
  <2>1. reader'[c] # "retiring"
    <3>1. CASE Refuse(c)
      <4>1. \E p \in {"reading", "closing", "refuse", "unserve", "used"} :
              reader' = [reader EXCEPT ![c] = p]
        BY <3>1, Zenon DEF Refuse, Put, IfQueue, Go, Continue
      <4>. QED
        BY <4>1 DEF Typed, TypeOK
    <3>2. CASE ReadFails(c) \/ ClearPending(c) \/ Close(c)
      BY <3>2 DEF ReadFails, ClearPending, Close, Go, Continue, Typed, TypeOK
    <3>. QED
      BY <1>2, <3>1, <3>2
  <2>2. ~Retire(c) /\ ~Install(c)
    BY <1>2 DEF ReadFails, ClearPending, Refuse, Close, Retire, Install
  <2>. QED
    BY <1>2, <2>1, <2>2, ReaderPaths, NodesKept DEF NodeInv
<1>. QED
  BY <1>1, <1>2, RetireKeepsNodes, InstallKeepsNodes DEF ReaderStep

LEMMA NodeInvStep == Typed /\ Unaccepted /\ NodeInv /\ [Next]_vars => NodeInv'
<1>. SUFFICES ASSUME Typed, Unaccepted, NodeInv, [Next]_vars PROVE NodeInv'
  OBVIOUS
<1>1. ASSUME NEW c \in Conns, Accept(c) PROVE NodeInv'
  <2>1. /\ UNCHANGED <<nodeVars, topic>>
        /\ \A d \in Conns : d # c => reader'[d] = reader[d]
        /\ reader[c] = "none" /\ reader'[c] = "reading"
    BY <1>1 DEF Accept, Unaccepted, Typed, TypeOK
  <2>. QED
    BY <2>1, NodesKept DEF NodeInv
<1>2. ASSUME UNCHANGED <<nodeVars, topic, reader>> PROVE NodeInv'
  BY <1>2, NodesKept DEF NodeInv
<1>3. ASSUME NEW c \in Conns, SenderStep(c) PROVE NodeInv'
  BY <1>2, <1>3 DEF SenderStep, SenderStarts, Send, SenderHalts, SenderStops, readerVars
<1>4. ASSUME NEW c \in Conns, UnityAnswers(c) \/ UnitySends(c) \/ LinkFails(c) PROVE NodeInv'
  BY <1>2, <1>4 DEF UnityAnswers, UnitySends, LinkFails, Arrive, readerVars
<1>5. CASE \/ \E k \in Calls : Call(k) \/ Enqueue(k) \/ Sleep(k)
           \/ Forward
           \/ \E r \in Requests : Complete(r) \/ Respond(r)
           \/ UNCHANGED vars
  BY <1>2, <1>5 DEF Call, Enqueue, Sleep, Forward, Complete, Respond, vars, readerVars
<1>. QED
  BY <1>1, <1>3, <1>4, <1>5, ReaderKeepsNodes DEF Next

(* Every state has its types, and the executor spins the node of a topic   *)
(* unless a registration of the topic is under way, however registrations  *)
(* of the topic have overlapped (server.SysCommands).                      *)
THEOREM RegisteredNodesAreSpun == Spec => []RegistryInv
<1>1. Init => Unaccepted /\ NodeInv
  BY DEF Init, Unaccepted, NodeInv, TableIsLive
<1>2. Typed /\ Unaccepted /\ NodeInv /\ [Next]_vars => (Typed /\ Unaccepted /\ NodeInv)'
  BY TypedStep, UnacceptedStep, NodeInvStep
<1>3. Typed /\ NodeInv => RegistryInv
  BY DEF Typed, NodeInv, RegistryInv
<1>. QED
  BY TypedInit, <1>1, <1>2, <1>3, PTL DEF Spec

-----------------------------------------------------------------------------
(* What was accepted stays accepted, so a single connection was always     *)
(* the only one.                                                           *)
LEMMA AcceptedStays ==
  ASSUME Typed, [Next]_vars, NEW c \in Conns, link[c] # "none"
  PROVE  link'[c] # "none"
<1>1. ASSUME NEW d \in Conns, Accept(d) PROVE link'[c] # "none"
  BY <1>1 DEF Accept, Typed, TypeOK
<1>2. ASSUME NEW d \in Conns, ReaderStep(d) \/ SenderStep(d) PROVE link'[c] # "none"
  BY <1>2 DEF Typed, TypeOK, ReaderStep, Read, ReadFails, ClearPending, Refuse, Retire, Install, Close,
              SenderStep, SenderStarts, Send, SenderHalts, SenderStops, unityVars
<1>3. ASSUME NEW d \in Conns, UnityAnswers(d) \/ UnitySends(d) \/ LinkFails(d) PROVE link'[c] # "none"
  BY <1>3 DEF Typed, TypeOK, UnityAnswers, UnitySends, LinkFails, Arrive
<1>4. CASE \/ \E k \in Calls : Call(k) \/ Enqueue(k) \/ Sleep(k)
           \/ Forward
           \/ \E r \in Requests : Complete(r) \/ Respond(r)
           \/ UNCHANGED vars
  BY <1>4 DEF Call, Enqueue, Sleep, Forward, Complete, Respond, vars, unityVars
<1>. QED
  BY <1>1, <1>2, <1>3, <1>4 DEF Next

LEMMA SingleBefore == Typed /\ [Next]_vars /\ Single' => Single
BY AcceptedStays DEF Single

(* Who is not the one connection has no thread.                            *)
LEMMA OthersIdle ==
  ASSUME Unaccepted, Single, NEW c \in Conns, reader[c] # "none" \/ sender[c] # "none"
  PROVE  /\ link[c] # "none"
         /\ \A d \in Conns : d # c => reader[d] = "none" /\ sender[d] = "none" /\ link[d] = "none"
BY DEF Unaccepted, Single

(* Cardinality tells what it should: so far finitely many are accepted.    *)
LEMMA AcceptedFinite ==
  Typed /\ Unaccepted /\ IsFiniteSet(Accepted) /\ [Next]_vars => IsFiniteSet(Accepted')
<1>. SUFFICES ASSUME Typed, Unaccepted, IsFiniteSet(Accepted), [Next]_vars PROVE IsFiniteSet(Accepted')
  OBVIOUS
<1>1. ASSUME NEW c \in Conns, Accept(c) PROVE IsFiniteSet(Accepted')
  <2>1. Accepted' = Accepted \cup {c}
    BY <1>1 DEF Accepted, Accept, Typed, TypeOK
  <2>. QED
    BY <2>1, FS_AddElement
<1>2. CASE \A c \in Conns : ~Accept(c)
  <2>1. \/ UNCHANGED link
        \/ \E d \in Conns : link[d] # "none" /\ link' = [link EXCEPT ![d] = "lost"]
    <3>1. ASSUME NEW d \in Conns, ReaderStep(d) \/ SenderStep(d)
          PROVE  UNCHANGED link \/ (link[d] # "none" /\ link' = [link EXCEPT ![d] = "lost"])
      BY <3>1 DEF Unaccepted, ReaderStep, Read, ReadFails, ClearPending, Refuse, Retire, Install,
                  Close, SenderStep, SenderStarts, Send, SenderHalts, SenderStops, unityVars
    <3>2. ASSUME NEW d \in Conns, UnityAnswers(d) \/ UnitySends(d) \/ LinkFails(d)
          PROVE  UNCHANGED link \/ (link[d] # "none" /\ link' = [link EXCEPT ![d] = "lost"])
      BY <3>2 DEF UnityAnswers, UnitySends, LinkFails, Arrive
    <3>3. CASE \/ \E k \in Calls : Call(k) \/ Enqueue(k) \/ Sleep(k)
               \/ Forward
               \/ \E r \in Requests : Complete(r) \/ Respond(r)
               \/ UNCHANGED vars
      BY <3>3 DEF Call, Enqueue, Sleep, Forward, Complete, Respond, vars, unityVars
    <3>. QED
      BY <1>2, <3>1, <3>2, <3>3 DEF Next
  <2>2. \A c \in Conns : link'[c] # "none" => link[c] # "none"
    BY <2>1 DEF Typed, TypeOK
  <2>. QED
    BY <2>2, FS_Subset DEF Accepted
<1>. QED
  BY <1>1, <1>2

(* Only the one connection's sender makes a queue current.                 *)
SenderOne == \A c \in Conns : sender[c] \in {"sending", "stopping"} => queue = c

LEMMA SenderOneStep ==
  ASSUME Typed, Unaccepted, Single, SenderOne, [Next]_vars
  PROVE  SenderOne'
<1>0. sender \in [Conns -> SenderPlaces]
  BY DEF Typed, TypeOK
<1>1. ASSUME NEW c \in Conns, Accept(c) PROVE SenderOne'
  BY <1>0, <1>1 DEF Accept, SenderOne
<1>2. ASSUME NEW c \in Conns, SenderStep(c) PROVE SenderOne'
  <2>1. \A d \in Conns : d # c => sender[d] = "none"
    BY <1>2, OthersIdle DEF SenderStep, SenderStarts, Send, SenderHalts, SenderStops
  <2>2. CASE SenderStarts(c)
    BY <1>0, <2>1, <2>2 DEF SenderStarts, SenderOne
  <2>3. CASE Send(c) \/ SenderHalts(c)
    BY <1>0, <2>3 DEF Send, SenderHalts, SenderOne
  <2>4. CASE SenderStops(c)
    BY <1>0, <2>1, <2>4 DEF SenderStops, SenderOne
  <2>. QED
    BY <1>2, <2>2, <2>3, <2>4 DEF SenderStep
<1>3. ASSUME UNCHANGED <<sender, queue>> PROVE SenderOne'
  BY <1>3 DEF SenderOne
<1>4. ASSUME NEW c \in Conns, ReaderStep(c) PROVE UNCHANGED <<sender, queue>>
  BY <1>4 DEF ReaderStep, Read, ReadFails, ClearPending, Refuse, Retire, Install, Close, senderVars
<1>5. ASSUME NEW c \in Conns, UnityAnswers(c) \/ UnitySends(c) \/ LinkFails(c)
      PROVE  UNCHANGED <<sender, queue>>
  BY <1>5 DEF UnityAnswers, UnitySends, LinkFails, Arrive, senderVars
<1>6. CASE \/ \E k \in Calls : Call(k) \/ Enqueue(k) \/ Sleep(k)
           \/ Forward
           \/ \E r \in Requests : Complete(r) \/ Respond(r)
           \/ UNCHANGED vars
  BY <1>3, <1>6 DEF Call, Enqueue, Sleep, Forward, Complete, Respond, vars, senderVars
<1>. QED
  BY <1>1, <1>2, <1>3, <1>4, <1>5, <1>6 DEF Next

-----------------------------------------------------------------------------
(* A node that is spun is in the table, and is not the one that a          *)
(* registration under way is about to replace.                             *)
LiveOne ==
  \A n \in live : \E t \in Topics :
    table[t] = n /\ \A c \in Conns : reader[c] = "installing" => topic[c] # t

LEMMA RetireKeepsLive ==
  ASSUME Typed, Unaccepted, Single, LiveOne, NEW c \in Conns, Retire(c)
  PROVE  LiveOne'
<1>1. /\ live' = live \ {table[topic[c]]}
      /\ UNCHANGED <<table, topic>>
      /\ \A d \in Conns : d # c => reader'[d] = reader[d]
  BY DEF Retire, Go, Typed, TypeOK
<1>2. \A d \in Conns : d # c => reader[d] = "none"
  BY OthersIdle DEF Retire
<1>. QED
  BY <1>1, <1>2 DEF LiveOne

LEMMA InstallKeepsLive ==
  ASSUME Typed, Unaccepted, Single, NodeInv, LiveOne, NEW c \in Conns, Install(c)
  PROVE  LiveOne'
<1>1. /\ topic[c] \in Topics /\ UNCHANGED topic
      /\ table' = [table EXCEPT ![topic[c]] = made + 1]
      /\ live' = live \cup {made + 1}
      /\ \A d \in Conns : d # c => reader'[d] = reader[d]
      /\ reader[c] = "installing" /\ reader'[c] # "installing"
  BY DEF Install, Continue, NodeInv, Typed, TypeOK
<1>2. \A d \in Conns : d # c => reader[d] = "none"
  BY OthersIdle DEF Install
<1>3. /\ table'[topic[c]] = made + 1
      /\ \A t \in Topics : t # topic[c] => table'[t] = table[t]
  BY <1>1 DEF Typed, TypeOK
<1>4. \A d \in Conns : reader'[d] # "installing"
  BY <1>1, <1>2
<1>. QED
  BY <1>1, <1>3, <1>4 DEF LiveOne

LEMMA LiveOneStep ==
  ASSUME Typed, Unaccepted, Single, NodeInv, LiveOne, [Next]_vars
  PROVE  LiveOne'
<1>1. ASSUME NEW c \in Conns, Accept(c) PROVE LiveOne'
  BY <1>1 DEF Accept, LiveOne, nodeVars, Typed, TypeOK
<1>2. ASSUME UNCHANGED <<nodeVars, topic, reader>> PROVE LiveOne'
  BY <1>2 DEF LiveOne, nodeVars
<1>3. ASSUME NEW c \in Conns, SenderStep(c) PROVE LiveOne'
  BY <1>2, <1>3 DEF SenderStep, SenderStarts, Send, SenderHalts, SenderStops, readerVars
<1>4. ASSUME NEW c \in Conns, UnityAnswers(c) \/ UnitySends(c) \/ LinkFails(c) PROVE LiveOne'
  BY <1>2, <1>4 DEF UnityAnswers, UnitySends, LinkFails, Arrive, readerVars
<1>5. CASE \/ \E k \in Calls : Call(k) \/ Enqueue(k) \/ Sleep(k)
           \/ Forward
           \/ \E r \in Requests : Complete(r) \/ Respond(r)
           \/ UNCHANGED vars
  BY <1>2, <1>5 DEF Call, Enqueue, Sleep, Forward, Complete, Respond, vars, readerVars
<1>6. ASSUME NEW c \in Conns, ReaderStep(c), ~Retire(c), ~Install(c) PROVE LiveOne'
  BY <1>6, ReaderPaths DEF LiveOne, nodeVars
<1>. QED
  BY <1>1, <1>3, <1>4, <1>5, <1>6, RetireKeepsLive, InstallKeepsLive DEF Next

-----------------------------------------------------------------------------
(* What Unity has sent is in order: an announcement is followed by its     *)
(* contents, and contents follow an announcement, which may be the one     *)
(* that was read last.                                                     *)
Announces(m) == m.kind \in {"request", "response"}

Paired(s, announced) ==
  /\ announced # None => s # <<>> /\ s[1] = Contents(announced.id)
  /\ \A i \in 1 .. Len(s) : Announces(s[i]) => i < Len(s) /\ s[i + 1] = Contents(s[i].id)
  /\ \A i \in 1 .. Len(s) :
       s[i].kind = "contents" => IF i = 1 THEN announced # None ELSE Announces(s[i - 1])

LEMMA PairedTail ==
  ASSUME NEW s \in Seq(Message), s # <<>>, NEW a, Paired(s, a),
         NEW b, b # None <=> Announces(s[1]), b # None => b.id = s[1].id
  PROVE  Paired(Tail(s), b)
<1>1. /\ Tail(s) \in Seq(Message)
      /\ Len(Tail(s)) = Len(s) - 1
      /\ \A i \in 1 .. Len(Tail(s)) : Tail(s)[i] = s[i + 1]
      /\ Len(s) \in Nat \ {0}
  BY HeadTailProperties
<1>2. b # None => Tail(s) # <<>> /\ Tail(s)[1] = Contents(b.id)
  <2>. SUFFICES ASSUME b # None PROVE Tail(s) # <<>> /\ Tail(s)[1] = Contents(b.id)
    OBVIOUS
  <2>1. 1 < Len(s) /\ s[2] = Contents(s[1].id)
    BY <1>1 DEF Paired
  <2>2. 1 \in 1 .. Len(Tail(s)) /\ Tail(s)[1] = s[2]
    BY <1>1, <2>1
  <2>3. Tail(s) # <<>>
    <3>1. Len(Tail(s)) # Len(<<>>)
      BY <1>1, <2>1, EmptySeq
    <3>. QED
      BY <3>1, Zenon
  <2>. QED
    BY <2>1, <2>2, <2>3
<1>3. ASSUME NEW i \in 1 .. Len(Tail(s)), Announces(Tail(s)[i])
      PROVE  i < Len(Tail(s)) /\ Tail(s)[i + 1] = Contents(Tail(s)[i].id)
  <2>1. i + 1 \in 1 .. Len(s) /\ Tail(s)[i] = s[i + 1]
    BY <1>1
  <2>2. i + 1 < Len(s) /\ s[(i + 1) + 1] = Contents(s[i + 1].id)
    BY <1>3, <2>1 DEF Paired
  <2>. QED
    BY <1>1, <2>1, <2>2
<1>4. ASSUME NEW i \in 1 .. Len(Tail(s)), Tail(s)[i].kind = "contents"
      PROVE  IF i = 1 THEN b # None ELSE Announces(Tail(s)[i - 1])
  <2>1. i + 1 \in 1 .. Len(s) /\ Tail(s)[i] = s[i + 1] /\ i + 1 # 1 /\ (i + 1) - 1 = i
    BY <1>1
  <2>2. Announces(s[i])
    BY <1>4, <2>1 DEF Paired
  <2>3. i # 1 => Tail(s)[i - 1] = s[i]
    BY <1>1
  <2>. QED
    BY <2>2, <2>3
<1>. QED
  BY <1>2, <1>3, <1>4 DEF Paired

LEMMA PairedConcat ==
  ASSUME NEW s \in Seq(Message), NEW ms \in Seq(Message), NEW a,
         Paired(s, a), Paired(ms, None)
  PROVE  Paired(s \o ms, a)
<1>. DEFINE t == s \o ms
<1>1. /\ t \in Seq(Message) /\ Len(t) = Len(s) + Len(ms) /\ Len(s) \in Nat /\ Len(ms) \in Nat
      /\ \A i \in 1 .. Len(s) : t[i] = s[i]
      /\ \A i \in 1 .. Len(ms) : t[Len(s) + i] = ms[i]
  BY ConcatProperties, LenProperties
<1>2. a # None => t # <<>> /\ t[1] = Contents(a.id)
  BY <1>1, EmptySeq DEF Paired
<1>. HIDE DEF t
<1>3. ASSUME NEW i \in 1 .. Len(t), Announces(t[i])
      PROVE  i < Len(t) /\ t[i + 1] = Contents(t[i].id)
  <2>1. CASE i \in 1 .. Len(s)
    <3>1. i < Len(s) /\ s[i + 1] = Contents(s[i].id)
      BY <1>1, <1>3, <2>1 DEF Paired
    <3>. QED
      BY <1>1, <2>1, <3>1
  <2>2. CASE i > Len(s)
    <3>. DEFINE j == i - Len(s)
    <3>1. j \in 1 .. Len(ms) /\ i = Len(s) + j /\ t[i] = ms[j]
      BY <1>1, <2>2
    <3>2. j < Len(ms) /\ ms[j + 1] = Contents(ms[j].id)
      BY <1>3, <3>1 DEF Paired
    <3>3. t[Len(s) + (j + 1)] = ms[j + 1] /\ Len(s) + (j + 1) = i + 1
      BY <1>1, <3>1, <3>2
    <3>. QED
      BY <1>1, <3>1, <3>2, <3>3
  <2>. QED
    BY <1>1, <2>1, <2>2
<1>4. ASSUME NEW i \in 1 .. Len(t), t[i].kind = "contents"
      PROVE  IF i = 1 THEN a # None ELSE Announces(t[i - 1])
  <2>1. CASE i \in 1 .. Len(s)
    <3>1. IF i = 1 THEN a # None ELSE Announces(s[i - 1])
      BY <1>1, <1>4, <2>1 DEF Paired
    <3>. QED
      BY <1>1, <2>1, <3>1
  <2>2. CASE i > Len(s)
    <3>. DEFINE j == i - Len(s)
    <3>1. j \in 1 .. Len(ms) /\ i = Len(s) + j /\ t[i] = ms[j]
      BY <1>1, <2>2
    <3>2. j # 1 /\ Announces(ms[j - 1])
      BY <1>4, <3>1 DEF Paired
    <3>3. t[Len(s) + (j - 1)] = ms[j - 1] /\ Len(s) + (j - 1) = i - 1
      BY <1>1, <3>1, <3>2
    <3>. QED
      BY <1>1, <3>1, <3>2, <3>3
  <2>. QED
    BY <1>1, <2>1, <2>2
<1>. QED
  BY <1>2, <1>3, <1>4 DEF Paired, t

LEMMA SentPaired ==
  /\ Paired(<<>>, None)
  /\ Paired(<<Plain>>, None)
  /\ \A t \in Topics : Paired(<<Register(t)>>, None)
  /\ \A r : Paired(<<Request(r), Contents(r)>>, None)
  /\ \A i : Paired(<<Response(i), Contents(i)>>, None)
<1>1. Paired(<<>>, None)
  BY DEF Paired
<1>2. Paired(<<Plain>>, None)
  BY DEF Paired, Announces, Plain
<1>3. \A t \in Topics : Paired(<<Register(t)>>, None)
  BY DEF Paired, Announces, Register
<1>4. ASSUME NEW i, NEW m \in {Request(i), Response(i)} PROVE Paired(<<m, Contents(i)>>, None)
  <2>. DEFINE s == <<m, Contents(i)>>
  <2>1. Len(s) = 2 /\ s[1] = m /\ s[2] = Contents(i)
    OBVIOUS
  <2>2. m.id = i /\ Announces(m) /\ m.kind # "contents" /\ ~Announces(Contents(i))
    BY DEF Announces, Request, Response, Contents
  <2>. HIDE DEF s
  <2>3. \A j \in 1 .. 2 : j = 1 \/ j = 2
    OBVIOUS
  <2>. QED
    BY <2>1, <2>2, <2>3 DEF Paired, s
<1>. QED
  BY <1>1, <1>2, <1>3, <1>4

-----------------------------------------------------------------------------
(* The reader of the one connection reads what Unity sent in pairs, and    *)
(* pending_srv_id is what it has read the announcement of.                 *)
Awaited(c) == IF reader[c] = "reading" THEN pending ELSE None

Ordered(c) ==
  /\ reader[c] \notin {"closing", "closed"} => Paired(inbox[c], Awaited(c))
  /\ reader[c] \in {"refusing", "refuse", "retiring", "installing"} => pending = None

InboxOne == \A c \in Conns : Ordered(c)

Fresh ==
  /\ \A c \in Conns : link[c] = "none" => inbox[c] = <<>>
  /\ (\A c \in Conns : link[c] = "none") => pending = None

LEMMA OrderedElsewhere ==
  ASSUME Unaccepted, Single, InboxOne, NEW c \in Conns, reader[c] # "none", Ordered(c)',
         \A d \in Conns : d # c => reader'[d] = reader[d] /\ inbox'[d] = inbox[d]
  PROVE  InboxOne'
<1>1. ASSUME NEW d \in Conns, d # c PROVE Ordered(d)'
  <2>1. reader[d] = "none" /\ reader'[d] = "none" /\ inbox'[d] = inbox[d]
    BY <1>1, OthersIdle
  <2>. QED
    BY <2>1 DEF InboxOne, Ordered, Awaited
<1>. QED
  BY <1>1 DEF InboxOne

(* What the reader takes next: an announcement, its contents after it, or  *)
(* something of its own.                                                   *)
LEMMA ReadInOrder ==
  ASSUME Typed, InboxOne, NEW c \in Conns, Read(c)
  PROVE  /\ inbox[c] # <<>> /\ Paired(inbox[c], pending) /\ Head(inbox[c]) = inbox[c][1]
         /\ Head(inbox[c]) \in Message /\ inbox[c] \in Seq(Message)
         /\ pending # None => Head(inbox[c]) = Contents(pending.id)
         /\ pending = None => Head(inbox[c]).kind # "contents"
<1>1. inbox[c] # <<>> /\ inbox[c] \in Seq(Message) /\ Paired(inbox[c], pending)
  BY DEF Read, Typed, TypeOK, InboxOne, Ordered, Awaited
<1>2. Head(inbox[c]) = inbox[c][1] /\ Head(inbox[c]) \in Message /\ 1 \in 1 .. Len(inbox[c])
  BY <1>1, HeadTailProperties, EmptySeq
<1>. QED
  BY <1>1, <1>2 DEF Paired

LEMMA ReadKeepsOrder ==
  ASSUME Typed, Unaccepted, Single, InboxOne, NEW c \in Conns, Read(c)
  PROVE  InboxOne'
<1>. DEFINE s == inbox[c]
            m == Head(s)
<1>1. /\ s \in Seq(Message) /\ s # <<>> /\ Paired(s, pending) /\ m = s[1] /\ m \in Message
      /\ pending # None => m = Contents(pending.id)
      /\ pending = None => m.kind # "contents"
  BY ReadInOrder
<1>2. reader[c] = "reading" /\ inbox' = [inbox EXCEPT ![c] = Tail(s)] /\ inbox'[c] = Tail(s)
  BY DEF Read, Typed, TypeOK
<1>3. \A d \in Conns : d # c => reader'[d] = reader[d]
  BY ReaderPaths DEF ReaderStep, Read, Retire, Install
<1>4. CASE pending # None
  <2>1. /\ pending' = pending
        /\ \E p \in {"closing", "used", "unserved"} : reader' = [reader EXCEPT ![c] = p]
    BY <1>4 DEF Read, Answer, Serve, Go
  <2>2. reader'[c] \in {"closing", "used", "unserved"}
    BY <2>1 DEF Typed, TypeOK
  <2>3. Paired(Tail(s), None)
    <3>1. ~Announces(s[1])
      BY <1>1, <1>4 DEF Announces, Contents
    <3>. QED
      BY <1>1, <3>1, PairedTail
  <2>4. Ordered(c)'
    BY <1>2, <2>2, <2>3 DEF Ordered, Awaited
  <2>. QED
    BY <1>2, <1>3, <2>4, OrderedElsewhere DEF Typed, TypeOK
<1>5. CASE pending = None /\ Announces(m)
  <2>. DEFINE a == [request |-> m.kind = "request", id |-> m.id]
  <2>1. pending' = a /\ Continue(c)
    BY <1>5 DEF Read, Dispatch, Announces
  <2>2. a # None
    <3>1. a \in Announced
      <4>1. CASE m.kind = "request"
        BY <1>1, <4>1, MessageKinds, (m.kind = "request") = TRUE DEF Announced
      <4>2. CASE m.kind = "response"
        BY <1>1, <4>2, MessageKinds, (m.kind = "request") = FALSE DEF Announced
      <4>. QED
        BY <1>5, <4>1, <4>2 DEF Announces
    <3>. QED
      BY <3>1, NoneAssumption
  <2>3. Paired(Tail(s), a)
    BY <1>1, <1>5, <2>2, PairedTail
  <2>4. reader'[c] \in {"reading", "closing"}
    BY <2>1 DEF Continue, Typed, TypeOK
  <2>5. Ordered(c)'
    BY <1>2, <2>1, <2>3, <2>4 DEF Ordered, Awaited
  <2>. QED
    BY <1>2, <1>3, <2>5, OrderedElsewhere DEF Typed, TypeOK
<1>6. CASE pending = None /\ ~Announces(m)
  <2>1. pending' = None
    BY <1>6 DEF Read, Dispatch, Announces
  <2>2. Paired(Tail(s), None)
    BY <1>1, <1>6, PairedTail
  <2>3. Ordered(c)'
    BY <1>2, <2>1, <2>2 DEF Ordered, Awaited
  <2>. QED
    BY <1>2, <1>3, <2>3, OrderedElsewhere DEF Typed, TypeOK
<1>. QED
  BY <1>4, <1>5, <1>6

LEMMA ReaderKeepsOrder ==
  ASSUME Typed, Unaccepted, Single, InboxOne, NEW c \in Conns, ReaderStep(c)
  PROVE  InboxOne'
<1>1. CASE Read(c)
  BY <1>1, ReadKeepsOrder
<1>2. ASSUME ~Read(c) PROVE Ordered(c)'
  <2>1. reader \in [Conns -> ReaderPlaces] /\ Ordered(c)
    BY DEF Typed, TypeOK, InboxOne
  <2>2. CASE ClearPending(c)
    BY <2>1, <2>2 DEF ClearPending, Continue, Ordered, Awaited, unityVars
  <2>3. CASE Refuse(c)
    <3>1. \/ /\ reader[c] \in {"refusing", "refuse"}
             /\ \E p \in {"refuse", "reading", "closing"} : reader' = [reader EXCEPT ![c] = p]
          \/ /\ reader[c] \in {"unserved", "unserve"}
             /\ \E p \in {"unserve", "used", "closing"} : reader' = [reader EXCEPT ![c] = p]
      BY <2>3, Zenon DEF Refuse, Put, IfQueue, Go, Continue
    <3>2. UNCHANGED <<inbox, pending>>
      BY <2>3 DEF Refuse, unityVars
    <3>. QED
      BY <2>1, <3>1, <3>2 DEF Ordered, Awaited
  <2>4. CASE Retire(c) \/ Install(c)
    BY <2>1, <2>4 DEF Retire, Install, Go, Continue, Ordered, Awaited, unityVars
  <2>5. CASE ReadFails(c) \/ Close(c)
    BY <2>1, <2>5 DEF ReadFails, Close, Go, Ordered
  <2>. QED
    BY <1>2, <2>2, <2>3, <2>4, <2>5 DEF ReaderStep
<1>3. ASSUME ~Read(c)
      PROVE  /\ reader[c] # "none"
             /\ \A d \in Conns : d # c => reader'[d] = reader[d] /\ inbox'[d] = inbox[d]
  <2>1. CASE Retire(c) \/ Install(c)
    BY <2>1 DEF Retire, Install, Go, Continue, Typed, TypeOK, unityVars
  <2>2. CASE ~(Retire(c) \/ Install(c))
    <3>1. inbox' = inbox \/ inbox' = [inbox EXCEPT ![c] = <<>>]
      BY <1>3, <2>2 DEF ReaderStep, ReadFails, ClearPending, Refuse, Close, unityVars
    <3>. QED
      BY <2>2, <3>1, ReaderPaths DEF Typed, TypeOK
  <2>. QED
    BY <2>1, <2>2
<1>. QED
  BY <1>1, <1>2, <1>3, OrderedElsewhere

LEMMA ArriveKeepsOrder ==
  ASSUME Typed, InboxOne, NEW c \in Conns, UnityAnswers(c) \/ UnitySends(c)
  PROVE  InboxOne'
<1>1. PICK ms \in Seq(Message) : Arrive(c, ms) /\ Paired(ms, None)
  <2>1. CASE UnityAnswers(c)
    <3>1. PICK i \in Nat : Arrive(c, <<Response(i), Contents(i)>>)
      BY <2>1 DEF UnityAnswers, Typed, TypeOK
    <3>2. <<Response(i), Contents(i)>> \in Seq(Message)
      BY Messages
    <3>. QED
      BY <3>1, <3>2, SentPaired
  <2>2. CASE UnitySends(c)
    <3>1. PICK ms \in {<<Plain>>} \cup {<<Register(t)>> : t \in Topics}
                  \cup {<<Request(r), Contents(r)>> : r \in {s \in Requests : service[s] = "none"}} :
                 Arrive(c, ms)
      BY <2>2 DEF UnitySends
    <3>2. ASSUME ms = <<Plain>> PROVE ms \in Seq(Message) /\ Paired(ms, None)
      BY <3>2, Messages, SentPaired
    <3>3. ASSUME NEW t \in Topics, ms = <<Register(t)>>
          PROVE  ms \in Seq(Message) /\ Paired(ms, None)
      BY <3>3, Messages, SentPaired
    <3>4. ASSUME NEW r \in Requests, ms = <<Request(r), Contents(r)>>
          PROVE  ms \in Seq(Message) /\ Paired(ms, None)
      BY <3>4, Messages, SentPaired
    <3>. QED
      BY <3>1, <3>2, <3>3, <3>4
  <2>. QED
    BY <2>1, <2>2
<1>2. UNCHANGED <<reader, pending>> /\ inbox' = [inbox EXCEPT ![c] = @ \o ms]
  BY <1>1 DEF Arrive, readerVars
<1>3. ASSUME NEW d \in Conns PROVE Ordered(d)'
  <2>1. inbox[d] \in Seq(Message) /\ (inbox'[d] = inbox[d] \/ inbox'[d] = inbox[d] \o ms)
    BY <1>2 DEF Typed, TypeOK
  <2>. QED
    BY <1>1, <1>2, <2>1, PairedConcat DEF InboxOne, Ordered, Awaited
<1>. QED
  BY <1>3 DEF InboxOne

LEMMA InboxOneStep ==
  ASSUME Typed, Unaccepted, Single, Single', Fresh, InboxOne, [Next]_vars
  PROVE  InboxOne'
<1>1. ASSUME NEW c \in Conns, Accept(c) PROVE InboxOne'
  <2>1. /\ link[c] = "none" /\ reader[c] = "none" /\ inbox[c] = <<>>
        /\ \A d \in Conns : d # c => link[d] = "none"
    BY <1>1 DEF Accept, Unaccepted, Fresh, Single, Typed, TypeOK
  <2>2. pending = None
    BY <2>1 DEF Fresh
  <2>3. \A d \in Conns : inbox'[d] = <<>> /\ pending' = None
    BY <1>1, <2>1, <2>2 DEF Accept, Fresh
  <2>. QED
    BY <2>3, SentPaired DEF InboxOne, Ordered, Awaited
<1>2. ASSUME UNCHANGED <<inbox, reader, pending>> PROVE InboxOne'
  BY <1>2 DEF InboxOne, Ordered, Awaited
<1>3. ASSUME NEW c \in Conns, SenderStep(c) PROVE InboxOne'
  BY <1>2, <1>3 DEF SenderStep, SenderStarts, Send, SenderHalts, SenderStops, readerVars, unityVars
<1>4. ASSUME NEW c \in Conns, LinkFails(c) PROVE InboxOne'
  BY <1>2, <1>4 DEF LinkFails, readerVars
<1>5. CASE \/ \E k \in Calls : Call(k) \/ Enqueue(k) \/ Sleep(k)
           \/ Forward
           \/ \E r \in Requests : Complete(r) \/ Respond(r)
           \/ UNCHANGED vars
  BY <1>2, <1>5 DEF Call, Enqueue, Sleep, Forward, Complete, Respond, vars, readerVars, unityVars
<1>. QED
  BY <1>1, <1>3, <1>4, <1>5, ReaderKeepsOrder, ArriveKeepsOrder DEF Next

LEMMA FreshStep ==
  ASSUME Typed, Unaccepted, Fresh, [Next]_vars
  PROVE  Fresh'
<1>1. \A c \in Conns : link'[c] = "none" => link[c] = "none"
  BY AcceptedStays
<1>2. ASSUME NEW c \in Conns, link'[c] = "none" PROVE inbox'[c] = inbox[c]
  <2>1. link[c] = "none" /\ reader[c] = "none"
    BY <1>1, <1>2 DEF Unaccepted
  <2>2. ASSUME NEW d \in Conns, ReaderStep(d)
        PROVE  inbox' = inbox \/ (d # c /\ \E x : inbox' = [inbox EXCEPT ![d] = x])
    BY <2>1, <2>2 DEF ReaderStep, Read, ReadFails, ClearPending, Refuse, Retire, Install, Close, unityVars
  <2>3. ASSUME NEW d \in Conns, UnityAnswers(d) \/ UnitySends(d)
        PROVE  d # c /\ \E x : inbox' = [inbox EXCEPT ![d] = x]
    BY <2>1, <2>3 DEF UnityAnswers, UnitySends, Arrive
  <2>4. ASSUME NEW d \in Conns, Accept(d) \/ SenderStep(d) \/ LinkFails(d)
        PROVE  inbox' = inbox
    BY <2>4 DEF Accept, SenderStep, SenderStarts, Send, SenderHalts, SenderStops, LinkFails, unityVars
  <2>5. CASE \/ \E k \in Calls : Call(k) \/ Enqueue(k) \/ Sleep(k)
             \/ Forward
             \/ \E r \in Requests : Complete(r) \/ Respond(r)
             \/ UNCHANGED vars
    BY <2>5 DEF Call, Enqueue, Sleep, Forward, Complete, Respond, vars, unityVars
  <2>. QED
    BY <2>2, <2>3, <2>4, <2>5 DEF Next, Typed, TypeOK
<1>3. ASSUME \A c \in Conns : link'[c] = "none" PROVE pending' = pending
  <2>1. \A c \in Conns : link[c] = "none" /\ reader[c] = "none"
    BY <1>1, <1>3 DEF Unaccepted
  <2>2. \A c \in Conns : ~ReaderStep(c)
    BY <2>1 DEF ReaderStep, Read, ReadFails, ClearPending, Refuse, Retire, Install, Close
  <2>. QED
    BY <2>2 DEF Next, Accept, SenderStep, SenderStarts, Send, SenderHalts, SenderStops, UnityAnswers,
                UnitySends, LinkFails, Arrive, Call, Enqueue, Sleep, Forward, Complete, Respond,
                vars, readerVars
<1>. QED
  BY <1>1, <1>2, <1>3 DEF Fresh

-----------------------------------------------------------------------------
ResultOne == \A k \in Calls : result[k] # None => result[k] = Contents(id[k])

LEMMA ResultOneStep ==
  ASSUME Typed, CallInv, InboxOne, ResultOne, [Next]_vars
  PROVE  ResultOne'
<1>1. ASSUME NEW c \in Conns, Read(c) PROVE ResultOne'
  <2>. DEFINE m == Head(inbox[c])
  <2>1. pending # None => m = Contents(pending.id)
    BY <1>1, ReadInOrder
  <2>2. CASE UNCHANGED <<id, result>>
    BY <2>2 DEF ResultOne
  <2>3. CASE ~UNCHANGED <<id, result>>
    <3>1. pending # None /\ Answer(c, m)
      BY <1>1, <2>3 DEF Read, Serve, Dispatch, callVars
    <3>2. PICK w \in waiting : w.id = pending.id /\ result' = [result EXCEPT ![w.call] = m] /\ id' = id
      BY <2>3, <3>1 DEF Answer
    <3>3. w.call \in Calls /\ id[w.call] = pending.id
      BY <3>2 DEF Typed, TypeOK, CallInv
    <3>4. result'[w.call] = Contents(id'[w.call])
      BY <2>1, <3>1, <3>2, <3>3 DEF Typed, TypeOK
    <3>5. \A k \in Calls : k # w.call => result'[k] = result[k]
      BY <3>2 DEF Typed, TypeOK
    <3>. QED
      BY <3>2, <3>4, <3>5 DEF ResultOne
  <2>. QED
    BY <2>2, <2>3
<1>2. ASSUME NEW k \in Calls, Call(k) PROVE ResultOne'
  <2>1. result' = result /\ result[k] = None
    BY <1>2 DEF Call, CallInv
  <2>2. \A j \in Calls : j # k => id'[j] = id[j]
    BY <1>2 DEF Call, Typed, TypeOK
  <2>. QED
    BY <2>1, <2>2 DEF ResultOne
<1>3. CASE \/ \E k \in Calls : Enqueue(k) \/ Sleep(k)
           \/ UNCHANGED callVars
  BY <1>3 DEF Enqueue, Sleep, callVars, ResultOne
<1>4. \/ UNCHANGED callVars \/ \E c \in Conns : Read(c)
      \/ \E k \in Calls : Call(k) \/ Enqueue(k) \/ Sleep(k)
  BY DEF Next, vars, ReaderStep, SenderStep, ReadFails, ClearPending, Refuse, Retire, Install,
         Close, SenderStarts, Send, SenderHalts, SenderStops, Accept, UnityAnswers, UnitySends,
         Arrive, LinkFails, Forward, Complete, Respond
<1>. QED
  BY <1>1, <1>2, <1>3, <1>4

(* With one connection everything is as its name says: see each part.      *)
OneInv == InboxOne /\ ResultOne /\ LiveOne /\ SenderOne

(* The whole inductive invariant of the endpoint.                          *)
EndpointInv ==
  /\ Typed /\ Unaccepted /\ CallInv /\ NodeInv /\ Fresh
  /\ IsFiniteSet(Accepted)
  /\ Single => OneInv

LEMMA EndpointInit == Init => EndpointInv
<1>. SUFFICES ASSUME Init PROVE EndpointInv
  OBVIOUS
<1>1. Unaccepted /\ NodeInv /\ Fresh /\ ResultOne /\ LiveOne /\ SenderOne
  BY DEF Init, Unaccepted, NodeInv, TableIsLive, Fresh, ResultOne, LiveOne, SenderOne
<1>2. InboxOne
  BY SentPaired DEF Init, InboxOne, Ordered, Awaited
<1>3. IsFiniteSet(Accepted)
  <2>1. Accepted = {}
    BY DEF Init, Accepted
  <2>. QED
    BY <2>1, FS_EmptySet
<1>. QED
  BY <1>1, <1>2, <1>3, TypedInit, CallInvInit DEF EndpointInv, OneInv

LEMMA EndpointStep == EndpointInv /\ [Next]_vars => EndpointInv'
<1>. SUFFICES ASSUME EndpointInv, [Next]_vars PROVE EndpointInv'
  OBVIOUS
<1>1. (Typed /\ Unaccepted /\ CallInv /\ NodeInv /\ Fresh /\ IsFiniteSet(Accepted))'
  BY TypedStep, UnacceptedStep, CallInvStep, NodeInvStep, FreshStep, AcceptedFinite DEF EndpointInv
<1>2. ASSUME Single' PROVE OneInv'
  <2>1. Single /\ OneInv
    BY <1>2, SingleBefore DEF EndpointInv
  <2>. QED
    BY <1>2, <2>1, InboxOneStep, ResultOneStep, LiveOneStep, SenderOneStep DEF EndpointInv, OneInv
<1>. QED
  BY <1>1, <1>2 DEF EndpointInv

(* As long as one connection at most was ever accepted: a ROS call of a    *)
(* Unity service gets what Unity answered to that very call, the executor  *)
(* spins registered nodes only, and what ROS sends goes to the connection  *)
(* (client.run, tcp_sender, server.SysCommands).                           *)
THEOREM OneConnectionIsExact == Spec => []ExactOnOneConnection
<1>1. EndpointInv => ExactOnOneConnection
  <2>. SUFFICES ASSUME EndpointInv, Cardinality(Accepted) <= 1
                PROVE  /\ \A k \in Calls : result[k] # None => result[k] = Contents(id[k])
                       /\ \A n \in live : \E t \in Topics : table[t] = n
                       /\ \A c \in Conns : sender[c] = "sending" => queue = c
    BY DEF ExactOnOneConnection
  <2>1. Single
    <3>1. ASSUME NEW c \in Accepted, NEW d \in Accepted, c # d PROVE FALSE
      <4>1. IsFiniteSet({c, d}) /\ Cardinality({c, d}) = 2
        <5>1. IsFiniteSet({c}) /\ Cardinality({c}) = 1
          BY FS_Singleton
        <5>2. {c, d} = {c} \cup {d} /\ d \notin {c}
          BY <3>1
        <5>. QED
          BY <5>1, <5>2, FS_AddElement
      <4>2. Cardinality({c, d}) <= Cardinality(Accepted)
        BY FS_Subset DEF EndpointInv
      <4>3. Cardinality(Accepted) \in Nat
        BY FS_CardinalityType DEF EndpointInv
      <4>. QED
        BY <4>1, <4>2, <4>3
    <3>. QED
      BY <3>1 DEF Accepted, Single
  <2>2. OneInv
    BY <2>1 DEF EndpointInv
  <2>. QED
    BY <2>2 DEF OneInv, ResultOne, LiveOne, SenderOne
<1>. QED
  BY EndpointInit, EndpointStep, <1>1, PTL DEF Spec

-----------------------------------------------------------------------------
(* The endpoint implements UnityCalls.  A step of a call is one of its     *)
(* steps or, when only the endpoint sees it, none.                         *)
LEMMA CallsPromised ==
  ASSUME Typed, CallInv, UNCHANGED Single,
         NEW k \in Calls, Call(k) \/ Enqueue(k) \/ Sleep(k)
  PROVE  [Promise!CallsNext]_<<id, result, CallOutcome, Single>>
<1>1. caller \in [Calls -> CallerPlaces] /\ id \in [Calls -> Nat \cup {None}] /\ result' = result
  BY DEF Typed, TypeOK, Call, Enqueue, Sleep
<1>2. \A end \in {"refused", "raised"} :
        caller' = [caller EXCEPT ![k] = end] => Promise!Becomes(k, end)
  BY <1>1 DEF Promise!Becomes, CallOutcome
<1>3. \A pc \in {"entered", "queued", "asleep"} :
        CallOutcome[k] = "open" /\ caller' = [caller EXCEPT ![k] = pc] => UNCHANGED CallOutcome
  BY <1>1 DEF CallOutcome
<1>4. CASE Call(k)
  <2>1. CallOutcome[k] = "open" /\ id[k] = None
    BY <1>4 DEF Call, CallInv, CallOutcome
  <2>2. CASE queue = None
    <3>1. Promise!Refuse(k)
      BY <1>1, <1>2, <1>4, <2>1, <2>2 DEF Call, Goes, Promise!Refuse
    <3>. QED
      BY <3>1 DEF Promise!CallsNext
  <2>3. CASE queue # None
    <3>1. id' = [id EXCEPT ![k] = nextId] /\ caller' = [caller EXCEPT ![k] = "entered"]
      BY <1>4, <2>3 DEF Call, Goes
    <3>2. id'[k] = nextId /\ nextId \in Nat /\ \A j \in Calls : id[j] # None => id[j] < nextId
      BY <1>1, <3>1 DEF Typed, TypeOK, CallInv
    <3>3. UNCHANGED CallOutcome
      BY <1>3, <2>1, <3>1
    <3>4. Promise!Ask(k)
      BY <1>1, <2>1, <3>1, <3>2, <3>3 DEF Promise!Ask
    <3>. QED
      BY <3>4 DEF Promise!CallsNext
  <2>. QED
    BY <2>2, <2>3
<1>5. CASE Enqueue(k)
  <2>1. id' = id /\ id[k] # None /\ CallOutcome[k] = "open"
    BY <1>5 DEF Enqueue, Typed, Numbered, CallOutcome
  <2>2. CASE caller' = [caller EXCEPT ![k] = "queued"]
    BY <1>1, <1>3, <2>1, <2>2
  <2>3. CASE caller' = [caller EXCEPT ![k] = "raised"]
    <3>1. Promise!Fail(k)
      BY <1>1, <1>2, <2>1, <2>3 DEF Promise!Fail
    <3>. QED
      BY <3>1 DEF Promise!CallsNext
  <2>. QED
    BY <1>5, <2>2, <2>3 DEF Enqueue, Put, IfQueue, Goes
<1>6. CASE Sleep(k)
  <2>1. id' = id /\ CallOutcome[k] = "open" /\ caller' = [caller EXCEPT ![k] = "asleep"]
    BY <1>6 DEF Sleep, Goes, CallOutcome
  <2>. QED
    BY <1>1, <1>3, <2>1
<1>. QED
  BY <1>4, <1>5, <1>6

(* What is read answers the call that waits under the pending id; on the   *)
(* only connection it is the answer to that call.                          *)
LEMMA AnswerPromised ==
  ASSUME Typed, CallInv, UNCHANGED Single, NEW c \in Conns, NEW m \in Message, Answer(c, m),
         Single => m = Contents(pending.id)
  PROVE  [Promise!CallsNext]_<<id, result, CallOutcome, Single>>
<1>1. CASE \A w \in waiting : w.id # pending.id
  BY <1>1 DEF Answer, CallOutcome
<1>2. CASE ~\A w \in waiting : w.id # pending.id
  <2>1. PICK w \in waiting :
          /\ w.id = pending.id
          /\ result' = [result EXCEPT ![w.call] = m]
          /\ \/ caller' = caller
             \/ caller[w.call] = "asleep" /\ caller' = [caller EXCEPT ![w.call] = "returned"]
    BY <1>2 DEF Answer
  <2>. DEFINE k == w.call
  <2>2. /\ k \in Calls /\ id' = id /\ id[k] = pending.id /\ id[k] \in Nat /\ id[k] # None
        /\ result[k] = None /\ result'[k] = m
    BY <2>1, NoneAssumption DEF Answer, Typed, TypeOK, CallInv
  <2>3. \/ UNCHANGED CallOutcome
        \/ CallOutcome[k] = "open" /\ Promise!Becomes(k, "returned")
    <3>1. CASE caller' = caller
      BY <3>1 DEF CallOutcome
    <3>2. CASE caller[k] = "asleep" /\ caller' = [caller EXCEPT ![k] = "returned"]
      BY <2>2, <3>2 DEF CallOutcome, Promise!Becomes, Typed, TypeOK
    <3>. QED
      BY <2>1, <3>1, <3>2
  <2>4. result'[k] \in IF Single THEN {[n \in Nat |-> Contents(n)][id[k]]} ELSE Message
    BY <2>2
  <2>5. Promise!Answer(k)
    BY <2>1, <2>2, <2>3, <2>4 DEF Promise!Answer
  <2>. QED
    BY <2>2, <2>5 DEF Promise!CallsNext
<1>. QED
  BY <1>1, <1>2

(* A second connection changes nothing for the calls yet.                  *)
LEMMA AcceptPromised ==
  ASSUME Typed, UNCHANGED callVars, Single' => Single
  PROVE  [Promise!CallsNext]_<<id, result, CallOutcome, Single>>
<1>1. UNCHANGED <<id, result, CallOutcome>>
  BY DEF callVars, CallOutcome
<1>2. CASE Single /\ ~Single'
  <2>1. Promise!SecondConnection
    BY <1>1, <1>2 DEF Promise!SecondConnection
  <2>. QED
    BY <2>1 DEF Promise!CallsNext
<1>3. CASE ~(Single /\ ~Single')
  <2>1. UNCHANGED Single
    BY <1>3 DEF Single
  <2>. QED
    BY <1>1, <2>1
<1>. QED
  BY <1>2, <1>3

(* To the ROS nodes that call a service of Unity the endpoint is what      *)
(* UnityCalls says: calls are numbered in increasing order, a call is      *)
(* answered once, only an answer makes it return, and the answer is its    *)
(* own one as long as there was no second connection (server.py,           *)
(* client.py, unity_service.py, thread_pauser.py, tcp_sender.py).          *)
THEOREM CallsKeepThePromise == Spec => CallsAsPromised
<1>1. Init => Promise!CallsInit
  BY DEF Init, Promise!CallsInit, CallOutcome, Single
<1>2. EndpointInv /\ [Next]_vars => [Promise!CallsNext]_<<id, result, CallOutcome, Single>>
  <2>. SUFFICES ASSUME EndpointInv, [Next]_vars
                PROVE  [Promise!CallsNext]_<<id, result, CallOutcome, Single>>
    OBVIOUS
  <2>1. Typed /\ CallInv /\ (Single' => Single)
    BY SingleBefore DEF EndpointInv
  <2>2. CASE UNCHANGED callVars
    BY <2>1, <2>2, AcceptPromised
  <2>3. ASSUME NEW k \in Calls, Call(k) \/ Enqueue(k) \/ Sleep(k)
        PROVE  [Promise!CallsNext]_<<id, result, CallOutcome, Single>>
    <3>1. UNCHANGED Single
      BY <2>3 DEF Call, Enqueue, Sleep, unityVars, Single
    <3>. QED
      BY <2>1, <2>3, <3>1, CallsPromised
  <2>4. ASSUME NEW c \in Conns, Read(c), ~UNCHANGED callVars
        PROVE  [Promise!CallsNext]_<<id, result, CallOutcome, Single>>
    <3>. DEFINE m == Head(inbox[c])
    <3>1. pending # None /\ Answer(c, m) /\ UNCHANGED Single
      BY <2>4 DEF Read, Serve, Dispatch, callVars, Single
    <3>2. m \in Message
      BY <2>1, <2>4, HeadTailProperties DEF Read, Typed, TypeOK
    <3>3. Single => m = Contents(pending.id)
      BY <2>1, <2>4, <3>1, ReadInOrder DEF EndpointInv, OneInv
    <3>. QED
      BY <2>1, <3>1, <3>2, <3>3, AnswerPromised
  <2>5. \/ UNCHANGED callVars \/ \E c \in Conns : Read(c)
        \/ \E k \in Calls : Call(k) \/ Enqueue(k) \/ Sleep(k)
    BY DEF Next, vars, ReaderStep, SenderStep, ReadFails, ClearPending, Refuse, Retire, Install,
           Close, SenderStarts, Send, SenderHalts, SenderStops, Accept, UnityAnswers, UnitySends,
           Arrive, LinkFails, Forward, Complete, Respond
  <2>. QED
    BY <2>2, <2>3, <2>4, <2>5
<1>. QED
  BY EndpointInit, EndpointStep, <1>1, <1>2, PTL
     DEF Spec, CallsAsPromised, Promise!CallsSpec, Promise!calls
=============================================================================
