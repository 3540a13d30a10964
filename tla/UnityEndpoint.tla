---------------------------- MODULE UnityEndpoint ----------------------------
(***************************************************************************)
(* ros_tcp_endpoint: the threads that join the ROS graph and Unity.        *)
(*                                                                         *)
(* Every connection has a reader (ClientThread) and a sender with a queue  *)
(* of its own; "queue" is the one of these queues that everybody else puts *)
(* into.  A ROS call of a service that Unity implements runs in a thread   *)
(* of the executor: it numbers itself, queues a request and sleeps until a *)
(* reader resumes it.  A call that Unity makes of a ROS service runs in a  *)
(* thread of its own.  Unity announces a request or a response with one    *)
(* message and sends its contents as the next one.                         *)
(*                                                                         *)
(* Atomicity: testing self.queue and putting into it are two steps, and so *)
(* are using pending_srv_id and clearing it, and retiring a node and       *)
(* installing the new one; a block under a lock is one step.               *)
(***************************************************************************)
EXTENDS Integers, Sequences, FiniteSets

CONSTANTS
  Conns,      \* the connections, numbered in the order they are accepted
  Calls,      \* calls of a Unity service by ROS nodes, numbered as they are made
  Requests,   \* the ids Unity gives its calls of ROS services
  Topics,     \* what Unity registers
  Service,    \* the topic of the Unity service, one of Topics
  Pool,       \* threads of the executor: 1 + the nodes there are when it is set up
  FirstId,    \* the first id of a call of a Unity service, 1001 in the code
  MaxSent,    \* bound: what Unity sends of its own accord on a connection
  MaxUnread,  \* bound: messages of Unity on their way
  None

ASSUME NumberedAssumption == Conns \subseteq Nat /\ Calls \subseteq Nat /\ IsFiniteSet(Calls)
ASSUME TopicsAssumption == Service \in Topics
ASSUME BoundsAssumption == MaxSent \in Nat /\ MaxUnread \in Nat /\ Pool \in Nat /\ FirstId \in Nat

VARIABLES
  link,      \* the TCP connection: "none", "up" or "lost"
  inbox,     \* what Unity sent on it that was not read
  owed,      \* the ids that Unity received on it and has to answer
  sent,      \* how much Unity sent of its own accord
  reader,    \* where the connection's ClientThread is
  topic,     \* the topic it registers a node for
  halt,      \* halt_event of the connection
  sender,    \* where its sender thread is
  out,       \* the sender's local_queue
  queue,     \* UnityTcpSender.queue: whose local_queue it is, or None
  pending,   \* pending_srv_id and pending_srv_is_request, or None
  nextId,    \* next_srv_id
  waiting,   \* services_waiting: the calls it holds, by id
  caller,    \* where a call of a Unity service is
  id,        \* its srv_id
  result,    \* the message its ThreadPauser was resumed with
  service,   \* where a call of a ROS service is
  forward,   \* where the callback of a subscription is
  table,     \* unity_services_table: the node of a topic, or None
  live,      \* the nodes the executor spins
  made       \* nodes created so far

unityVars == <<link, inbox, owed, sent>>
readerVars == <<reader, topic, halt, pending>>
senderVars == <<sender, out, queue>>
callVars == <<nextId, waiting, caller, id, result>>
nodeVars == <<table, live, made>>
vars == <<unityVars, readerVars, senderVars, callVars, service, forward, nodeVars>>

-----------------------------------------------------------------------------
(* What travels.  Item: from the endpoint to Unity.  Message: from Unity.  *)
Request(i) == [kind |-> "request", id |-> i]
Response(i) == [kind |-> "response", id |-> i]
Contents(i) == [kind |-> "contents", id |-> i]
Register(t) == [kind |-> "register", topic |-> t]
Plain == [kind |-> "plain"]  \* a keep-alive, or a message to publish

Announced ==
  [request : {TRUE}, id : Requests] \cup [request : {FALSE}, id : Nat]

Message ==
  {Plain} \cup [kind : {"register"}, topic : Topics]
    \cup [kind : {"request"}, id : Requests] \cup [kind : {"response"}, id : Nat]
    \cup [kind : {"contents"}, id : Nat \cup Requests]

ASSUME NoneAssumption ==
  /\ None \notin Nat /\ None \notin Topics /\ None \notin Conns
  /\ None \notin Message /\ None \notin Announced

Item == [kind : {"request"}, id : Nat] \cup [kind : {"response"}, id : Requests]

Init ==
  /\ link = [c \in Conns |-> "none"]
  /\ inbox = [c \in Conns |-> <<>>]
  /\ owed = [c \in Conns |-> {}]
  /\ sent = [c \in Conns |-> 0]
  /\ reader = [c \in Conns |-> "none"]
  /\ topic = [c \in Conns |-> None]
  /\ halt = [c \in Conns |-> FALSE]
  /\ sender = [c \in Conns |-> "none"]
  /\ out = [c \in Conns |-> <<>>]
  /\ queue = None
  /\ pending = None
  /\ nextId = FirstId
  /\ waiting = {}
  /\ caller = [k \in Calls |-> "idle"]
  /\ id = [k \in Calls |-> None]
  /\ result = [k \in Calls |-> None]
  /\ service = [r \in Requests |-> "none"]
  /\ forward = "idle"
  /\ table = [t \in Topics |-> None]
  /\ live = {}
  /\ made = 0

-----------------------------------------------------------------------------
(* The server: accepting a connection starts its reader and its sender.    *)
Accept(c) ==
  /\ link[c] = "none"
  /\ \A d \in Conns : d < c => link[d] # "none"
  /\ link' = [link EXCEPT ![c] = "up"]
  /\ reader' = [reader EXCEPT ![c] = "reading"]
  /\ sender' = [sender EXCEPT ![c] = "starting"]
  /\ UNCHANGED <<inbox, owed, sent, topic, halt, pending, out, queue, callVars,
                 service, forward, nodeVars>>

-----------------------------------------------------------------------------
(* Every put into the current queue: "yes" when there is one, else "no".   *)
IfQueue(yes, no) ==
  \/ queue # None /\ yes
  \/ queue = None /\ no

Put(items, yes, no) ==
  IfQueue(yes /\ out' = [out EXCEPT ![queue] = @ \o items],
          no /\ UNCHANGED out)

(* The reader of connection c.  Its loop tests halt_event before it reads. *)
Continue(c) == reader' = [reader EXCEPT ![c] = IF halt[c] THEN "closing" ELSE "reading"]
Go(c, pc) == reader' = [reader EXCEPT ![c] = pc]

(* The message answers a call: a pauser is found under its id and resumed. *)
(* Its thread wakes if it is asleep by now.  An unknown id is a KeyError.  *)
Answer(c, m) ==
  /\ ~pending.request
  /\ \/ \E w \in waiting :
          /\ w.id = pending.id
          /\ waiting' = waiting \ {w}
          /\ result' = [result EXCEPT ![w.call] = m]
          /\ caller' = IF caller[w.call] = "asleep"
                         THEN [caller EXCEPT ![w.call] = "returned"] ELSE caller
          /\ Go(c, "used")
     \/ /\ \A w \in waiting : w.id # pending.id
        /\ Go(c, "closing")
        /\ UNCHANGED <<result, caller, waiting>>
  /\ UNCHANGED <<pending, service, nextId, id>>

(* The message asks for a ROS service: a thread is started for it, or the  *)
(* service is not registered and Unity is sent an error.                   *)
Serve(c) ==
  /\ pending.request
  /\ \/ /\ service' = [service EXCEPT ![pending.id] = "calling"]
        /\ Go(c, "used")
     \/ Go(c, "unserved") /\ UNCHANGED service
  /\ UNCHANGED <<pending, callVars>>

(* Any other message: ignored, a system command, a message to publish, or  *)
(* an error.                                                               *)
Dispatch(c, m) ==
  /\ \/ /\ m.kind \in {"request", "response"}
        /\ pending' = [request |-> m.kind = "request", id |-> m.id]
        /\ Continue(c)
     \/ m.kind = "register" /\ Go(c, "retiring") /\ UNCHANGED pending
     \/ m.kind = "plain" /\ Continue(c) /\ UNCHANGED pending
     \/ m.kind \in {"register", "plain"} /\ Go(c, "closing") /\ UNCHANGED pending
     \/ /\ m.kind \in {"register", "plain", "contents"}
        /\ Go(c, "refusing")
        /\ UNCHANGED pending
  /\ UNCHANGED <<callVars, service>>

Read(c) ==
  /\ reader[c] = "reading"
  /\ inbox[c] # <<>>
  /\ LET m == Head(inbox[c]) IN
       /\ topic' = [topic EXCEPT ![c] = IF m.kind = "register" THEN m.topic ELSE None]
       /\ \/ pending # None /\ (Answer(c, m) \/ Serve(c))
          \/ pending = None /\ Dispatch(c, m)
  /\ inbox' = [inbox EXCEPT ![c] = Tail(@)]
  /\ UNCHANGED <<link, owed, sent, halt, senderVars, forward, nodeVars>>

(* recv fails or returns nothing.  What was on its way is lost.            *)
ReadFails(c) ==
  /\ reader[c] = "reading"
  /\ link[c] = "lost"
  /\ Go(c, "closing")
  /\ UNCHANGED <<unityVars, topic, halt, pending, senderVars, callVars, service, forward, nodeVars>>

ClearPending(c) ==
  /\ reader[c] = "used"
  /\ pending' = None
  /\ Continue(c)
  /\ UNCHANGED <<unityVars, topic, halt, senderVars, callVars, service, forward, nodeVars>>

(* send_unity_error, whose text is not modelled as an item.  A queue that  *)
(* is gone between the test and the put is an AttributeError, which ends   *)
(* the thread.                                                             *)
Refuse(c) ==
  /\ \/ /\ reader[c] = "refusing"
        /\ IfQueue(Go(c, "refuse"), Continue(c)) /\ UNCHANGED out
     \/ /\ reader[c] = "unserved"
        /\ IfQueue(Go(c, "unserve"), Go(c, "used")) /\ UNCHANGED out
     \/ reader[c] = "refuse" /\ Put(<<>>, Continue(c), Go(c, "closing"))
     \/ reader[c] = "unserve" /\ Put(<<>>, Go(c, "used"), Go(c, "closing"))
  /\ UNCHANGED <<unityVars, topic, halt, pending, sender, queue, callVars,
                 service, forward, nodeVars>>

(* Mutant: the new node is not added to the executor. *)
InstallUnspun(c) ==
  /\ reader[c] = "installing"
  /\ made' = made + 1
  /\ table' = [table EXCEPT ![topic[c]] = made + 1]
  /\ Continue(c)
  /\ UNCHANGED <<unityVars, topic, halt, pending, senderVars, callVars, service, forward, live>>

(* SysCommands.unity_service and its likes: the topic's old node is taken  *)
(* out of the executor, then the new one goes into the table and into it.  *)
Retire(c) ==
  /\ reader[c] = "retiring"
  /\ live' = live \ {table[topic[c]]}
  /\ Go(c, "installing")
  /\ UNCHANGED <<unityVars, topic, halt, pending, senderVars, callVars, service, forward,
                 table, made>>

Install(c) ==
  /\ reader[c] = "installing"
  /\ made' = made + 1
  /\ table' = [table EXCEPT ![topic[c]] = made + 1]
  /\ live' = live \cup {made + 1}
  /\ Continue(c)
  /\ UNCHANGED <<unityVars, topic, halt, pending, senderVars, callVars, service, forward>>

(* Mutant: the reader closes the connection and does not tell the sender. *)
CloseWithoutHalt(c) ==
  /\ reader[c] = "closing"
  /\ link' = [link EXCEPT ![c] = "lost"]
  /\ inbox' = [inbox EXCEPT ![c] = <<>>]
  /\ owed' = [owed EXCEPT ![c] = {}]
  /\ Go(c, "closed")
  /\ UNCHANGED <<sent, topic, halt, pending, senderVars, callVars, service, forward, nodeVars>>

(* The "finally" of the reader.                                            *)
Close(c) ==
  /\ reader[c] = "closing"
  /\ halt' = [halt EXCEPT ![c] = TRUE]
  /\ link' = [link EXCEPT ![c] = "lost"]
  /\ Go(c, "closed")
  /\ inbox' = [inbox EXCEPT ![c] = <<>>]
  /\ owed' = [owed EXCEPT ![c] = {}]
  /\ UNCHANGED <<sent, topic, pending, senderVars, callVars, service, forward, nodeVars>>

-----------------------------------------------------------------------------
(* Mutants: a sender leaves the queue of an older connection current; a    *)
(* sender that ends leaves its own.                                        *)
SenderStartsUnseen(c) ==
  /\ sender[c] = "starting"
  /\ sender' = [sender EXCEPT ![c] = "sending"]
  /\ UNCHANGED <<unityVars, readerVars, out, queue, callVars, service, forward, nodeVars>>

SenderStopsCurrent(c) ==
  /\ sender[c] = "stopping"
  /\ sender' = [sender EXCEPT ![c] = "ended"]
  /\ halt' = [halt EXCEPT ![c] = TRUE]
  /\ out' = [out EXCEPT ![c] = <<>>]
  /\ UNCHANGED <<unityVars, reader, topic, pending, queue, callVars, service, forward, nodeVars>>

(* The sender of connection c: its queue becomes the current one; it sends *)
(* until halt_event is set (get() times out every 5 s) or sending fails;   *)
(* then it sets halt_event, and nothing is current if its queue was.       *)
SenderStarts(c) ==
  /\ sender[c] = "starting"
  /\ queue' = c
  /\ sender' = [sender EXCEPT ![c] = "sending"]
  /\ UNCHANGED <<unityVars, readerVars, out, callVars, service, forward, nodeVars>>

(* Unity remembers what it has to answer.  On a lost connection an item is *)
(* dropped unseen, or sendall raises.                                      *)
Send(c) ==
  /\ sender[c] = "sending"
  /\ out[c] # <<>>
  /\ out' = [out EXCEPT ![c] = Tail(@)]
  /\ \/ /\ link[c] = "up"
        /\ owed' = IF Head(out[c]).kind = "request"
                     THEN [owed EXCEPT ![c] = @ \cup {Head(out[c]).id}] ELSE owed
        /\ UNCHANGED sender
     \/ /\ link[c] = "lost"
        /\ sender' \in {sender, [sender EXCEPT ![c] = "stopping"]}
        /\ UNCHANGED owed
  /\ UNCHANGED <<link, inbox, sent, readerVars, queue, callVars, service, forward, nodeVars>>

SenderHalts(c) ==
  /\ sender[c] = "sending"
  /\ halt[c]
  /\ sender' = [sender EXCEPT ![c] = "stopping"]
  /\ UNCHANGED <<unityVars, readerVars, out, queue, callVars, service, forward, nodeVars>>

SenderStops(c) ==
  /\ sender[c] = "stopping"
  /\ sender' = [sender EXCEPT ![c] = "ended"]
  /\ halt' = [halt EXCEPT ![c] = TRUE]
  /\ queue' = IF queue = c THEN None ELSE queue
  /\ out' = [out EXCEPT ![c] = <<>>]
  /\ UNCHANGED <<unityVars, reader, topic, pending, callVars, service, forward, nodeVars>>

-----------------------------------------------------------------------------
(* A ROS node calls the Unity service: a thread of the executor runs       *)
(* UnityService.send.  Without a current queue it returns None.            *)
InExecutor ==
  {k \in Calls : caller[k] \in {"entered", "queued", "asleep"}}
    \cup {t \in {Service} : forward = "tested"}

Goes(k, pc) == caller' = [caller EXCEPT ![k] = pc]

(* Mutant: the number is not taken under the lock: two calls may share it. *)
CallUnnumbered(k) ==
  /\ caller[k] = "idle"
  /\ table[Service] \in live
  /\ Cardinality(InExecutor) < Pool
  /\ queue # None
  /\ id' = [id EXCEPT ![k] = nextId]
  /\ waiting' = waiting \cup {[id |-> nextId, call |-> k]}
  /\ Goes(k, "entered")
  /\ UNCHANGED <<unityVars, readerVars, senderVars, nextId, result, service, forward, nodeVars>>

Call(k) ==
  /\ caller[k] = "idle"
  /\ \A j \in Calls : j < k => caller[j] # "idle"
  /\ table[Service] \in live
  /\ Cardinality(InExecutor) < Pool
  /\ \/ /\ queue = None
        /\ Goes(k, "refused")
        /\ UNCHANGED <<nextId, waiting, id>>
     \/ /\ queue # None
        /\ id' = [id EXCEPT ![k] = nextId]
        /\ nextId' = nextId + 1
        /\ waiting' = waiting \cup {[id |-> nextId, call |-> k]}
        /\ Goes(k, "entered")
  /\ UNCHANGED <<unityVars, readerVars, senderVars, result, service, forward, nodeVars>>

(* The request is put into the queue that is current by now, if any.       *)
Enqueue(k) ==
  /\ caller[k] = "entered"
  /\ Put(<<Request(id[k])>>, Goes(k, "queued"), Goes(k, "raised"))
  /\ UNCHANGED <<unityVars, readerVars, sender, queue, nextId, waiting, id, result,
                 service, forward, nodeVars>>

(* Mutant: the wait has a timeout, after which the call returns. *)
SleepForAWhile(k) ==
  /\ caller[k] = "queued"
  /\ Goes(k, "returned")
  /\ UNCHANGED <<unityVars, readerVars, senderVars, nextId, waiting, id, result,
                 service, forward, nodeVars>>

(* sleep_until_resumed: it waits whether or not it was resumed before.     *)
Sleep(k) ==
  /\ caller[k] = "queued"
  /\ Goes(k, "asleep")
  /\ UNCHANGED <<unityVars, readerVars, senderVars, nextId, waiting, id, result,
                 service, forward, nodeVars>>

(* RosSubscriber.send, one message at a time, on a thread of the executor. *)
(* What it puts is no item here: Unity does not answer it.                 *)
Forward ==
  /\ \/ /\ forward = "idle"
        /\ Cardinality(InExecutor) < Pool
        /\ IfQueue(forward' = "tested", forward' = "idle") /\ UNCHANGED out
     \/ /\ forward = "tested"
        /\ Put(<<>>, forward' = "idle", forward' = "idle")
  /\ UNCHANGED <<unityVars, readerVars, sender, queue, callVars, service, nodeVars>>

-----------------------------------------------------------------------------
(* The thread of Unity's call r of a ROS service.  The future is completed *)
(* by a thread of the executor.  When the service is not ready or raises,  *)
(* Unity is sent an error, no item here, and never a response.             *)
Stage(r, pc) == service' = [service EXCEPT ![r] = pc]

Complete(r) ==
  /\ service[r] = "calling"
  /\ \/ Cardinality(InExecutor) < Pool /\ Stage(r, "answered")
     \/ Stage(r, "ended")
  /\ UNCHANGED <<unityVars, readerVars, senderVars, callVars, forward, nodeVars>>

Respond(r) ==
  /\ \/ /\ service[r] = "answered"
        /\ IfQueue(Stage(r, "respond"), Stage(r, "ended"))
        /\ UNCHANGED out
     \/ /\ service[r] = "respond"
        /\ Put(<<Response(r)>>, Stage(r, "ended"), Stage(r, "ended"))
  /\ UNCHANGED <<unityVars, readerVars, sender, queue, callVars, forward, nodeVars>>

-----------------------------------------------------------------------------
(* Unity and the network, modelled from what the endpoint expects.         *)
Arrive(c, messages) ==
  /\ link[c] = "up"
  /\ Len(inbox[c]) + Len(messages) <= MaxUnread
  /\ inbox' = [inbox EXCEPT ![c] = @ \o messages]
  /\ UNCHANGED <<link, readerVars, senderVars, callVars, service, forward, nodeVars>>

UnityAnswers(c) ==
  \E i \in owed[c] :
    /\ Arrive(c, <<Response(i), Contents(i)>>)
    /\ owed' = [owed EXCEPT ![c] = @ \ {i}]
    /\ UNCHANGED sent

UnitySends(c) ==
  /\ sent[c] < MaxSent
  /\ \E ms \in {<<Plain>>} \cup {<<Register(t)>> : t \in Topics}
                \cup {<<Request(r), Contents(r)>> : r \in {s \in Requests : service[s] = "none"}} :
       Arrive(c, ms)
  /\ sent' = [sent EXCEPT ![c] = @ + 1]
  /\ UNCHANGED owed

LinkFails(c) ==
  /\ link[c] = "up"
  /\ link' = [link EXCEPT ![c] = "lost"]
  /\ owed' = [owed EXCEPT ![c] = {}]
  /\ UNCHANGED <<inbox, sent, readerVars, senderVars, callVars, service, forward, nodeVars>>

-----------------------------------------------------------------------------
ReaderStep(c) ==
  \/ Read(c) \/ ReadFails(c) \/ ClearPending(c) \/ Refuse(c)
  \/ Retire(c) \/ Install(c) \/ Close(c)

SenderStep(c) == SenderStarts(c) \/ Send(c) \/ SenderHalts(c) \/ SenderStops(c)

Next ==
  \/ \E c \in Conns :
       \/ Accept(c) \/ ReaderStep(c) \/ SenderStep(c)
       \/ UnityAnswers(c) \/ UnitySends(c) \/ LinkFails(c)
  \/ \E k \in Calls : Call(k) \/ Enqueue(k) \/ Sleep(k)
  \/ Forward
  \/ \E r \in Requests : Complete(r) \/ Respond(r)

Spec == Init /\ [][Next]_vars

(* Threads run, a lost connection is noticed, and get() times out.         *)
FairSpec ==
  /\ Spec
  /\ \A c \in Conns : WF_vars(ReaderStep(c)) /\ WF_vars(SenderStep(c))

-----------------------------------------------------------------------------
ReaderPlaces ==
  {"none", "reading", "used", "refusing", "refuse", "unserved", "unserve",
   "retiring", "installing", "closing", "closed"}
SenderPlaces == {"none", "starting", "sending", "stopping", "ended"}
CallerPlaces == {"idle", "refused", "entered", "queued", "asleep", "raised", "returned"}
ServicePlaces == {"none", "calling", "answered", "respond", "ended"}

(* The types of the variables. *)
TypeOK ==
  /\ link \in [Conns -> {"none", "up", "lost"}]
  /\ inbox \in [Conns -> Seq(Message)]
  /\ owed \in [Conns -> SUBSET Nat]
  /\ sent \in [Conns -> 0..MaxSent]
  /\ reader \in [Conns -> ReaderPlaces]
  /\ topic \in [Conns -> Topics \cup {None}]
  /\ halt \in [Conns -> BOOLEAN]
  /\ sender \in [Conns -> SenderPlaces]
  /\ out \in [Conns -> Seq(Item)]
  /\ queue \in Conns \cup {None}
  /\ pending \in Announced \cup {None}
  /\ nextId \in Nat
  /\ waiting \in SUBSET [id : Nat, call : Calls]
  /\ caller \in [Calls -> CallerPlaces]
  /\ id \in [Calls -> Nat \cup {None}]
  /\ result \in [Calls -> Message \cup {None}]
  /\ service \in [Requests -> ServicePlaces]
  /\ forward \in {"idle", "tested"}
  /\ table \in [Topics -> Nat \cup {None}]
  /\ live \in SUBSET Nat
  /\ made \in Nat

(* A call waits under an id that no other call has: from the moment it is  *)
(* numbered until it is resumed it is in services_waiting, and never after.*)
WaitsUnderItsId ==
  /\ \A w \in waiting : id[w.call] = w.id
  /\ \A k \in Calls : id[k] # None =>
       /\ result[k] = None <=> \E w \in waiting : w.call = k
       /\ \A l \in Calls : id[l] = id[k] => l = k

(* The current queue has a sender that has not ended: what is put into it  *)
(* on a connection that holds is sent.                                     *)
QueueIsServed == queue # None => sender[queue] \in {"sending", "stopping"}

(* The node of a topic is spun by the executor unless a registration of    *)
(* the topic is under way, whatever registrations have overlapped.         *)
Registering(t) ==
  \E c \in Conns : reader[c] = "installing" /\ topic[c] = t

TableIsLive ==
  \A t \in Topics :
    table[t] # None /\ ~Registering(t) => table[t] \in live

RegistryInv == TypeOK /\ TableIsLive

(* With one connection the contents follow their announcement: a call gets *)
(* what Unity answered to it, no node outlives its registration, and what  *)
(* ROS sends goes to the connection.                                       *)
Accepted == {c \in Conns : link[c] # "none"}

ExactOnOneConnection ==
  Cardinality(Accepted) <= 1 =>
    /\ \A k \in Calls : result[k] # None => result[k] = Contents(id[k])
    /\ \A n \in live : \E t \in Topics : table[t] = n
    /\ \A c \in Conns : sender[c] = "sending" => queue = c

(* To the nodes that call a service of Unity the endpoint keeps the promise *)
(* of UnityCalls: numbers grow, a call is answered once, only an answer     *)
(* returns it, and it is its own one as long as there is one connection.   *)
(* That connection is told by link, which never returns to "none".         *)
Single == \A c, d \in Conns : link[c] # "none" /\ link[d] # "none" => c = d

CallOutcome ==
  [k \in Calls |-> IF caller[k] \in {"refused", "raised", "returned"} THEN caller[k] ELSE "open"]

Promise ==
  INSTANCE UnityCalls WITH
    Answers <- Message, Own <- [n \in Nat |-> Contents(n)],
    number <- id, answer <- result, outcome <- CallOutcome, alone <- Single

CallsAsPromised == Promise!CallsSpec

(* A connection that is lost is given up: both its threads end, and nobody *)
(* puts into its queue any more.                                           *)
LostIsReleased ==
  \A c \in Conns :
    link[c] = "lost" ~> reader[c] = "closed" /\ sender[c] = "ended" /\ queue # c
=============================================================================
