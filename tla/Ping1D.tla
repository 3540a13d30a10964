------------------------------- MODULE Ping1D -------------------------------
(***************************************************************************)
(* ping1d_component.py with brping's Ping1D below it: a node that asks an  *)
(* echosounder one thing after another and waits up to 0.5 s for each      *)
(* answer, in callbacks of one thread.  An answer is told by its id alone, *)
(* so one that comes too late meets a later request.                       *)
(*                                                                         *)
(* Between them lies a serial line, or pingproxy.py, which serves other    *)
(* clients too and sends what the device answers to all of them.           *)
(***************************************************************************)
EXTENDS PingProtocol

CONSTANTS
  Optional,   \* bound: requests made besides those that a callback depends on
  Lengths,    \* scan lengths that the range is set to
  Cuts,       \* where a read may find what is on the wire cut off
  Noise,      \* bytes that a faulty line puts in the place of others
  FaultAt,    \* bytes on the wire that a faulty line may change or lose
  MaxFaults,  \* bound: faults of the line and requests of other clients
  MaxPings,   \* bound: measurements
  MaxLate,    \* bound: requests the device has not come to; more are lost
  MaxWire     \* bound: bytes no frame was made of yet, when another one is sent

ASSUME PingAssumption ==
  /\ Optional \subseteq {SPEED_OF_SOUND, PING_INTERVAL, GAIN_SETTING, MODE_AUTO}
  /\ Lengths \subseteq Byte \ {0}
  /\ Cuts \subseteq Nat /\ Noise \subseteq Byte
  /\ FaultAt \subseteq Nat /\ MaxFaults \in Nat
  /\ MaxPings \in Byte \ {0} /\ MaxLate \in Nat /\ MaxWire \in Nat

VARIABLES
  pings,      \* ping number of the device, its last measurement
  length,     \* scan length of the device
  requests,   \* what the device was sent and has not come to
  wire,       \* bytes of the device not parsed: on their way, in the port's
              \* buffer or left over in _input_buffer
  parser,     \* the PingParser
  attrs,      \* _distance and _scan_length of the Ping1D object
  job,        \* the callback that is running
  todo,       \* the exchanges it has left, the first under way
  got,        \* the distance it was answered
  lastRange,  \* the distance of the last /ping1d/range
  faults      \* how many faults and requests of others there have been

deviceVars == <<pings, length>>
lineVars == <<requests, wire, faults>>
hostVars == <<parser, attrs, job, todo, got, lastRange>>
pingVars == <<deviceVars, lineVars, hostVars>>

None == 0

(* An exchange writes a "set" message, perhaps, then a request, and waits. *)
(* Of what is set only the scan length is told apart.                      *)
Get(id) == [set |-> None, id |-> id]
SetRange(v) == [set |-> v, id |-> RANGE]

Asked(id) == IF id \in Optional THEN <<Get(id)>> ELSE <<>>

Initialize(v) ==
  <<Get(PROTOCOL_VERSION), Get(GENERAL_INFO)>>
    \o Asked(SPEED_OF_SOUND) \o Asked(PING_INTERVAL) \o Asked(GAIN_SETTING)
    \o <<SetRange(v)>> \o Asked(MODE_AUTO)

Cycle ==
  <<Get(DISTANCE_SIMPLE), Get(RANGE)>>
    \o Asked(GAIN_SETTING) \o Asked(SPEED_OF_SOUND) \o Asked(PING_INTERVAL)
    \o Asked(MODE_AUTO)

(* Without these answers the callback returns, or the node exits.          *)
Mandatory == [init |-> {PROTOCOL_VERSION, GENERAL_INFO},
              cycle |-> {DISTANCE_SIMPLE, RANGE}, param |-> {}]

PingInit ==
  /\ pings = 1 /\ length \in Lengths
  /\ requests = <<>> /\ wire = <<>> /\ faults = 0
  /\ parser = NewParser
  /\ attrs = [distance |-> None, length |-> None]
  /\ job = "off" /\ todo = <<>>
  /\ got = None /\ lastRange = None

-----------------------------------------------------------------------------
(* The host.                                                               *)
Running == job \in DOMAIN Mandatory

(* write(): a set message first, if there is one.                          *)
Messages(x) == IF x.set = None THEN <<x>> ELSE <<x, Get(x.id)>>
Written(x) ==
  LET all == requests \o Messages(x)
  IN  SubSeq(all, 1, Min({Len(all), MaxLate}))

Starts(name, exchanges) ==
  /\ job' = name
  /\ todo' = exchanges
  /\ got' = None
  /\ requests' = Written(Head(exchanges))
  /\ UNCHANGED <<deviceVars, wire, faults, parser, attrs, lastRange>>

(* The constructor connects and initializes; range_callback is run by a    *)
(* timer, set_param_callback when a parameter is set.                      *)
Connect == job = "off" /\ \E v \in Lengths : Starts("init", Initialize(v))

RangeCallback == job = "idle" /\ Starts("cycle", Cycle)

SetParamCallback ==
  /\ job = "idle"
  /\ \/ \E v \in Lengths : Starts("param", <<SetRange(v)>>)
     \/ \E id \in Optional : Starts("param", <<Get(id)>>)

(* The exchange is over, and the callback goes on with the next, or ends.  *)
GoesOn(distance) ==
  /\ todo' = Tail(todo)
  /\ \/ /\ Tail(todo) # <<>>
        /\ requests' = Written(Head(Tail(todo)))
        /\ got' = distance
        /\ UNCHANGED <<job, lastRange>>
     \/ /\ Tail(todo) = <<>>
        /\ job' = "idle"
        /\ got' = None
        /\ lastRange' = IF job = "cycle" THEN distance ELSE lastRange
        /\ UNCHANGED requests

(* handle_message: the fields of the message become attributes.            *)
Value(m) == IF m.id = RANGE THEN m.payload[5] ELSE m.payload[1]

HandleMessage(m) ==
  [distance |-> IF m.id = DISTANCE_SIMPLE THEN Value(m) ELSE attrs.distance,
   length |-> IF m.id = RANGE THEN Value(m) ELSE attrs.length]

(* One read() of wait_message: of what has arrived by now, everything up   *)
(* to the next message is parsed.  The dictionary that a getter returns is *)
(* made of the attributes.                                                 *)
Read ==
  /\ Running
  /\ \E n \in 1..Len(wire) :
       LET r == Parse(parser, SubSeq(wire, 1, n))
           handled == {m \in r.messages : HasFields(m)}
           answer == {m \in handled : m.id = Head(todo).id}
       IN /\ n \in Cuts \cup {Len(wire)}
          /\ parser' = r.parser
          /\ wire' = r.rest \o SubSeq(wire, n + 1, Len(wire))
          /\ attrs' = IF handled = {} THEN attrs
                      ELSE HandleMessage(CHOOSE m \in handled : TRUE)
          /\ IF answer = {} THEN UNCHANGED <<job, todo, got, lastRange, requests>>
             ELSE GoesOn(IF Head(todo).id = DISTANCE_SIMPLE THEN attrs'.distance ELSE got)
  /\ UNCHANGED <<deviceVars, faults>>

(* Mutant: the time starts anew with every byte that comes. *)
TimesOutWhenQuiet ==
  /\ Running /\ wire = <<>>
  /\ \/ /\ Head(todo).id \in Mandatory[job]
        /\ job' = IF job = "init" THEN "exited" ELSE "idle"
        /\ todo' = <<>>
        /\ got' = None
        /\ UNCHANGED <<lastRange, requests>>
     \/ Head(todo).id \notin Mandatory[job] /\ GoesOn(got)
  /\ UNCHANGED <<deviceVars, wire, faults, parser, attrs>>

(* wait_message returns None after 0.5 s, which may come before any answer.*)
TimesOut ==
  /\ Running
  /\ \/ /\ Head(todo).id \in Mandatory[job]
        /\ job' = IF job = "init" THEN "exited" ELSE "idle"
        /\ todo' = <<>>
        /\ got' = None
        /\ UNCHANGED <<lastRange, requests>>
     \/ Head(todo).id \notin Mandatory[job] /\ GoesOn(got)
  /\ UNCHANGED <<deviceVars, wire, faults, parser, attrs>>

-----------------------------------------------------------------------------
(* The device, as tools/ping1d-simulation.py has it, and the line.         *)
Zeros(n) == [i \in 1..n |-> 0]

Payload(id) ==
  CASE id = DISTANCE_SIMPLE -> <<pings>> \o Zeros(4)
    [] id = RANGE -> Zeros(4) \o <<length>> \o Zeros(3)
    [] OTHER -> Zeros(PayloadLength[id])

HandleRequest ==
  /\ requests # <<>>
  /\ requests' = Tail(requests)
  /\ LET x == Head(requests) IN
       \/ /\ x.set = None
          /\ Len(parser.buf) + Len(wire) <= MaxWire
          /\ wire' = wire \o Pack(x.id, Payload(x.id))
          /\ UNCHANGED length
       \/ /\ x.set # None
          /\ length' = x.set
          /\ UNCHANGED wire
  /\ UNCHANGED <<pings, faults, hostVars>>

Measure ==
  /\ pings < MaxPings
  /\ pings' = pings + 1
  /\ UNCHANGED <<length, lineVars, hostVars>>

LoseRequest ==
  /\ requests # <<>>
  /\ requests' = Tail(requests)
  /\ UNCHANGED <<deviceVars, wire, faults, hostVars>>

OtherClient ==
  /\ faults < MaxFaults
  /\ Len(requests) < MaxLate
  /\ \E x \in {Get(DISTANCE_SIMPLE), Get(RANGE)} \cup {SetRange(v) : v \in Lengths} :
       requests' = Append(requests, x)
  /\ faults' = faults + 1
  /\ UNCHANGED <<deviceVars, wire, hostVars>>

LineFault ==
  /\ faults < MaxFaults
  /\ \E i \in FaultAt \cap 1..Len(wire) :
       \/ wire' = RemoveAt(wire, i)
       \/ \E b \in Noise \ {wire[i]} : wire' = [wire EXCEPT ![i] = b]
  /\ faults' = faults + 1
  /\ UNCHANGED <<deviceVars, requests, hostVars>>

PingNext ==
  \/ Connect \/ RangeCallback \/ SetParamCallback
  \/ Read \/ TimesOut
  \/ HandleRequest \/ Measure
  \/ LoseRequest \/ OtherClient \/ LineFault

PingSpec == PingInit /\ [][PingNext]_pingVars

(* Time passes.  Nothing is assumed of the line and the device.            *)
PingFairSpec == PingSpec /\ WF_pingVars(TimesOut)

-----------------------------------------------------------------------------
(* Types, and the parser's buffer is in step with its state whatever bytes *)
(* it is given.                                                            *)
PingInv ==
  /\ pings \in 1..MaxPings /\ length \in Lengths
  /\ Len(requests) <= MaxLate
  /\ \A i \in 1..Len(wire) : wire[i] \in Byte
  /\ job \in {"off", "idle", "exited"} \cup DOMAIN Mandatory
  /\ (todo # <<>>) = Running
  /\ faults \in 0..MaxFaults
  /\ ParserShape(parser)

(* What is taken for an answer was measured: one faulty byte, wherever the *)
(* frame is cut and wherever the parser picks the stream up again, makes   *)
(* no value of its own.                                                    *)
OnlyWhatWasMeasured ==
  /\ attrs.distance \in 0..pings
  /\ attrs.length \in Lengths \cup {None}

(* A callback ends, whatever the device does: its thread serves the other  *)
(* callbacks again.                                                        *)
CallbackEnds == Running ~> ~Running
=============================================================================
