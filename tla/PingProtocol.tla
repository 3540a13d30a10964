---------------------------- MODULE PingProtocol ----------------------------
(***************************************************************************)
(* The Ping protocol of brping: frames, their checksum and the parser that *)
(* finds them in a stream of bytes.  A frame is                            *)
(*   B R, payload length, message id, source, destination, payload, sum    *)
(* with the 16-bit numbers low byte first.                                 *)
(***************************************************************************)
EXTENDS Integers, Sequences, SequencesExt

PROTOCOL_VERSION == 5
SPEED_OF_SOUND == 1203
RANGE == 1204
MODE_AUTO == 1205
PING_INTERVAL == 1206
GAIN_SETTING == 1207
GENERAL_INFO == 1210
DISTANCE_SIMPLE == 1211

(* payload_dict: the length of each message that is used here.             *)
PayloadLength ==
  [id \in {PROTOCOL_VERSION, SPEED_OF_SOUND, RANGE, MODE_AUTO, PING_INTERVAL, GAIN_SETTING,
           GENERAL_INFO, DISTANCE_SIMPLE} |->
     CASE id \in {PROTOCOL_VERSION, SPEED_OF_SOUND, GAIN_SETTING} -> 4
       [] id = RANGE -> 8
       [] id = MODE_AUTO -> 1
       [] id = PING_INTERVAL -> 2
       [] id = GENERAL_INFO -> 10
       [] id = DISTANCE_SIMPLE -> 5]

Known == DOMAIN PayloadLength
Byte == 0..255
StartBytes == <<66, 82>>   \* "BR"
HeaderLength == 8
ChecksumLength == 2

Low(n) == n % 256
High(n) == (n \div 256) % 256
Number(bytes, i) == bytes[i] + 256 * bytes[i + 1]

(* pack_msg_data *)
Checksum(bytes) == FoldLeft(LAMBDA sum, b : sum + b, 0, bytes) % 65536

Pack(id, payload) ==
  LET n == Len(payload)
      body == StartBytes \o <<Low(n), High(n), Low(id), High(id), 0, 0>> \o payload
  IN  body \o <<Low(Checksum(body)), High(Checksum(body))>>

(* unpack_msg_data.  The checksum of a message of unknown id is not read.  *)
(* A payload that is not as long as the table says leaves the fields unset.*)
Unpack(bytes) ==
  LET n == Number(bytes, 3)
      id == Number(bytes, 5)
  IN [id |-> id,
      payload |-> SubSeq(bytes, HeaderLength + 1, HeaderLength + n),
      checksum |-> IF id \in Known THEN Number(bytes, HeaderLength + n + 1) ELSE 0]

(* Mutant: any checksum will do. *)
VerifyNothing(bytes) == Unpack(bytes).id \in Known

VerifyChecksum(bytes) ==
  Unpack(bytes).checksum = Checksum(SubSeq(bytes, 1, HeaderLength + Number(bytes, 3)))

HasFields(m) == m.id \in Known /\ Len(m.payload) = PayloadLength[m.id]

-----------------------------------------------------------------------------
(* PingParser, one byte at a time.  buf is the frame so far, left what the *)
(* payload still lacks.  buf is emptied here when the frame is done; in    *)
(* the code by wait_start, when the next byte comes.  message_id of the    *)
(* parser is written and never read: it is left out.                       *)
WAIT_START == 1
WAIT_HEADER == 2
WAIT_LENGTH_L == 3
WAIT_LENGTH_H == 4
WAIT_MSG_ID_L == 5
WAIT_MSG_ID_H == 6
WAIT_SRC_ID == 7
WAIT_DST_ID == 8
WAIT_PAYLOAD == 9
WAIT_CHECKSUM_L == 10
WAIT_CHECKSUM_H == 11

NewParser == [state |-> WAIT_START, buf |-> <<>>, left |-> 0]
Advances(p, b) == [p EXCEPT !.state = @ + 1, !.buf = Append(@, b)]

WaitStart(p, b) == IF b = StartBytes[1] THEN Advances(p, b) ELSE p
WaitHeader(p, b) == IF b = StartBytes[2] THEN Advances(p, b) ELSE NewParser
WaitLengthL(p, b) == [Advances(p, b) EXCEPT !.left = b]
WaitLengthH(p, b) == [Advances(p, b) EXCEPT !.left = @ + 256 * b]

(* Mutant: an empty payload is waited for. *)
WaitDstIdOnce(p, b) == Advances(p, b)

WaitDstId(p, b) ==
  [Advances(p, b) EXCEPT !.state = IF p.left = 0 THEN WAIT_CHECKSUM_L ELSE WAIT_PAYLOAD]

WaitPayload(p, b) ==
  [p EXCEPT !.buf = Append(@, b), !.left = @ - 1,
            !.state = IF p.left = 1 THEN WAIT_CHECKSUM_L ELSE WAIT_PAYLOAD]

ParseByte(p, b) ==
  CASE p.state = WAIT_START -> WaitStart(p, b)
    [] p.state = WAIT_HEADER -> WaitHeader(p, b)
    [] p.state = WAIT_LENGTH_L -> WaitLengthL(p, b)
    [] p.state = WAIT_LENGTH_H -> WaitLengthH(p, b)
    [] p.state = WAIT_DST_ID -> WaitDstId(p, b)
    [] p.state = WAIT_PAYLOAD -> WaitPayload(p, b)
    [] p.state = WAIT_CHECKSUM_H -> NewParser
    [] OTHER -> Advances(p, b)

(* The byte completes a frame with the right sum: NEW_MESSAGE.             *)
NewMessage(p, b) == p.state = WAIT_CHECKSUM_H /\ VerifyChecksum(Append(p.buf, b))

(* Bytes are parsed until there is a new message, or none are left.        *)
ParseNext(r, b) ==
  IF r.messages # {} THEN [r EXCEPT !.rest = Append(@, b)]
  ELSE [parser |-> ParseByte(r.parser, b), rest |-> <<>>,
        messages |-> IF NewMessage(r.parser, b)
                     THEN {Unpack(Append(r.parser.buf, b))} ELSE {}]

Parse(p, bytes) ==
  FoldLeft(ParseNext, [parser |-> p, rest |-> <<>>, messages |-> {}], bytes)

(* What the parser has in its buffer belongs to the state it is in.        *)
ParserShape(p) ==
  LET declared == Number(p.buf, 3)
  IN CASE p.state <= WAIT_DST_ID -> Len(p.buf) = p.state - 1
       [] p.state = WAIT_PAYLOAD ->
            p.left > 0 /\ Len(p.buf) + p.left = HeaderLength + declared
       [] p.state > WAIT_PAYLOAD ->
            /\ p.left = 0
            /\ Len(p.buf) = HeaderLength + declared + p.state - WAIT_CHECKSUM_L
=============================================================================
