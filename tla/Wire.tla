-------------------------------- MODULE Wire --------------------------------
(***************************************************************************)
(* The bytes of a gRPC-web-text exchange: the protobuf codec of            *)
(* src/xtb_api/grpc/proto.py and what GrpcClient                           *)
(* (src/xtb_api/grpc/client.py) reads in an answer, of which any beginning *)
(* may be all that arrives.  Text travels in base64 quanta of one to three *)
(* bytes.                                                                  *)
(*                                                                         *)
(* A byte is a number; positions count from 1.  Of texts, only what the    *)
(* code looks for has bytes of its own.                                    *)
(***************************************************************************)
EXTENDS Integers, FiniteSets, SequencesExt

CONSTANTS
  Asks,     \* the requests: orders, cancellations, tokens (see Requests)
  Numbers,  \* order numbers the broker gives
  Statuses, \* non-zero values of grpc-status
  Uuids,    \* ids the broker gives, as bytes
  Jwts,     \* JWTs, as bytes
  None      \* no price, no id, no number, no token

Bytes == 0 .. 255

-----------------------------------------------------------------------------
(* Varints: seven bits a byte, the lowest first, the high bit on all but    *)
(* the last.                                                                *)

(* Mutant: 128 is taken for a single byte. *)
VarintOffByOne[n \in Nat] ==
  IF n > 128 THEN <<(n % 128) + 128>> \o VarintOffByOne[n \div 128] ELSE <<n % 128>>
EncodeVarintOffByOne(n) == VarintOffByOne[n]

Varint[n \in Nat] ==
  IF n > 127 THEN <<(n % 128) + 128>> \o Varint[n \div 128] ELSE <<n>>
EncodeVarint(n) == Varint[n]

Stops(data, pos) == {k \in pos .. Len(data) : data[k] < 128}
Truncated(data, pos) == Stops(data, pos) = {}
After(data, pos) == Min(Stops(data, pos)) + 1

Positions == Nat \ {0}
Values(data) ==
  LET value[pos \in Positions] ==
        IF pos > Len(data) THEN 0
        ELSE IF data[pos] < 128 THEN data[pos] ELSE (data[pos] % 128) + 128 * value[pos + 1]
  IN value
DecodeVarint(data, pos) == Values(data)[pos]

-----------------------------------------------------------------------------
(* Fields. *)

FieldVarint(num, n) == EncodeVarint(num * 8) \o EncodeVarint(n)
FieldBytes(num, data) == EncodeVarint(num * 8 + 2) \o EncodeVarint(Len(data)) \o data

Field(num, int, bytes) == [num |-> num, int |-> int, bytes |-> bytes]
Raised == Field(0, None, None)

(* What decode_varint raises on a truncated value is not caught; on a       *)
(* truncated tag, and at an unknown wire type, the parsing stops.           *)
(* A truncated payload is cut short without a word.                         *)
Slice(data, from, n) == SubSeq(data, from, IF from + n - 1 < Len(data) THEN from + n - 1 ELSE Len(data))

Value(data, pos, num, kind, rest) ==
  CASE kind \in {0, 2} /\ Truncated(data, pos) -> <<Raised>>
    [] kind = 0 /\ ~Truncated(data, pos) ->
         <<Field(num, DecodeVarint(data, pos), None)>> \o rest[After(data, pos)]
    [] kind = 2 /\ ~Truncated(data, pos) ->
         LET n == DecodeVarint(data, pos)
         IN <<Field(num, None, Slice(data, After(data, pos), n))>> \o rest[After(data, pos) + n]
    [] kind = 5 -> <<Field(num, None, Slice(data, pos, 4))>> \o rest[pos + 4]
    [] kind = 1 -> <<Field(num, None, Slice(data, pos, 8))>> \o rest[pos + 8]
    [] OTHER -> <<>>

FieldsFrom(data) ==
  LET parse[pos \in Positions] ==
        IF pos > Len(data) \/ Truncated(data, pos) THEN <<>>
        ELSE LET tag == DecodeVarint(data, pos)
             IN Value(data, After(data, pos), tag \div 8, tag % 8, parse)
  IN parse
FieldsOf(data) == FieldsFrom(data)[1]

Raises(fields) == Raised \in ToSet(fields)
Has(fields, num) == \E i \in DOMAIN fields : fields[i].num = num
First(fields, num) == fields[Min({i \in DOMAIN fields : fields[i].num = num})]
Nested(fields, num) == FieldsOf(First(fields, num).bytes)

-----------------------------------------------------------------------------
(* Frames: a flag, the length in four bytes, the highest first, a payload.  *)

Frame(flag, payload) ==
  LET n == Len(payload)
  IN <<flag, n \div 16777216, (n \div 65536) % 256, (n \div 256) % 256, n % 256>> \o payload

Framed(frames) == [i \in DOMAIN frames |-> Frame(frames[i].flag, frames[i].payload)]

FrameLength(data, pos) ==
  16777216 * data[pos + 1] + 65536 * data[pos + 2] + 256 * data[pos + 3] + data[pos + 4]

Room(data, pos) == pos + 4 + FrameLength(data, pos) <= Len(data)

FramesFrom(data) ==
  LET parse[pos \in Positions] ==
        IF pos + 4 > Len(data) \/ ~Room(data, pos) THEN <<>>
        ELSE <<[flag |-> data[pos],
                payload |-> SubSeq(data, pos + 5, pos + 4 + FrameLength(data, pos))]>>
             \o parse[pos + 5 + FrameLength(data, pos)]
  IN parse
FramesOf(data) == FramesFrom(data)[1]

DataFrames(frames) == {i \in DOMAIN frames : frames[i].flag < 128}
Trailers(frames) == DOMAIN frames \ DataFrames(frames)

-----------------------------------------------------------------------------
(* Base64: a quantum of less than three bytes is padded, and b64decode      *)
(* drops what follows it.                                                   *)

Quanta(data) ==
  [i \in 1 .. (Len(data) + 2) \div 3 |-> SubSeq(data, 3 * i - 2, IF 3 * i < Len(data) THEN 3 * i ELSE Len(data))]
B64Decode(quanta) ==
  LET padded == {i \in DOMAIN quanta : Len(quanta[i]) < 3}
  IN FlattenSeq(IF padded = {} THEN quanta ELSE SubSeq(quanta, 1, Min(padded)))

-----------------------------------------------------------------------------
(* The requests. *)

Price(num, p) == IF p = None THEN <<>>
                 ELSE FieldBytes(num, FieldBytes(1, FieldVarint(1, p[1]) \o FieldVarint(2, p[2])))

NewMarketOrder(o) ==
  FieldVarint(1, o.instrument)
  \o FieldBytes(2, FieldBytes(2, FieldVarint(1, o.volume)) \o Price(3, o.stop) \o Price(4, o.take))
  \o FieldVarint(3, o.side)

DeleteOrders(numbers) == FieldBytes(1, FlattenSeq([i \in DOMAIN numbers |-> EncodeVarint(numbers[i])]))

CreateAccessToken(t) ==
  FieldBytes(1, t.tgt) \o FieldBytes(2, FieldVarint(1, t.account) \o FieldBytes(2, t.server))

Message(ask) ==
  CASE ask.kind = "order"  -> NewMarketOrder(ask)
    [] ask.kind = "cancel" -> DeleteOrders(ask.numbers)
    [] ask.kind = "token"  -> CreateAccessToken(ask)

Body(ask) == Quanta(Frame(0, Message(ask)))

Prices == Nat \X Nat
Orders == [kind : {"order"}, instrument : Nat, volume : Nat, side : Nat,
           stop : {None} \cup Prices, take : {None} \cup Prices]
Cancellations == [kind : {"cancel"}, numbers : Seq(Nat)]
TokenRequests == [kind : {"token"}, tgt : Seq(Bytes), account : Nat, server : Seq(Bytes)]

(* The length of a message fits into the four bytes of its frame. *)
Fits(n) == n \div 16777216 < 256

ASSUME WireAssumption ==
  \A a \in Asks : a \in Orders \cup Cancellations \cup TokenRequests /\ Fits(Len(Message(a)))

-----------------------------------------------------------------------------
(* What the server makes of a request: a protobuf decoder. *)

ReadPrice(fields, num) ==
  IF ~Has(fields, num) THEN None
  ELSE LET price == Nested(Nested(fields, num), 1) IN <<First(price, 1).int, First(price, 2).int>>

ReadOrder(fields) ==
  LET order == Nested(fields, 2)
  IN [kind |-> "order", instrument |-> First(fields, 1).int, side |-> First(fields, 3).int,
      volume |-> First(Nested(order, 2), 1).int, stop |-> ReadPrice(order, 3), take |-> ReadPrice(order, 4)]

NumbersFrom(packed) ==
  LET read[pos \in Positions] ==
        IF pos > Len(packed) \/ Truncated(packed, pos) THEN <<>>
        ELSE <<DecodeVarint(packed, pos)>> \o read[After(packed, pos)]
  IN read
ReadNumbers(packed) == NumbersFrom(packed)[1]

ReadToken(fields) ==
  LET account == Nested(fields, 2)
  IN [kind |-> "token", tgt |-> First(fields, 1).bytes,
      account |-> First(account, 1).int, server |-> First(account, 2).bytes]

ServerReads(kind, quanta) ==
  LET fields == FieldsOf(FramesOf(B64Decode(quanta))[1].payload)
  IN CASE kind = "order"  -> ReadOrder(fields)
       [] kind = "cancel" -> [kind |-> "cancel", numbers |-> ReadNumbers(First(fields, 1).bytes)]
       [] kind = "token"  -> ReadToken(fields)

-----------------------------------------------------------------------------
(* What the server answers: for an order its id and number, for a           *)
(* cancellation an id for each number it cancelled, for a token the JWT,    *)
(* and the trailer.  It may encode the frames one by one.                   *)

StatusMark == 83   \* "grpc-status:"
MessageMark == 77  \* "grpc-message:"
LineEnd == 10

Digits[n \in Nat] == IF n < 10 THEN <<48 + n>> ELSE Digits[n \div 10] \o <<48 + (n % 10)>>

(* A message may quote a status. *)
StatusLines(reply) ==
  <<StatusMark>> \o Digits[reply.status]
  \o IF reply.talks THEN <<LineEnd, MessageMark, StatusMark, 48>> ELSE <<>>

Layouts == {"usual", "drifted", "numberless"}
Ids(layout, id, number) ==
  CASE layout = "usual"      -> FieldBytes(1, id) \o FieldBytes(2, FieldVarint(1, number))
    [] layout = "drifted"    -> FieldBytes(1, <<200>>) \o FieldBytes(2, FieldVarint(1, number)) \o FieldBytes(3, id)
    [] layout = "numberless" -> FieldBytes(1, id) \o FieldBytes(2, FieldBytes(1, Digits[number]))

Contents(ask) ==
  CASE ask.kind = "order"  -> {<<[id |-> u, number |-> n, layout |-> l]>> : u \in Uuids, n \in Numbers, l \in Layouts}
    [] ask.kind = "cancel" -> {[i \in DOMAIN ns |-> [id |-> us[i], number |-> ns[i], layout |-> "usual"]] :
                                 ns \in SubSeqs(ask.numbers) \cup {<<>>}, us \in [DOMAIN ask.numbers -> Uuids]}
    [] ask.kind = "token"  -> {<<j>> : j \in Jwts}

Refusals == [status : Statuses, talks : BOOLEAN, split : BOOLEAN, frames : {<<>>}]
Acceptance(frames, split) == [status |-> 0, talks |-> FALSE, split |-> split, frames |-> frames]
Replies(ask) == Refusals \cup {Acceptance(c, s) : c \in Contents(ask), s \in BOOLEAN}

Payload(ask, f) == IF ask.kind = "token" THEN FieldBytes(1, f) ELSE Ids(f.layout, f.id, f.number)
Answer(ask, reply) ==
  Append([i \in DOMAIN reply.frames |-> [flag |-> 0, payload |-> Payload(ask, reply.frames[i])]],
         [flag |-> 128, payload |-> StatusLines(reply)])

ReplyBody(ask, reply) ==
  LET frames == Framed(Answer(ask, reply))
  IN IF reply.split THEN FlattenSeq([i \in DOMAIN frames |-> Quanta(frames[i])])
                    ELSE Quanta(FlattenSeq(frames))

(* An id has hexadecimal digits and dashes, all ids the same length.        *)
UuidChar(b) == b \in (48 .. 57) \cup (97 .. 102) \cup {45}

ASSUME NoneAssumption == None \notin Nat /\ None \notin Seq(Bytes)

ASSUME UuidAssumption ==
  /\ \A u \in Uuids : u \in Seq(Bytes) /\ Len(u) \in 2 .. 44 /\ \A i \in DOMAIN u : UuidChar(u[i])
  /\ \A u, v \in Uuids : Len(u) = Len(v)

(* A status is a small number, and an answer fits into its frames.          *)
ASSUME AnswerAssumption ==
  /\ Numbers \subseteq Nat
  /\ \A s \in Statuses : s \in Nat \ {0} /\ Len(Digits[s]) <= 10
  /\ \A a \in Asks : \A r \in Replies(a) : \A i \in DOMAIN r.frames : Fits(Len(Payload(a, r.frames[i])))

-----------------------------------------------------------------------------
(* What the client makes of it. *)

(* Mutant: the status is looked for anywhere in the trailer. *)
AnyMark(text, i) == text[i] = StatusMark
StatusLine(text, i) == text[i] = StatusMark /\ (i = 1 \/ text[i - 1] = LineEnd)

(* The text after the last mark on its line; int() refuses an empty one.    *)
StatusText(text) ==
  LET marks == {i \in DOMAIN text : StatusLine(text, i)}
      Ends(at) == {i \in at + 1 .. Len(text) : text[i] = LineEnd} \cup {Len(text) + 1}
  IN IF marks = {} THEN <<>> ELSE SubSeq(text, Max(marks) + 1, Min(Ends(Max(marks))) - 1)
Decimal(text) ==
  LET value[i \in 0 .. Len(text)] == IF i = 0 THEN 0 ELSE 10 * value[i - 1] + text[i] - 48
  IN value[Len(text)]

(* The last status that can be read. *)
Status(frames) ==
  LET said == {i \in Trailers(frames) : StatusText(frames[i].payload) # <<>>}
  IN IF said = {} THEN None ELSE Decimal(StatusText(frames[Max(said)].payload))

(* Mutant: bytes that are no UTF-8 are an id, too. *)
AnyBytes(bytes) == TRUE
IsText(bytes) == \A i \in DOMAIN bytes : bytes[i] < 128

(* Mutant: no sweep for an id outside of field 1. *)
NoSweep(payload) == None
Sweep(payload) ==
  LET At(i) == {u \in Uuids : i + Len(u) - 1 <= Len(payload) /\ SubSeq(payload, i, i + Len(u) - 1) = u}
      found == {i \in DOMAIN payload : At(i) # {}}
  IN IF found = {} THEN None ELSE CHOOSE u \in At(Min(found)) : TRUE

IdIn(payload, fields) ==
  IF Has(fields, 1) /\ First(fields, 1).bytes # None /\ IsText(First(fields, 1).bytes)
  THEN First(fields, 1).bytes ELSE Sweep(payload)

NumberIn(fields) ==
  IF Has(fields, 2) /\ First(fields, 2).bytes # None /\ Has(Nested(fields, 2), 1)
  THEN First(Nested(fields, 2), 1).int ELSE None

Malformed(payload) ==
  LET fields == FieldsOf(payload)
  IN \/ Raises(fields)
     \/ Has(fields, 2) /\ First(fields, 2).bytes # None /\ Raises(Nested(fields, 2))

Result(said, status, done) == [said |-> said, status |-> status, done |-> done]
Acked(payload) == [id |-> IdIn(payload, FieldsOf(payload)), number |-> NumberIn(FieldsOf(payload))]
Known(status) == IF status = None THEN 0 ELSE status

(* The last data frame counts; without a trailer nothing does. *)
TradeResult(data) ==
  LET frames == FramesOf(data)
      status == Status(frames)
      last == Max(DataFrames(frames))
      payload == IF DataFrames(frames) = {} THEN <<>> ELSE frames[last].payload
  IN CASE data = <<>>                       -> Result("ambiguous", 0, {})
       [] data # <<>> /\ status # 0         -> Result("failure", Known(status), {})
       [] status = 0 /\ Malformed(payload)  -> Result("raised", 0, {})
       [] status = 0 /\ ~Malformed(payload) -> Result("success", 0, {Acked(payload)})

(* Mutant: an acknowledgement counts for every order of the request. *)
ConfirmedAll(acks, numbers) == {[a EXCEPT !.number = n] : a \in acks, n \in numbers}
Confirmed(acks, numbers) == {a \in acks : a.number \in numbers}

CancelResult(data, numbers) ==
  LET frames == FramesOf(data)
      status == Known(Status(frames))
      payloads == {frames[i].payload : i \in DataFrames(frames)}
  IN IF \E p \in payloads : Malformed(p) THEN Result("raised", 0, {})
     ELSE Result("answered", status,
                 IF status = 0 THEN Confirmed({Acked(p) : p \in payloads}, ToSet(numbers)) ELSE {})

(* extract_jwt: three runs of token characters with two dots between them,  *)
(* the first of which begins with the mark of a JWT.                        *)
JwtMark == 106
Dot == 46
TokenChar(b) == b \in 97 .. 122
RunEnd(data, i) == Min({k \in i .. Len(data) + 1 : k = Len(data) + 1 \/ ~TokenChar(data[k])})
Dotted(data, i) == i <= Len(data) /\ data[i] = Dot /\ RunEnd(data, i + 1) > i + 1
Jwt(data, i) ==
  LET p == RunEnd(data, i)
  IN IF p > i + 1 /\ Dotted(data, p) /\ Dotted(data, RunEnd(data, p + 1))
     THEN SubSeq(data, i, RunEnd(data, RunEnd(data, p + 1) + 1) - 1) ELSE None
TokenResult(data) ==
  LET starts == {i \in DOMAIN data : data[i] = JwtMark /\ Jwt(data, i) # None}
  IN IF starts = {} THEN Result("failure", 0, {}) ELSE Result("success", 0, {Jwt(data, Min(starts))})

(* Three runs and two dots; the mark stands for the three letters a JWT     *)
(* begins with, which no length in front of it can be.                      *)
ASSUME JwtAssumption ==
  \A j \in Jwts :
    /\ j \in Seq(Bytes) /\ j[1] = JwtMark
    /\ \E p, q \in DOMAIN j :
         /\ 2 < p /\ p + 1 < q /\ q < Len(j)
         /\ \A k \in DOMAIN j : IF k \in {p, q} THEN j[k] = Dot ELSE TokenChar(j[k])
    /\ LET f == Frame(0, FieldBytes(1, j)) IN \A k \in 1 .. Len(f) - Len(j) : f[k] # JwtMark

ClientResult(ask, data) ==
  CASE ask.kind = "order"  -> TradeResult(data)
    [] ask.kind = "cancel" -> CancelResult(data, ask.numbers)
    [] ask.kind = "token"  -> TokenResult(data)

-----------------------------------------------------------------------------
(* One exchange after the other. *)

VARIABLES
  phase,    \* "asking", "answering", "over"
  ask,      \* the request
  quanta,   \* the text under way
  arrived,  \* how many of its quanta have arrived
  taken,    \* what the server has read
  reply,    \* what it answers
  result    \* what the client concludes

vars == <<phase, ask, quanta, arrived, taken, reply, result>>

Init ==
  /\ phase = "asking"
  /\ ask \in Asks
  /\ quanta = Body(ask)
  /\ arrived = 0
  /\ taken = None /\ reply = None /\ result = None

Arrives ==
  /\ phase # "over" /\ arrived < Len(quanta)
  /\ arrived' = arrived + 1
  /\ UNCHANGED <<phase, ask, quanta, taken, reply, result>>

ServerAnswers ==
  /\ phase = "asking" /\ arrived = Len(quanta)
  /\ taken' = ServerReads(ask.kind, quanta)
  /\ reply' \in Replies(ask)
  /\ quanta' = ReplyBody(ask, reply')
  /\ phase' = "answering"
  /\ arrived' = 0
  /\ UNCHANGED <<ask, result>>

(* Also when the rest is lost without an error of the connection. *)
ClientReads ==
  /\ phase = "answering"
  /\ result' = ClientResult(ask, B64Decode(SubSeq(quanta, 1, arrived)))
  /\ phase' = "over"
  /\ UNCHANGED <<ask, quanta, arrived, taken, reply>>

(* b64decode raises: the text ends inside a quantum. *)
ClientRaises ==
  /\ phase = "answering" /\ arrived < Len(quanta)
  /\ result' = Result("raised", 0, {})
  /\ phase' = "over"
  /\ UNCHANGED <<ask, quanta, arrived, taken, reply>>

NextExchange ==
  /\ phase = "over"
  /\ phase' = "asking"
  /\ ask' \in Asks
  /\ quanta' = Body(ask')
  /\ arrived' = 0
  /\ taken' = None /\ reply' = None /\ result' = None

Next == Arrives \/ ServerAnswers \/ ClientReads \/ ClientRaises \/ NextExchange

Spec == Init /\ [][Next]_vars

-----------------------------------------------------------------------------
Acks == [id : Uuids \cup {None}, number : Nat \cup {None}]
Expected(f) == [id |-> f.id, number |-> IF f.layout = "numberless" THEN None ELSE f.number]
Given == {Expected(f) : f \in ToSet(reply.frames)}

(* What the client concludes has its type: an id is one of the broker's, a  *)
(* number is a number, whatever the layout of the answer.                   *)
TypeOK ==
  /\ phase \in {"asking", "answering", "over"}
  /\ ask \in Asks
  /\ quanta \in Seq(Seq(Bytes))
  /\ arrived \in 0 .. Len(quanta)
  /\ (phase = "over") =>
       /\ result.said \in {"ambiguous", "failure", "raised", "success", "answered"}
       /\ result.status \in Nat
       /\ ask.kind # "token" => result.done \subseteq Acks

(* The server reads what was asked: no number at a boundary of the          *)
(* encoding, no optional price and no second order number is garbled        *)
(* (proto.py:14, 94, 158).                                                  *)
RequestArrives == phase # "asking" => taken = ask

(* Wherever an answer is cut off, and whatever its message quotes, success  *)
(* is only concluded from an order the broker took, and its id and number   *)
(* are the broker's, never the beginning of them (client.py:374).           *)
SuccessIsReal ==
  phase = "over" /\ ask.kind = "order" /\ result.said = "success" => reply.status = 0 /\ result.done = Given

(* An order reported as cancelled is one the broker has cancelled, also     *)
(* when only some are and the answer is cut off (client.py:304).            *)
CancelledIsReal ==
  phase = "over" /\ ask.kind = "cancel" => result.done \subseteq Given

(* An answer that arrives whole, encoded in one piece, is understood: the   *)
(* status, the token, and every id and number in each of its layouts.       *)
WholeAnswerIsUnderstood ==
  phase = "over" /\ arrived = Len(quanta) /\ ~reply.split =>
    CASE reply.status # 0 -> /\ result.said # "success" /\ result.done = {}
                             /\ ask.kind # "token" => result.status = reply.status
      [] reply.status = 0 /\ ask.kind = "token" -> result.done = ToSet(reply.frames)
      [] reply.status = 0 /\ ask.kind # "token" -> result.said \in {"success", "answered"} /\ result.done = Given
=============================================================================
