-------------------------------- MODULE Wire --------------------------------
(***************************************************************************)
(* One connection between a client and its session at the coordinator, as  *)
(* two streams of cells: frames are written whole or cut short, and read   *)
(* by receives that give up when their time is over, wherever they are.    *)
(*                                                                         *)
(* A frame is three header cells (the magic; type, flag and correlation;   *)
(* the payload length), the payload and the checksum.  The checksum is     *)
(* that of the frame it was computed for: two frames never share one.      *)
(* Version, reserved bits and unknown types are left out, both ends being  *)
(* the same program.                                                       *)
(*                                                                         *)
(* The codec of the messages is a parameter.  What is asked of it, that    *)
(* what is encoded is decoded as it was meant, is CodecAssumption; the     *)
(* codec of the program is in Messages.                                    *)
(*                                                                         *)
(* The client sends any request of the protocol and, like the agent, waits *)
(* for the answer to one before it sends the next; an exchange that fails  *)
(* leaves the connection open.  What the fabric decides about a request is *)
(* left open.  Stopping the coordinator is in Server.                      *)
(***************************************************************************)
EXTENDS Integers, Sequences, SequencesExt

CONSTANTS
    Boots,         \* boot identities
    Conversations, \* the sequences of requests a client may send
    Encode(_),     \* MessageCodec::encode: the payload of a message, in cells
    Decode(_,_,_), \* MessageCodec::decode of a type, a payload and a limit on collections
    Meant(_),      \* what a message says, field by field
    Admits(_,_),   \* whether a message is within a limit on collections
    Readable,      \* the message types that have a decoder
    MaxItems,      \* the coordinator's max_collection_items
    MaxPayload,    \* the coordinator's and the client's max_payload_bytes, in cells
    CutSends,      \* whether a send may fail half way
    CutPoints,     \* how far from either end of the stream a fault may cut it
    StrayLengths,  \* the payload lengths a header read from the middle may declare
    MaxFaults      \* bound on the receives that time out and the sends that fail

None == "none"

Requests == UNION {Range(c) : c \in Conversations}

AnswerTypes == {"HelloAck", "RegisterAck", "Result", "Error", "SnapshotResponse"}

\* An answer, of a coordinator whose rack is declared.
Answer(type) == [type |-> type, present |-> {<<"rack">>}, items |-> 0, boot |-> None]

\* The messages of an instance, with their payloads and what they say, so that
\* each is encoded once.
Catalogue == Requests \cup {Answer(t) : t \in AnswerTypes}
Payload == [m \in Catalogue |-> Encode(m)]
Meaning == [m \in Catalogue |-> Meant(m)]

\* One field of a payload.
PayloadCell ==
    [width : {"u8", "u16", "u32", "u64", "string", "bytes"}, num : Nat, value : Seq(STRING)]

ASSUME WireAssumption ==
    /\ MaxItems \in Nat /\ MaxPayload \in Nat /\ MaxFaults \in Nat /\ CutSends \in BOOLEAN
    /\ CutPoints \subseteq Nat /\ StrayLengths \subseteq Nat
    /\ None \notin Boots
    /\ \A c \in Conversations : c \in Seq(Requests)
    /\ \A m \in Requests : m.type \in Readable

\* Encoder and decoder of a type agree: every message is read as it was meant, unless
\* it is beyond the reader's limit.  A request says which boot it is of.
ASSUME CodecAssumption ==
    /\ \A m \in Catalogue :
          /\ Payload[m] \in Seq(PayloadCell)
          /\ m.type \in Readable => \A limit \in {0, MaxItems} :
                LET read == Decode(m.type, Payload[m], limit) IN
                /\ read.ok = Admits(m, limit)
                /\ read.ok => read.fields = Meaning[m]
    /\ \A m \in Requests : \A f \in Meaning[m] : Last(f[2]) \in Boots

\* The client reads every answer but a snapshot, and none is beyond its limits.
ASSUME AnswerAssumption ==
    /\ AnswerTypes \ {"SnapshotResponse"} \subseteq Readable
    /\ \A t \in AnswerTypes : Admits(Answer(t), 0) /\ Len(Payload[Answer(t)]) <= MaxPayload

VARIABLES
    sent,       \* the requests sent so far; the position is the correlation number
    awaiting,   \* the correlation number of the request awaited, or 0
    open,       \* whether the client's end is open
    up,         \* cells on their way to the coordinator
    down,       \* cells on their way to the client
    session,    \* the session thread: "greeting", "serving" or "ended"
    bound,      \* session_boot
    (* History *)
    handled,    \* the request handed to a handler last, and whether it was read as meant
    told,       \* the types of the answers written to each request
    applied,    \* the boots under which requests reached the fabric
    concluded,  \* the answer the client took last, and whether it was read as meant
    mismatched, \* an exchange failed on what it received
    faults      \* receives that timed out and sends that were cut

wireVars == <<sent, awaiting, open, up, down, session, bound, handled, told, applied,
              concluded, mismatched, faults>>

WireInit ==
    /\ sent = <<>> /\ awaiting = 0 /\ open = TRUE /\ up = <<>> /\ down = <<>>
    /\ session = "greeting" /\ bound = None
    /\ handled = [corr |-> 0] /\ told = <<>> /\ applied = {}
    /\ concluded = [corr |-> 0] /\ mismatched = FALSE /\ faults = 0

-----------------------------------------------------------------------------
(* Frames and the connection *)

kFrameHeader == 3
kFrameTrailer == 1
kFrameOverhead == kFrameHeader + kFrameTrailer

\* A cell of the frame around a payload.
Mark(width, num, value) == [width |-> width, num |-> num, value |-> value]

\* encode_frame.
encode_frame(message, corr, flag) ==
    LET payload == Payload[message]
        about == <<message.type, flag>>
    IN  <<Mark("magic", 0, <<>>), Mark("meta", corr, about), Mark("length", Len(payload), <<>>)>>
        \o payload \o <<Mark("crc", corr, about)>>

TypeOf(frame) == frame[2].value[1]
PayloadOf(frame) == SubSeq(frame, kFrameHeader + 1, Len(frame) - kFrameTrailer)

\* Mutated form of decode_frame: the checksum is not compared.
decode_frame_unchecked(cells) ==
    IF Len(cells) < kFrameOverhead THEN "TruncatedFrame"
    ELSE IF cells[1].width # "magic" \/ cells[2].width # "meta" THEN "BadMagic"
    ELSE "Ok"

\* decode_frame on a buffer of the length the header declares, or on the header
\* alone, which is too short to be looked at.
decode_frame(cells) ==
    IF Len(cells) < kFrameOverhead THEN "TruncatedFrame"
    ELSE IF cells[1].width # "magic" THEN "BadMagic"
    ELSE IF Last(cells) # Mark("crc", cells[2].num, cells[2].value) THEN "ChecksumMismatch"
    ELSE "Ok"

\* receive takes the payload length from the header without having looked at the
\* rest of it.  A header read from the middle of a frame declares anything.
DeclaredLengths(header) ==
    IF header[1].width = "magic" /\ header[3].width = "length" THEN {header[3].num}
    ELSE StrayLengths

\* TcpConnection::receive, when enough arrives in time: how it ends, the frame it
\* read and what it leaves on the stream.
Received(stream) ==
    IF Len(stream) < kFrameHeader THEN {}
    ELSE {[status |-> IF n > MaxPayload THEN "OversizedFrame"
                      ELSE decode_frame(SubSeq(stream, 1, kFrameOverhead + n)),
           frame |-> IF n > MaxPayload THEN <<>> ELSE SubSeq(stream, 1, kFrameOverhead + n),
           rest |-> IF n > MaxPayload THEN SubSeq(stream, kFrameHeader + 1, Len(stream))
                    ELSE SubSeq(stream, kFrameOverhead + n + 1, Len(stream))]
          : n \in {l \in DeclaredLengths(stream) :
                     l > MaxPayload \/ kFrameOverhead + l <= Len(stream)}}

\* The cuts of n cells that are looked at.
CutsOf(n) == {k \in 1..n : k \in CutPoints \/ n - k \in CutPoints}

\* TcpConnection::receive, when its time is over first: what it leaves on the
\* stream.  The cells it had read are dropped with its buffer.
Dropped(stream) ==
    {SubSeq(stream, k + 1, Len(stream)) :
       k \in {j \in CutsOf(Len(stream)) :
                j < kFrameHeader \/ \E l \in DeclaredLengths(stream) :
                                       l <= MaxPayload /\ j < kFrameOverhead + l}}

Fault == faults < MaxFaults /\ faults' = faults + 1

-----------------------------------------------------------------------------
(* The client *)

\* The next requests of the conversation; encode_frame refuses those too large.
NextRequests ==
    {m \in {c[Len(sent) + 1] : c \in {d \in Conversations : Len(d) > Len(sent) /\ IsPrefix(sent, d)}} :
       Len(Payload[m]) <= MaxPayload}

\* exchange, first half: the frame is written whole.
Request(message) ==
    /\ open /\ awaiting = 0
    /\ sent' = Append(sent, message) /\ told' = Append(told, <<>>)
    /\ awaiting' = Len(sent')
    /\ up' = up \o encode_frame(message, Len(sent'), "request")
    /\ UNCHANGED <<open, down, session, bound, handled, applied, concluded, mismatched, faults>>

\* send gives up half way, and so does the exchange; the connection stays open.
RequestCut(message) ==
    /\ CutSends /\ open /\ awaiting = 0
    /\ sent' = Append(sent, message) /\ told' = Append(told, <<>>)
    /\ LET frame == encode_frame(message, Len(sent'), "request") IN
       \E k \in CutsOf(Len(frame)) \ {Len(frame)} : up' = up \o SubSeq(frame, 1, k)
    /\ Fault
    /\ UNCHANGED <<awaiting, open, down, session, bound, handled, applied, concluded, mismatched>>

\* Mutated form of Matches: the correlation is not compared.
MatchesAnyAnswer(meta) == meta.value[2] = "response"

\* exchange: a response, to this request.
Matches(meta) == meta.value[2] = "response" /\ meta.num = awaiting

\* exchange, second half, and what its callers make of the frame: an answer of a
\* type they expect, understood, or a failure.
TakeAnswer ==
    /\ open /\ awaiting # 0
    /\ \E r \in Received(down) :
          /\ down' = r.rest
          /\ IF /\ r.status = "Ok" /\ Matches(r.frame[2])
                /\ TypeOf(r.frame) \in Readable
                /\ Decode(TypeOf(r.frame), PayloadOf(r.frame), 0).ok
             THEN /\ \E read \in {Decode(TypeOf(r.frame), PayloadOf(r.frame), 0)} :
                       concluded' = [corr |-> awaiting, type |-> TypeOf(r.frame),
                                     faithful |-> read.fields = Meaning[Answer(TypeOf(r.frame))]]
                  /\ UNCHANGED mismatched
             ELSE mismatched' = TRUE /\ UNCHANGED concluded
    /\ awaiting' = 0
    /\ UNCHANGED <<sent, open, up, session, bound, handled, told, applied, faults>>

\* io_timeout is over, wherever the receive is.
AnswerTimesOut ==
    /\ open /\ awaiting # 0
    /\ down' \in {down} \cup Dropped(down)
    /\ awaiting' = 0 /\ Fault
    /\ UNCHANGED <<sent, open, up, session, bound, handled, told, applied, concluded, mismatched>>

\* The session has ended and no whole answer is left.
AnswerFails ==
    /\ open /\ awaiting # 0
    /\ session = "ended" /\ Received(down) = {}
    /\ down' = <<>> /\ awaiting' = 0
    /\ mismatched' = TRUE
    /\ UNCHANGED <<sent, open, up, session, bound, handled, told, applied, concluded, faults>>

Close ==
    /\ open /\ awaiting = 0
    /\ open' = FALSE
    /\ UNCHANGED <<sent, awaiting, up, down, session, bound, handled, told, applied, concluded,
                   mismatched, faults>>

-----------------------------------------------------------------------------
(* The coordinator *)

Mutations == {"DeclareRack", "PublishNode", "PublishDevice", "PublishLink", "PublishFailureDomain",
              "PublishPower", "PublishCooling", "PublishHealth", "PublishCapability", "Withdraw",
              "RetireMember", "Revalidate", "Heartbeat", "SnapshotRequest"}

\* The value a decoded request has for a field, or None.
BootIn(read, path) ==
    LET values == {f[2] : f \in {g \in read.fields : g[1] = path}}
    IN  IF values = {} THEN None ELSE Last(CHOOSE v \in values : TRUE)

\* Mutated form of MayRegister: registers again under another boot.
MayRegisterAgain(read) ==
    read.ok /\ BootIn(read, <<"boot", "text">>) # None /\ BootIn(read, <<"worker", "text">>) # None

\* handle_register, up to the call of the fabric.
MayRegister(read) ==
    /\ read.ok
    /\ BootIn(read, <<"boot", "text">>) # None /\ BootIn(read, <<"worker", "text">>) # None
    /\ bound \in {None, BootIn(read, <<"boot", "text">>)}

\* serve and handle_mutation, up to the call of the fabric: registered, understood,
\* and check_session_identity.
MayMutate(read) ==
    /\ bound # None
    /\ read.ok
    /\ BootIn(read, <<"authority", "boot", "text">>) = bound

\* The answers a handler may write, in order, and the session's boot after it.
\* The fabric may refuse what it is asked; a published snapshot is answered by
\* the snapshot and then by finish_mutation.
Outcomes(type, read) ==
    LET Plainly(types) == [types |-> types, boot |-> bound]
    IN  IF type = "Hello" THEN {Plainly(<<IF read.ok THEN "HelloAck" ELSE "Error">>)}
        ELSE IF session = "greeting" THEN {Plainly(<<"Error">>)}
        ELSE CASE type = "Register" ->
                    {Plainly(<<"Error">>)} \cup
                    (IF MayRegister(read)
                     THEN {Plainly(<<"RegisterAck">>),
                           [types |-> <<"RegisterAck">>, boot |-> BootIn(read, <<"boot", "text">>)]}
                     ELSE {})
               [] type = "Query" -> {Plainly(<<IF read.ok THEN "Result" ELSE "Error">>)}
               [] type \in Mutations /\ MayMutate(read) ->
                    {Plainly(<<"Result">>)} \cup
                    (IF type = "SnapshotRequest" THEN {Plainly(<<"SnapshotResponse", "Result">>)}
                     ELSE {})
               [] OTHER -> {Plainly(<<"Error">>)}

\* Whether the request reached the fabric, and under which boot.
Applied(type, read) ==
    CASE type = "Register" -> IF bound' # bound THEN {bound'} ELSE {}
      [] type \in Mutations /\ session = "serving" /\ MayMutate(read) ->
           {BootIn(read, <<"authority", "boot", "text">>)}
      [] OTHER -> {}

\* Mutated form of Answers: an error is answered and the handler goes on.
AnswersAndGoesOn(outcome) ==
    IF outcome.types = <<"Error">> THEN <<"Error", "Result">> ELSE outcome.types

\* Every path through a handler answers and returns.
Answers(outcome) == outcome.types

\* reply, reply_result, reply_error: one frame for each of one answer or two.
AnswerFrames(answers, corr) ==
    LET Frame(i) == encode_frame(Answer(answers[i]), corr, "response")
    IN  IF Len(answers) = 2 THEN Frame(1) \o Frame(2) ELSE Frame(1)

\* A request in hand: it is dispatched, handled and answered.
Handle(corr, type, read) ==
    /\ handled' = [corr |-> corr, type |-> type, ok |-> read.ok,
                   faithful |-> read.fields = Meaning[sent[corr]]]
    /\ \E outcome \in Outcomes(type, read) :
          /\ bound' = outcome.boot
          /\ told' = [told EXCEPT ![corr] = Answers(outcome)]
          /\ down' = down \o AnswerFrames(Answers(outcome), corr)
    /\ applied' = applied \cup Applied(type, read)
    /\ session' = IF session = "greeting" /\ type # "Hello" THEN "ended" ELSE "serving"

\* serve: one request is received, whole, and handled.
Serve ==
    /\ session # "ended"
    /\ \E r \in Received(up) :
          /\ r.status = "Ok"
          /\ up' = r.rest
          /\ \E read \in {Decode(TypeOf(r.frame), PayloadOf(r.frame), MaxItems)} :
                Handle(r.frame[2].num, TypeOf(r.frame), read)
    /\ UNCHANGED <<sent, awaiting, open, concluded, mismatched, faults>>

\* Mutated form of SessionSurvives: every failed receive is tried again.
SessionSurvivesAll(why) == session = "serving"

\* serve: a receive that timed out is tried again, any other failure ends the
\* session; in the greeting both do.
SessionSurvives(why) == session = "serving" /\ why = "receive timed out"

\* session_wait (in the greeting connect_timeout) is over, wherever the receive is.
ServeTimesOut ==
    /\ session # "ended"
    /\ IF SessionSurvives("receive timed out")
       THEN up' \in Dropped(up) /\ UNCHANGED session
       ELSE up' = <<>> /\ session' = "ended"
    /\ Fault
    /\ UNCHANGED <<sent, awaiting, open, down, bound, handled, told, applied, concluded, mismatched>>

\* What was received is no frame, or the client is gone.
ServeFails ==
    /\ session # "ended"
    /\ \/ \E r \in Received(up) : r.status # "Ok"
       \/ ~open /\ Received(up) = {}
    /\ up' = <<>>
    /\ session' = IF SessionSurvives("malformed or closed") THEN session ELSE "ended"
    /\ UNCHANGED <<sent, awaiting, open, down, bound, handled, told, applied, concluded,
                   mismatched, faults>>

-----------------------------------------------------------------------------
WireNext ==
    \/ \E message \in NextRequests : Request(message) \/ RequestCut(message)
    \/ TakeAnswer \/ AnswerTimesOut \/ AnswerFails \/ Close
    \/ Serve \/ ServeTimesOut \/ ServeFails

\* The session thread keeps receiving: every receive ends within session_wait, and
\* one that finds something on the stream reads it.
WireSpec ==
    /\ WireInit /\ [][WireNext]_wireVars
    /\ WF_wireVars(ServeFails \/ ServeTimesOut \/ Serve)

-----------------------------------------------------------------------------
(* Properties *)

\* The shape of the connection; an answer is awaited to the last request only.
WireTypeOK ==
    /\ awaiting \in {0, Len(sent)} /\ Len(told) = Len(sent)
    /\ sent \in Seq(Requests)
    /\ session \in {"greeting", "serving", "ended"}
    /\ bound \in Boots \cup {None} /\ applied \subseteq Boots
    /\ faults \in 0..MaxFaults

\* Whatever was cut, dropped and read from the middle, a handler is only given
\* requests the client sent, and understands every field of them as the client
\* meant it; one it cannot read is one beyond its limits.
HandledAsSent ==
    handled.corr # 0 =>
        LET message == sent[handled.corr] IN
        /\ handled.type = message.type
        /\ handled.ok = Admits(message, MaxItems)
        /\ handled.ok => handled.faithful

\* The answer a client takes for its request is one the coordinator wrote to that
\* request, understood as it was written, whatever answers came late or were cut.
ConcludesOwnAnswer ==
    concluded.corr # 0 =>
        concluded.faithful /\ concluded.type \in Range(told[concluded.corr])

\* All requests of one session reach the fabric under one boot, the first it
\* registered; a second registration or a borrowed token does not change that.
OneBootPerSession == \A b, c \in applied : b = c

\* The session is well formed, and all it applies is under one boot.
WireInv ==
    /\ WireTypeOK
    /\ OneBootPerSession

\* While no receive times out and no send fails, client and session stay in step:
\* every exchange gets the answer to its own request.  A snapshot request, which
\* is answered twice, is the exception, and so is a session that does not begin
\* with HELLO.
UndisturbedStaysInStep ==
    /\ faults = 0
    /\ sent # <<>> => sent[1].type = "Hello"
    /\ \A i \in DOMAIN sent : sent[i].type # "SnapshotRequest"
    => ~mismatched

\* When the client closes, its session ends, wherever in a frame the stream stops.
ClosedSessionEnds == ~open ~> session = "ended"
=============================================================================
