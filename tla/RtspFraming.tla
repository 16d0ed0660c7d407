----------------------------- MODULE RtspFraming -----------------------------
(***************************************************************************)
(* How the reader of an RTSP stream cuts the bytes it receives into        *)
(* interleaved frames and responses: _receive, _interleaved, _response and *)
(* the loop around them (_read_loop) of _RtspStream.                       *)
(*                                                                         *)
(* A byte stream is a sequence of units.  A unit is a run of bytes that no *)
(* test of the parser tells apart: "$" (the marker and the channel), "len" *)
(* (the 16-bit length), "RT" and "SP" (the two parts of the tag "RTSP/"),  *)
(* "head" (status line and headers), "end" (the empty line, here carrying  *)
(* the Content-Length of the headers before it), "data" (payload or body)  *)
(* and "junk" (a byte no message starts with).                             *)
(***************************************************************************)
EXTENDS Naturals, Sequences, SequencesExt

CONSTANTS
  Wires,          \* the sequences of messages a recorder may send
  MaxChunk,       \* bound: units of one recv
  MaxMessage      \* _MAX_MESSAGE_BYTES, in units

Kinds == {"frame", "response", "junk"}

(* Messages, with the size of the payload or of the body. *)
ASSUME WiresAssumption == \A w \in Wires : w \in Seq([kind : Kinds, size : Nat])
ASSUME ChunkAssumption == MaxChunk \in Nat \ {0}

VARIABLES
  wire,           \* the messages this recorder sends
  sent,           \* units it has sent
  received,       \* units recv has returned
  consumed,       \* units deleted from the front of the buffer
  pc,             \* where the reader is
  parsed,         \* the messages it has returned
  failure         \* why the stream failed

framingVars == <<wire, sent, received, consumed, pc, parsed, failure>>

Message(kind, size) == [kind |-> kind, size |-> size]

Unit(k, n) == [k |-> k, n |-> n]

Body(n) == [i \in 1..n |-> Unit("data", i)]

UnitsOf(m) ==
  CASE m.kind = "frame" -> <<Unit("$", 0), Unit("len", m.size)>> \o Body(m.size)
    [] m.kind = "response" ->
         <<Unit("RT", 0), Unit("SP", 0), Unit("head", 0), Unit("end", m.size)>> \o Body(m.size)
    [] m.kind = "junk" -> <<Unit("junk", 0)>>

Stream == FlattenSeq([i \in DOMAIN wire |-> UnitsOf(wire[i])])

(* The number of units of the first i messages. *)
Boundary(i) == Len(FlattenSeq([j \in 1..i |-> UnitsOf(wire[j])]))

buffer == SubSeq(Stream, consumed + 1, received)

FramingInit ==
  /\ wire \in Wires
  /\ sent = 0 /\ received = 0 /\ consumed = 0
  /\ pc = "loop" /\ parsed = <<>> /\ failure = "none"

-----------------------------------------------------------------------------
(* The tests of the parser *)

StartsFrame(b) == b # <<>> /\ b[1].k = "$"

(* mutation: the length is taken for that of the whole frame *)
FrameLengthWithoutHeader(b) == IF Len(b) < 2 THEN 2 ELSE b[2].n

(* The units a frame needs, as far as the buffer tells. *)
FrameLength(b) == IF Len(b) < 2 THEN 2 ELSE 2 + b[2].n

(* buffer.startswith(b"RTSP/") *)
StartsResponse(b) == Len(b) >= 2 /\ b[1].k = "RT" /\ b[2].k = "SP"

HeaderEnds(b) == {i \in DOMAIN b : b[i].k = "end"}

HeaderEnd(b) == CHOOSE i \in HeaderEnds(b) : \A j \in HeaderEnds(b) : i <= j

ResponseLength(b) == HeaderEnd(b) + b[HeaderEnd(b)].n

HasResponse(b) ==
  /\ StartsResponse(b)
  /\ HeaderEnds(b) # {}
  /\ Len(b) >= ResponseLength(b)

(* b"RTSP/".startswith(buffer) *)
IsPrefixOfTag(b) == Len(b) <= 2 /\ \A i \in DOMAIN b : b[i].k = <<"RT", "SP">>[i]

(* mutation: what is neither a frame nor a response is waited for *)
NothingIsUnexpected(b) == FALSE

Unexpected(b) == b # <<>> /\ ~StartsFrame(b) /\ ~IsPrefixOfTag(b)

-----------------------------------------------------------------------------
Fail(why) == failure' = why /\ pc' = "failed"

(* A message of `length` units leaves the buffer. *)
Return(kind, length) ==
  /\ parsed' = Append(parsed, Message(kind, length - (IF kind = "frame" THEN 2 ELSE 4)))
  /\ consumed' = consumed + length
  /\ pc' = "loop"
  /\ UNCHANGED <<wire, sent, received, failure>>

TakeFrame ==
  /\ pc \in {"loop", "frame"}
  /\ StartsFrame(buffer) /\ Len(buffer) >= FrameLength(buffer)
  /\ Return("frame", FrameLength(buffer))

(* _interleaved does not return before it has its frame. *)
WantFrame ==
  /\ pc = "loop"
  /\ StartsFrame(buffer) /\ Len(buffer) < FrameLength(buffer)
  /\ pc' = "frame"
  /\ UNCHANGED <<wire, sent, received, consumed, parsed, failure>>

TakeResponse ==
  /\ pc = "loop"
  /\ ~StartsFrame(buffer) /\ HasResponse(buffer)
  /\ Return("response", ResponseLength(buffer))

RejectBuffer ==
  /\ pc = "loop"
  /\ ~StartsFrame(buffer) /\ ~HasResponse(buffer) /\ Unexpected(buffer)
  /\ Fail("malformed")
  /\ UNCHANGED <<wire, sent, received, consumed, parsed>>

WantMore ==
  /\ pc = "loop"
  /\ ~StartsFrame(buffer) /\ ~HasResponse(buffer) /\ ~Unexpected(buffer)
  /\ pc' = "poll"
  /\ UNCHANGED <<wire, sent, received, consumed, parsed, failure>>

(* _receive returned a chunk. *)
Receive ==
  /\ pc \in {"poll", "frame"}
  /\ received < sent
  /\ received' \in received + 1 .. sent
  /\ received' - received <= MaxChunk
  /\ IF received' - consumed > MaxMessage
       THEN Fail("limit")
       ELSE /\ pc' = IF pc = "poll" THEN "loop" ELSE "frame"
            /\ UNCHANGED failure
  /\ UNCHANGED <<wire, sent, consumed, parsed>>

(* socket.timeout caught in _read_loop: look at the buffer again. *)
PollTimeout ==
  /\ pc = "poll" /\ received = sent
  /\ pc' = "loop"
  /\ UNCHANGED <<wire, sent, received, consumed, parsed, failure>>

(* A pause longer than _READER_POLL_SECONDS: the socket.timeout that comes *)
(* in the loops of _interleaved reaches the OSError clause.                *)
FrameTimeout ==
  /\ pc = "frame" /\ received = sent /\ Len(buffer) < FrameLength(buffer)
  /\ Fail("transport")
  /\ UNCHANGED <<wire, sent, received, consumed, parsed>>

ReaderStep ==
  \/ TakeFrame \/ WantFrame \/ TakeResponse \/ RejectBuffer \/ WantMore
  \/ Receive \/ PollTimeout \/ FrameTimeout

(* The recorder writes any number of units at a time. *)
RecorderSends ==
  /\ sent < Len(Stream)
  /\ sent' \in sent + 1 .. Len(Stream)
  /\ UNCHANGED <<wire, received, consumed, pc, parsed, failure>>

FramingNext == ReaderStep \/ RecorderSends

FramingSpec == FramingInit /\ [][FramingNext]_framingVars

FramingFairSpec == FramingSpec /\ WF_framingVars(ReaderStep) /\ WF_framingVars(RecorderSends)

-----------------------------------------------------------------------------
(* What the reader has returned is what the recorder sent, message by      *)
(* message, however the bytes were cut into chunks, and the buffer starts  *)
(* at the boundary of the next one: no payload is ever taken for a marker  *)
(* or a tag, and a failure comes only between messages.                    *)
ReturnsWhatWasSent ==
  /\ Len(parsed) <= Len(wire)
  /\ \A i \in DOMAIN parsed : parsed[i] = wire[i]
  /\ consumed = Boundary(Len(parsed))

(* Data that is well formed is never rejected as "unexpected RTSP data":   *)
(* the message at the front of the rejected buffer is neither a frame nor  *)
(* a response.                                                             *)
OnlyMalformedIsRejected ==
  failure = "malformed" => wire[Len(parsed) + 1].kind = "junk"

(* Where the first malformed byte may be. *)
JunkAt == {i \in DOMAIN wire : wire[i].kind = "junk"}

(* The message at the front of the buffer. *)
NextMessage == Len(parsed) + 1

(* How much of the next message is in the buffer, short of the whole.      *)
Partly(kind, least) ==
  /\ wire[NextMessage].kind = kind
  /\ received - consumed \in least .. Len(UnitsOf(wire[NextMessage])) - 1

(* A stream does not fail between messages, and not inside one but for two *)
(* reasons: data is rejected for a byte that starts no message, or for a   *)
(* response of which more than its tag and less than the whole is in the   *)
(* buffer; and the transport counts as broken, although here nothing       *)
(* breaks it, when the recorder pauses inside a frame.                     *)
RejectionIsExplained ==
  failure \in {"malformed", "transport"} =>
    /\ NextMessage <= Len(wire)
    /\ IF failure = "transport" THEN Partly("frame", 1)
       ELSE wire[NextMessage].kind = "junk" \/ Partly("response", 3)

(* Everything the recorder sends is returned up to the message that fails  *)
(* the stream, and one does if a malformed byte is sent: the reader never  *)
(* waits for ever on a buffer that holds a whole message, or junk.         *)
AllReturnedOrFailed ==
  <>[](IF failure = "none" THEN JunkAt = {} /\ Len(parsed) = Len(wire)
                           ELSE NextMessage <= Len(wire) /\ \A i \in JunkAt : NextMessage <= i)
=============================================================================
