----------------------------- MODULE RtspStream -----------------------------
(***************************************************************************)
(* The reader/demultiplexer of one RTSP connection: class _RtspStream of   *)
(* src/src/dahua_rpc/_rtsp_connection.py, with the part of _request_once   *)
(* that drives it.  One reader thread takes messages off the socket and    *)
(* hands interleaved media to a bounded queue and responses to the caller  *)
(* that registered their CSeq; any number of caller threads wait for       *)
(* responses, one consumer drains the queue, one thread closes the stream. *)
(*                                                                         *)
(* A message is taken off the wire whole: how bytes become messages is     *)
(* RtspFraming.tla.  Every step below is one critical section of the       *)
(* condition variable, or one step taken outside it.                       *)
(***************************************************************************)
EXTENDS Naturals, Sequences

CONSTANTS
  Requests,       \* the requests of a connection, each named by its CSeq
  None,           \* "no response"
  Capacity,       \* media_capacity
  MaxArrivals,    \* bound: media packets the recorder sends
  Foreign         \* numbers of the packets whose channel is not mapped, or
                  \* whose payload is empty

ASSUME NoneAssumption == None \notin Requests
ASSUME CapacityAssumption == Capacity \in Nat \ {0}
ASSUME ArrivalsAssumption == MaxArrivals \in Nat

NoError == "ok"
Errors == {"transport", "malformed", "unexpected", "local", "keepalive", "unclean"}

VARIABLES
  (* the reader thread: _read_loop *)
  reader,         \* where it is
  held,           \* the CSeq of the response it is routing
  exc,            \* the exception it is handling
  (* the stream object *)
  pending,        \* keys of _pending
  error,          \* _error
  stop,           \* _stop
  sock,           \* the socket
  closer,         \* where the thread in close() is
  (* one _PendingResponse and one caller for each request *)
  call, response, err, outcome,
  (* the recorder *)
  owed,           \* requests it has received and not answered
  strayed,        \* it has sent a response that it did not owe
  (* media *)
  media, arrived, drops, highWater,
  consumer, batch, delivered, taken

readerVars == <<reader, held, exc>>
streamVars == <<pending, error, stop, sock, closer>>
callVars   == <<call, outcome>>
replyVars  == <<response, err>>
wireVars   == <<owed, strayed>>
queueVars  == <<media, arrived, drops, highWater>>
takeVars   == <<consumer, batch, delivered, taken>>
vars == <<readerVars, streamVars, callVars, replyVars, wireVars, queueVars, takeVars>>

CallStates == {"new", "registered", "waiting", "cancelling", "done"}
Outcomes == {"none", "response", "error", "timeout", "refused", "send_error"}

CallTypes ==
  /\ reader \in {"check", "reading", "media", "response", "except", "fail", "exited"}
  /\ held \in Requests \cup {None}
  /\ exc \in Errors \cup {NoError}
  /\ pending \subseteq Requests
  /\ error \in Errors \cup {NoError}
  /\ stop \in BOOLEAN
  /\ sock \in {"open", "closed"}
  /\ closer \in {"open", "stopped", "joining", "closed"}
  /\ call \in [Requests -> CallStates]
  /\ response \in [Requests -> Requests \cup {None}]
  /\ err \in [Requests -> Errors \cup {NoError}]
  /\ outcome \in [Requests -> Outcomes]
  /\ owed \subseteq Requests
  /\ strayed \in BOOLEAN

QueueTypes ==
  /\ media \in Seq(Nat)
  /\ arrived \in Nat /\ drops \in Nat /\ highWater \in Nat
  /\ consumer \in {"idle", "receiving"}
  /\ batch \in Seq(Nat)
  /\ delivered \in Seq(Nat)
  /\ taken \in Nat

TypeOK == CallTypes /\ QueueTypes

Init ==
  /\ reader = "check" /\ held = None /\ exc = NoError
  /\ pending = {} /\ error = NoError /\ stop = FALSE
  /\ sock = "open" /\ closer = "open"
  /\ call = [c \in Requests |-> "new"]
  /\ response = [c \in Requests |-> None]
  /\ err = [c \in Requests |-> NoError]
  /\ outcome = [c \in Requests |-> "none"]
  /\ owed = {} /\ strayed = FALSE
  /\ media = <<>> /\ arrived = 0 /\ drops = 0 /\ highWater = 0
  /\ consumer = "idle" /\ batch = <<>> /\ delivered = <<>> /\ taken = 0

(* _PendingResponse.event *)
Answered(c) == response[c] # None \/ err[c] # NoError

-----------------------------------------------------------------------------
(* Callers: _request_once, register, cancel, response *)

Finish(c, result) ==
  /\ call' = [call EXCEPT ![c] = "done"]
  /\ outcome' = [outcome EXCEPT ![c] = result]

(* mutation: register does not look at _error *)
RegisterUnchecked(c) ==
  /\ call[c] = "new"
  /\ pending' = pending \cup {c}
  /\ call' = [call EXCEPT ![c] = "registered"]
  /\ UNCHANGED <<readerVars, error, stop, sock, closer, outcome, replyVars, wireVars, queueVars, takeVars>>

Register(c) ==
  /\ call[c] = "new"
  /\ error = NoError
  /\ pending' = pending \cup {c}
  /\ call' = [call EXCEPT ![c] = "registered"]
  /\ UNCHANGED <<readerVars, error, stop, sock, closer, outcome, replyVars, wireVars, queueVars, takeVars>>

RegisterRefused(c) ==
  /\ call[c] = "new"
  /\ error # NoError
  /\ Finish(c, "refused")
  /\ UNCHANGED <<readerVars, streamVars, replyVars, wireVars, queueVars, takeVars>>

(* sendall succeeds: the recorder has the request and owes a response. *)
Send(c) ==
  /\ call[c] = "registered"
  /\ sock = "open"
  /\ call' = [call EXCEPT ![c] = "waiting"]
  /\ owed' = owed \cup {c}
  /\ UNCHANGED <<readerVars, streamVars, outcome, replyVars, strayed, queueVars, takeVars>>

(* sendall raises; the except clause of _request_once is about to cancel. *)
SendFails(c) ==
  /\ call[c] = "registered"
  /\ call' = [call EXCEPT ![c] = "cancelling"]
  /\ outcome' = [outcome EXCEPT ![c] = "send_error"]
  /\ UNCHANGED <<readerVars, streamVars, replyVars, wireVars, queueVars, takeVars>>

(* event.wait(timeout) returned False: the cancellation is a later step, so *)
(* the reader may still answer in between.                                  *)
TimeoutWait(c) ==
  /\ call[c] = "waiting"
  /\ ~Answered(c)
  /\ call' = [call EXCEPT ![c] = "cancelling"]
  /\ outcome' = [outcome EXCEPT ![c] = "timeout"]
  /\ UNCHANGED <<readerVars, streamVars, replyVars, wireVars, queueVars, takeVars>>

(* mutation: cancel forgets every pending caller *)
CancelAll(c) ==
  /\ call[c] = "cancelling"
  /\ pending' = {}
  /\ call' = [call EXCEPT ![c] = "done"]
  /\ UNCHANGED <<readerVars, error, stop, sock, closer, outcome, replyVars, wireVars, queueVars, takeVars>>

(* mutation: a caller whose entry is gone goes on waiting for it *)
CancelOnlyPending(c) ==
  /\ call[c] = "cancelling"
  /\ c \in pending
  /\ pending' = pending \ {c}
  /\ call' = [call EXCEPT ![c] = "done"]
  /\ UNCHANGED <<readerVars, error, stop, sock, closer, outcome, replyVars, wireVars, queueVars, takeVars>>

Cancel(c) ==
  /\ call[c] = "cancelling"
  /\ pending' = pending \ {c}
  /\ call' = [call EXCEPT ![c] = "done"]
  /\ UNCHANGED <<readerVars, error, stop, sock, closer, outcome, replyVars, wireVars, queueVars, takeVars>>

(* event.wait returned True: the error is looked at before the response. *)
Wake(c) ==
  /\ call[c] = "waiting"
  /\ Answered(c)
  /\ Finish(c, IF err[c] # NoError THEN "error" ELSE "response")
  /\ UNCHANGED <<readerVars, streamVars, replyVars, wireVars, queueVars, takeVars>>

-----------------------------------------------------------------------------
(* fail(): keep the first error, give it to every pending caller, forget    *)
(* them all, in one critical section.                                       *)

(* mutation: the table is cleared before the callers are told *)
FailForgets(e) ==
  /\ error' = IF error = NoError THEN e ELSE error
  /\ err' = err
  /\ pending' = {}

(* mutation: the last error wins *)
FailOverwrites(e) ==
  /\ error' = e
  /\ err' = [c \in Requests |-> IF c \in pending THEN e ELSE err[c]]
  /\ pending' = {}

(* mutation: the table is not cleared *)
FailKeepsCallers(e) ==
  LET first == IF error = NoError THEN e ELSE error IN
  /\ error' = first
  /\ err' = [c \in Requests |-> IF c \in pending THEN first ELSE err[c]]
  /\ UNCHANGED pending

FailStream(e) ==
  LET first == IF error = NoError THEN e ELSE error IN
  /\ error' = first
  /\ err' = [c \in Requests |-> IF c \in pending THEN first ELSE err[c]]
  /\ pending' = {}

(* A keepalive request failed (_keepalive_loop). *)
KeepaliveFails ==
  /\ error = NoError
  /\ FailStream("keepalive")
  /\ UNCHANGED <<readerVars, stop, sock, closer, callVars, response, wireVars, queueVars, takeVars>>

-----------------------------------------------------------------------------
(* The reader thread: _read_loop *)

ReaderCheck ==
  /\ reader = "check"
  /\ reader' = IF stop THEN "exited" ELSE "reading"
  /\ UNCHANGED <<held, exc, streamVars, callVars, replyVars, wireVars, queueVars, takeVars>>

(* socket.timeout of a recv made between two messages: try again *)
ReadNothing ==
  /\ reader = "reading" /\ sock = "open"
  /\ reader' = "check"
  /\ UNCHANGED <<held, exc, streamVars, callVars, replyVars, wireVars, queueVars, takeVars>>

ReadMedia ==
  /\ reader = "reading" /\ sock = "open"
  /\ arrived < MaxArrivals
  /\ reader' = "media"
  /\ UNCHANGED <<held, exc, streamVars, callVars, replyVars, wireVars, queueVars, takeVars>>

ReadResponse(c) ==
  /\ reader = "reading" /\ sock = "open"
  /\ c \in owed
  /\ owed' = owed \ {c}
  /\ reader' = "response" /\ held' = c
  /\ UNCHANGED <<exc, strayed, streamVars, callVars, replyVars, queueVars, takeVars>>

(* The recorder sends a response that it does not owe: one it has given    *)
(* before, or one to a request that it has not been sent, or never will be *)
(* (that of the CSeq of a request that is not made).                       *)
ReadStray(c) ==
  /\ reader = "reading" /\ sock = "open"
  /\ c \notin owed
  /\ strayed' = TRUE
  /\ reader' = "response" /\ held' = c
  /\ UNCHANGED <<exc, owed, streamVars, callVars, replyVars, queueVars, takeVars>>

(* OSError or end of file ("transport"), or data that is not RTSP *)
ReadFault ==
  /\ reader = "reading" /\ sock = "open"
  /\ exc' \in {"transport", "malformed"}
  /\ reader' = "except"
  /\ UNCHANGED <<held, streamVars, callVars, replyVars, wireVars, queueVars, takeVars>>

(* recv on the socket that close() has shut down *)
ReadClosed ==
  /\ reader = "reading" /\ sock = "closed"
  /\ exc' = "local"
  /\ reader' = "except"
  /\ UNCHANGED <<held, streamVars, callVars, replyVars, wireVars, queueVars, takeVars>>

(* mutation: a loss is not counted *)
QueueMediaUncounted ==
  LET kept == IF Len(media) = Capacity THEN Tail(media) ELSE media
      longer == Append(kept, arrived + 1)
  IN
  /\ reader = "media"
  /\ arrived' = arrived + 1
  /\ media' = longer
  /\ highWater' = IF Len(longer) > highWater THEN Len(longer) ELSE highWater
  /\ reader' = "check"
  /\ UNCHANGED <<held, exc, drops, streamVars, callVars, replyVars, wireVars, takeVars>>

(* A full queue loses its oldest packet. *)
QueueMedia ==
  LET full == Len(media) = Capacity
      kept == IF full THEN Tail(media) ELSE media
      longer == Append(kept, arrived + 1)
  IN
  /\ reader = "media"
  /\ arrived' = arrived + 1
  /\ media' = longer
  /\ drops' = IF full THEN drops + 1 ELSE drops
  /\ highWater' = IF Len(longer) > highWater THEN Len(longer) ELSE highWater
  /\ reader' = "check"
  /\ UNCHANGED <<held, exc, streamVars, callVars, replyVars, wireVars, takeVars>>

(* mutation: the reader looks the caller up without popping it *)
RoutePeeks ==
  /\ reader = "response"
  /\ held \in pending
  /\ response' = [response EXCEPT ![held] = held]
  /\ reader' = "check" /\ held' = None
  /\ UNCHANGED <<exc, streamVars, callVars, err, wireVars, queueVars, takeVars>>

Route ==
  /\ reader = "response"
  /\ held \in pending
  /\ pending' = pending \ {held}
  /\ response' = [response EXCEPT ![held] = held]
  /\ reader' = "check" /\ held' = None
  /\ UNCHANGED <<exc, error, stop, sock, closer, callVars, err, wireVars, queueVars, takeVars>>

RouteUnexpected ==
  /\ reader = "response"
  /\ held \notin pending
  /\ exc' = "unexpected"
  /\ reader' = "except" /\ held' = None
  /\ UNCHANGED <<streamVars, callVars, replyVars, wireVars, queueVars, takeVars>>

(* mutation: an exception ends the thread and nothing more *)
ReaderExceptSilent ==
  /\ reader = "except"
  /\ reader' = "exited"
  /\ UNCHANGED <<held, exc, streamVars, callVars, replyVars, wireVars, queueVars, takeVars>>

(* The except clauses look at _stop first, and call fail() as a later step. *)
ReaderExcept ==
  /\ reader = "except"
  /\ reader' = IF stop THEN "exited" ELSE "fail"
  /\ UNCHANGED <<held, exc, streamVars, callVars, replyVars, wireVars, queueVars, takeVars>>

ReaderFail ==
  /\ reader = "fail"
  /\ FailStream(exc)
  /\ reader' = "exited"
  /\ UNCHANGED <<held, exc, stop, sock, closer, callVars, response, wireVars, queueVars, takeVars>>

-----------------------------------------------------------------------------
(* The consumer: media_packets *)

StartReceive ==
  /\ consumer = "idle"
  /\ consumer' = "receiving" /\ batch' = <<>>
  /\ UNCHANGED <<readerVars, streamVars, callVars, replyVars, wireVars, queueVars, delivered, taken>>

(* mutation: the newest packet is taken first *)
TakeNewest ==
  LET last == media[Len(media)] IN
  /\ consumer = "receiving"
  /\ media # <<>>
  /\ media' = SubSeq(media, 1, Len(media) - 1)
  /\ batch' = IF last \in Foreign THEN batch ELSE Append(batch, last)
  /\ taken' = taken + 1
  /\ UNCHANGED <<readerVars, streamVars, callVars, replyVars, wireVars, arrived, drops, highWater, consumer, delivered>>

Take ==
  /\ consumer = "receiving"
  /\ media # <<>>
  /\ media' = Tail(media)
  /\ batch' = IF Head(media) \in Foreign THEN batch ELSE Append(batch, Head(media))
  /\ taken' = taken + 1
  /\ UNCHANGED <<readerVars, streamVars, callVars, replyVars, wireVars, arrived, drops, highWater, consumer, delivered>>

(* The deadline, or an error after at least one packet: return the packets. *)
(* An error with no packet is raised.                                       *)
ReturnBatch ==
  /\ consumer = "receiving"
  /\ media = <<>>
  /\ delivered' = delivered \o batch
  /\ consumer' = "idle" /\ batch' = <<>>
  /\ UNCHANGED <<readerVars, streamVars, callVars, replyVars, wireVars, queueVars, taken>>

-----------------------------------------------------------------------------
(* close(): set _stop, shut the socket down, join the reader for 2 seconds *)

CloseStop ==
  /\ closer = "open"
  /\ stop' = TRUE /\ closer' = "stopped"
  /\ UNCHANGED <<readerVars, pending, error, sock, callVars, replyVars, wireVars, queueVars, takeVars>>

CloseSocket ==
  /\ closer = "stopped"
  /\ sock' = "closed" /\ closer' = "joining"
  /\ UNCHANGED <<readerVars, pending, error, stop, callVars, replyVars, wireVars, queueVars, takeVars>>

(* mutation: close() also waits for the callers that are pending *)
CloseJoinCallers ==
  /\ closer = "joining"
  /\ reader = "exited" /\ pending = {}
  /\ closer' = "closed"
  /\ UNCHANGED <<readerVars, pending, error, stop, sock, callVars, replyVars, wireVars, queueVars, takeVars>>

CloseJoin ==
  /\ closer = "joining"
  /\ reader = "exited"
  /\ closer' = "closed"
  /\ UNCHANGED <<readerVars, pending, error, stop, sock, callVars, replyVars, wireVars, queueVars, takeVars>>

CloseJoinTimeout ==
  /\ closer = "joining"
  /\ reader # "exited"
  /\ FailStream("unclean")
  /\ closer' = "closed"
  /\ UNCHANGED <<readerVars, stop, sock, callVars, response, wireVars, queueVars, takeVars>>

-----------------------------------------------------------------------------
Caller(c) ==
  \/ Register(c) \/ RegisterRefused(c) \/ Send(c) \/ SendFails(c)
  \/ TimeoutWait(c) \/ Cancel(c) \/ Wake(c)

Reader ==
  \/ ReaderCheck \/ ReadNothing \/ ReadMedia
  \/ \E c \in Requests : ReadResponse(c) \/ ReadStray(c)
  \/ ReadFault \/ ReadClosed \/ QueueMedia \/ Route \/ RouteUnexpected
  \/ ReaderExcept \/ ReaderFail

Consumer == StartReceive \/ Take \/ ReturnBatch

Closer == CloseStop \/ CloseSocket \/ CloseJoin \/ CloseJoinTimeout

Next == (\E c \in Requests : Caller(c)) \/ Reader \/ KeepaliveFails \/ Consumer \/ Closer

Spec == Init /\ [][Next]_vars

-----------------------------------------------------------------------------
(* Safety *)

(* A caller that has registered and has neither an answer nor an error is  *)
(* in _pending, where the next response or failure will find it: register, *)
(* the reader's pop, fail() and cancel() never lose one between them.      *)
NoStrandedCaller ==
  \A c \in Requests :
    call[c] \in {"registered", "waiting"} /\ ~Answered(c) => c \in pending

(* A failed stream holds no pending caller, and will accept none: register *)
(* looks at _error in the critical section in which fail() sets it, so no  *)
(* caller can slip in behind the failure and wait out its timeout.         *)
FailedStreamHasNoCaller == error # NoError => pending = {}

(* The table holds exactly the callers that a response or a failure has    *)
(* still to reach.                                                         *)
CallersAreTracked == NoStrandedCaller /\ FailedStreamHasNoCaller

(* Whatever ends a caller's wait is its own answer or the first failure of *)
(* the stream, never both, and a failure that came later (the reader, the  *)
(* keepalive thread, close()) never replaces the first one.                *)
OneAnswerOrFirstError ==
  \A c \in Requests :
    /\ ~(response[c] # None /\ err[c] # NoError)
    /\ response[c] \in {c, None}
    /\ err[c] \in {NoError, error}
    /\ outcome[c] = "response" => response[c] = c
    /\ outcome[c] = "error" => err[c] = error /\ error # NoError

(* The stream is failed for an unexpected CSeq only when the recorder has  *)
(* sent a response that it did not owe (a second one, or one whose CSeq no *)
(* request that it was sent has), or a caller has given up on one: because *)
(* a request is registered before it is sent, and popped in one critical   *)
(* section, a response that is owed and waited for always finds its caller.*)
Excused == strayed \/ \E c \in Requests : outcome[c] = "timeout"

UnexpectedIsExcused == error = "unexpected" => Excused

(* Closing is not a failure: the error the reader gets from the socket     *)
(* that close() shut down is never reported, because _stop is set before   *)
(* the socket is touched and read after the error is caught.               *)
CloseIsNotAFailure == error # "local"

(* The reader never ends in silence: when its thread is gone, the stream   *)
(* is stopping or has an error for every later caller and receiver.        *)
DeadReaderIsVisible == reader = "exited" => stop \/ error # NoError

(* The reader's end tells a close from a failure, and is never silent.     *)
ReaderEndIsHonest == CloseIsNotAFailure /\ DeadReaderIsVisible

(* The queue is the newest packets, contiguous and in order: a full queue  *)
(* loses only its oldest packet.                                           *)
QueueHoldsNewest ==
  /\ Len(media) <= Capacity /\ Len(media) <= arrived
  /\ \A i \in 1..Len(media) : media[i] = arrived - Len(media) + i

(* media_queue_drops accounts for every packet that did not reach the      *)
(* consumer, and the high-water mark reached the capacity before any loss. *)
DropsAccountForLosses ==
  /\ arrived = taken + drops + Len(media)
  /\ drops > 0 => highWater = Capacity
  /\ Len(media) <= highWater /\ highWater <= Capacity

(* Seen through its two counters, a bounded queue is exact: what it holds  *)
(* is the newest run of packets, and whatever is neither there nor with    *)
(* the consumer has been counted as dropped, after the queue was full.     *)
QueueIsExact == QueueHoldsNewest /\ DropsAccountForLosses

(* The packets of a track are returned in the order of their arrival, each *)
(* at most once, over any number of receive windows, and the queue holds   *)
(* only later ones.                                                        *)
DeliveryInOrder ==
  LET out == delivered \o batch \o media IN
  \A i, j \in 1..Len(out) : i < j => out[i] < out[j]

-----------------------------------------------------------------------------
(* The inductive invariant behind the safety properties.                   *)

(* The reader: what it holds and handles, and why it may have ended.       *)
ReaderInv ==
  /\ reader = "response" <=> held \in Requests
  /\ reader \in {"except", "fail"} => exc # NoError
  /\ reader = "fail" => exc # "local"
  /\ exc = "local" => stop
  /\ closer # "open" => stop
  /\ sock = "closed" => closer # "open"
  /\ CloseIsNotAFailure
  /\ DeadReaderIsVisible

(* The table of callers: who is in it is unanswered and still interested.  *)
CallInv ==
  /\ \A c \in Requests :
       /\ c \in pending => ~Answered(c) /\ call[c] \in {"registered", "waiting", "cancelling"}
       /\ call[c] = "new" => ~Answered(c)
       /\ call[c] \in {"new", "registered", "waiting"} => outcome[c] = "none"
       /\ call[c] = "cancelling" => outcome[c] \in {"timeout", "send_error"}
  /\ NoStrandedCaller
  /\ FailedStreamHasNoCaller
  /\ OneAnswerOrFirstError

(* The wire: a response that is due belongs to a request that was sent;    *)
(* so does one in the reader's hands, and one that was given, unless the   *)
(* recorder has strayed; and if nobody expects it there is an excuse, or   *)
(* the stream has failed already.                                          *)
WireInv ==
  /\ \A c \in Requests :
       /\ call[c] \in {"new", "registered"} \/ outcome[c] = "send_error" => c \notin owed
       /\ call[c] \in {"new", "registered"} => strayed \/ (held # c /\ response[c] = None)
       /\ held = c /\ (outcome[c] = "send_error" \/ c \in owed) => strayed
       /\ (c \in owed \/ held = c) /\ c \notin pending => Excused \/ error # NoError
  /\ exc = "unexpected" => Excused \/ error # NoError
  /\ UnexpectedIsExcused

IInv == TypeOK /\ ReaderInv /\ CallInv /\ WireInv

-----------------------------------------------------------------------------
(* Action properties *)

(* _error is set once; no thread overwrites or clears it.                  *)
FirstErrorIsKept == [][error # NoError => error' = error]_vars

(* Once the stream has failed, a response the reader takes off the wire is *)
(* not delivered to anyone.                                                *)
NoResponseAfterFailure == [][error # NoError => response' = response]_vars

-----------------------------------------------------------------------------
(* Refinement *)

(* A request as CallTable sees it.                                         *)
StatusOf(c) ==
  IF c \in pending THEN "open"
  ELSE IF response[c] # None THEN "answered"
  ELSE IF err[c] # NoError THEN "failed"
  ELSE IF call[c] = "new" THEN "idle"
  ELSE IF outcome[c] = "refused" THEN "refused"
  ELSE "abandoned"

Table == INSTANCE CallTable WITH
  status <- [c \in Requests |-> StatusOf(c)],
  failed <- error # NoError

(* The condition variable makes the reader, the keepalive thread, close()  *)
(* and the callers together behave as the table of open requests.          *)
ImplementsCallTable == Table!Spec

-----------------------------------------------------------------------------
(* Liveness *)

(* Every thread keeps being scheduled; a caller's timeout need not expire. *)
ThreadFairness ==
  /\ WF_vars(Reader)
  /\ WF_vars(CloseSocket) /\ WF_vars(CloseJoin)
  /\ \A c \in Requests :
       WF_vars(Wake(c)) /\ WF_vars(Cancel(c)) /\ WF_vars(Send(c) \/ SendFails(c))

FairSpec == Spec /\ ThreadFairness

(* When the reader dies with an error every caller is woken by the failure *)
(* itself, without having to wait for its own timeout.                     *)
FailureReachesCallers ==
  \A c \in Requests :
    (reader = "fail" /\ call[c] \in {"registered", "waiting"}) ~> call[c] = "done"

(* close() comes back, and finds the reader gone unless its join expired.  *)
CloseEnds == (closer = "stopped") ~> (closer = "closed")

(* The timeout of every wait runs out.                                     *)
TimeoutsExpire ==
  WF_vars(CloseJoinTimeout) /\ \A c \in Requests : WF_vars(TimeoutWait(c))

(* When timeouts do run out every request ends, answered or not, whatever  *)
(* the recorder, the reader and the closing thread do: in particular a     *)
(* caller that close() leaves pending, which nobody wakes.                 *)
RequestsEnd ==
  TimeoutsExpire => \A c \in Requests : (call[c] = "registered") ~> (call[c] = "done")
=============================================================================
