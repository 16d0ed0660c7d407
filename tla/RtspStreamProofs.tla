-------------------------- MODULE RtspStreamProofs --------------------------
(* Theorems about RtspStream, for every set of requests and every bound,    *)
(* and about RtspFraming, for every wire.                                  *)
EXTENDS RtspStream, RtspFraming, WellFoundedInduction, TLAPS

(* Every step keeps the types of the variables of callers and reader.      *)
LEMMA CallTypesStep ==
  ASSUME CallTypes, [Next]_vars PROVE CallTypes'
<1> USE DEF CallTypes, NoError, Errors, CallStates, Outcomes, readerVars, streamVars,
        callVars, replyVars, wireVars, queueVars, takeVars
<1>1. ASSUME NEW c \in Requests, Caller(c) PROVE CallTypes'
  <2>1. CASE Register(c) BY <2>1 DEF Register
  <2>2. CASE RegisterRefused(c) BY <2>2 DEF RegisterRefused, Finish
  <2>3. CASE Send(c) BY <2>3 DEF Send
  <2>4. CASE SendFails(c) BY <2>4 DEF SendFails
  <2>5. CASE TimeoutWait(c) BY <2>5 DEF TimeoutWait
  <2>6. CASE Cancel(c) BY <2>6 DEF Cancel
  <2>7. CASE Wake(c) BY <2>7 DEF Wake, Finish
  <2>8. QED BY <1>1, <2>1, <2>2, <2>3, <2>4, <2>5, <2>6, <2>7 DEF Caller
<1>2. CASE Reader
  <2>1. CASE ReaderCheck BY <2>1 DEF ReaderCheck
  <2>2. CASE ReadNothing BY <2>2 DEF ReadNothing
  <2>3. CASE ReadMedia BY <2>3 DEF ReadMedia
  <2>4. ASSUME NEW c \in Requests, ReadResponse(c) PROVE CallTypes'
    BY <2>4 DEF ReadResponse
  <2>5. ASSUME NEW c \in Requests, ReadStray(c) PROVE CallTypes'
    BY <2>5 DEF ReadStray
  <2>6. CASE ReadFault BY <2>6 DEF ReadFault
  <2>7. CASE ReadClosed BY <2>7 DEF ReadClosed
  <2>8. CASE QueueMedia BY <2>8 DEF QueueMedia
  <2>9. CASE Route BY <2>9 DEF Route
  <2>10. CASE RouteUnexpected BY <2>10 DEF RouteUnexpected
  <2>11. CASE ReaderExcept BY <2>11 DEF ReaderExcept
  <2>12. CASE ReaderFail BY <2>12 DEF ReaderFail, FailStream
  <2>13. QED BY <1>2, <2>1, <2>2, <2>3, <2>4, <2>5, <2>6, <2>7, <2>8, <2>9, <2>10, <2>11, <2>12 DEF Reader
<1>3. CASE KeepaliveFails
  BY <1>3 DEF KeepaliveFails, FailStream
<1>4. CASE Consumer
  BY <1>4 DEF Consumer, StartReceive, Take, ReturnBatch
<1>5. CASE Closer
  <2>1. CASE CloseStop BY <2>1 DEF CloseStop
  <2>2. CASE CloseSocket BY <2>2 DEF CloseSocket
  <2>3. CASE CloseJoin BY <2>3 DEF CloseJoin
  <2>4. CASE CloseJoinTimeout BY <2>4 DEF CloseJoinTimeout, FailStream
  <2>5. QED BY <1>5, <2>1, <2>2, <2>3, <2>4 DEF Closer
<1>6. CASE UNCHANGED vars
  BY <1>6 DEF vars
<1>7. QED BY <1>1, <1>2, <1>3, <1>4, <1>5, <1>6 DEF Next

(* Every step keeps the types of the queue and of the consumer.            *)
LEMMA QueueTypesStep ==
  ASSUME QueueTypes, [Next]_vars PROVE QueueTypes'
<1> USE DEF QueueTypes, readerVars, streamVars, callVars, replyVars, wireVars, queueVars, takeVars
<1>1. ASSUME NEW c \in Requests, Caller(c) PROVE UNCHANGED <<queueVars, takeVars>>
  BY <1>1 DEF Caller, Register, RegisterRefused, Send, SendFails, TimeoutWait, Cancel, Wake
<1>2. CASE Reader
  <2>1. CASE QueueMedia
    <3> DEFINE kept == IF Len(media) = Capacity THEN Tail(media) ELSE media
               longer == Append(kept, arrived + 1)
    <3>1. Len(media) = Capacity => media # <<>>
      BY CapacityAssumption
    <3>2. kept \in Seq(Nat)
      BY <3>1
    <3>3. longer \in Seq(Nat) /\ Len(longer) \in Nat
      BY <3>2
    <3>4. media' = longer /\ arrived' = arrived + 1
      BY <2>1 DEF QueueMedia
    <3>5. /\ highWater' = IF Len(longer) > highWater THEN Len(longer) ELSE highWater
          /\ drops' = IF Len(media) = Capacity THEN drops + 1 ELSE drops
      BY <2>1 DEF QueueMedia
    <3>6. UNCHANGED <<consumer, batch, delivered, taken>>
      BY <2>1 DEF QueueMedia
    <3> HIDE DEF longer
    <3>7. QED BY <3>3, <3>4, <3>5, <3>6
  <2>2. CASE ~QueueMedia
    <3>1. UNCHANGED <<queueVars, takeVars>>
      BY <1>2, <2>2 DEF Reader, ReaderCheck, ReadNothing, ReadMedia, ReadResponse, ReadStray, ReadFault,
         ReadClosed, Route, RouteUnexpected, ReaderExcept, ReaderFail
    <3>2. QED BY <3>1
  <2>3. QED BY <2>1, <2>2
<1>3. CASE KeepaliveFails
  BY <1>3 DEF KeepaliveFails
<1>4. CASE Consumer
  <2>1. CASE StartReceive BY <2>1 DEF StartReceive
  <2>2. CASE Take BY <2>2 DEF Take
  <2>3. CASE ReturnBatch BY <2>3 DEF ReturnBatch
  <2>4. QED BY <1>4, <2>1, <2>2, <2>3 DEF Consumer
<1>5. CASE Closer
  BY <1>5 DEF Closer, CloseStop, CloseSocket, CloseJoin, CloseJoinTimeout
<1>6. CASE UNCHANGED vars
  BY <1>6 DEF vars
<1>7. QED BY <1>1, <1>2, <1>3, <1>4, <1>5, <1>6 DEF Next

(* The variables hold what they are meant to hold, in every behaviour.     *)
THEOREM TypeCorrect == Spec => []TypeOK
<1>1. Init => CallTypes
  BY DEF Init, CallTypes, CallStates, Outcomes
<1>2. Init => QueueTypes
  <2>1. Init => media \in Seq(Nat) /\ batch \in Seq(Nat) /\ delivered \in Seq(Nat)
    BY DEF Init
  <2>2. Init => arrived \in Nat /\ drops \in Nat /\ highWater \in Nat /\ taken \in Nat
    BY DEF Init
  <2>3. QED BY <2>1, <2>2 DEF Init, QueueTypes
<1>3. TypeOK /\ [Next]_vars => TypeOK'
  BY CallTypesStep, QueueTypesStep DEF TypeOK
<1>4. QED BY <1>1, <1>2, <1>3, PTL DEF Spec, TypeOK

-----------------------------------------------------------------------------
(* The reader's own invariant: why it ends, and with which exception.      *)
LEMMA ReaderInvStep ==
  ASSUME TypeOK, ReaderInv, [Next]_vars PROVE ReaderInv'
<1> USE NoneAssumption DEF TypeOK, CallTypes, ReaderInv, CloseIsNotAFailure, DeadReaderIsVisible,
        NoError, Errors, readerVars, streamVars, callVars, replyVars, wireVars, queueVars, takeVars
<1>1. ASSUME NEW c \in Requests, Caller(c) PROVE ReaderInv'
  BY <1>1 DEF Caller, Register, RegisterRefused, Send, SendFails, TimeoutWait, Cancel, Wake
<1>2. CASE Reader
  <2>1. CASE ReaderCheck BY <2>1 DEF ReaderCheck
  <2>2. CASE ReadNothing BY <2>2 DEF ReadNothing
  <2>3. CASE ReadMedia BY <2>3 DEF ReadMedia
  <2>4. ASSUME NEW c \in Requests, ReadResponse(c) \/ ReadStray(c) PROVE ReaderInv'
    BY <2>4 DEF ReadResponse, ReadStray
  <2>5. CASE ReadFault BY <2>5 DEF ReadFault
  <2>6. CASE ReadClosed BY <2>6 DEF ReadClosed
  <2>7. CASE QueueMedia BY <2>7 DEF QueueMedia
  <2>8. CASE Route BY <2>8 DEF Route
  <2>9. CASE RouteUnexpected BY <2>9 DEF RouteUnexpected
  <2>10. CASE ReaderExcept BY <2>10 DEF ReaderExcept
  <2>11. CASE ReaderFail BY <2>11 DEF ReaderFail, FailStream
  <2>12. QED BY <1>2, <2>1, <2>2, <2>3, <2>4, <2>5, <2>6, <2>7, <2>8, <2>9, <2>10, <2>11 DEF Reader
<1>3. CASE KeepaliveFails
  BY <1>3 DEF KeepaliveFails, FailStream
<1>4. CASE Consumer
  BY <1>4 DEF Consumer, StartReceive, Take, ReturnBatch
<1>5. CASE Closer
  <2>1. CASE CloseStop BY <2>1 DEF CloseStop
  <2>2. CASE CloseSocket BY <2>2 DEF CloseSocket
  <2>3. CASE CloseJoin BY <2>3 DEF CloseJoin
  <2>4. CASE CloseJoinTimeout BY <2>4 DEF CloseJoinTimeout, FailStream
  <2>5. QED BY <1>5, <2>1, <2>2, <2>3, <2>4 DEF Closer
<1>6. CASE UNCHANGED vars
  BY <1>6 DEF vars
<1>7. QED BY <1>1, <1>2, <1>3, <1>4, <1>5, <1>6 DEF Next

(* fail() settles every pending caller: what the table's invariant needs.  *)
LEMMA FailKeepsCallInv ==
  ASSUME TypeOK, CallInv, NEW e \in Errors, FailStream(e), UNCHANGED <<callVars, response>>
  PROVE  CallInv'
<1> USE NoneAssumption DEF TypeOK, CallTypes, CallInv, Answered, NoStrandedCaller, FailedStreamHasNoCaller,
        OneAnswerOrFirstError, NoError, Errors, CallStates, callVars
<1> DEFINE first == IF error = NoError THEN e ELSE error
<1>1. /\ error' = first /\ first \in Errors /\ first # NoError
      /\ pending' = {}
      /\ \A c \in Requests : err'[c] = IF c \in pending THEN first ELSE err[c]
  BY DEF FailStream
<1>2. \A c \in Requests : err[c] \in {NoError, first}
  OBVIOUS
<1> HIDE DEF first
<1>3. QED BY <1>1, <1>2

(* The table of callers.                                                   *)
LEMMA CallInvStep ==
  ASSUME IInv, [Next]_vars PROVE CallInv'
<1> USE NoneAssumption DEF IInv
<1>0. TypeOK /\ ReaderInv /\ CallInv /\ WireInv
  OBVIOUS
<1>1. ASSUME NEW c \in Requests, Caller(c) PROVE CallInv'
  <2> USE DEF TypeOK, CallTypes, CallInv, Answered, NoStrandedCaller, FailedStreamHasNoCaller,
          OneAnswerOrFirstError, NoError, Errors, CallStates, Outcomes,
          readerVars, streamVars, callVars, replyVars
  <2>1. CASE Register(c) BY <2>1 DEF Register
  <2>2. CASE RegisterRefused(c) BY <2>2 DEF RegisterRefused, Finish
  <2>3. CASE Send(c) BY <2>3 DEF Send
  <2>4. CASE SendFails(c) BY <2>4 DEF SendFails
  <2>5. CASE TimeoutWait(c) BY <2>5 DEF TimeoutWait
  <2>6. CASE Cancel(c) BY <2>6 DEF Cancel
  <2>7. CASE Wake(c) BY <2>7 DEF Wake, Finish
  <2>8. QED BY <1>1, <2>1, <2>2, <2>3, <2>4, <2>5, <2>6, <2>7 DEF Caller
<1>2. CASE Route
  BY <1>0, <1>2 DEF Route, TypeOK, CallTypes, CallInv, Answered, NoStrandedCaller, FailedStreamHasNoCaller,
     OneAnswerOrFirstError, NoError, Errors, callVars, ReaderInv
<1>3. CASE ReaderFail
  <2>1. exc \in Errors
    BY <1>0, <1>3 DEF ReaderFail, ReaderInv, TypeOK, CallTypes
  <2>2. QED BY <1>0, <1>3, <2>1, FailKeepsCallInv DEF ReaderFail
<1>4. CASE KeepaliveFails
  BY <1>0, <1>4, FailKeepsCallInv DEF KeepaliveFails, Errors
<1>5. CASE CloseJoinTimeout
  BY <1>0, <1>5, FailKeepsCallInv DEF CloseJoinTimeout, Errors
<1>6. ASSUME UNCHANGED <<pending, error, callVars, replyVars>> PROVE CallInv'
  BY <1>0, <1>6 DEF CallInv, Answered, NoStrandedCaller, FailedStreamHasNoCaller,
     OneAnswerOrFirstError, callVars, replyVars
<1>7. CASE Reader /\ ~Route /\ ~ReaderFail
  BY <1>6, <1>7 DEF Reader, ReaderCheck, ReadNothing, ReadMedia, ReadResponse, ReadStray, ReadFault,
     ReadClosed, QueueMedia, RouteUnexpected, ReaderExcept, streamVars
<1>8. CASE Consumer
  BY <1>6, <1>8 DEF Consumer, StartReceive, Take, ReturnBatch, streamVars
<1>9. CASE Closer /\ ~CloseJoinTimeout
  BY <1>6, <1>9 DEF Closer, CloseStop, CloseSocket, CloseJoin
<1>10. CASE UNCHANGED vars
  BY <1>6, <1>10 DEF vars, streamVars
<1>11. QED BY <1>1, <1>2, <1>3, <1>4, <1>5, <1>7, <1>8, <1>9, <1>10 DEF Next

(* fail() excuses every response that is still to come.                    *)
LEMMA FailKeepsWireInv ==
  ASSUME IInv, NEW e \in Errors, FailStream(e), e = "unexpected" => e = exc,
         UNCHANGED <<held, exc, callVars, response, wireVars>>
  PROVE  WireInv'
<1> USE DEF IInv, TypeOK, CallTypes, WireInv, Excused, UnexpectedIsExcused, NoError, Errors,
        callVars, wireVars, CallStates
<1>1. error' # NoError /\ (error' = "unexpected" => error = "unexpected" \/ (error = NoError /\ e = "unexpected"))
  BY DEF FailStream
<1>2. Excused' = Excused
  OBVIOUS
<1>3. QED BY <1>1, <1>2

(* The wire: a response nobody expects has an excuse.                      *)
LEMMA WireInvStep ==
  ASSUME IInv, [Next]_vars PROVE WireInv'
<1> USE NoneAssumption
<1>0. TypeOK /\ ReaderInv /\ CallInv /\ WireInv
  BY DEF IInv
<1>1. ASSUME NEW c \in Requests, Caller(c) PROVE WireInv'
  <2> USE <1>0 DEF TypeOK, CallTypes, WireInv, Excused, UnexpectedIsExcused, NoError, Errors,
          CallStates, Outcomes, readerVars, streamVars, callVars, replyVars, wireVars
  <2>1. CASE Register(c) BY <2>1 DEF Register
  <2>2. CASE RegisterRefused(c)
    BY <2>2 DEF RegisterRefused, Finish, CallInv
  <2>3. CASE Send(c)
    <3>1. c \in pending \/ error # NoError \/ strayed
      BY <2>3 DEF Send, CallInv, NoStrandedCaller, OneAnswerOrFirstError, Answered
    <3>2. outcome[c] = "none"
      BY <2>3 DEF Send, CallInv
    <3>3. QED BY <2>3, <3>1, <3>2 DEF Send
  <2>4. CASE SendFails(c)
    BY <2>4 DEF SendFails, CallInv
  <2>5. CASE TimeoutWait(c)
    <3>1. Excused'
      BY <2>5 DEF TimeoutWait
    <3>2. QED BY <2>5, <3>1 DEF TimeoutWait
  <2>6. CASE Cancel(c)
    <3>1. outcome[c] = "timeout" \/ (c \notin owed /\ (held # c \/ strayed))
      BY <2>6 DEF Cancel, CallInv
    <3>2. QED BY <2>6, <3>1 DEF Cancel
  <2>7. CASE Wake(c)
    BY <2>7 DEF Wake, Finish, CallInv
  <2>8. QED BY <1>1, <2>1, <2>2, <2>3, <2>4, <2>5, <2>6, <2>7 DEF Caller
<1>2. CASE Reader
  <2> USE <1>0 DEF TypeOK, CallTypes, WireInv, Excused, UnexpectedIsExcused, NoError, Errors,
          CallStates, streamVars, callVars, replyVars, wireVars
  <2>1. CASE ReaderCheck BY <2>1 DEF ReaderCheck
  <2>2. CASE ReadNothing BY <2>2 DEF ReadNothing
  <2>3. CASE ReadMedia BY <2>3 DEF ReadMedia
  <2>4. ASSUME NEW c \in Requests, ReadResponse(c) PROVE WireInv'
    BY <2>4 DEF ReadResponse
  <2>5. ASSUME NEW c \in Requests, ReadStray(c) PROVE WireInv'
    BY <2>5 DEF ReadStray
  <2>6. CASE ReadFault BY <2>6 DEF ReadFault
  <2>7. CASE ReadClosed BY <2>7 DEF ReadClosed
  <2>8. CASE QueueMedia BY <2>8 DEF QueueMedia
  <2>9. CASE Route BY <2>9 DEF Route, ReaderInv
  <2>10. CASE RouteUnexpected BY <2>10 DEF RouteUnexpected, ReaderInv
  <2>11. CASE ReaderExcept BY <2>11 DEF ReaderExcept
  <2>12. CASE ReaderFail
    <3>1. exc \in Errors
      BY <2>12 DEF ReaderFail, ReaderInv
    <3>2. QED BY <2>12, <3>1, FailKeepsWireInv DEF ReaderFail, IInv
  <2>13. QED BY <1>2, <2>1, <2>2, <2>3, <2>4, <2>5, <2>6, <2>7, <2>8, <2>9, <2>10, <2>11, <2>12 DEF Reader
<1>3. CASE KeepaliveFails
  BY <1>3, FailKeepsWireInv DEF KeepaliveFails, Errors, readerVars
<1>4. CASE CloseJoinTimeout
  BY <1>4, FailKeepsWireInv DEF CloseJoinTimeout, Errors, readerVars
<1>5. ASSUME UNCHANGED <<pending, error, readerVars, callVars, replyVars, wireVars>> PROVE WireInv'
  BY <1>0, <1>5 DEF WireInv, Excused, UnexpectedIsExcused, readerVars, callVars, replyVars, wireVars
<1>6. CASE Consumer
  BY <1>5, <1>6 DEF Consumer, StartReceive, Take, ReturnBatch, streamVars
<1>7. CASE Closer /\ ~CloseJoinTimeout
  BY <1>5, <1>7 DEF Closer, CloseStop, CloseSocket, CloseJoin
<1>8. CASE UNCHANGED vars
  BY <1>5, <1>8 DEF vars, streamVars
<1>9. QED BY <1>1, <1>2, <1>3, <1>4, <1>6, <1>7, <1>8 DEF Next

(* IInv is an inductive invariant.                                         *)
LEMMA Invariance == Spec => []IInv
<1>1. Init => ReaderInv
  BY NoneAssumption DEF Init, ReaderInv, CloseIsNotAFailure, DeadReaderIsVisible, NoError
<1>2. Init => CallInv
  BY DEF Init, CallInv, Answered, NoStrandedCaller, FailedStreamHasNoCaller, OneAnswerOrFirstError, NoError
<1>3. Init => WireInv
  BY NoneAssumption DEF Init, WireInv, UnexpectedIsExcused, NoError
<1>4. TypeOK /\ IInv /\ [Next]_vars => (ReaderInv /\ CallInv /\ WireInv)'
  BY ReaderInvStep, CallInvStep, WireInvStep DEF IInv
<1>5. QED BY <1>1, <1>2, <1>3, <1>4, TypeCorrect, PTL DEF Spec, IInv

(* Of any number of requests, none is ever stranded by the others, by a    *)
(* failure or by close(): who waits unanswered is in _pending, and a       *)
(* failed stream has nobody in it.                                         *)
THEOREM CallersAreSafe == Spec => []CallersAreTracked
<1>1. IInv => CallersAreTracked
  BY DEF IInv, CallInv, CallersAreTracked
<1>2. QED BY <1>1, Invariance, PTL

(* Each request ends with its own answer or the first error of the stream, *)
(* never both.                                                             *)
THEOREM AnswersAreOwn == Spec => []OneAnswerOrFirstError
<1>1. IInv => OneAnswerOrFirstError
  BY DEF IInv, CallInv
<1>2. QED BY <1>1, Invariance, PTL

(* The stream never fails for an unexpected CSeq of its own making: the    *)
(* recorder sent a response that it did not owe, or a caller gave up.      *)
THEOREM NoUnexpectedWithoutExcuse == Spec => []UnexpectedIsExcused
<1>1. IInv => UnexpectedIsExcused
  BY DEF IInv, WireInv
<1>2. QED BY <1>1, Invariance, PTL

(* The reader's thread never ends unseen, nor takes a close for a failure. *)
THEOREM ReaderEndsHonestly == Spec => []ReaderEndIsHonest
<1>1. IInv => ReaderEndIsHonest
  BY DEF IInv, ReaderInv, ReaderEndIsHonest
<1>2. QED BY <1>1, Invariance, PTL

(* _error is set once.                                                     *)
THEOREM ErrorIsKept == Spec => FirstErrorIsKept
<1>1. [Next]_vars => [error # NoError => error' = error]_vars
  <2> SUFFICES ASSUME Next, error # NoError PROVE error' = error
    OBVIOUS
  <2> USE DEF readerVars, streamVars, callVars
  <2>1. ASSUME NEW e, FailStream(e) PROVE error' = error
    BY <2>1 DEF FailStream
  <2>2. ASSUME NEW c \in Requests, Caller(c) PROVE error' = error
    BY <2>2 DEF Caller, Register, RegisterRefused, Send, SendFails, TimeoutWait, Cancel, Wake
  <2>3. CASE Reader
    BY <2>1, <2>3 DEF Reader, ReaderCheck, ReadNothing, ReadMedia, ReadResponse, ReadStray, ReadFault,
       ReadClosed, QueueMedia, Route, RouteUnexpected, ReaderExcept, ReaderFail
  <2>4. CASE KeepaliveFails
    BY <2>1, <2>4 DEF KeepaliveFails
  <2>5. CASE Consumer
    BY <2>5 DEF Consumer, StartReceive, Take, ReturnBatch
  <2>6. CASE Closer
    BY <2>1, <2>6 DEF Closer, CloseStop, CloseSocket, CloseJoin, CloseJoinTimeout
  <2>7. QED BY <2>2, <2>3, <2>4, <2>5, <2>6 DEF Next
<1>2. QED BY <1>1, PTL DEF Spec, FirstErrorIsKept

(* A failed stream delivers nothing: the reader finds the table empty.     *)
THEOREM FailedStreamIsSilent == Spec => NoResponseAfterFailure
<1>1. IInv /\ [Next]_vars => [error # NoError => response' = response]_vars
  <2> SUFFICES ASSUME IInv, Next, error # NoError PROVE response' = response
    OBVIOUS
  <2> USE DEF replyVars
  <2>1. ~Route
    BY DEF Route, IInv, CallInv, FailedStreamHasNoCaller
  <2>2. ASSUME NEW c \in Requests, Caller(c) PROVE response' = response
    BY <2>2 DEF Caller, Register, RegisterRefused, Send, SendFails, TimeoutWait, Cancel, Wake
  <2>3. CASE Reader
    BY <2>1, <2>3 DEF Reader, ReaderCheck, ReadNothing, ReadMedia, ReadResponse, ReadStray, ReadFault,
       ReadClosed, QueueMedia, RouteUnexpected, ReaderExcept, ReaderFail
  <2>4. CASE KeepaliveFails
    BY <2>4 DEF KeepaliveFails
  <2>5. CASE Consumer
    BY <2>5 DEF Consumer, StartReceive, Take, ReturnBatch
  <2>6. CASE Closer
    BY <2>6 DEF Closer, CloseStop, CloseSocket, CloseJoin, CloseJoinTimeout
  <2>7. QED BY <2>2, <2>3, <2>4, <2>5, <2>6 DEF Next
<1>2. QED BY <1>1, Invariance, PTL DEF Spec, NoResponseAfterFailure

-----------------------------------------------------------------------------
(* fail() is Fail of the abstract table the first time, and nothing later. *)
LEMMA FailRefines ==
  ASSUME IInv, NEW e \in Errors, FailStream(e), UNCHANGED <<callVars, response>>
  PROVE  Table!Fail \/ UNCHANGED <<[c \in Requests |-> StatusOf(c)], error # NoError>>
<1> USE DEF IInv, TypeOK, CallTypes, CallInv, Answered, FailedStreamHasNoCaller, OneAnswerOrFirstError,
        NoError, Errors, callVars
<1> DEFINE st == [c \in Requests |-> StatusOf(c)]
<1>1. CASE error = NoError
  <2>1. error' = e /\ e # NoError /\ pending' = {}
    BY <1>1 DEF FailStream
  <2>2. \A c \in Requests : c \in pending =>
          /\ StatusOf(c) = "open" /\ StatusOf(c)' = "failed"
    BY <1>1, <2>1 DEF FailStream, StatusOf
  <2>3. \A c \in Requests : c \notin pending => StatusOf(c)' = StatusOf(c) /\ StatusOf(c) # "open"
    BY <1>1, <2>1 DEF FailStream, StatusOf
  <2>4. \A c \in Requests : StatusOf(c)' = IF st[c] = "open" THEN "failed" ELSE st[c]
    BY <2>2, <2>3
  <2>5. st' = [c \in Requests |-> IF st[c] = "open" THEN "failed" ELSE st[c]]
    BY <2>4
  <2>6. Table!Fail
    BY <1>1, <2>1, <2>5 DEF Table!Fail
  <2>7. QED BY <2>6
<1>2. CASE error # NoError
  <2>1. pending = {} /\ pending' = {} /\ error' = error
    BY <1>2 DEF FailStream
  <2>2. \A c \in Requests : err'[c] = err[c]
    BY <2>1 DEF FailStream
  <2>3. \A c \in Requests : StatusOf(c)' = StatusOf(c)
    BY <2>1, <2>2 DEF StatusOf
  <2>4. QED BY <2>1, <2>3
<1>3. QED BY <1>1, <1>2

(* One status changes and the others do not.                               *)
LEMMA OneStatus ==
  ASSUME NEW c \in Requests, NEW s,
         StatusOf(c)' = s,
         \A d \in Requests \ {c} : StatusOf(d)' = StatusOf(d)
  PROVE  [d \in Requests |-> StatusOf(d)]' = [[d \in Requests |-> StatusOf(d)] EXCEPT ![c] = s]
OBVIOUS

(* The stream implements the table of open requests (CallTable).           *)
THEOREM StreamImplementsTable == Spec => ImplementsCallTable
<1> DEFINE st == [c \in Requests |-> StatusOf(c)]
           av == <<st, error # NoError>>
<1>1. Init => Table!Init
  BY DEF Init, Table!Init, StatusOf, NoError
<1>2. IInv /\ [Next]_vars => [Table!Next]_av
  <2> SUFFICES ASSUME IInv, [Next]_vars PROVE Table!Next \/ UNCHANGED av
    BY DEF Table!Next
  <2>1. ASSUME UNCHANGED <<pending, error, callVars, replyVars>> PROVE UNCHANGED av
    BY <2>1 DEF StatusOf, callVars, replyVars
  <2>2. ASSUME NEW c \in Requests, Caller(c) PROVE Table!Next \/ UNCHANGED av
    <3> USE DEF IInv, TypeOK, CallTypes, CallInv, Answered, CallStates, Outcomes, NoError, Errors,
            callVars, replyVars, streamVars
    <3>1. CASE Register(c)
      <4>1. st[c] = "idle" /\ StatusOf(c)' = "open" /\ \A d \in Requests \ {c} : StatusOf(d)' = StatusOf(d)
        BY <3>1 DEF Register, StatusOf
      <4>2. st' = [st EXCEPT ![c] = "open"]
        BY <4>1, OneStatus
      <4>3. Table!Open(c)
        BY <3>1, <4>1, <4>2 DEF Register, Table!Open, Table!Become
      <4>4. QED BY <4>3 DEF Table!Next
    <3>2. CASE RegisterRefused(c)
      <4>1. st[c] = "idle" /\ StatusOf(c)' = "refused" /\ \A d \in Requests \ {c} : StatusOf(d)' = StatusOf(d)
        BY <3>2 DEF RegisterRefused, Finish, StatusOf
      <4>2. st' = [st EXCEPT ![c] = "refused"]
        BY <4>1, OneStatus
      <4>3. Table!Refuse(c)
        BY <3>2, <4>1, <4>2 DEF RegisterRefused, Table!Refuse, Table!Become
      <4>4. QED BY <4>3 DEF Table!Next
    <3>3. CASE Cancel(c) /\ c \in pending
      <4>1. st[c] = "open" /\ StatusOf(c)' = "abandoned" /\ \A d \in Requests \ {c} : StatusOf(d)' = StatusOf(d)
        BY <3>3 DEF Cancel, StatusOf
      <4>2. st' = [st EXCEPT ![c] = "abandoned"]
        BY <4>1, OneStatus
      <4>3. Table!GiveUp(c)
        BY <3>3, <4>1, <4>2 DEF Cancel, Table!GiveUp, Table!Become
      <4>4. QED BY <4>3 DEF Table!Next
    <3>4. CASE Send(c) \/ SendFails(c) \/ TimeoutWait(c) \/ Wake(c) \/ (Cancel(c) /\ c \notin pending)
      <4>1. \A d \in Requests : StatusOf(d)' = StatusOf(d)
        BY <3>4 DEF Send, SendFails, TimeoutWait, Wake, Finish, Cancel, StatusOf
      <4>2. error' = error
        BY <3>4 DEF Send, SendFails, TimeoutWait, Wake, Finish, Cancel
      <4>3. QED BY <4>1, <4>2
    <3>5. QED BY <2>2, <3>1, <3>2, <3>3, <3>4 DEF Caller
  <2>3. CASE Route
    <3> USE DEF IInv, TypeOK, CallTypes, CallInv, ReaderInv, Answered, callVars
    <3>1. PICK c \in Requests : held = c
      BY <2>3 DEF Route
    <3>2. c \in pending /\ error = NoError /\ err[c] = NoError
      BY <2>3, <3>1 DEF Route, FailedStreamHasNoCaller
    <3>3. /\ pending' = pending \ {c} /\ response' = [response EXCEPT ![c] = c]
          /\ UNCHANGED <<err, call, outcome, error>>
      BY <2>3, <3>1 DEF Route
    <3>4. st[c] = "open" /\ StatusOf(c)' = "answered"
      BY <3>2, <3>3, NoneAssumption DEF StatusOf
    <3>5. \A d \in Requests \ {c} : StatusOf(d)' = StatusOf(d)
      BY <3>3 DEF StatusOf
    <3>6. st' = [st EXCEPT ![c] = "answered"]
      BY <3>4, <3>5, OneStatus
    <3>7. Table!Answer(c)
      BY <3>2, <3>3, <3>4, <3>6 DEF Table!Answer, Table!Become
    <3>8. QED BY <3>7 DEF Table!Next
  <2>4. ASSUME NEW e \in Errors, FailStream(e), UNCHANGED <<callVars, response>>
        PROVE  Table!Next \/ UNCHANGED av
    BY <2>4, FailRefines DEF Table!Next
  <2>5. CASE ReaderFail
    <3>1. exc \in Errors
      BY <2>5 DEF ReaderFail, IInv, ReaderInv, TypeOK, CallTypes
    <3>2. QED BY <2>4, <2>5, <3>1 DEF ReaderFail
  <2>6. CASE KeepaliveFails
    BY <2>4, <2>6 DEF KeepaliveFails, Errors
  <2>7. CASE CloseJoinTimeout
    BY <2>4, <2>7 DEF CloseJoinTimeout, Errors
  <2>8. CASE Reader /\ ~Route /\ ~ReaderFail
    BY <2>1, <2>8 DEF Reader, ReaderCheck, ReadNothing, ReadMedia, ReadResponse, ReadStray, ReadFault,
       ReadClosed, QueueMedia, RouteUnexpected, ReaderExcept, streamVars
  <2>9. CASE Consumer
    BY <2>1, <2>9 DEF Consumer, StartReceive, Take, ReturnBatch, streamVars
  <2>10. CASE Closer /\ ~CloseJoinTimeout
    BY <2>1, <2>10 DEF Closer, CloseStop, CloseSocket, CloseJoin
  <2>11. CASE UNCHANGED vars
    BY <2>1, <2>11 DEF vars, streamVars
  <2>12. QED BY <2>2, <2>3, <2>5, <2>6, <2>7, <2>8, <2>9, <2>10, <2>11 DEF Next
<1>3. QED BY <1>1, <1>2, Invariance, PTL DEF Spec, ImplementsCallTable, Table!Spec

-----------------------------------------------------------------------------
(* Appending with the oldest dropped when full keeps the newest packets.   *)
LEMMA QueueMediaStep ==
  ASSUME QueueTypes, QueueIsExact, QueueMedia PROVE QueueIsExact'
<1> USE CapacityAssumption DEF QueueTypes
<1>1. /\ \A i \in 1..Len(media) : media[i] = arrived - Len(media) + i
      /\ Len(media) <= arrived
  BY DEF QueueIsExact, QueueHoldsNewest
<1>2. /\ arrived = taken + drops + Len(media)
      /\ drops > 0 => highWater = Capacity
      /\ Len(media) <= highWater /\ highWater <= Capacity
  BY DEF QueueIsExact, DropsAccountForLosses
<1>3. CASE Len(media) = Capacity
  <2>1. media # <<>> /\ Tail(media) \in Seq(Nat) /\ Len(Tail(media)) = Capacity - 1
    BY <1>3
  <2>2. \A i \in 1..Len(Tail(media)) : Tail(media)[i] = media[i + 1]
    BY <2>1
  <2>3. /\ media' = Append(Tail(media), arrived + 1)
        /\ arrived' = arrived + 1 /\ drops' = drops + 1 /\ taken' = taken
        /\ highWater' = IF Len(media') > highWater THEN Len(media') ELSE highWater
    BY <1>3 DEF QueueMedia, takeVars
  <2>4. Len(media') = Capacity
    <3>1. Len(Append(Tail(media), arrived + 1)) = Len(Tail(media)) + 1
      BY <2>1
    <3>2. QED BY <2>1, <2>3, <3>1
  <2>5. ASSUME NEW i \in 1..Capacity PROVE media'[i] = arrived' - Capacity + i
    <3>1. CASE i = Capacity
      BY <2>1, <2>3, <3>1
    <3>2. CASE i < Capacity
      <4>1. media'[i] = Tail(media)[i]
        BY <2>1, <2>3, <3>2
      <4>2. Tail(media)[i] = media[i + 1] /\ i + 1 \in 1..Len(media)
        BY <1>3, <2>1, <2>2, <3>2
      <4>3. media[i + 1] = arrived - Capacity + (i + 1)
        BY <1>1, <1>3, <4>2
      <4>4. QED BY <2>3, <4>1, <4>2, <4>3
    <3>3. QED BY <3>1, <3>2
  <2>6. Len(media') <= arrived'
    BY <1>1, <1>3, <2>3, <2>4
  <2>7. highWater' = Capacity
    <3>1. highWater = Capacity
      BY <1>2, <1>3
    <3>2. QED BY <2>3, <2>4, <3>1
  <2>8. arrived' = taken' + drops' + Len(media')
    <3>1. arrived = taken + drops + Capacity
      BY <1>2, <1>3
    <3>2. arrived' = arrived + 1 /\ drops' = drops + 1 /\ taken' = taken
      BY <2>3
    <3>3. QED BY <2>4, <3>1, <3>2
  <2>9. QED BY <2>4, <2>5, <2>6, <2>7, <2>8 DEF QueueIsExact, QueueHoldsNewest, DropsAccountForLosses
<1>4. CASE Len(media) # Capacity
  <2>1. /\ media' = Append(media, arrived + 1)
        /\ arrived' = arrived + 1 /\ drops' = drops /\ taken' = taken
        /\ highWater' = IF Len(media') > highWater THEN Len(media') ELSE highWater
    BY <1>4 DEF QueueMedia, takeVars
  <2>2. Len(media') = Len(media) + 1 /\ Len(media) < Capacity
    BY <1>2, <1>4, <2>1
  <2>3. ASSUME NEW i \in 1..Len(media') PROVE media'[i] = arrived' - Len(media') + i
    <3>1. CASE i = Len(media')
      BY <2>1, <2>2, <3>1
    <3>2. CASE i # Len(media')
      <4>1. i \in 1..Len(media) /\ media'[i] = media[i]
        BY <2>1, <2>2, <3>2
      <4>2. media[i] = arrived - Len(media) + i
        BY <1>1, <4>1
      <4>3. QED BY <2>1, <2>2, <4>1, <4>2
    <3>3. QED BY <3>1, <3>2
  <2>4. Len(media') <= Capacity /\ Len(media') <= arrived'
    <3>1. Len(media) <= arrived
      BY <1>1
    <3>2. QED BY <2>1, <2>2, <3>1
  <2>5. /\ arrived' = taken' + drops' + Len(media')
        /\ drops' > 0 => highWater' = Capacity
        /\ Len(media') <= highWater' /\ highWater' <= Capacity
    <3>1. arrived' = taken' + drops' + Len(media')
      BY <1>2, <2>1, <2>2
    <3>2. QED BY <1>2, <2>1, <2>2, <3>1
  <2>6. QED BY <2>3, <2>4, <2>5 DEF QueueIsExact, QueueHoldsNewest, DropsAccountForLosses
<1>5. QED BY <1>3, <1>4

(* Taking the oldest packet leaves the newest ones.                        *)
LEMMA TakeStep ==
  ASSUME QueueTypes, QueueIsExact, Take PROVE QueueIsExact'
<1> USE CapacityAssumption DEF QueueTypes
<1>1. /\ \A i \in 1..Len(media) : media[i] = arrived - Len(media) + i
      /\ Len(media) <= Capacity /\ Len(media) <= arrived
  BY DEF QueueIsExact, QueueHoldsNewest
<1>2. /\ arrived = taken + drops + Len(media)
      /\ drops > 0 => highWater = Capacity
      /\ Len(media) <= highWater /\ highWater <= Capacity
  BY DEF QueueIsExact, DropsAccountForLosses
<1>3. /\ media # <<>> /\ media' = Tail(media) /\ taken' = taken + 1
      /\ UNCHANGED <<arrived, drops, highWater>>
  BY DEF Take
<1>4. Len(media') = Len(media) - 1
  BY <1>3
<1>5. ASSUME NEW i \in 1..Len(media') PROVE media'[i] = arrived' - Len(media') + i
  <2>1. media'[i] = media[i + 1] /\ i + 1 \in 1..Len(media)
    BY <1>3, <1>4
  <2>2. media[i + 1] = arrived - Len(media) + (i + 1)
    BY <1>1, <2>1
  <2>3. QED BY <1>3, <1>4, <2>1, <2>2
<1>6. Len(media') <= Capacity /\ Len(media') <= arrived'
  BY <1>1, <1>3, <1>4
<1>7. /\ arrived' = taken' + drops' + Len(media')
      /\ drops' > 0 => highWater' = Capacity
      /\ Len(media') <= highWater' /\ highWater' <= Capacity
  BY <1>2, <1>3, <1>4
<1>8. QED BY <1>5, <1>6, <1>7 DEF QueueIsExact, QueueHoldsNewest, DropsAccountForLosses

(* Whatever the capacity, a slow consumer loses only the oldest packets,   *)
(* and media_queue_drops and media_queue_high_water tell of every loss.    *)
THEOREM QueueIsFaithful == Spec => []QueueIsExact
<1>1. Init => QueueIsExact
  BY CapacityAssumption DEF Init, QueueIsExact, QueueHoldsNewest, DropsAccountForLosses
<1>2. TypeOK /\ QueueIsExact /\ [Next]_vars => QueueIsExact'
  <2> SUFFICES ASSUME QueueTypes, QueueIsExact, [Next]_vars PROVE QueueIsExact'
    BY DEF TypeOK
  <2>1. ASSUME UNCHANGED <<media, arrived, drops, highWater, taken>> PROVE QueueIsExact'
    BY <2>1 DEF QueueIsExact, QueueHoldsNewest, DropsAccountForLosses
  <2> USE DEF queueVars, takeVars
  <2>2. ASSUME NEW c \in Requests, Caller(c) PROVE QueueIsExact'
    BY <2>1, <2>2 DEF Caller, Register, RegisterRefused, Send, SendFails, TimeoutWait, Cancel, Wake
  <2>3. CASE Reader /\ ~QueueMedia
    BY <2>1, <2>3 DEF Reader, ReaderCheck, ReadNothing, ReadMedia, ReadResponse, ReadStray, ReadFault,
       ReadClosed, Route, RouteUnexpected, ReaderExcept, ReaderFail
  <2>4. CASE KeepaliveFails
    BY <2>1, <2>4 DEF KeepaliveFails
  <2>5. CASE Consumer /\ ~Take
    BY <2>1, <2>5 DEF Consumer, StartReceive, ReturnBatch
  <2>6. CASE Closer
    BY <2>1, <2>6 DEF Closer, CloseStop, CloseSocket, CloseJoin, CloseJoinTimeout
  <2>7. CASE UNCHANGED vars
    BY <2>1, <2>7 DEF vars
  <2>8. QED BY <2>2, <2>3, <2>4, <2>5, <2>6, <2>7, QueueMediaStep, TakeStep DEF Next
<1>3. QED BY <1>1, <1>2, TypeCorrect, PTL DEF Spec

-----------------------------------------------------------------------------
(* What the consumer has, in order: the packets of the earlier windows and *)
(* of the current one.  All of them arrived before the oldest one queued.  *)
Received == delivered \o batch

ReceivedIsOrdered ==
  /\ \A i, j \in 1..Len(Received) : i < j => Received[i] < Received[j]
  /\ \A i \in 1..Len(Received) : Received[i] <= arrived - Len(media)
  /\ consumer = "idle" => batch = <<>>

(* Taking the head of the queue appends it to what was received, unless it *)
(* is foreign.                                                             *)
LEMMA TakeKeepsOrder ==
  ASSUME QueueTypes, QueueIsExact, ReceivedIsOrdered, Take PROVE ReceivedIsOrdered'
<1> USE DEF QueueTypes
<1>1. /\ media # <<>> /\ media' = Tail(media) /\ consumer' = "receiving"
      /\ batch' = IF Head(media) \in Foreign THEN batch ELSE Append(batch, Head(media))
      /\ UNCHANGED <<arrived, delivered>>
  BY DEF Take
<1>2. Len(media') = Len(media) - 1
  BY <1>1
<1>3. Head(media) = arrived - Len(media) + 1 /\ Len(media) <= arrived
  BY <1>1 DEF QueueIsExact, QueueHoldsNewest
<1>4. Received \in Seq(Nat) /\ Len(Received) \in Nat
  BY DEF Received
<1>5. /\ \A i, j \in 1..Len(Received) : i < j => Received[i] < Received[j]
      /\ \A i \in 1..Len(Received) : Received[i] <= arrived - Len(media)
  BY DEF ReceivedIsOrdered
<1>6. CASE Head(media) \in Foreign
  <2>1. Received' = Received
    BY <1>1, <1>6 DEF Received
  <2>2. \A i \in 1..Len(Received') : Received'[i] <= arrived' - Len(media')
    BY <1>1, <1>2, <1>4, <1>5, <2>1
  <2>3. QED BY <1>1, <1>5, <2>1, <2>2 DEF ReceivedIsOrdered
<1>7. CASE Head(media) \notin Foreign
  <2>1. Head(media) \in Nat
    BY <1>1
  <2>2. Received' = Append(Received, Head(media))
    <3>1. delivered \in Seq(Nat) /\ batch \in Seq(Nat)
      OBVIOUS
    <3>2. Received' = delivered \o Append(batch, Head(media))
      BY <1>1, <1>7 DEF Received
    <3> HIDE DEF QueueTypes
    <3>3. delivered \o Append(batch, Head(media)) = Append(delivered \o batch, Head(media))
      BY <2>1, <3>1
    <3>4. QED BY <3>2, <3>3 DEF Received
  <2>3. Len(Received') = Len(Received) + 1
    BY <1>4, <2>1, <2>2
  <2>4. \A i \in 1..Len(Received) : Received'[i] = Received[i]
    BY <1>4, <2>1, <2>2
  <2>5. Received'[Len(Received) + 1] = Head(media)
    BY <1>4, <2>1, <2>2
  <2>6. \A i \in 1..Len(Received) : Received[i] \in Nat
    BY <1>4
  <2> HIDE DEF QueueTypes
  <2>7. arrived \in Nat /\ Len(media) \in Nat
    BY DEF QueueTypes
  <2>8. ASSUME NEW i \in 1..Len(Received'), NEW j \in 1..Len(Received'), i < j
        PROVE  Received'[i] < Received'[j]
    <3>1. CASE j = Len(Received) + 1
      <4>1. i \in 1..Len(Received)
        BY <1>4, <2>3, <2>8, <3>1
      <4>2. /\ Received'[i] = Received[i] /\ Received[i] \in Nat
            /\ Received[i] <= arrived - Len(media)
        BY <1>5, <2>4, <2>6, <4>1, Zenon
      <4>3. Received'[j] = arrived - Len(media) + 1
        BY <1>3, <2>5, <3>1, Zenon
      <4>4. QED BY <2>7, <4>2, <4>3
    <3>2. CASE j # Len(Received) + 1
      BY <1>4, <1>5, <2>3, <2>4, <2>8, <3>2
    <3>3. QED BY <3>1, <3>2
  <2>9. ASSUME NEW i \in 1..Len(Received') PROVE Received'[i] <= arrived' - Len(media')
    <3>1. CASE i = Len(Received) + 1
      BY <1>1, <1>2, <1>3, <2>5, <2>7, <3>1
    <3>2. CASE i # Len(Received) + 1
      <4>1. i \in 1..Len(Received)
        BY <1>4, <2>3, <3>2
      <4>2. Received'[i] <= arrived - Len(media) /\ Received'[i] \in Nat
        BY <1>5, <2>4, <2>6, <4>1
      <4>3. arrived' - Len(media') = arrived - Len(media) + 1
        BY <1>1, <1>2, <2>7
      <4>4. QED BY <2>7, <4>2, <4>3
    <3>3. QED BY <3>1, <3>2
  <2>10. QED BY <1>1, <2>8, <2>9 DEF ReceivedIsOrdered
<1>8. QED BY <1>6, <1>7

(* A packet that comes in is later than all that were received, and so is  *)
(* whatever is still queued when the oldest one is dropped.                *)
LEMMA QueueMediaKeepsOrder ==
  ASSUME QueueTypes, QueueIsExact, ReceivedIsOrdered, QueueMedia PROVE ReceivedIsOrdered'
<1> USE CapacityAssumption DEF QueueTypes
<1>1. /\ media' = Append(IF Len(media) = Capacity THEN Tail(media) ELSE media, arrived + 1)
      /\ arrived' = arrived + 1
      /\ UNCHANGED <<consumer, batch, delivered>>
  BY DEF QueueMedia, takeVars
<1>2. Len(media') \in Nat /\ Len(media') <= Len(media) + 1
  <2>1. CASE Len(media) = Capacity
    <3>1. Tail(media) \in Seq(Nat) /\ Len(Tail(media)) = Len(media) - 1
      BY <2>1
    <3>2. media' = Append(Tail(media), arrived + 1)
      BY <1>1, <2>1
    <3>3. QED BY <3>1, <3>2
  <2>2. CASE Len(media) # Capacity
    BY <1>1, <2>2
  <2>3. QED BY <2>1, <2>2
<1>3. Received' = Received /\ Received \in Seq(Nat)
  BY <1>1 DEF Received
<1>4. \A i \in 1..Len(Received) : Received[i] <= arrived - Len(media) /\ Received[i] \in Nat
  BY <1>3 DEF ReceivedIsOrdered
<1>5. \A i \in 1..Len(Received') : Received'[i] <= arrived' - Len(media')
  <2>1. ASSUME NEW i \in 1..Len(Received) PROVE Received[i] <= arrived' - Len(media')
    <3>1. Received[i] <= arrived - Len(media) /\ Received[i] \in Nat
      BY <1>4
    <3>2. arrived' = arrived + 1 /\ arrived \in Nat /\ Len(media) \in Nat
      BY <1>1
    <3> HIDE DEF QueueTypes
    <3>3. QED BY <1>2, <3>1, <3>2
  <2>2. QED BY <1>3, <2>1
<1>6. QED BY <1>1, <1>3, <1>5 DEF ReceivedIsOrdered

(* What a sequence of two parts holds. *)
LEMMA TwoParts ==
  ASSUME NEW S, NEW a \in Seq(S), NEW b \in Seq(S)
  PROVE  /\ a \o b \in Seq(S) /\ Len(a \o b) = Len(a) + Len(b)
         /\ \A i \in 1..Len(a) + Len(b) :
              (a \o b)[i] = IF i <= Len(a) THEN a[i] ELSE b[i - Len(a)]
OBVIOUS

(* What was received, followed by what is queued, is in order.             *)
LEMMA OrderOfAll ==
  ASSUME QueueTypes, QueueIsExact, ReceivedIsOrdered PROVE DeliveryInOrder
<1> DEFINE out == Received \o media
<1>1. /\ Received \in Seq(Nat) /\ media \in Seq(Nat) /\ arrived \in Nat
      /\ Len(Received) \in Nat /\ Len(media) \in Nat
  BY DEF QueueTypes, Received
<1>2. /\ Len(out) = Len(Received) + Len(media)
      /\ \A i \in 1..Len(Received) : out[i] = Received[i] /\ out[i] \in Nat
      /\ \A i \in 1..Len(media) : out[Len(Received) + i] = media[i]
  <2>1. /\ Len(out) = Len(Received) + Len(media)
        /\ \A i \in 1..Len(Received) + Len(media) :
             out[i] = IF i <= Len(Received) THEN Received[i] ELSE media[i - Len(Received)]
    BY <1>1, TwoParts, Zenon
  <2> HIDE DEF out, QueueTypes
  <2>2. ASSUME NEW i \in 1..Len(Received)
        PROVE  out[i] = Received[i] /\ out[i] \in Nat
    <3>1. Received[i] \in Nat
      BY <1>1
    <3>2. QED BY <1>1, <2>1, <3>1
  <2>3. ASSUME NEW i \in 1..Len(media)
        PROVE  out[Len(Received) + i] = media[i]
    BY <1>1, <2>1
  <2>4. QED BY <2>1, <2>2, <2>3
<1>3. \A i \in 1..Len(media) : media[i] = arrived - Len(media) + i
  BY DEF QueueIsExact, QueueHoldsNewest
<1>4. /\ \A i, j \in 1..Len(Received) : i < j => Received[i] < Received[j]
      /\ \A i \in 1..Len(Received) : Received[i] <= arrived - Len(media)
  BY DEF ReceivedIsOrdered
<1>5. \A i \in 1..Len(out) : i > Len(Received) => out[i] = arrived - Len(media) + (i - Len(Received))
  <2>1. ASSUME NEW i \in 1..Len(out), i > Len(Received)
        PROVE  out[i] = arrived - Len(media) + (i - Len(Received))
    <3> DEFINE k == i - Len(Received)
    <3>1. k \in 1..Len(media) /\ i = Len(Received) + k
      BY <1>1, <1>2, <2>1
    <3> HIDE DEF k, out
    <3>2. out[i] = media[k]
      BY <1>2, <3>1
    <3>3. media[k] = arrived - Len(media) + k
      BY <1>3, <3>1
    <3>4. QED BY <3>2, <3>3 DEF k
  <2>2. QED BY <2>1
<1> HIDE DEF out
<1>6. ASSUME NEW i \in 1..Len(out), NEW j \in 1..Len(out), i < j PROVE out[i] < out[j]
  <2>1. CASE j <= Len(Received)
    <3>1. i \in 1..Len(Received) /\ j \in 1..Len(Received)
      BY <1>1, <1>2, <1>6, <2>1
    <3>2. Received[i] < Received[j]
      BY <1>4, <1>6, <3>1
    <3>3. QED BY <1>2, <3>1, <3>2
  <2>2. CASE j > Len(Received) /\ i > Len(Received)
    <3>1. /\ out[i] = arrived - Len(media) + (i - Len(Received))
          /\ out[j] = arrived - Len(media) + (j - Len(Received))
      BY <1>5, <2>2
    <3>2. i \in Nat /\ j \in Nat
      BY <1>1, <1>2
    <3>3. QED BY <1>1, <1>6, <3>1, <3>2
  <2>3. CASE j > Len(Received) /\ i <= Len(Received)
    <3>1. out[i] <= arrived - Len(media) /\ out[i] \in Nat
      BY <1>1, <1>2, <1>4, <2>3
    <3>2. out[j] = arrived - Len(media) + (j - Len(Received))
      BY <1>5, <2>3
    <3>3. QED BY <1>1, <2>3, <3>1, <3>2
  <2>4. QED BY <1>1, <2>1, <2>2, <2>3
<1>7. \A i, j \in 1..Len(out) : i < j => out[i] < out[j]
  BY <1>6
<1>8. out = delivered \o batch \o media
  BY DEF out, Received
<1>9. QED BY <1>7, <1>8 DEF DeliveryInOrder

(* Whatever the capacity, the pace of the recorder and the windows of the  *)
(* consumer, packets are returned in the order of their arrival, each once.*)
THEOREM PacketsStayInOrder == Spec => []DeliveryInOrder
<1>1. Init => ReceivedIsOrdered
  BY DEF Init, ReceivedIsOrdered, Received
<1>2. QueueTypes /\ QueueIsExact /\ ReceivedIsOrdered /\ [Next]_vars => ReceivedIsOrdered'
  <2> SUFFICES ASSUME QueueTypes, QueueIsExact, ReceivedIsOrdered, [Next]_vars PROVE ReceivedIsOrdered'
    OBVIOUS
  <2>1. ASSUME UNCHANGED <<media, arrived, consumer, batch, delivered>> PROVE ReceivedIsOrdered'
    BY <2>1 DEF ReceivedIsOrdered, Received
  <2> USE DEF queueVars, takeVars
  <2>2. ASSUME NEW c \in Requests, Caller(c) PROVE ReceivedIsOrdered'
    BY <2>1, <2>2 DEF Caller, Register, RegisterRefused, Send, SendFails, TimeoutWait, Cancel, Wake
  <2>3. CASE Reader /\ ~QueueMedia
    BY <2>1, <2>3 DEF Reader, ReaderCheck, ReadNothing, ReadMedia, ReadResponse, ReadStray, ReadFault,
       ReadClosed, Route, RouteUnexpected, ReaderExcept, ReaderFail
  <2>4. CASE KeepaliveFails
    BY <2>1, <2>4 DEF KeepaliveFails
  <2>5. ASSUME media' = media, arrived' = arrived, Received' = Received, batch' = <<>>
        PROVE  ReceivedIsOrdered'
    BY <2>5 DEF ReceivedIsOrdered
  <2>6. CASE StartReceive
    <3>1. batch = <<>> /\ batch' = <<>> /\ delivered' = delivered
      BY <2>6 DEF StartReceive, ReceivedIsOrdered
    <3>2. Received' = Received
      BY <3>1 DEF Received
    <3>3. QED BY <2>5, <2>6, <3>1, <3>2 DEF StartReceive
  <2>7. CASE ReturnBatch
    <3>1. delivered' = Received /\ batch' = <<>>
      BY <2>7 DEF ReturnBatch, Received
    <3>2. Received \in Seq(Nat)
      BY DEF Received, QueueTypes
    <3>3. Received' = Received
      <4>1. Received' = delivered' \o batch'
        BY DEF Received
      <4>2. Received \o <<>> = Received
        BY <3>2
      <4>3. QED BY <3>1, <4>1, <4>2
    <3>4. QED BY <2>5, <2>7, <3>1, <3>3 DEF ReturnBatch
  <2>8. CASE Closer
    BY <2>1, <2>8 DEF Closer, CloseStop, CloseSocket, CloseJoin, CloseJoinTimeout
  <2>9. CASE UNCHANGED vars
    BY <2>1, <2>9 DEF vars
  <2>10. QED BY <2>2, <2>3, <2>4, <2>6, <2>7, <2>8, <2>9, QueueMediaKeepsOrder, TakeKeepsOrder DEF Next, Consumer
<1>3. QueueTypes /\ QueueIsExact /\ ReceivedIsOrdered => DeliveryInOrder
  BY OrderOfAll
<1>4. QED BY <1>1, <1>2, <1>3, TypeCorrect, QueueIsFaithful, PTL DEF Spec, TypeOK

(***************************************************************************)
(*                              RtspFraming                                *)
(*                                                                         *)
(* How the bytes of a stream are cut into messages.  What FlattenSeq of    *)
(* the units of the messages is follows by induction on their number; no   *)
(* rule of the library can be applied to it, so each induction looks at a  *)
(* least counterexample.                                                   *)
(***************************************************************************)

(* A set of numbers has a least one: what the inductions below rest on.    *)
LEMMA LeastNumber ==
  ASSUME NEW T \in SUBSET Nat, T # {}
  PROVE  \E n \in T : \A m \in T : n <= m
<1> DEFINE R == {p \in Nat \X Nat : p[1] < p[2]}
<1>1. R = OpToRel(<, Nat)
  BY DEF OpToRel
<1>2. IsWellFoundedOn(R, Nat)
  BY <1>1, NatLessThanWellFounded
<1>3. PICK n \in T : \A m \in T : ~ (<<m, n>> \in R)
  BY <1>2, WFMin
<1>4. ASSUME NEW m \in T, m < n
      PROVE  <<m, n>> \in R
  BY <1>4
<1> HIDE DEF R
<1>5. \A m \in T : ~ (m < n)
  BY <1>3, <1>4
<1> QED BY <1>5

(* FlattenSeq: the concatenations of the first sequences of u.             *)
Concatenates(g, u, n) ==
  g = [i \in 1..n |-> IF i = 1 THEN u[i] ELSE g[i - 1] \o u[i]]

(* There is such a function for every number of sequences.                 *)
LEMMA ConcatenationExists ==
  ASSUME NEW u, NEW n \in Nat
  PROVE  \E g : Concatenates(g, u, n)
<1> DEFINE T == {k \in Nat : ~ \E g : Concatenates(g, u, k)}
<1> SUFFICES ASSUME T # {} PROVE FALSE
  OBVIOUS
<1>1. PICK k \in T : \A m \in T : k <= m
  BY LeastNumber
<1>2. k # 0
  <2>1. Concatenates([i \in 1..0 |-> u[i]], u, 0)
    BY DEF Concatenates
  <2> QED BY <2>1
<1>3. k - 1 \in Nat /\ k - 1 \notin T
  BY <1>1, <1>2
<1>4. PICK g : Concatenates(g, u, k - 1)
  BY <1>3
<1> DEFINE h == [i \in 1..k |-> IF i < k THEN g[i] ELSE IF k = 1 THEN u[k] ELSE g[k - 1] \o u[k]]
<1>5. Concatenates(h, u, k)
  <2>1. ASSUME NEW i \in 1..k
        PROVE  h[i] = IF i = 1 THEN u[i] ELSE h[i - 1] \o u[i]
    <3>1. CASE i < k
      <4>1. i \in 1..(k - 1) /\ h[i] = g[i] /\ (i # 1 => i - 1 \in 1..k /\ i - 1 < k)
        BY <1>1, <3>1
      <4>2. g[i] = IF i = 1 THEN u[i] ELSE g[i - 1] \o u[i]
        BY <1>4, <4>1, Zenon DEF Concatenates
      <4>3. i # 1 => h[i - 1] = g[i - 1]
        BY <4>1, Zenon
      <4> QED BY <4>1, <4>2, <4>3
    <3>2. CASE i = k
      <4>1. k # 1 => k - 1 \in 1..k /\ k - 1 < k
        BY <1>1, <1>2
      <4>2. k # 1 => h[k - 1] = g[k - 1]
        BY <4>1, Zenon
      <4> QED BY <3>2, <4>2
    <3> QED BY <1>1, <3>1, <3>2
  <2> QED BY <2>1, Zenon DEF Concatenates
<1> QED BY <1>1, <1>5

(* Two of them agree where both are defined.                               *)
LEMMA ConcatenationsAgree ==
  ASSUME NEW u, NEW n \in Nat, NEW m \in Nat, NEW g, NEW h,
         Concatenates(g, u, n), Concatenates(h, u, m)
  PROVE  \A i \in 1..n : i <= m => g[i] = h[i]
<1> DEFINE T == {i \in 1..n : i <= m /\ g[i] # h[i]}
<1> SUFFICES ASSUME T # {} PROVE FALSE
  OBVIOUS
<1>1. PICK i \in T : \A j \in T : i <= j
  <2>1. T \in SUBSET Nat
    OBVIOUS
  <2> QED BY <2>1, LeastNumber
<1>2. i \in 1..n /\ i \in 1..m /\ g[i] # h[i]
  OBVIOUS
<1>3. /\ g[i] = IF i = 1 THEN u[i] ELSE g[i - 1] \o u[i]
      /\ h[i] = IF i = 1 THEN u[i] ELSE h[i - 1] \o u[i]
  BY <1>2, Zenon DEF Concatenates
<1>4. i # 1
  BY <1>2, <1>3
<1>5. i - 1 \in 1..n /\ i - 1 <= m /\ i - 1 \notin T
  BY <1>1, <1>2, <1>4
<1> QED BY <1>2, <1>3, <1>4, <1>5

(* The first n sequences of u, flattened.                                  *)
FlatFront(u, n) == FlattenSeq([j \in 1..n |-> u[j]])

(* FlattenSeq is the last value of any of them.                            *)
LEMMA FrontIs ==
  ASSUME NEW u, NEW n \in Nat \ {0}, NEW g, Concatenates(g, u, n)
  PROVE  FlatFront(u, n) = g[n]
<1> DEFINE q == [j \in 1..n |-> u[j]]
           f == CHOOSE f : Concatenates(f, q, n)
<1>1. Len(q) = n
  OBVIOUS
<1>2. FlatFront(u, n) = f[n]
  BY <1>1 DEF FlatFront, FlattenSeq, Concatenates
<1>3. Concatenates(f, q, n)
  BY ConcatenationExists
<1>4. Concatenates(g, q, n)
  BY DEF Concatenates
<1> HIDE DEF q, f
<1>5. n \in 1..n
  OBVIOUS
<1> QED BY <1>2, <1>3, <1>4, <1>5, ConcatenationsAgree

(* Flattening no sequence, and one sequence more.                          *)
LEMMA FrontStep ==
  ASSUME NEW S, NEW u \in Seq(Seq(S))
  PROVE  /\ FlatFront(u, 0) = <<>>
         /\ \A n \in Nat : n < Len(u) => FlatFront(u, n + 1) = FlatFront(u, n) \o u[n + 1]
<1>1. FlatFront(u, 0) = <<>>
  BY DEF FlatFront, FlattenSeq
<1>2. ASSUME NEW n \in Nat, n < Len(u)
      PROVE  FlatFront(u, n + 1) = FlatFront(u, n) \o u[n + 1]
  <2>0. n + 1 \in Nat /\ n + 1 \in Nat \ {0}
    OBVIOUS
  <2>1. PICK g : Concatenates(g, u, n + 1)
    BY <2>0, ConcatenationExists, Zenon
  <2>2. FlatFront(u, n + 1) = g[n + 1]
    BY <2>1, FrontIs
  <2>3. g[n + 1] = IF n + 1 = 1 THEN u[n + 1] ELSE g[(n + 1) - 1] \o u[n + 1]
    <3>1. n + 1 \in 1..(n + 1)
      OBVIOUS
    <3> QED BY <2>1, <3>1, Zenon DEF Concatenates
  <2>4. CASE n = 0
    <3>1. u[1] \in Seq(S)
      BY <1>2, <2>4
    <3>2. <<>> \o u[1] = u[1]
      BY <3>1
    <3>3. FlatFront(u, 0 + 1) = u[0 + 1]
      BY <2>2, <2>3, <2>4
    <3>4. 0 + 1 = 1
      OBVIOUS
    <3> HIDE DEF FlatFront
    <3> QED BY <1>1, <2>4, <3>2, <3>3, <3>4, Zenon
  <2>5. CASE n # 0
    <3>1. PICK h : Concatenates(h, u, n)
      BY ConcatenationExists
    <3>2. FlatFront(u, n) = h[n]
      BY <2>5, <3>1, FrontIs
    <3>3. n \in 1..n /\ n <= n + 1
      BY <2>5
    <3>4. h[n] = g[n]
      BY <2>1, <3>1, <3>3, ConcatenationsAgree
    <3>5. (n + 1) - 1 = n /\ n + 1 # 1
      BY <2>5
    <3> QED BY <2>2, <2>3, <3>2, <3>4, <3>5
  <2> QED BY <2>4, <2>5
<1> QED BY <1>1, <1>2

(* Facts about two sequences put one after the other.                      *)
LEMMA Joined ==
  ASSUME NEW S, NEW a \in Seq(S), NEW b \in Seq(S)
  PROVE  /\ a \o b \in Seq(S)
         /\ Len(a \o b) = Len(a) + Len(b)
         /\ \A k \in 1..Len(a) : (a \o b)[k] = a[k]
         /\ \A k \in 1..Len(b) : (a \o b)[Len(a) + k] = b[k]
OBVIOUS

(* What is flattened is a sequence over the same set.                      *)
LEMMA FrontType ==
  ASSUME NEW S, NEW u \in Seq(Seq(S)), NEW n \in 0..Len(u)
  PROVE  FlatFront(u, n) \in Seq(S)
<1> DEFINE T == {k \in 0..Len(u) : FlatFront(u, k) \notin Seq(S)}
<1> SUFFICES ASSUME T # {} PROVE FALSE
  OBVIOUS
<1>1. PICK k \in T : \A m \in T : k <= m
  <2>1. T \in SUBSET Nat
    OBVIOUS
  <2> QED BY <2>1, LeastNumber
<1>2. k \in 0..Len(u) /\ FlatFront(u, k) \notin Seq(S)
  OBVIOUS
<1>3. k # 0
  <2>1. <<>> \in Seq(S)
    OBVIOUS
  <2> QED BY <1>2, <2>1, FrontStep
<1>4. k - 1 \in 0..Len(u) /\ k - 1 \in Nat /\ k - 1 < Len(u) /\ (k - 1) + 1 = k
  BY <1>2, <1>3
<1>5. k - 1 \notin T
  BY <1>1, <1>4
<1>6. FlatFront(u, k - 1) \in Seq(S)
  BY <1>4, <1>5
<1>7. FlatFront(u, k) = FlatFront(u, k - 1) \o u[k]
  BY <1>4, FrontStep
<1>8. u[k] \in Seq(S)
  BY <1>2, <1>3
<1> QED BY <1>2, <1>6, <1>7, <1>8, Joined, Zenon

(* One sequence more: its length is added, and it is found at the end.     *)
LEMMA FrontPart ==
  ASSUME NEW S, NEW u \in Seq(Seq(S)), NEW n \in Nat, n < Len(u)
  PROVE  /\ Len(FlatFront(u, n + 1)) = Len(FlatFront(u, n)) + Len(u[n + 1])
         /\ \A k \in 1..Len(FlatFront(u, n)) : FlatFront(u, n + 1)[k] = FlatFront(u, n)[k]
         /\ \A k \in 1..Len(u[n + 1]) :
              FlatFront(u, n + 1)[Len(FlatFront(u, n)) + k] = u[n + 1][k]
<1>1. n \in 0..Len(u) /\ u[n + 1] \in Seq(S)
  OBVIOUS
<1>2. FlatFront(u, n) \in Seq(S)
  BY <1>1, FrontType
<1>3. FlatFront(u, n + 1) = FlatFront(u, n) \o u[n + 1]
  BY FrontStep
<1> DEFINE a == FlatFront(u, n)
           b == u[n + 1]
<1>4. /\ Len(a \o b) = Len(a) + Len(b)
      /\ \A k \in 1..Len(a) : (a \o b)[k] = a[k]
      /\ \A k \in 1..Len(b) : (a \o b)[Len(a) + k] = b[k]
  <2> HIDE DEF a, b
  <2>1. a \in Seq(S) /\ b \in Seq(S)
    BY <1>1, <1>2 DEF a, b
  <2> QED BY <2>1
<1> QED BY <1>3, <1>4, Zenon

(* What is in front stays in front.                                        *)
LEMMA FrontLater ==
  ASSUME NEW S, NEW u \in Seq(Seq(S)), NEW i \in Nat, NEW n \in Nat, i <= n, n <= Len(u)
  PROVE  /\ Len(FlatFront(u, i)) <= Len(FlatFront(u, n))
         /\ \A k \in 1..Len(FlatFront(u, i)) : FlatFront(u, n)[k] = FlatFront(u, i)[k]
<1> DEFINE Keeps(m) == /\ Len(FlatFront(u, i)) <= Len(FlatFront(u, m))
                       /\ \A k \in 1..Len(FlatFront(u, i)) : FlatFront(u, m)[k] = FlatFront(u, i)[k]
           T == {m \in i..n : ~Keeps(m)}
<1> SUFFICES ASSUME T # {} PROVE FALSE
  <2>1. n \in i..n
    OBVIOUS
  <2> QED BY <2>1
<1>0. \A m \in i..n : m \in 0..Len(u) /\ Len(FlatFront(u, m)) \in Nat
  <2>1. ASSUME NEW m \in i..n
        PROVE  m \in 0..Len(u) /\ FlatFront(u, m) \in Seq(S)
    <3>1. m \in 0..Len(u)
      OBVIOUS
    <3> QED BY <3>1, FrontType
  <2>2. \A q \in Seq(S) : Len(q) \in Nat
    OBVIOUS
  <2> QED BY <2>1, <2>2, Zenon
<1>1. PICK m \in T : \A j \in T : m <= j
  <2>1. T \in SUBSET Nat
    OBVIOUS
  <2> QED BY <2>1, LeastNumber
<1>2. m \in i..n /\ ~Keeps(m)
  OBVIOUS
<1>3. i \in i..n /\ Len(FlatFront(u, i)) \in Nat
  BY <1>0
<1>4. Keeps(i)
  BY <1>3
<1> HIDE DEF Keeps
<1>5. m # i
  BY <1>2, <1>4
<1>6. m - 1 \in i..n /\ m - 1 \in Nat /\ m - 1 < Len(u) /\ (m - 1) + 1 = m
  BY <1>2, <1>5
<1>7. Keeps(m - 1)
  <2>1. m - 1 \notin T
    BY <1>1, <1>6
  <2> QED BY <1>6, <2>1
<1>8. Len(u[m]) \in Nat
  <2>1. u[m] \in Seq(S)
    BY <1>6
  <2> QED BY <2>1
<1>9. /\ Len(FlatFront(u, m)) = Len(FlatFront(u, m - 1)) + Len(u[m])
      /\ \A k \in 1..Len(FlatFront(u, m - 1)) : FlatFront(u, m)[k] = FlatFront(u, m - 1)[k]
  <2>1. /\ Len(FlatFront(u, (m - 1) + 1)) = Len(FlatFront(u, m - 1)) + Len(u[(m - 1) + 1])
        /\ \A k \in 1..Len(FlatFront(u, m - 1)) : FlatFront(u, (m - 1) + 1)[k] = FlatFront(u, m - 1)[k]
    BY <1>6, FrontPart, Zenon
  <2> QED BY <1>6, <2>1, Zenon
<1>10. Len(FlatFront(u, m - 1)) \in Nat /\ Len(FlatFront(u, i)) \in Nat
  BY <1>0, <1>3, <1>6
<1>11. Keeps(m)
  <2>1. Len(FlatFront(u, i)) <= Len(FlatFront(u, m - 1))
    BY <1>7 DEF Keeps
  <2>2. Len(FlatFront(u, i)) <= Len(FlatFront(u, m))
    <3>1. \A a, b, c \in Nat : a <= b => a <= b + c
      OBVIOUS
    <3>2. Len(FlatFront(u, i)) <= Len(FlatFront(u, m - 1)) + Len(u[m])
      BY <1>8, <1>10, <2>1, <3>1, Zenon
    <3> QED BY <1>9, <3>2, Zenon
  <2>3. ASSUME NEW k \in 1..Len(FlatFront(u, i))
        PROVE  FlatFront(u, m)[k] = FlatFront(u, i)[k]
    <3>1. k \in 1..Len(FlatFront(u, m - 1))
      BY <1>10, <2>1
    <3>2. FlatFront(u, m - 1)[k] = FlatFront(u, i)[k]
      BY <1>7 DEF Keeps
    <3> QED BY <1>9, <3>1, <3>2, Zenon
  <2> QED BY <2>2, <2>3 DEF Keeps
<1> QED BY <1>2, <1>11

(***************************************************************************)
(* The units of the messages on the wire.                                  *)
(***************************************************************************)
MessageSet == [kind : Kinds, size : Nat]

UnitSet ==
  [k : {"$", "len", "RT", "SP", "head", "end", "data", "junk"}, n : Nat]

UnitsIn(w) == [i \in DOMAIN w |-> UnitsOf(w[i])]

(* What each kind of message is made of.                                   *)
LEMMA UnitsShape ==
  ASSUME NEW m \in MessageSet
  PROVE  /\ UnitsOf(m) \in Seq(UnitSet)
         /\ m.kind = "frame" =>
              /\ Len(UnitsOf(m)) = 2 + m.size
              /\ UnitsOf(m)[1].k = "$"
              /\ UnitsOf(m)[2].n = m.size
         /\ m.kind = "response" =>
              /\ Len(UnitsOf(m)) = 4 + m.size
              /\ UnitsOf(m)[1].k = "RT" /\ UnitsOf(m)[2].k = "SP"
              /\ UnitsOf(m)[3].k = "head"
              /\ UnitsOf(m)[4] = Unit("end", m.size)
         /\ m.kind = "junk" => Len(UnitsOf(m)) = 1 /\ UnitsOf(m)[1].k = "junk"
<1>1. m.size \in Nat /\ m.kind \in {"frame", "response", "junk"}
  BY DEF MessageSet, Kinds
<1>2. Body(m.size) \in Seq(UnitSet) /\ Len(Body(m.size)) = m.size
  <2>1. \A i \in 1..m.size : Unit("data", i) \in UnitSet
    BY <1>1 DEF Unit, UnitSet
  <2>2. Body(m.size) \in [1..m.size -> UnitSet]
    BY <2>1 DEF Body
  <2> QED BY <1>1, <2>2
<1> DEFINE f == <<Unit("$", 0), Unit("len", m.size)>>
           r == <<Unit("RT", 0), Unit("SP", 0), Unit("head", 0), Unit("end", m.size)>>
<1>3. f \in Seq(UnitSet) /\ r \in Seq(UnitSet)
  <2>1. /\ Unit("$", 0) \in UnitSet /\ Unit("len", m.size) \in UnitSet
        /\ Unit("RT", 0) \in UnitSet /\ Unit("SP", 0) \in UnitSet
        /\ Unit("head", 0) \in UnitSet /\ Unit("end", m.size) \in UnitSet
    BY <1>1 DEF Unit, UnitSet
  <2> QED BY <2>1
<1>4. CASE m.kind = "frame"
  <2>1. UnitsOf(m) = f \o Body(m.size)
    BY <1>4 DEF UnitsOf
  <2>2. /\ f \o Body(m.size) \in Seq(UnitSet)
        /\ Len(f \o Body(m.size)) = Len(f) + Len(Body(m.size))
        /\ \A k \in 1..Len(f) : (f \o Body(m.size))[k] = f[k]
    BY <1>2, <1>3, Joined
  <2>3. Len(f) = 2 /\ 1 \in 1..Len(f) /\ 2 \in 1..Len(f) /\ f[1].k = "$" /\ f[2].n = m.size
    BY DEF Unit
  <2> HIDE DEF f
  <2>4. UnitsOf(m)[1].k = "$" /\ UnitsOf(m)[2].n = m.size
    <3>1. \A k \in 1..Len(f) : UnitsOf(m)[k] = f[k]
      BY <2>1, <2>2, Zenon
    <3> QED BY <2>3, <3>1, Zenon
  <2>5. Len(UnitsOf(m)) = 2 + m.size
    BY <1>2, <2>1, <2>2, <2>3, Zenon
  <2> QED BY <1>4, <2>1, <2>2, <2>3, <2>4, <2>5
<1>5. CASE m.kind = "response"
  <2>1. UnitsOf(m) = r \o Body(m.size)
    BY <1>5 DEF UnitsOf
  <2>2. /\ r \o Body(m.size) \in Seq(UnitSet)
        /\ Len(r \o Body(m.size)) = Len(r) + Len(Body(m.size))
        /\ \A k \in 1..Len(r) : (r \o Body(m.size))[k] = r[k]
    BY <1>2, <1>3, Joined
  <2>3. /\ Len(r) = 4 /\ 1 \in 1..Len(r) /\ 2 \in 1..Len(r)
        /\ 3 \in 1..Len(r) /\ 4 \in 1..Len(r)
    OBVIOUS
  <2>4. r[1].k = "RT" /\ r[2].k = "SP" /\ r[3].k = "head" /\ r[4] = Unit("end", m.size)
    BY DEF Unit
  <2> HIDE DEF r
  <2>5. \A k \in 1..4 : UnitsOf(m)[k] = r[k]
    BY <2>1, <2>2, <2>3, Zenon
  <2>6. Len(UnitsOf(m)) = 4 + m.size
    BY <1>2, <2>1, <2>2, <2>3, Zenon
  <2>7. 1 \in 1..4 /\ 2 \in 1..4 /\ 3 \in 1..4 /\ 4 \in 1..4
    OBVIOUS
  <2>8. UnitsOf(m) \in Seq(UnitSet)
    BY <2>1, <2>2, Zenon
  <2>9. /\ UnitsOf(m)[1].k = "RT" /\ UnitsOf(m)[2].k = "SP"
        /\ UnitsOf(m)[3].k = "head" /\ UnitsOf(m)[4] = Unit("end", m.size)
    BY <2>4, <2>5, <2>7, Zenon
  <2> QED BY <1>5, <2>6, <2>8, <2>9, Zenon
<1>6. CASE m.kind = "junk"
  <2>1. UnitsOf(m) = <<Unit("junk", 0)>>
    BY <1>6 DEF UnitsOf
  <2>2. Unit("junk", 0) \in UnitSet /\ Unit("junk", 0).k = "junk"
    BY DEF Unit, UnitSet
  <2> QED BY <1>6, <2>1, <2>2
<1> QED BY <1>1, <1>4, <1>5, <1>6, Zenon

(* The stream is the units of the messages on the wire, one after another. *)
LEMMA StreamIs ==
  ASSUME wire \in Seq(MessageSet)
  PROVE  /\ UnitsIn(wire) \in Seq(Seq(UnitSet)) /\ Len(UnitsIn(wire)) = Len(wire)
         /\ Stream = FlatFront(UnitsIn(wire), Len(wire))
         /\ \A i \in 0..Len(wire) : Boundary(i) = Len(FlatFront(UnitsIn(wire), i))
<1>1. DOMAIN wire = 1..Len(wire) /\ Len(wire) \in Nat /\ \A i \in DOMAIN wire : wire[i] \in MessageSet
  OBVIOUS
<1>2. \A i \in DOMAIN wire : UnitsOf(wire[i]) \in Seq(UnitSet)
  BY <1>1, UnitsShape
<1>3. UnitsIn(wire) \in Seq(Seq(UnitSet)) /\ Len(UnitsIn(wire)) = Len(wire)
  <2>1. UnitsIn(wire) \in [1..Len(wire) -> Seq(UnitSet)]
    BY <1>1, <1>2 DEF UnitsIn
  <2> QED BY <1>1, <2>1
<1>4. ASSUME NEW i \in 0..Len(wire)
      PROVE  [j \in 1..i |-> UnitsIn(wire)[j]] = [j \in 1..i |-> UnitsOf(wire[j])]
  <2>1. \A j \in 1..i : j \in DOMAIN wire
    BY <1>1
  <2> QED BY <2>1 DEF UnitsIn
<1>5. \A i \in 0..Len(wire) : Boundary(i) = Len(FlatFront(UnitsIn(wire), i))
  BY <1>4, Zenon DEF Boundary, FlatFront
<1>6. Stream = FlatFront(UnitsIn(wire), Len(wire))
  <2>1. Len(wire) \in 0..Len(wire)
    BY <1>1
  <2> QED BY <1>1, <1>4, <2>1, Zenon DEF Stream, FlatFront
<1> QED BY <1>3, <1>5, <1>6

(* Where the message after the first n is in the stream.                   *)
LEMMA MessageAt ==
  ASSUME wire \in Seq(MessageSet), NEW n \in Nat, n < Len(wire)
  PROVE  /\ Boundary(n) \in Nat /\ Len(Stream) \in Nat
         /\ Boundary(n + 1) = Boundary(n) + Len(UnitsOf(wire[n + 1]))
         /\ Boundary(n + 1) <= Len(Stream)
         /\ \A k \in 1..Len(UnitsOf(wire[n + 1])) :
              Stream[Boundary(n) + k] = UnitsOf(wire[n + 1])[k]
<1> DEFINE u == UnitsIn(wire)
           x == UnitsOf(wire[n + 1])
<1>1. /\ u \in Seq(Seq(UnitSet)) /\ Len(u) = Len(wire) /\ Stream = FlatFront(u, Len(wire))
      /\ \A i \in 0..Len(wire) : Boundary(i) = Len(FlatFront(u, i))
  BY StreamIs
<1>2. n + 1 \in DOMAIN wire /\ n \in 0..Len(wire) /\ n + 1 \in 0..Len(wire) /\ Len(wire) \in Nat
  OBVIOUS
<1>3. u[n + 1] = x /\ x \in Seq(UnitSet)
  <2>1. wire[n + 1] \in MessageSet
    BY <1>2
  <2> QED BY <1>2, <2>1, UnitsShape DEF UnitsIn
<1> HIDE DEF u, x
<1>4. /\ Boundary(n) = Len(FlatFront(u, n)) /\ Boundary(n + 1) = Len(FlatFront(u, n + 1))
  BY <1>1, <1>2
<1>5. /\ FlatFront(u, n) \in Seq(UnitSet) /\ Stream \in Seq(UnitSet)
  <2>1. Len(wire) \in 0..Len(wire)
    BY <1>2
  <2> QED BY <1>1, <1>2, <2>1, FrontType
<1>6. /\ Len(FlatFront(u, n + 1)) = Len(FlatFront(u, n)) + Len(x)
      /\ \A k \in 1..Len(x) : FlatFront(u, n + 1)[Len(FlatFront(u, n)) + k] = x[k]
  BY <1>1, <1>3, FrontPart
<1>7. /\ Len(FlatFront(u, n + 1)) <= Len(Stream)
      /\ \A k \in 1..Len(FlatFront(u, n + 1)) : Stream[k] = FlatFront(u, n + 1)[k]
  <2>1. n + 1 \in Nat /\ n + 1 <= Len(wire)
    OBVIOUS
  <2> QED BY <1>1, <1>2, <2>1, FrontLater
<1>8. Boundary(n) \in Nat /\ Len(x) \in Nat /\ Len(Stream) \in Nat
  BY <1>3, <1>4, <1>5
<1>9. ASSUME NEW k \in 1..Len(x)
      PROVE  Stream[Boundary(n) + k] = x[k]
  <2>1. Boundary(n) + k \in 1..Len(FlatFront(u, n + 1))
    BY <1>4, <1>6, <1>8
  <2>2. Stream[Boundary(n) + k] = FlatFront(u, n + 1)[Boundary(n) + k]
    BY <1>7, <2>1
  <2> QED BY <1>4, <1>6, <2>2
<1> QED BY <1>4, <1>6, <1>7, <1>8, <1>9 DEF x

(***************************************************************************)
(* The inductive invariant of the reader: it is between messages, or has   *)
(* begun a frame, and what it has returned is the front of what was sent.  *)
(***************************************************************************)
Counts ==
  /\ sent \in Nat /\ received \in Nat /\ consumed \in Nat
  /\ consumed <= received /\ received <= sent /\ sent <= Len(Stream)

FrameBegun == pc = "frame" => consumed < received /\ wire[NextMessage].kind = "frame"

FramingInv ==
  /\ wire \in Seq(MessageSet) /\ parsed \in Seq(MessageSet)
  /\ pc \in {"loop", "frame", "poll", "failed"}
  /\ Counts
  /\ FrameBegun
  /\ failure = "none" <=> pc # "failed"
  /\ ReturnsWhatWasSent
  /\ RejectionIsExplained

(* The buffer starts with the units of the next message.                   *)
LEMMA BufferFront ==
  ASSUME FramingInv
  PROVE  /\ Len(buffer) = received - consumed /\ Len(buffer) \in Nat
         /\ DOMAIN buffer = 1..Len(buffer)
         /\ buffer # <<>> <=> Len(buffer) >= 1
         /\ buffer # <<>> =>
              /\ NextMessage \in DOMAIN wire /\ NextMessage <= Len(wire)
              /\ wire[NextMessage] \in MessageSet
              /\ Boundary(NextMessage) = consumed + Len(UnitsOf(wire[NextMessage]))
              /\ \A k \in 1..Len(buffer) :
                   k <= Len(UnitsOf(wire[NextMessage])) => buffer[k] = UnitsOf(wire[NextMessage])[k]
<1> DEFINE n == Len(parsed)
           x == UnitsOf(wire[n + 1])
<1>1. /\ wire \in Seq(MessageSet) /\ n \in Nat /\ Len(wire) \in Nat /\ n <= Len(wire)
      /\ consumed = Boundary(n)
  BY DEF FramingInv, ReturnsWhatWasSent
<1>2. /\ sent \in Nat /\ received \in Nat /\ consumed \in Nat
      /\ consumed <= received /\ received <= Len(Stream)
  <2>1. Len(Stream) \in Nat
    <3>1. Len(wire) \in 0..Len(wire)
      BY <1>1
    <3>2. Stream \in Seq(UnitSet)
      BY <1>1, <3>1, StreamIs, FrontType
    <3> QED BY <3>2
  <2> QED BY <2>1 DEF FramingInv, Counts
<1>3. /\ Len(buffer) = received - consumed
      /\ DOMAIN buffer = 1..Len(buffer)
      /\ \A k \in 1..(received - consumed) : buffer[k] = Stream[consumed + k]
  <2>1. /\ received - (consumed + 1) + 1 = received - consumed
        /\ \A k \in 1..(received - consumed) : (consumed + 1) + k - 1 = consumed + k
    BY <1>2
  <2>2. buffer = [k \in 1..(received - consumed) |-> Stream[(consumed + 1) + k - 1]]
    BY <1>2 DEF buffer
  <2> QED BY <1>2, <2>1, <2>2
<1>4. buffer # <<>> <=> Len(buffer) >= 1
  BY <1>2, <1>3
<1>5. ASSUME buffer # <<>>
      PROVE  n < Len(wire)
  <2>1. consumed < received
    BY <1>2, <1>3, <1>4, <1>5
  <2>2. Boundary(Len(wire)) = Len(Stream)
    <3>1. Len(wire) \in 0..Len(wire)
      BY <1>1
    <3> QED BY <1>1, <3>1, StreamIs, Zenon
  <2>3. n # Len(wire)
    BY <1>1, <1>2, <2>1, <2>2
  <2> QED BY <1>1, <2>3
<1>6. ASSUME buffer # <<>>
      PROVE  /\ n + 1 \in DOMAIN wire /\ n + 1 <= Len(wire)
             /\ wire[n + 1] \in MessageSet
             /\ Boundary(n + 1) = consumed + Len(x)
             /\ \A k \in 1..Len(buffer) : k <= Len(x) => buffer[k] = x[k]
  <2>1. n + 1 \in DOMAIN wire /\ n + 1 <= Len(wire) /\ wire[n + 1] \in MessageSet
    BY <1>1, <1>5, <1>6
  <2>2. /\ Boundary(n + 1) = consumed + Len(x)
        /\ \A k \in 1..Len(x) : Stream[consumed + k] = x[k]
    BY <1>1, <1>5, <1>6, MessageAt
  <2>3. x \in Seq(UnitSet)
    BY <2>1, UnitsShape
  <2>4. ASSUME NEW k \in 1..Len(buffer), k <= Len(x)
        PROVE  buffer[k] = x[k]
    <3>1. Len(x) \in Nat
      BY <2>3
    <3> HIDE DEF x
    <3>2. k \in 1..Len(x) /\ k \in 1..(received - consumed)
      BY <1>3, <2>4, <3>1
    <3> QED BY <1>3, <2>2, <3>2
  <2> QED BY <2>1, <2>2, <2>4
<1> QED BY <1>2, <1>3, <1>4, <1>6 DEF NextMessage

(* A frame at the front: the length the reader computes is that of the     *)
(* whole frame as soon as the length field is in the buffer.               *)
LEMMA FrontIsFrame ==
  ASSUME FramingInv, buffer # <<>>, wire[NextMessage].kind = "frame"
  PROVE  /\ StartsFrame(buffer)
         /\ Len(buffer) >= FrameLength(buffer) <=> Len(buffer) >= Len(UnitsOf(wire[NextMessage]))
         /\ Len(buffer) >= FrameLength(buffer) =>
              FrameLength(buffer) = Len(UnitsOf(wire[NextMessage]))
<1> DEFINE m == wire[NextMessage]
           x == UnitsOf(wire[NextMessage])
<1>1. /\ Len(buffer) \in Nat /\ Len(buffer) >= 1 /\ m \in MessageSet
      /\ \A k \in 1..Len(buffer) : k <= Len(x) => buffer[k] = x[k]
  BY BufferFront
<1>2. Len(x) = 2 + m.size /\ x[1].k = "$" /\ x[2].n = m.size /\ m.size \in Nat
  <2>1. m.size \in Nat
    BY <1>1 DEF MessageSet
  <2> QED BY <1>1, <2>1, UnitsShape
<1> HIDE DEF m, x
<1>3. buffer[1] = x[1]
  <2>1. 1 \in 1..Len(buffer) /\ 1 <= Len(x)
    BY <1>1, <1>2
  <2> QED BY <1>1, <2>1
<1>4. StartsFrame(buffer)
  BY <1>2, <1>3 DEF StartsFrame
<1>5. Len(buffer) >= 2 => buffer[2].n = m.size
  <2>1. 2 <= Len(x)
    BY <1>2
  <2>2. Len(buffer) >= 2 => 2 \in 1..Len(buffer)
    BY <1>1
  <2> QED BY <1>1, <1>2, <2>1, <2>2
<1>6. /\ Len(buffer) >= FrameLength(buffer) <=> Len(buffer) >= Len(x)
      /\ Len(buffer) >= FrameLength(buffer) => FrameLength(buffer) = Len(x)
  <2>1. FrameLength(buffer) = IF Len(buffer) < 2 THEN 2 ELSE 2 + m.size
    <3>1. Len(buffer) \in Nat
      BY <1>1
    <3> QED BY <1>5, <3>1 DEF FrameLength
  <2>2. Len(buffer) \in Nat /\ Len(buffer) >= 1 /\ Len(x) = 2 + m.size /\ m.size \in Nat
    BY <1>1, <1>2
  <2> QED BY <2>1, <2>2
<1> QED BY <1>4, <1>6 DEF x

(* A response at the front is found when it is whole, and then with its    *)
(* length: no unit before the empty line is taken for it.                  *)
LEMMA FrontIsResponse ==
  ASSUME FramingInv, buffer # <<>>, wire[NextMessage].kind = "response"
  PROVE  /\ ~StartsFrame(buffer)
         /\ HasResponse(buffer) <=> Len(buffer) >= Len(UnitsOf(wire[NextMessage]))
         /\ HasResponse(buffer) => ResponseLength(buffer) = Len(UnitsOf(wire[NextMessage]))
         /\ Unexpected(buffer) => Len(buffer) >= 3
<1> DEFINE m == wire[NextMessage]
           x == UnitsOf(wire[NextMessage])
<1>1. /\ Len(buffer) \in Nat /\ Len(buffer) >= 1 /\ m \in MessageSet
      /\ DOMAIN buffer = 1..Len(buffer)
      /\ \A k \in 1..Len(buffer) : k <= Len(x) => buffer[k] = x[k]
  BY BufferFront
<1>2. /\ Len(x) = 4 + m.size /\ m.size \in Nat
      /\ x[1].k = "RT" /\ x[2].k = "SP" /\ x[3].k = "head"
      /\ x[4] = Unit("end", m.size)
  <2>1. m.size \in Nat
    BY <1>1 DEF MessageSet
  <2> QED BY <1>1, <2>1, UnitsShape
<1> HIDE DEF m, x
<1>3. \A k \in 1..4 : k <= Len(buffer) => buffer[k] = x[k]
  <2>1. \A k \in 1..4 : k <= Len(buffer) => k \in 1..Len(buffer) /\ k <= Len(x)
    BY <1>1, <1>2
  <2> QED BY <1>1, <2>1
<1>4. /\ buffer[1].k = "RT"
      /\ Len(buffer) >= 2 => buffer[2].k = "SP"
      /\ Len(buffer) >= 3 => buffer[3].k = "head"
      /\ Len(buffer) >= 4 => buffer[4].k = "end" /\ buffer[4].n = m.size
  BY <1>1, <1>2, <1>3 DEF Unit
<1>5. \A i \in HeaderEnds(buffer) : i \in Nat /\ i >= 4 /\ i <= Len(buffer)
  BY <1>1, <1>4 DEF HeaderEnds
<1>6. Len(buffer) >= 4 => 4 \in HeaderEnds(buffer)
  BY <1>1, <1>4 DEF HeaderEnds
<1>7. HeaderEnds(buffer) # {} <=> Len(buffer) >= 4
  BY <1>1, <1>5, <1>6
<1>8. Len(buffer) >= 4 => HeaderEnd(buffer) = 4
  <2>1. SUFFICES ASSUME Len(buffer) >= 4
                 PROVE  HeaderEnd(buffer) = 4
    OBVIOUS
  <2>2. /\ HeaderEnd(buffer) \in HeaderEnds(buffer)
        /\ \A j \in HeaderEnds(buffer) : HeaderEnd(buffer) <= j
    <3>1. 4 \in HeaderEnds(buffer) /\ \A j \in HeaderEnds(buffer) : 4 <= j
      BY <1>5, <1>6, <2>1
    <3> QED BY <3>1, Zenon DEF HeaderEnd
  <2> QED BY <1>5, <1>6, <2>1, <2>2
<1>9. /\ HasResponse(buffer) <=> Len(buffer) >= Len(x)
      /\ HasResponse(buffer) => ResponseLength(buffer) = Len(x)
  <2>1. Len(buffer) >= 4 => ResponseLength(buffer) = Len(x)
    BY <1>2, <1>4, <1>8 DEF ResponseLength
  <2> HIDE DEF HeaderEnds
  <2>2. StartsResponse(buffer) <=> Len(buffer) >= 2
    BY <1>4 DEF StartsResponse
  <2> QED BY <1>1, <1>2, <1>7, <2>1, <2>2 DEF HasResponse
<1>10. Unexpected(buffer) => Len(buffer) >= 3
  <2>1. SUFFICES ASSUME Len(buffer) <= 2
                 PROVE  IsPrefixOfTag(buffer)
    BY <1>1 DEF Unexpected
  <2>2. \A i \in DOMAIN buffer : i = 1 \/ (i = 2 /\ Len(buffer) >= 2)
    BY <1>1, <2>1
  <2>3. <<"RT", "SP">>[1] = "RT" /\ <<"RT", "SP">>[2] = "SP"
    OBVIOUS
  <2> QED BY <1>4, <2>1, <2>2, <2>3 DEF IsPrefixOfTag
<1> QED BY <1>4, <1>9, <1>10 DEF StartsFrame, x

(* A malformed byte at the front is taken for nothing.                     *)
LEMMA FrontIsJunk ==
  ASSUME FramingInv, buffer # <<>>, wire[NextMessage].kind = "junk"
  PROVE  ~StartsFrame(buffer) /\ ~HasResponse(buffer)
<1> DEFINE x == UnitsOf(wire[NextMessage])
<1>1. /\ Len(buffer) \in Nat /\ Len(buffer) >= 1 /\ wire[NextMessage] \in MessageSet
      /\ \A k \in 1..Len(buffer) : k <= Len(x) => buffer[k] = x[k]
  BY BufferFront
<1>2. Len(x) = 1 /\ x[1].k = "junk"
  BY <1>1, UnitsShape
<1>3. buffer[1].k = "junk"
  BY <1>1, <1>2
<1> QED BY <1>3 DEF StartsFrame, HasResponse, StartsResponse

(* What a step leaves of the invariant when it neither returns a message   *)
(* nor fails the stream.                                                   *)
LEMMA Waiting ==
  ASSUME FramingInv,
         UNCHANGED <<wire, consumed, parsed, failure>>,
         Counts',
         pc' \in {"loop", "frame", "poll", "failed"},
         pc' = "failed" <=> pc = "failed",
         received <= received', 
         pc = "failed" => received' = received,
         FrameBegun'
  PROVE  FramingInv'
<1>1. ReturnsWhatWasSent'
  BY DEF FramingInv, ReturnsWhatWasSent, Boundary
<1>2. RejectionIsExplained'
  <2>1. CASE pc = "failed"
    BY <2>1 DEF FramingInv, RejectionIsExplained, Partly, NextMessage
  <2>2. CASE pc # "failed"
    BY <2>2 DEF FramingInv, RejectionIsExplained
  <2> QED BY <2>1, <2>2
<1> QED BY <1>1, <1>2 DEF FramingInv

(* A whole message leaves the buffer: it is the next one on the wire.      *)
LEMMA Returning ==
  ASSUME FramingInv, buffer # <<>>, NEW kind \in {"frame", "response"},
         wire[NextMessage].kind = kind,
         NEW length, length = Len(UnitsOf(wire[NextMessage])), Len(buffer) >= length,
         Return(kind, length), pc # "failed"
  PROVE  FramingInv'
<1> DEFINE m == wire[NextMessage]
           n == Len(parsed)
<1>1. /\ wire \in Seq(MessageSet) /\ parsed \in Seq(MessageSet) /\ m \in MessageSet
      /\ n \in Nat /\ n + 1 \in DOMAIN wire /\ n + 1 <= Len(wire)
      /\ Boundary(n + 1) = consumed + length
      /\ Len(buffer) = received - consumed
  BY BufferFront DEF FramingInv, NextMessage
<1>2. UNCHANGED <<wire, sent, received, failure>> /\ pc' = "loop"
  BY DEF Return
<1>3. /\ m.size \in Nat /\ length = m.size + (IF kind = "frame" THEN 2 ELSE 4)
      /\ length \in Nat
  <2>1. m.size \in Nat
    BY <1>1 DEF MessageSet
  <2>2. /\ kind = "frame" => length = 2 + m.size
        /\ kind = "response" => length = 4 + m.size
    BY <1>1, UnitsShape, Zenon
  <2> HIDE DEF m
  <2> QED BY <2>1, <2>2
<1>4. parsed' = Append(parsed, m)
  <2>1. length - (IF kind = "frame" THEN 2 ELSE 4) = m.size
    BY <1>3
  <2>2. m = Message(kind, m.size)
    BY <1>1 DEF MessageSet, Message
  <2> HIDE DEF m
  <2> QED BY <2>1, <2>2, Zenon DEF Return
<1>5. /\ parsed' \in Seq(MessageSet) /\ Len(parsed') = n + 1
      /\ \A i \in DOMAIN parsed' : i \in DOMAIN parsed \/ i = n + 1
      /\ \A i \in DOMAIN parsed : parsed'[i] = parsed[i]
      /\ parsed'[n + 1] = m
  <2> HIDE DEF m
  <2> QED BY <1>1, <1>4
<1>6. ReturnsWhatWasSent'
  <2>1. \A i \in DOMAIN parsed' : parsed'[i] = wire'[i]
    BY <1>2, <1>5 DEF FramingInv, ReturnsWhatWasSent, NextMessage
  <2>2. consumed' = Boundary(n + 1)
    BY <1>1 DEF Return
  <2>3. Boundary(n + 1) = Boundary(Len(parsed))'
    BY <1>2, <1>5, Zenon DEF Boundary
  <2>4. Len(parsed') <= Len(wire')
    BY <1>1, <1>2, <1>5
  <2> QED BY <2>1, <2>2, <2>3, <2>4 DEF ReturnsWhatWasSent
<1>7. Counts'
  <2>1. consumed' = consumed + length
    BY DEF Return
  <2>2. Stream' = Stream
    BY <1>2 DEF Stream
  <2>3. consumed + length <= received /\ consumed + length \in Nat
    <3>1. Len(buffer) = received - consumed /\ length \in Nat
      BY <1>1, <1>3
    <3>2. received \in Nat /\ consumed \in Nat
      BY DEF FramingInv, Counts
    <3> QED BY <3>1, <3>2
  <2> QED BY <1>2, <2>1, <2>2, <2>3 DEF FramingInv, Counts
<1>8. failure = "none"
  BY DEF FramingInv
<1> QED BY <1>2, <1>5, <1>6, <1>7, <1>8 DEF FramingInv, FrameBegun, RejectionIsExplained

(* The stream fails: the message at the front of the buffer explains it.   *)
LEMMA Failing ==
  ASSUME FramingInv, NEW why \in {"malformed", "limit", "transport"},
         Fail(why), Counts',
         UNCHANGED <<wire, consumed, parsed>>,
         why # "limit" =>
           /\ received' = received /\ NextMessage <= Len(wire)
           /\ IF why = "transport" THEN Partly("frame", 1)
              ELSE wire[NextMessage].kind = "junk" \/ Partly("response", 3)
  PROVE  FramingInv'
<1>1. failure' = why /\ pc' = "failed"
  BY DEF Fail
<1>2. ReturnsWhatWasSent'
  BY DEF FramingInv, ReturnsWhatWasSent, Boundary
<1>3. RejectionIsExplained'
  BY <1>1 DEF RejectionIsExplained, Partly, NextMessage
<1> QED BY <1>1, <1>2, <1>3 DEF FramingInv, FrameBegun

(* The invariant holds of every state the reader reaches.                  *)
LEMMA FramingInductive ==
  FramingSpec => []FramingInv
<1>1. FramingInit => FramingInv
  <2> SUFFICES ASSUME FramingInit PROVE FramingInv
    OBVIOUS
  <2>1. wire \in Seq(MessageSet) /\ Len(wire) \in Nat
    <3>1. wire \in Seq(MessageSet)
      BY WiresAssumption DEF FramingInit, MessageSet
    <3> QED BY <3>1
  <2>2. /\ parsed = <<>> /\ parsed \in Seq(MessageSet) /\ Len(parsed) = 0 /\ DOMAIN parsed = {}
    BY DEF FramingInit
  <2>3. Boundary(0) = 0
    <3>1. 0 \in 0..Len(wire) /\ Len(<<>>) = 0
      BY <2>1
    <3>2. FlatFront(UnitsIn(wire), 0) = <<>>
      BY <2>1, StreamIs, FrontStep
    <3> QED BY <2>1, <3>1, <3>2, StreamIs, Zenon
  <2>4. Len(Stream) \in Nat
    <3>1. Len(wire) \in 0..Len(wire)
      BY <2>1
    <3>2. Stream \in Seq(UnitSet)
      BY <2>1, <3>1, StreamIs, FrontType
    <3> QED BY <3>2
  <2>5. Counts
    BY <2>4 DEF FramingInit, Counts
  <2>6. ReturnsWhatWasSent
    <3>1. consumed = Boundary(Len(parsed))
      BY <2>2, <2>3, Zenon DEF FramingInit
    <3> QED BY <2>1, <2>2, <3>1 DEF ReturnsWhatWasSent
  <2> QED BY <2>1, <2>2, <2>5, <2>6 DEF FramingInit, FramingInv, FrameBegun, RejectionIsExplained
<1>2. FramingInv /\ [FramingNext]_framingVars => FramingInv'
  <2> SUFFICES ASSUME FramingInv, [FramingNext]_framingVars
               PROVE  FramingInv'
    OBVIOUS
  <2>0. UNCHANGED wire => Stream' = Stream
    BY DEF Stream
  <2>1. ASSUME buffer # <<>>
        PROVE  /\ wire[NextMessage].kind \in {"frame", "response", "junk"}
               /\ NextMessage <= Len(wire)
               /\ StartsFrame(buffer) <=> wire[NextMessage].kind = "frame"
               /\ wire[NextMessage].kind = "junk" => ~HasResponse(buffer)
    <3>1. /\ wire[NextMessage].kind \in {"frame", "response", "junk"}
          /\ NextMessage <= Len(wire)
      BY <2>1, BufferFront DEF MessageSet, Kinds
    <3> QED BY <2>1, <3>1, FrontIsFrame, FrontIsResponse, FrontIsJunk
  <2>2. /\ Len(buffer) = received - consumed /\ Len(buffer) \in Nat
        /\ buffer # <<>> <=> Len(buffer) >= 1
    BY BufferFront
  <2>3. StartsFrame(buffer) => buffer # <<>>
    BY DEF StartsFrame
  <2>4. HasResponse(buffer) => buffer # <<>>
    BY <2>2 DEF HasResponse, StartsResponse
  <2>5. UNCHANGED <<wire, sent, received, consumed>> => Counts'
    BY <2>0 DEF FramingInv, Counts
  <2>6. CASE TakeFrame
    <3>1. /\ pc # "failed" /\ buffer # <<>> /\ wire[NextMessage].kind = "frame"
          /\ Len(buffer) >= FrameLength(buffer) /\ Return("frame", FrameLength(buffer))
      BY <2>1, <2>3, <2>6 DEF TakeFrame
    <3>2. FrameLength(buffer) = Len(UnitsOf(wire[NextMessage]))
      BY <3>1, FrontIsFrame
    <3> QED BY <3>1, <3>2, Returning
  <2>7. CASE WantFrame
    <3>1. buffer # <<>> /\ wire[NextMessage].kind = "frame" /\ consumed < received
      <4>1. buffer # <<>> /\ wire[NextMessage].kind = "frame"
        BY <2>1, <2>3, <2>7 DEF WantFrame
      <4> QED BY <2>2, <4>1 DEF FramingInv, Counts
    <3>2. FrameBegun'
      BY <2>7, <3>1 DEF WantFrame, FrameBegun, NextMessage
    <3> QED BY <2>5, <2>7, <3>2, Waiting DEF WantFrame, FramingInv, Counts
  <2>8. CASE TakeResponse
    <3>1. /\ pc # "failed" /\ buffer # <<>> /\ wire[NextMessage].kind = "response"
          /\ HasResponse(buffer) /\ Return("response", ResponseLength(buffer))
      BY <2>1, <2>4, <2>8 DEF TakeResponse
    <3>2. /\ ResponseLength(buffer) = Len(UnitsOf(wire[NextMessage]))
          /\ Len(buffer) >= ResponseLength(buffer)
      BY <3>1, FrontIsResponse DEF HasResponse
    <3> QED BY <3>1, <3>2, Returning
  <2>9. CASE RejectBuffer
    <3>1. /\ buffer # <<>> /\ ~StartsFrame(buffer) /\ ~HasResponse(buffer) /\ Unexpected(buffer)
          /\ Fail("malformed") /\ UNCHANGED <<wire, sent, received, consumed, parsed>>
      BY <2>9 DEF RejectBuffer, Unexpected
    <3>2. ASSUME wire[NextMessage].kind = "response"
          PROVE  Partly("response", 3)
      <4>1. Len(buffer) >= 3 /\ ~(Len(buffer) >= Len(UnitsOf(wire[NextMessage])))
        BY <3>1, <3>2, FrontIsResponse
      <4>2. Len(UnitsOf(wire[NextMessage])) \in Nat
        <5>1. UnitsOf(wire[NextMessage]) \in Seq(UnitSet)
          BY <3>1, BufferFront, UnitsShape
        <5> QED BY <5>1
      <4> QED BY <2>2, <3>2, <4>1, <4>2 DEF Partly
    <3>3. NextMessage <= Len(wire) /\ (wire[NextMessage].kind = "junk" \/ Partly("response", 3))
      BY <2>1, <3>1, <3>2
    <3> QED BY <2>5, <3>1, <3>3, Failing
  <2>10. CASE WantMore
    <3>1. FrameBegun'
      BY <2>10 DEF WantMore, FrameBegun
    <3> QED BY <2>5, <2>10, <3>1, Waiting DEF WantMore, FramingInv, Counts
  <2>11. CASE Receive
    <3>1. /\ received' \in Nat /\ received <= received' /\ received' <= sent
          /\ pc \in {"poll", "frame"} /\ UNCHANGED <<wire, sent, consumed, parsed>>
      BY <2>11 DEF Receive, FramingInv, Counts
    <3>2. Counts'
      BY <2>0, <3>1 DEF FramingInv, Counts
    <3>3. CASE Fail("limit")
      BY <3>1, <3>2, <3>3, Failing
    <3>4. CASE pc' = (IF pc = "poll" THEN "loop" ELSE "frame") /\ UNCHANGED failure
      <4>1. FrameBegun'
        BY <3>1, <3>4 DEF FramingInv, Counts, FrameBegun, NextMessage
      <4> QED BY <3>1, <3>2, <3>4, <4>1, Waiting
    <3> QED BY <2>11, <3>3, <3>4 DEF Receive
  <2>12. CASE PollTimeout
    <3>1. FrameBegun'
      BY <2>12 DEF PollTimeout, FrameBegun
    <3> QED BY <2>5, <2>12, <3>1, Waiting DEF PollTimeout, FramingInv, Counts
  <2>13. CASE FrameTimeout
    <3>1. /\ consumed < received /\ wire[NextMessage].kind = "frame"
          /\ Len(buffer) < FrameLength(buffer) /\ Fail("transport")
          /\ UNCHANGED <<wire, sent, received, consumed, parsed>>
      BY <2>13 DEF FrameTimeout, FramingInv, FrameBegun
    <3>2. buffer # <<>>
      BY <2>2, <3>1 DEF FramingInv, Counts
    <3>3. Len(UnitsOf(wire[NextMessage])) \in Nat
      <4>1. UnitsOf(wire[NextMessage]) \in Seq(UnitSet)
        BY <3>2, BufferFront, UnitsShape
      <4> QED BY <4>1
    <3>4. ~(Len(buffer) >= Len(UnitsOf(wire[NextMessage])))
      <4>1. FrameLength(buffer) \in Nat
        <5>1. wire[NextMessage] \in MessageSet
          BY <3>2, BufferFront
        <5>2. wire[NextMessage].size \in Nat
          BY <5>1 DEF MessageSet
        <5>3. Len(buffer) >= 2 => buffer[2].n = wire[NextMessage].size
          <6>1. Len(buffer) >= 2 => 2 \in 1..Len(buffer) /\ 2 <= Len(UnitsOf(wire[NextMessage]))
            BY <2>2, <3>1, <5>1, <5>2, UnitsShape
          <6> QED BY <3>1, <3>2, <5>1, <6>1, BufferFront, UnitsShape
        <5> QED BY <2>2, <5>2, <5>3 DEF FrameLength
      <4>2. ~(Len(buffer) >= FrameLength(buffer))
        BY <2>2, <3>1, <4>1
      <4> QED BY <3>1, <3>2, <4>2, FrontIsFrame
    <3>5. Partly("frame", 1)
      BY <2>2, <3>1, <3>3, <3>4 DEF Partly, FramingInv, Counts
    <3>6. NextMessage <= Len(wire)
      BY <2>1, <3>2
    <3> QED BY <2>5, <3>1, <3>5, <3>6, Failing
  <2>14. CASE RecorderSends
    <3>1. /\ UNCHANGED <<wire, received, consumed, pc, parsed, failure>>
          /\ sent' \in Nat /\ sent <= sent' /\ sent' <= Len(Stream)
      <4>1. Len(Stream) \in Nat
        <5>1. /\ wire \in Seq(MessageSet) /\ Len(wire) \in 0..Len(wire)
          BY DEF FramingInv
        <5>2. Stream \in Seq(UnitSet)
          BY <5>1, StreamIs, FrontType
        <5> QED BY <5>2
      <4> QED BY <2>14, <4>1 DEF RecorderSends, FramingInv, Counts
    <3>2. Counts'
      BY <2>0, <3>1 DEF FramingInv, Counts
    <3>3. FrameBegun'
      BY <3>1 DEF FramingInv, FrameBegun, NextMessage
    <3> QED BY <3>1, <3>2, <3>3, Waiting DEF FramingInv, Counts
  <2>15. CASE UNCHANGED framingVars
    <3>1. FrameBegun'
      BY <2>15 DEF framingVars, FramingInv, FrameBegun, NextMessage
    <3> QED BY <2>5, <2>15, <3>1, Waiting DEF framingVars, FramingInv, Counts
  <2> QED
    BY <2>6, <2>7, <2>8, <2>9, <2>10, <2>11, <2>12, <2>13, <2>14, <2>15
    DEF FramingNext, ReaderStep
<1> QED BY <1>1, <1>2, PTL DEF FramingSpec

(* ReturnsWhatWasSent, for every wire and every way the bytes of it may be *)
(* sent and received: what the reader returns is the front of what the     *)
(* recorder sent, message by message.                                      *)
THEOREM FramingReturnsWhatWasSent ==
  FramingSpec => []ReturnsWhatWasSent
<1>1. FramingInv => ReturnsWhatWasSent
  BY DEF FramingInv
<1> QED BY <1>1, FramingInductive, PTL

(* RejectionIsExplained: the stream is failed for a byte that starts no    *)
(* message, for a response of which only a part has come, or for a pause   *)
(* inside a frame, and for nothing else.                                   *)
THEOREM FramingRejectionIsExplained ==
  FramingSpec => []RejectionIsExplained
<1>1. FramingInv => RejectionIsExplained
  BY DEF FramingInv
<1> QED BY <1>1, FramingInductive, PTL

(***************************************************************************)
(* What the reader of RtspStream takes a message to be: each message that  *)
(* the recorder sends is handed over once, whole and in its turn, and none *)
(* after the stream has failed.                                            *)
(***************************************************************************)
HandedOver ==
  /\ failure = "none" /\ NextMessage <= Len(wire)
  /\ parsed' = Append(parsed, wire[NextMessage])

MessagesAreHandedOver == [][wire' = wire /\ (parsed' # parsed => HandedOver)]_framingVars

THEOREM FramingHandsOver == FramingSpec => MessagesAreHandedOver
<1>1. FramingInv /\ FramingInv' /\ [FramingNext]_framingVars
        => [wire' = wire /\ (parsed' # parsed => HandedOver)]_framingVars
  <2> SUFFICES ASSUME FramingInv, FramingInv', FramingNext
               PROVE  wire' = wire /\ (parsed' # parsed => HandedOver)
    OBVIOUS
  <2>1. wire' = wire
    BY DEF FramingNext, ReaderStep, TakeFrame, WantFrame, TakeResponse, RejectBuffer, WantMore,
       Receive, PollTimeout, FrameTimeout, RecorderSends, Return
  <2>2. parsed' # parsed => TakeFrame \/ TakeResponse
    BY DEF FramingNext, ReaderStep, WantFrame, RejectBuffer, WantMore,
       Receive, PollTimeout, FrameTimeout, RecorderSends
  <2>3. ASSUME TakeFrame \/ TakeResponse PROVE HandedOver
    <3>1. pc # "failed" /\ failure = "none"
      BY <2>3 DEF TakeFrame, TakeResponse, FramingInv
    <3>2. PICK m : parsed' = Append(parsed, m)
      BY <2>3 DEF TakeFrame, TakeResponse, Return
    <3>3. /\ parsed \in Seq(MessageSet) /\ parsed' \in Seq(MessageSet)
          /\ Len(parsed') <= Len(wire) /\ \A i \in DOMAIN parsed' : parsed'[i] = wire[i]
      BY <2>1 DEF FramingInv, ReturnsWhatWasSent
    <3>4. Len(parsed') = NextMessage /\ NextMessage \in DOMAIN parsed' /\ parsed'[NextMessage] = m
      BY <3>2, <3>3 DEF NextMessage
    <3> QED BY <3>1, <3>2, <3>3, <3>4 DEF HandedOver
  <2> QED BY <2>1, <2>2, <2>3
<1> QED BY <1>1, FramingInductive, PTL DEF FramingSpec, MessagesAreHandedOver

-----------------------------------------------------------------------------
(* A buffer the reader leaves for a poll holds nothing, or no more than    *)
(* the tag of a response.                                                  *)
LEMMA LeftForThePoll ==
  ASSUME FramingInv, buffer # <<>>, ~StartsFrame(buffer), ~Unexpected(buffer)
  PROVE  Partly("response", 1) /\ received - consumed <= 2
<1> DEFINE x == UnitsOf(wire[NextMessage])
<1>1. /\ Len(buffer) = received - consumed /\ Len(buffer) \in Nat /\ Len(buffer) >= 1
      /\ DOMAIN buffer = 1..Len(buffer) /\ wire[NextMessage] \in MessageSet
      /\ \A k \in 1..Len(buffer) : k <= Len(x) => buffer[k] = x[k]
  BY BufferFront
<1>2. Len(buffer) <= 2 /\ buffer[1].k = "RT"
  BY <1>1 DEF Unexpected, IsPrefixOfTag
<1>3. wire[NextMessage].kind \in {"frame", "response", "junk"} /\ wire[NextMessage].size \in Nat
  BY <1>1 DEF MessageSet, Kinds
<1>4. wire[NextMessage].kind # "frame"
  BY FrontIsFrame
<1>5. wire[NextMessage].kind # "junk"
  <2>1. SUFFICES ASSUME wire[NextMessage].kind = "junk" PROVE FALSE
    OBVIOUS
  <2>2. Len(x) = 1 /\ x[1].k = "junk"
    BY <1>1, <2>1, UnitsShape
  <2>3. buffer[1] = x[1]
    BY <1>1, <2>2
  <2> QED BY <1>2, <2>2, <2>3
<1>6. wire[NextMessage].kind = "response" /\ Len(x) = 4 + wire[NextMessage].size
  BY <1>1, <1>3, <1>4, <1>5, UnitsShape
<1> QED BY <1>1, <1>2, <1>3, <1>6 DEF Partly

(* The reader waits for more bytes between messages only when it must: a   *)
(* whole message, or a byte that starts none, never sits in the buffer of  *)
(* a reader that polls.  (Of AllReturnedOrFailed, what is not fairness.)   *)
PollsForMore ==
  pc = "poll" /\ buffer # <<>> => Partly("response", 1) /\ received - consumed <= 2

THEOREM ReaderPollsForMore == FramingSpec => []PollsForMore
<1>1. FramingInit => PollsForMore
  BY DEF FramingInit, PollsForMore
<1>2. FramingInv /\ PollsForMore /\ [FramingNext]_framingVars => PollsForMore'
  <2> SUFFICES ASSUME FramingInv, PollsForMore, [FramingNext]_framingVars, pc' = "poll"
               PROVE  PollsForMore'
    BY DEF PollsForMore
  <2>1. ASSUME UNCHANGED <<wire, received, consumed, parsed>>
        PROVE  /\ buffer' = buffer
               /\ Partly("response", 1)' <=> Partly("response", 1)
    BY <2>1, Zenon DEF buffer, Stream, Partly, NextMessage
  <2>2. CASE WantMore
    <3>1. UNCHANGED <<wire, received, consumed, parsed>> /\ ~StartsFrame(buffer) /\ ~Unexpected(buffer)
      BY <2>2 DEF WantMore
    <3>2. buffer # <<>> => Partly("response", 1) /\ received - consumed <= 2
      BY <3>1, LeftForThePoll
    <3> QED BY <2>1, <3>1, <3>2 DEF PollsForMore
  <2>3. CASE RecorderSends \/ UNCHANGED framingVars
    <3>1. UNCHANGED <<wire, received, consumed, pc, parsed>>
      BY <2>3 DEF RecorderSends, framingVars
    <3> QED BY <2>1, <3>1 DEF PollsForMore
  <2>4. ~TakeFrame /\ ~WantFrame /\ ~TakeResponse /\ ~RejectBuffer /\ ~Receive /\ ~PollTimeout /\ ~FrameTimeout
    BY DEF TakeFrame, WantFrame, TakeResponse, RejectBuffer, Receive, PollTimeout, FrameTimeout, Return, Fail
  <2> QED BY <2>2, <2>3, <2>4 DEF FramingNext, ReaderStep
<1> QED BY <1>1, <1>2, FramingInductive, PTL DEF FramingSpec
=============================================================================
