--------------------------- MODULE RtspConnection ---------------------------
(***************************************************************************)
(* One RTSP session: class _RtspConnection of                              *)
(* src/src/dahua_rpc/_rtsp_connection.py, driven as RecordingPlayback and  *)
(* LiveStream drive it (start, requests, close).  Two threads share it:    *)
(* the application's ("app") and the keepalive thread ("keeper").  They    *)
(* share the request lock, the CSeq counter and the Digest state.          *)
(*                                                                         *)
(* The stream is the one of RtspStream.tla: here it is not there, open or  *)
(* failed, and an exchange on it ends in a response or in an exception.    *)
(***************************************************************************)
EXTENDS Naturals, Sequences

CONSTANTS
  Tracks,         \* tracks to SETUP: video, or video and audio
  MaxStarts,      \* bound: calls of start()
  MaxRequests,    \* bound: CSeq or nonce count of the last requests
  MaxNonces       \* bound: nonces the recorder issues

ASSUME TracksAssumption == Tracks \in Nat \ {0}
ASSUME BoundsAssumption == MaxStarts \in Nat /\ MaxRequests \in Nat /\ MaxNonces \in Nat

Threads == {"app", "keeper"}
Nobody == "nobody"
NoAuth == <<0, 0>>

VARIABLES
  (* the application: RecordingPlayback and LiveStream *)
  life,           \* _state: "new", "active" or "closed"
  task,           \* the operation in progress
  plan,           \* the requests it has still to send
  starts,
  (* the connection *)
  stream,         \* _stream (and _socket): "none", "open" or "failed"
  session,        \* session: a number the recorder issued, or 0
  lock,           \* _request_lock
  cseq,           \* _cseq
  digest,         \* _digest: <<nonce, nonce_count>>, or NoAuth
  pending,        \* _pending of the stream
  stop, handle,   \* _keepalive_stop; whether _keepalive_thread is not None
  (* the threads *)
  pc,
  attempt, auth, mine,  \* in _request and _request_once: the attempt, the
                        \* authorization and the CSeq registered
  joins,          \* in _stop_keepalive: whether there is a thread to join
  (* the recorder *)
  nonces,         \* nonces it has issued
  issued, held,   \* sessions it has issued, and those it still holds
  (* ghosts *)
  used,           \* the <<nonce, nonce_count>> sent
  expired,        \* a join ended with its thread alive
  forsaken        \* a start failed after SETUP, or a TEARDOWN failed

appVars    == <<life, task, plan, starts>>
sharedVars == <<cseq, digest, pending>>
localVars  == <<attempt, auth, mine>>
keepVars   == <<stop, handle, joins>>
recVars    == <<nonces, issued, held>>
vars == <<appVars, stream, session, lock, sharedVars, keepVars, pc, localVars,
          recVars, used, expired, forsaken>>

Requesting == {"lock", "count", "sign", "register", "send", "wait"}

Init ==
  /\ life = "new" /\ task = "none" /\ plan = <<>> /\ starts = 0
  /\ stream = "none" /\ session = 0
  /\ lock = Nobody /\ cseq = 1 /\ digest = NoAuth /\ pending = {}
  /\ stop = FALSE /\ handle = FALSE /\ joins = FALSE
  /\ pc = [t \in Threads |-> IF t = "app" THEN "idle" ELSE "unborn"]
  /\ attempt = [t \in Threads |-> 0] /\ auth = [t \in Threads |-> NoAuth]
  /\ mine = [t \in Threads |-> 0]
  /\ nonces = 0 /\ issued = 0 /\ held = {}
  /\ used = {} /\ expired = FALSE /\ forsaken = FALSE

-----------------------------------------------------------------------------
Goto(t, where) == pc' = [pc EXCEPT ![t] = where]

(* The locals of a request that is over. *)
Forget(t) ==
  /\ attempt' = [attempt EXCEPT ![t] = 0]
  /\ auth' = [auth EXCEPT ![t] = NoAuth]
  /\ mine' = [mine EXCEPT ![t] = 0]

KeeperAlive == pc["keeper"] \notin {"unborn", "dead"}

(* The request a thread is making, of which only the method is kept. *)
Method(t) == IF t = "keeper" THEN "OPTIONS" ELSE Head(plan)

(* An exception leaves _request.  In the application, start() and close()  *)
(* go on to close_socket(); in the keeper, its except clause follows.      *)
Raise(t) ==
  /\ lock' = IF lock = t THEN Nobody ELSE lock
  /\ Forget(t)
  /\ IF t = "keeper"
       THEN Goto(t, "except") /\ UNCHANGED <<appVars, forsaken>>
       ELSE /\ plan' = <<>>
            /\ Goto(t, IF task = "request" THEN "idle" ELSE "abort")
            /\ task' = IF task = "request" THEN "none" ELSE task
            /\ forsaken' = (forsaken \/ task = "close" \/ (task = "start" /\ held' # {}))
            /\ UNCHANGED <<life, starts>>

-----------------------------------------------------------------------------
(* start, pause and play, close *)

StartPlan ==
  <<"CHALLENGE", "DESCRIBE">> \o [i \in 1..Tracks |-> "SETUP"] \o <<"PLAY">>

(* A start that fails leaves the playback new: it may be started again.    *)
(* (When the recorder cannot be reached nothing changes.)                  *)
Start ==
  /\ pc["app"] = "idle" /\ life = "new" /\ starts < MaxStarts
  /\ task' = "start" /\ plan' = StartPlan /\ starts' = starts + 1
  /\ stream' = "open" /\ pending' = {}
  /\ Goto("app", "next")
  /\ UNCHANGED <<life, session, lock, cseq, digest, keepVars, localVars, recVars,
                 used, expired, forsaken>>

SessionRequest ==
  /\ pc["app"] = "idle" /\ life = "active" /\ cseq < MaxRequests /\ digest[2] < MaxRequests
  /\ task' = "request" /\ plan' \in {<<"PAUSE">>, <<"PLAY">>}
  /\ Goto("app", "next")
  /\ UNCHANGED <<life, starts, stream, session, lock, sharedVars, keepVars, localVars,
                 recVars, used, expired, forsaken>>

(* mutation: a session whose stream has failed is not torn down *)
CloseOnlyOpen ==
  /\ pc["app"] = "idle" /\ life # "closed"
  /\ task' = "close"
  /\ IF life = "active" /\ session # 0 /\ stream = "open"
       THEN plan' = <<"TEARDOWN">> /\ Goto("app", "stop")
       ELSE plan' = <<>> /\ Goto("app", "abort")
  /\ UNCHANGED <<life, starts, stream, session, lock, sharedVars, keepVars, localVars,
                 recVars, used, expired, forsaken>>

(* close(): teardown() of an active session, then close_socket().          *)
Close ==
  /\ pc["app"] = "idle" /\ life # "closed"
  /\ task' = "close"
  /\ IF life = "active" /\ session # 0 /\ stream # "none"
       THEN plan' = <<"TEARDOWN">> /\ Goto("app", "stop")
       ELSE plan' = <<>> /\ Goto("app", "abort")
  /\ UNCHANGED <<life, starts, stream, session, lock, sharedVars, keepVars, localVars,
                 recVars, used, expired, forsaken>>

(* mutation: the thread is joined without being told to stop *)
StopUntold ==
  /\ pc["app"] \in {"stop", "abort"}
  /\ joins' = handle /\ handle' = FALSE
  /\ Goto("app", IF pc["app"] = "stop" THEN "join" ELSE "abort_join")
  /\ UNCHANGED <<appVars, stream, session, lock, sharedVars, stop, localVars, recVars,
                 used, expired, forsaken>>

(* _stop_keepalive, called by teardown ("stop") and close_socket ("abort") *)
StopKeepalive ==
  /\ pc["app"] \in {"stop", "abort"}
  /\ joins' = handle /\ handle' = FALSE /\ stop' = TRUE
  /\ Goto("app", IF pc["app"] = "stop" THEN "join" ELSE "abort_join")
  /\ UNCHANGED <<appVars, stream, session, lock, sharedVars, localVars, recVars,
                 used, expired, forsaken>>

Joined == Goto("app", IF pc["app"] = "join" THEN "next" ELSE "drop")

Join ==
  /\ pc["app"] \in {"join", "abort_join"}
  /\ joins => pc["keeper"] = "dead"
  /\ Joined
  /\ UNCHANGED <<appVars, stream, session, lock, sharedVars, keepVars, localVars, recVars,
                 used, expired, forsaken>>

(* The join waits timeout + 1, the keeper's request up to twice timeout.   *)
JoinExpires ==
  /\ pc["app"] \in {"join", "abort_join"}
  /\ joins /\ KeeperAlive
  /\ expired' = TRUE
  /\ Joined
  /\ UNCHANGED <<appVars, stream, session, lock, sharedVars, keepVars, localVars, recVars,
                 used, forsaken>>

(* The rest of close_socket(); then start() raises, or close() is done.    *)
CloseSocket ==
  /\ pc["app"] = "drop"
  /\ stream' = "none" /\ pending' = {}
  /\ life' = IF task = "close" THEN "closed" ELSE life
  /\ task' = "none"
  /\ Goto("app", "idle")
  /\ UNCHANGED <<plan, starts, session, lock, cseq, digest, keepVars, localVars, recVars,
                 used, expired, forsaken>>

-----------------------------------------------------------------------------
(* _session_request, _request, _request_once, _send *)

InSession(t) == Method(t) \in {"PLAY", "PAUSE", "TEARDOWN", "OPTIONS"}

(* The first DESCRIBE is made without the lock and without authorization.  *)
Begin(t) ==
  /\ pc[t] = "next"
  /\ Method(t) = "CHALLENGE" \/ (stream # "none" /\ digest # NoAuth /\ (InSession(t) => session # 0))
  /\ Goto(t, IF Method(t) = "CHALLENGE" THEN "register" ELSE "lock")
  /\ UNCHANGED <<appVars, stream, session, lock, sharedVars, keepVars, localVars,
                 recVars, used, expired, forsaken>>

BeginRefused(t) ==
  /\ pc[t] = "next"
  /\ Method(t) # "CHALLENGE"
  /\ stream = "none" \/ digest = NoAuth \/ (InSession(t) /\ session = 0)
  /\ UNCHANGED <<stream, session, sharedVars, keepVars, recVars, used, expired>>
  /\ Raise(t)

Lock(t) ==
  /\ pc[t] = "lock" /\ lock = Nobody
  /\ lock' = t
  /\ Goto(t, "count")
  /\ UNCHANGED <<appVars, stream, session, sharedVars, keepVars, localVars, recVars,
                 used, expired, forsaken>>

(* mutation: the nonce count is not raised when a request is repeated *)
CountOnce(t) ==
  /\ pc[t] = "count"
  /\ digest' = IF digest[2] = 0 THEN <<digest[1], 1>> ELSE digest
  /\ Goto(t, "sign")
  /\ UNCHANGED <<appVars, stream, session, lock, cseq, pending, keepVars, localVars,
                 recVars, used, expired, forsaken>>

(* _DigestState.authorization: the count is raised, ... *)
Count(t) ==
  /\ pc[t] = "count"
  /\ digest' = <<digest[1], digest[2] + 1>>
  /\ Goto(t, "sign")
  /\ UNCHANGED <<appVars, stream, session, lock, cseq, pending, keepVars, localVars,
                 recVars, used, expired, forsaken>>

(* ... and then read, with the nonce. *)
Sign(t) ==
  /\ pc[t] = "sign"
  /\ auth' = [auth EXCEPT ![t] = digest]
  /\ Goto(t, "register")
  /\ UNCHANGED <<appVars, stream, session, lock, sharedVars, keepVars, attempt, mine,
                 recVars, used, expired, forsaken>>

(* The challenge asks for what _authorization cannot do: the count stays   *)
(* raised, and nothing is sent.                                            *)
SignFails(t) ==
  /\ pc[t] = "sign"
  /\ UNCHANGED <<stream, session, sharedVars, keepVars, recVars, used, expired>>
  /\ Raise(t)

Register(t) ==
  /\ pc[t] = "register"
  /\ stream = "open" /\ cseq \notin pending
  /\ mine' = [mine EXCEPT ![t] = cseq]
  /\ pending' = pending \cup {cseq}
  /\ Goto(t, "send")
  /\ UNCHANGED <<appVars, stream, session, lock, cseq, digest, keepVars, attempt, auth,
                 recVars, used, expired, forsaken>>

(* The stream has failed or is gone, or the CSeq is pending already. *)
RegisterRefused(t) ==
  /\ pc[t] = "register"
  /\ stream # "open" \/ cseq \in pending
  /\ UNCHANGED <<stream, session, sharedVars, keepVars, recVars, used, expired>>
  /\ Raise(t)

(* mutation: a request that was not sent leaves its CSeq pending *)
SendFailsPending(t) ==
  /\ pc[t] = "send"
  /\ cseq' \in {cseq, cseq + 1}
  /\ cseq' = cseq => stream = "none"
  /\ UNCHANGED <<stream, session, digest, pending, keepVars, recVars, used, expired>>
  /\ Raise(t)

(* The socket is gone (the CSeq is not consumed), or sendall raises. *)
SendFails(t) ==
  /\ pc[t] = "send"
  /\ cseq' \in {cseq, cseq + 1}
  /\ cseq' = cseq => stream = "none"
  /\ pending' = pending \ {mine[t]}
  /\ UNCHANGED <<stream, session, digest, keepVars, recVars, used, expired>>
  /\ Raise(t)

Send(t) ==
  /\ pc[t] = "send"
  /\ stream # "none"
  /\ cseq' = cseq + 1
  /\ used' = used \cup ({auth[t]} \ {NoAuth})
  /\ Goto(t, "wait")
  /\ UNCHANGED <<appVars, stream, session, lock, digest, pending, keepVars, localVars,
                 recVars, expired, forsaken>>

-----------------------------------------------------------------------------
(* The recorder acts on a request, or does not, and its response arrives,  *)
(* or does not.                                                            *)

NewSession == issued' = issued + 1 /\ held' = held \cup {issued + 1}

Acts(t) ==
  CASE Method(t) = "SETUP" /\ session = 0 -> NewSession
    [] Method(t) = "TEARDOWN" -> held' = held \ {session} /\ UNCHANGED issued
    [] OTHER -> UNCHANGED <<issued, held>>

(* What the application does with a response it accepts. *)
Accept ==
  /\ session' = CASE Head(plan) = "SETUP" /\ session = 0 -> issued'
                  [] Head(plan) = "TEARDOWN" -> 0
                  [] OTHER -> session
  /\ plan' = Tail(plan)

NotInStart == task # "start" \/ Len(plan) > 1

(* The last PLAY of a start goes on to _start_keepalive, and to the        *)
(* playback becoming active; the others to the next request or the end.    *)
Answered(t) ==
  /\ pc[t] = "wait" /\ stream = "open"
  /\ t = "app" => Method(t) # "CHALLENGE"
  /\ Acts(t)
  /\ lock' = Nobody /\ Forget(t)
  /\ pending' = pending \ {mine[t]}
  /\ \/ /\ t = "keeper"
        /\ Goto(t, "sleep")
        /\ UNCHANGED <<appVars, session, keepVars>>
     \/ /\ t = "app" /\ NotInStart
        /\ Accept
        /\ Goto(t, IF Len(plan) > 1 THEN "next" ELSE IF task = "close" THEN "abort" ELSE "idle")
        /\ task' = IF task = "request" THEN "none" ELSE task
        /\ UNCHANGED <<life, starts, keepVars>>
     \/ /\ t = "app" /\ ~NotInStart
        /\ Accept
        /\ pc' = [pc EXCEPT !["app"] = "idle", !["keeper"] = "sleep"]
        /\ handle' = TRUE /\ stop' = FALSE
        /\ life' = "active" /\ task' = "none"
        /\ UNCHANGED <<starts, joins>>
  /\ UNCHANGED <<stream, cseq, digest, nonces, used, expired, forsaken>>

(* 401 to the first DESCRIBE. *)
Challenged ==
  /\ pc["app"] = "wait" /\ stream = "open" /\ Method("app") = "CHALLENGE"
  /\ nonces < MaxNonces
  /\ nonces' = nonces + 1 /\ digest' = <<nonces + 1, 0>>
  /\ pending' = pending \ {mine["app"]}
  /\ plan' = Tail(plan)
  /\ Goto("app", "next") /\ Forget("app")
  /\ UNCHANGED <<life, task, starts, stream, session, lock, cseq, keepVars,
                 issued, held, used, expired, forsaken>>

(* 200 to the first DESCRIBE: no second one, and no _digest. *)
Unchallenged ==
  /\ pc["app"] = "wait" /\ stream = "open" /\ Method("app") = "CHALLENGE"
  /\ pending' = pending \ {mine["app"]}
  /\ plan' = Tail(Tail(plan))
  /\ Goto("app", "next") /\ Forget("app")
  /\ UNCHANGED <<life, task, starts, stream, session, lock, cseq, digest, keepVars,
                 recVars, used, expired, forsaken>>

(* 401 with a new nonce: once, the request is repeated with it.  (That a   *)
(* challenge, stale or not, carries a nonce the recorder has not issued    *)
(* before is taken from it: update() restarts the count in either case.)   *)
Stale(t) ==
  /\ pc[t] = "wait" /\ stream = "open" /\ Method(t) # "CHALLENGE"
  /\ attempt[t] = 0 /\ nonces < MaxNonces
  /\ nonces' = nonces + 1
  /\ digest' = <<nonces + 1, 0>>
  /\ pending' = pending \ {mine[t]}
  /\ attempt' = [attempt EXCEPT ![t] = 1]
  /\ Goto(t, "count")
  /\ UNCHANGED <<appVars, stream, session, lock, cseq, keepVars, auth, mine, issued, held,
                 used, expired, forsaken>>

(* 401 again, or without a challenge that can be used: nothing was done.   *)
Unauthorized(t) ==
  /\ pc[t] = "wait" /\ stream = "open"
  /\ pending' = pending \ {mine[t]}
  /\ UNCHANGED <<stream, session, cseq, digest, keepVars, recVars, used, expired>>
  /\ Raise(t)

(* A description without the tracks that are wanted: no SETUP is made. *)
Misdescribed ==
  /\ pc["app"] = "wait" /\ stream = "open" /\ Method("app") \in {"CHALLENGE", "DESCRIBE"}
  /\ pending' = pending \ {mine["app"]}
  /\ UNCHANGED <<stream, session, cseq, digest, keepVars, recVars, used, expired>>
  /\ Raise("app")

(* A SETUP that succeeded and cannot be used: channels that are not        *)
(* confirmed, no Session or another one, or a Session whose timeout is     *)
(* invalid, which has been taken before its timeout is looked at.          *)
Unprepared ==
  /\ pc["app"] = "wait" /\ stream = "open" /\ Method("app") = "SETUP"
  /\ \/ Acts("app") /\ session' \in {session, IF session = 0 THEN issued' ELSE session}
     \/ session # 0 /\ NewSession /\ UNCHANGED session
  /\ pending' = pending \ {mine["app"]}
  /\ UNCHANGED <<stream, cseq, digest, keepVars, nonces, used, expired>>
  /\ Raise("app")

(* Any other response; or none before the timeout, the stream's failure or *)
(* its end, in which case the recorder may have acted all the same.        *)
Refused(t) ==
  /\ pc[t] = "wait"
  /\ \/ UNCHANGED <<issued, held>>
     \/ Acts(t)
     \/ Method(t) = "SETUP" /\ NewSession
  /\ pending' = pending \ {mine[t]}
  /\ UNCHANGED <<stream, session, cseq, digest, keepVars, nonces, used, expired>>
  /\ Raise(t)

-----------------------------------------------------------------------------
(* _keepalive_loop, and the stream below *)

KeepaliveTick ==
  /\ pc["keeper"] = "sleep" /\ (stop \/ cseq < MaxRequests)
  /\ Goto("keeper", IF stop THEN "dead" ELSE "next")
  /\ UNCHANGED <<appVars, stream, session, lock, sharedVars, keepVars, localVars, recVars,
                 used, expired, forsaken>>

(* mutation: the keeper dies without a word *)
KeepaliveGivesUp ==
  /\ pc["keeper"] = "except"
  /\ Goto("keeper", "dead")
  /\ UNCHANGED <<appVars, stream, session, lock, sharedVars, keepVars, localVars, recVars,
                 used, expired, forsaken>>

(* The except clause reads _stream and _keepalive_stop, then calls fail(). *)
KeepaliveExcept ==
  /\ pc["keeper"] = "except"
  /\ Goto("keeper", IF stream # "none" /\ ~stop THEN "fail" ELSE "dead")
  /\ UNCHANGED <<appVars, stream, session, lock, sharedVars, keepVars, localVars, recVars,
                 used, expired, forsaken>>

KeepaliveFail ==
  /\ pc["keeper"] = "fail"
  /\ stream' = IF stream = "open" THEN "failed" ELSE stream
  /\ pending' = {}
  /\ Goto("keeper", "dead")
  /\ UNCHANGED <<appVars, session, lock, cseq, digest, keepVars, localVars, recVars,
                 used, expired, forsaken>>

(* The reader fails the stream (RtspStream). *)
StreamFails ==
  /\ stream = "open"
  /\ stream' = "failed" /\ pending' = {}
  /\ UNCHANGED <<appVars, session, lock, cseq, digest, keepVars, pc, localVars, recVars,
                 used, expired, forsaken>>

-----------------------------------------------------------------------------
Request(t) ==
  \/ Begin(t) \/ BeginRefused(t) \/ Lock(t) \/ Count(t) \/ Sign(t) \/ SignFails(t)
  \/ Register(t) \/ RegisterRefused(t) \/ Send(t) \/ SendFails(t)
  \/ Answered(t) \/ Stale(t) \/ Unauthorized(t) \/ Refused(t)

App ==
  \/ Request("app") \/ Challenged \/ Unchallenged \/ Misdescribed \/ Unprepared
  \/ StopKeepalive \/ Join \/ CloseSocket

Keeper == Request("keeper") \/ KeepaliveTick \/ KeepaliveExcept \/ KeepaliveFail

Next == Start \/ SessionRequest \/ Close \/ App \/ JoinExpires \/ Keeper \/ StreamFails

Spec == Init /\ [][Next]_vars

-----------------------------------------------------------------------------
(* Safety *)

(* No nonce count is used twice with a nonce, whatever requests are        *)
(* repeated and whichever thread makes them.                               *)
NonceCountIsFresh ==
  \A t \in Threads : pc[t] \in {"register", "send"} => auth[t] \notin used

(* A pending CSeq belongs to a thread between its registration and the end *)
(* of its wait: no exception on the way leaves one behind, to swallow the  *)
(* response of a later request.  And it is never refused as a "duplicate   *)
(* pending" one: between reading the counter to register it and advancing  *)
(* it to send, the request lock keeps the other thread from reading it.    *)
PendingIsOwned ==
  /\ pending \subseteq {mine[t] : t \in {u \in Threads : pc[u] \in {"send", "wait"}}}
  /\ \A t \in Threads : pc[t] = "register" /\ stream = "open" => cseq \notin pending

(* The keepalive thread and the session end together.  One that ended of   *)
(* itself has failed the stream: a session that is no longer kept alive is *)
(* not used as if it were.  And TEARDOWN, and the end of the stream, find  *)
(* it gone, unless the wait for it expired: no OPTIONS follows TEARDOWN.   *)
KeepaliveEndsWithSession ==
  /\ life = "active" /\ task # "close" /\ pc["keeper"] = "dead" => stream # "open"
  /\ ~expired /\ (life = "closed" \/ (plan = <<"TEARDOWN">> /\ pc["app"] \in Requesting))
       => ~KeeperAlive

(* What was acquired is given back.  A start that failed leaves nothing    *)
(* running on this side: no stream, no keepalive thread, no lock held; and *)
(* the recorder holds no session of a closed playback, unless a start that *)
(* had set one up failed or TEARDOWN itself did.                           *)
SessionIsReleased ==
  /\ life = "new" /\ task = "none" => stream = "none" /\ ~handle /\ ~KeeperAlive /\ lock = Nobody
  /\ life = "closed" /\ ~forsaken => held = {}

-----------------------------------------------------------------------------
(* Liveness *)

(* Threads keep running, waits end (timeout), the lock is not withheld     *)
(* from the application for ever.  No join needs to expire.                *)
FairSpec == Spec /\ WF_vars(App) /\ SF_vars(Lock("app")) /\ WF_vars(Keeper)

(* close() comes back: the thread it joins never waits for a lock that is  *)
(* held by the one that joins.                                             *)
CloseEnds == (task = "close") ~> (life = "closed")
=============================================================================
