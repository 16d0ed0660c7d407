------------------------ MODULE RtspConnectionProofs ------------------------
(* Theorems about RtspConnection, for every number of tracks and any       *)
(* bounds on starts, requests and nonces.                                  *)
EXTENDS RtspConnection, SequenceTheorems, TLAPS

Methods == {"CHALLENGE", "DESCRIBE", "SETUP", "PLAY", "PAUSE", "TEARDOWN"}

(* Where a thread is while it makes a request, ... *)
Busy == {"next"} \cup Requesting

(* ... and while it may look at what the request lock protects. *)
Critical == {"count", "sign", "register", "send", "wait"}

Places ==
  Busy \cup {"idle", "stop", "join", "abort", "abort_join", "drop",
             "unborn", "sleep", "except", "fail", "dead"}

AppTypes ==
  /\ life \in {"new", "active", "closed"}
  /\ task \in {"none", "start", "request", "close"}
  /\ plan \in Seq(Methods)
  /\ stream \in {"none", "open", "failed"}
  /\ session \in Nat /\ issued \in Nat /\ held \subseteq Nat
  /\ stop \in BOOLEAN /\ handle \in BOOLEAN /\ joins \in BOOLEAN
  /\ expired \in BOOLEAN /\ forsaken \in BOOLEAN
  /\ pc \in [Threads -> Places]

RequestTypes ==
  /\ lock \in Threads \cup {Nobody}
  /\ cseq \in Nat /\ nonces \in Nat
  /\ digest \in Nat \X Nat
  /\ pending \subseteq Nat
  /\ attempt \in [Threads -> {0, 1}]
  /\ auth \in [Threads -> Nat \X Nat]
  /\ mine \in [Threads -> Nat]
  /\ used \subseteq Nat \X Nat

TypeOK == AppTypes /\ RequestTypes

(* The application: what it is doing, and what it has still to send.       *)
PlanOK ==
  /\ plan # <<>>
  /\ task = "start" =>
       \A i \in 1..Len(plan) : plan[i] # "TEARDOWN" /\ (plan[i] = "CHALLENGE" => i = 1 /\ Len(plan) >= 3)
  /\ task = "request" => plan \in {<<"PAUSE">>, <<"PLAY">>}
  /\ task = "close" => plan = <<"TEARDOWN">>

AppInv ==
  /\ task = "none" <=> pc["app"] = "idle"
  /\ task = "start" => life = "new" /\ pc["app"] \in Busy \cup {"abort", "abort_join", "drop"}
  /\ task = "request" => life = "active" /\ pc["app"] \in Busy
  /\ task = "close" => life # "closed" /\ pc["app"] \in Busy \cup {"stop", "join", "abort", "abort_join", "drop"}
  /\ pc["app"] \in Busy \cup {"stop", "join"} => PlanOK
  /\ life = "new" /\ task = "none" => stream = "none"

(* The keepalive thread lives for a session, and is not left behind by a   *)
(* close() unless the join expired.                                        *)
KeeperInv ==
  /\ pc["keeper"] \in Busy \cup {"unborn", "sleep", "except", "fail", "dead"}
  /\ life = "new" => pc["keeper"] = "unborn" /\ ~handle
  /\ life = "active" /\ task # "close" => ~stop /\ handle /\ stream # "none"
  /\ life = "active" /\ task # "close" /\ pc["keeper"] = "dead" => stream # "open"
  /\ handle /\ task = "close" => pc["app"] \in {"stop", "abort"}
  /\ life = "closed" => ~handle
  /\ KeeperAlive /\ ~expired => handle \/ (joins /\ pc["app"] \in {"join", "abort_join"})

(* Whoever signs, registers, sends or waits has the lock, except for the   *)
(* first DESCRIBE, when there is no other thread.                          *)
Locked(t) ==
  \/ pc[t] \in {"count", "sign"}
  \/ pc[t] \in {"register", "send", "wait"} /\ Method(t) # "CHALLENGE"

LockInv ==
  \A t \in Threads :
    /\ Locked(t) <=> lock = t
    /\ pc[t] \in {"lock", "count", "sign"} => Method(t) # "CHALLENGE"

(* A pending CSeq is the one that a sending or waiting thread registered.  *)
PendingInv ==
  \A n \in pending : \E t \in Threads : pc[t] \in {"send", "wait"} /\ n = mine[t]

(* No nonce count was sent above the current one, nor with a nonce that is *)
(* still to come; the count just signed is above all that were sent.       *)
Above(d) == \A u \in used : u[1] = d[1] => u[2] < d[2]

DigestInv ==
  /\ digest[1] <= nonces
  /\ NoAuth \notin used
  /\ \A u \in used : u[1] <= nonces /\ (u[1] = digest[1] => u[2] <= digest[2])
  /\ \A t \in Threads :
       /\ pc[t] \notin Critical => auth[t] = NoAuth
       /\ pc[t] = "sign" => Above(digest)
       /\ pc[t] \in {"register", "send"} /\ Method(t) = "CHALLENGE" => auth[t] = NoAuth
       /\ pc[t] \in {"register", "send"} /\ Method(t) # "CHALLENGE" => auth[t] = digest /\ Above(digest)

(* The recorder holds the session the connection knows, and none that a    *)
(* start or a close() left without a failure of its own.                   *)
SessionInv ==
  ~forsaken =>
    /\ held \subseteq {session} \ {0}
    /\ pc["app"] \in {"abort", "abort_join", "drop"} => held = {}
    /\ life = "closed" => held = {}
    /\ life = "new" /\ task = "none" => held = {}

IInv == TypeOK /\ AppInv /\ KeeperInv /\ LockInv /\ PendingInv /\ DigestInv /\ SessionInv

(* What a sequence of two parts holds. *)
LEMMA TwoParts ==
  ASSUME NEW S, NEW a \in Seq(S), NEW b \in Seq(S)
  PROVE  /\ a \o b \in Seq(S) /\ Len(a \o b) = Len(a) + Len(b)
         /\ \A i \in 1..(Len(a) + Len(b)) :
              (a \o b)[i] = IF i <= Len(a) THEN a[i] ELSE b[i - Len(a)]
BY ConcatProperties

-----------------------------------------------------------------------------
(* The plan of a start: the challenge comes first, and no TEARDOWN.        *)
LEMMA StartPlanShape ==
  /\ StartPlan \in Seq(Methods) /\ StartPlan # <<>>
  /\ \A i \in 1..Len(StartPlan) :
       /\ StartPlan[i] # "TEARDOWN"
       /\ StartPlan[i] = "CHALLENGE" => i = 1 /\ Len(StartPlan) >= 3
<1> USE TracksAssumption DEF Methods
<1> DEFINE first == <<"CHALLENGE", "DESCRIBE">>
           setups == [i \in 1..Tracks |-> "SETUP"]
           last == <<"PLAY">>
<1>1. first \in Seq(Methods) /\ Len(first) = 2 /\ first[1] = "CHALLENGE" /\ first[2] = "DESCRIBE"
  OBVIOUS
<1>2. setups \in Seq(Methods) /\ Len(setups) = Tracks /\ \A i \in 1..Tracks : setups[i] = "SETUP"
  OBVIOUS
<1>3. last \in Seq(Methods) /\ Len(last) = 1 /\ last[1] = "PLAY"
  OBVIOUS
<1>4. StartPlan = (first \o setups) \o last
  BY DEF StartPlan
<1> HIDE DEF first, setups, last
<1> DEFINE head == first \o setups
<1>5. /\ head \in Seq(Methods) /\ Len(head) = Tracks + 2
      /\ \A i \in 1..(Tracks + 2) : head[i] = IF i <= 2 THEN first[i] ELSE setups[i - 2]
  <2>1. /\ head \in Seq(Methods) /\ Len(head) = 2 + Tracks
        /\ \A i \in 1..(2 + Tracks) : head[i] = IF i <= 2 THEN first[i] ELSE setups[i - 2]
    <3>1. /\ head \in Seq(Methods) /\ Len(head) = Len(first) + Len(setups)
          /\ \A i \in 1..(Len(first) + Len(setups)) :
               head[i] = IF i <= Len(first) THEN first[i] ELSE setups[i - Len(first)]
      <4>1. first \in Seq(Methods) /\ setups \in Seq(Methods)
        BY <1>1, <1>2
      <4>2. QED BY <4>1, TwoParts, Zenon
    <3>2. QED BY <1>1, <1>2, <3>1, Zenon
  <2> HIDE DEF head
  <2>2. QED BY <2>1
<1> HIDE DEF head
<1>6. /\ StartPlan \in Seq(Methods) /\ Len(StartPlan) = Tracks + 3
      /\ \A i \in 1..(Tracks + 3) : StartPlan[i] = IF i <= Tracks + 2 THEN head[i] ELSE last[i - (Tracks + 2)]
  <2>1. /\ StartPlan \in Seq(Methods) /\ Len(StartPlan) = (Tracks + 2) + 1
        /\ \A i \in 1..((Tracks + 2) + 1) :
             StartPlan[i] = IF i <= Tracks + 2 THEN head[i] ELSE last[i - (Tracks + 2)]
    <3>1. /\ StartPlan \in Seq(Methods) /\ Len(StartPlan) = Len(head) + Len(last)
          /\ \A i \in 1..(Len(head) + Len(last)) :
               StartPlan[i] = IF i <= Len(head) THEN head[i] ELSE last[i - Len(head)]
      <4>1. head \in Seq(Methods) /\ last \in Seq(Methods) /\ StartPlan = head \o last
        BY <1>3, <1>4, <1>5 DEF head
      <4> HIDE DEF head
      <4>2. QED BY <4>1, TwoParts, Zenon
    <3>2. QED BY <1>3, <1>5, <3>1, Zenon
  <2>2. QED BY <2>1
<1>7. ASSUME NEW i \in 1..Len(StartPlan)
      PROVE  /\ StartPlan[i] # "TEARDOWN"
             /\ StartPlan[i] = "CHALLENGE" => i = 1 /\ Len(StartPlan) >= 3
  <2>1. CASE i <= 2
    BY <1>1, <1>5, <1>6, <2>1
  <2>2. CASE i > 2 /\ i <= Tracks + 2
    <3>1. StartPlan[i] = setups[i - 2] /\ i - 2 \in 1..Tracks
      BY <1>5, <1>6, <2>2
    <3>2. QED BY <1>2, <3>1
  <2>3. CASE i > Tracks + 2
    <3>1. StartPlan[i] = last[1]
      BY <1>6, <2>3
    <3>2. QED BY <1>3, <3>1
  <2>4. QED BY <2>1, <2>2, <2>3
<1>8. StartPlan # <<>>
  BY <1>6
<1>9. QED BY <1>6, <1>7, <1>8

(* The plan that is left when one request of a start is done.              *)
LEMMA PlanTail ==
  ASSUME NEW p \in Seq(Methods), p # <<>>
  PROVE  /\ Head(p) \in Methods /\ Head(p) = p[1]
         /\ Tail(p) \in Seq(Methods) /\ Len(Tail(p)) = Len(p) - 1
         /\ \A i \in 1..Len(Tail(p)) : Tail(p)[i] = p[i + 1]
<1>1. /\ Head(p) \in Methods
      /\ Tail(p) \in Seq(Methods) /\ Len(Tail(p)) = Len(p) - 1
      /\ \A i \in 1..Len(Tail(p)) : Tail(p)[i] = p[i + 1]
  BY HeadTailProperties
<1>2. Head(p) = p[1]
  OBVIOUS
<1>3. QED BY <1>1, <1>2

LEMMA NotEmpty ==
  ASSUME NEW p \in Seq(Methods), Len(p) # 0 PROVE p # <<>>
OBVIOUS

-----------------------------------------------------------------------------
(* The steps, one operator of the disjunction at a time.                   *)
LEMMA Steps ==
  ASSUME [Next]_vars
  PROVE  \/ Start \/ SessionRequest \/ Close \/ StopKeepalive \/ Join \/ JoinExpires \/ CloseSocket
         \/ \E t \in Threads :
              \/ Begin(t) \/ BeginRefused(t) \/ Lock(t) \/ Count(t) \/ Sign(t) \/ SignFails(t)
              \/ Register(t) \/ RegisterRefused(t) \/ Send(t) \/ SendFails(t)
              \/ Answered(t) \/ Stale(t) \/ Unauthorized(t) \/ Refused(t)
         \/ Challenged \/ Unchallenged \/ Misdescribed \/ Unprepared
         \/ KeepaliveTick \/ KeepaliveExcept \/ KeepaliveFail \/ StreamFails
         \/ UNCHANGED vars
BY DEF Next, App, Keeper, Request, Threads

LEMMA EmptyPlan == <<>> \in Seq(Methods)
OBVIOUS

(* What a thread that leaves _request leaves behind, whichever it is.      *)
LEMMA RaiseTypes ==
  ASSUME TypeOK, NEW t \in Threads, Raise(t)
  PROVE  /\ task' \in {"none", "start", "request", "close"}
         /\ plan' \in Seq(Methods)
         /\ life' = life
         /\ forsaken' \in BOOLEAN
         /\ pc' \in [Threads -> Places]
         /\ lock' \in Threads \cup {Nobody}
         /\ attempt' \in [Threads -> {0, 1}]
         /\ auth' \in [Threads -> Nat \X Nat]
         /\ mine' \in [Threads -> Nat]
<1> USE DEF TypeOK, AppTypes, RequestTypes, Places, Busy, Requesting, NoAuth
<1>1. plan' \in Seq(Methods)
  <2>1. plan' = <<>> \/ plan' = plan
    BY DEF Raise, appVars
  <2>2. plan \in Seq(Methods)
    BY DEF TypeOK, AppTypes
  <2>3. QED BY <2>1, <2>2, EmptyPlan, Zenon
<1>2. pc' \in [Threads -> Places]
  BY DEF Raise, Goto
<1>3. lock' \in Threads \cup {Nobody}
  BY DEF Raise
<1>4. attempt' \in [Threads -> {0, 1}] /\ auth' \in [Threads -> Nat \X Nat] /\ mine' \in [Threads -> Nat]
  BY DEF Raise, Forget
<1>5. task' \in {"none", "start", "request", "close"} /\ life' = life
  BY DEF Raise, appVars
<1>6. forsaken' \in BOOLEAN
  BY DEF Raise
<1>7. QED BY <1>1, <1>2, <1>3, <1>4, <1>5, <1>6

(* The recorder's part of a response. *)
LEMMA ActsTypes ==
  ASSUME issued \in Nat, held \subseteq Nat, NEW t,
         Acts(t) \/ NewSession \/ UNCHANGED <<issued, held>>
  PROVE  issued' \in Nat /\ held' \subseteq Nat
BY DEF Acts, NewSession

(* Every step keeps the types.                                             *)
LEMMA TypesStep ==
  ASSUME TypeOK, AppInv, [Next]_vars PROVE TypeOK'
<1> USE DEF appVars, sharedVars, localVars, keepVars, recVars
<1> DEFINE Steady == UNCHANGED <<life, task, plan, stream, session, issued, held, stop, handle, joins,
                                 expired, forsaken, lock, cseq, nonces, digest, pending, attempt, auth, mine, used>>
<1>1. ASSUME NEW t \in Threads,
             BeginRefused(t) \/ SignFails(t) \/ RegisterRefused(t) \/ SendFails(t) \/ Unauthorized(t) \/ Refused(t)
      PROVE  TypeOK'
  <2>1. Raise(t)
    BY <1>1 DEF BeginRefused, SignFails, RegisterRefused, SendFails, Unauthorized, Refused
  <2>2. issued' \in Nat /\ held' \subseteq Nat
    <3>1. Acts(t) \/ NewSession \/ UNCHANGED <<issued, held>>
      BY <1>1 DEF BeginRefused, SignFails, RegisterRefused, SendFails, Unauthorized, Refused
    <3>2. QED BY <3>1, ActsTypes DEF TypeOK, AppTypes
  <2>3. /\ UNCHANGED <<stream, session, stop, handle, joins, expired, nonces, digest, used>>
        /\ cseq' \in {cseq, cseq + 1} /\ pending' \subseteq pending
    BY <1>1 DEF BeginRefused, SignFails, RegisterRefused, SendFails, Unauthorized, Refused
  <2>4. AppTypes'
    BY <2>1, <2>2, <2>3, RaiseTypes DEF TypeOK, AppTypes
  <2>5. RequestTypes'
    <3>1. /\ lock' \in Threads \cup {Nobody} /\ attempt' \in [Threads -> {0, 1}]
          /\ auth' \in [Threads -> Nat \X Nat] /\ mine' \in [Threads -> Nat]
      BY <2>1, RaiseTypes, Zenon
    <3>2. /\ cseq' \in Nat /\ nonces' \in Nat /\ digest' \in Nat \X Nat
          /\ pending' \subseteq Nat /\ used' \subseteq Nat \X Nat
      BY <2>3 DEF TypeOK, RequestTypes
    <3>3. QED BY <3>1, <3>2, Zenon DEF RequestTypes
  <2>6. QED BY <2>4, <2>5 DEF TypeOK
<1>2. CASE Misdescribed \/ Unprepared
  <2>1. Raise("app")
    BY <1>2 DEF Misdescribed, Unprepared
  <2>2. issued' \in Nat /\ held' \subseteq Nat /\ session' \in Nat
    <3>1. Acts("app") \/ NewSession \/ UNCHANGED <<issued, held>>
      BY <1>2 DEF Misdescribed, Unprepared
    <3>2. issued' \in Nat /\ held' \subseteq Nat
      BY <3>1, ActsTypes DEF TypeOK, AppTypes
    <3>3. session' \in {session, issued'}
      BY <1>2 DEF Misdescribed, Unprepared
    <3>4. QED BY <3>2, <3>3 DEF TypeOK, AppTypes
  <2>3. /\ UNCHANGED <<stream, stop, handle, joins, expired, nonces, digest, used, cseq>>
        /\ pending' \subseteq pending
    BY <1>2 DEF Misdescribed, Unprepared
  <2>4. AppTypes'
    BY <2>1, <2>2, <2>3, RaiseTypes DEF TypeOK, AppTypes, Threads
  <2>5. RequestTypes'
    <3>1. /\ lock' \in Threads \cup {Nobody} /\ attempt' \in [Threads -> {0, 1}]
          /\ auth' \in [Threads -> Nat \X Nat] /\ mine' \in [Threads -> Nat]
      <4>1. "app" \in Threads
        BY DEF Threads
      <4>2. QED BY <2>1, <4>1, RaiseTypes, Zenon
    <3>2. /\ cseq' \in Nat /\ nonces' \in Nat /\ digest' \in Nat \X Nat
          /\ pending' \subseteq Nat /\ used' \subseteq Nat \X Nat
      BY <2>3 DEF TypeOK, RequestTypes
    <3>3. QED BY <3>1, <3>2, Zenon DEF RequestTypes
  <2>6. QED BY <2>4, <2>5 DEF TypeOK
<1>3. ASSUME pc' \in [Threads -> Places], Steady PROVE TypeOK'
  BY <1>3 DEF TypeOK, AppTypes, RequestTypes
<1>4. ASSUME NEW t \in Threads, Begin(t) PROVE TypeOK'
  BY <1>3, <1>4 DEF Begin, Goto, TypeOK, AppTypes, Places, Busy, Requesting
<1>5. CASE Join
  BY <1>3, <1>5 DEF Join, Joined, Goto, TypeOK, AppTypes, Places, Busy, Requesting
<1>6. CASE KeepaliveTick \/ KeepaliveExcept
  BY <1>3, <1>6 DEF KeepaliveTick, KeepaliveExcept, Goto, TypeOK, AppTypes, Places, Busy, Requesting
<1>7. CASE JoinExpires
  <2>1. pc' \in [Threads -> Places]
    BY <1>7 DEF JoinExpires, Joined, Goto, TypeOK, AppTypes, Places, Busy, Requesting
  <2>2. /\ UNCHANGED <<life, task, plan, stream, session, issued, held, stop, handle, joins, forsaken,
                       lock, cseq, nonces, digest, pending, attempt, auth, mine, used>>
        /\ expired' = TRUE
    BY <1>7 DEF JoinExpires
  <2>3. QED BY <2>1, <2>2 DEF TypeOK, AppTypes, RequestTypes
<1>8. CASE Start
  BY <1>8, StartPlanShape DEF Start, Goto, TypeOK, AppTypes, RequestTypes, Places, Busy, Requesting
<1>9. CASE SessionRequest
  <2>1. plan' \in Seq(Methods)
    <3>1. <<"PAUSE">> \in Seq(Methods) /\ <<"PLAY">> \in Seq(Methods)
      BY DEF Methods
    <3>2. QED BY <1>9, <3>1, Zenon DEF SessionRequest
  <2>2. QED BY <1>9, <2>1 DEF SessionRequest, Goto, TypeOK, AppTypes, RequestTypes, Places, Busy, Requesting
<1>10. CASE Close
  <2>1. plan' \in Seq(Methods)
    <3>1. <<"TEARDOWN">> \in Seq(Methods)
      BY DEF Methods
    <3>2. plan' \in {<<"TEARDOWN">>, <<>>}
      BY <1>10 DEF Close
    <3>3. QED BY <3>1, <3>2, EmptyPlan, Zenon
  <2>2. pc' \in [Threads -> Places]
    BY <1>10 DEF Close, Goto, TypeOK, AppTypes, Places, Busy, Requesting
  <2>3. /\ UNCHANGED <<life, stream, session, issued, held, stop, handle, joins, expired, forsaken,
                       lock, cseq, nonces, digest, pending, attempt, auth, mine, used>>
        /\ task' = "close"
    BY <1>10 DEF Close
  <2>4. QED BY <2>1, <2>2, <2>3 DEF TypeOK, AppTypes, RequestTypes
<1>11. CASE StopKeepalive
  <2>1. pc' \in [Threads -> Places]
    BY <1>11 DEF StopKeepalive, Goto, TypeOK, AppTypes, Places, Busy, Requesting
  <2>2. /\ UNCHANGED <<life, task, plan, stream, session, issued, held, expired, forsaken,
                       lock, cseq, nonces, digest, pending, attempt, auth, mine, used>>
        /\ joins' = handle /\ handle' = FALSE /\ stop' = TRUE
    BY <1>11 DEF StopKeepalive
  <2>3. QED BY <2>1, <2>2 DEF TypeOK, AppTypes, RequestTypes
<1>12. CASE CloseSocket
  BY <1>12 DEF CloseSocket, Goto, TypeOK, AppTypes, RequestTypes, Places, Busy, Requesting
<1>13. ASSUME NEW t \in Threads, Lock(t) \/ Count(t) \/ Sign(t) PROVE TypeOK'
  <2>1. AppTypes'
    BY <1>13 DEF Lock, Count, Sign, Goto, TypeOK, AppTypes, Places, Busy, Requesting
  <2>2. RequestTypes'
    <3>1. CASE Lock(t) BY <3>1 DEF Lock, TypeOK, RequestTypes
    <3>2. CASE Count(t) BY <3>2 DEF Count, TypeOK, RequestTypes
    <3>3. CASE Sign(t) BY <3>3 DEF Sign, TypeOK, RequestTypes
    <3>4. QED BY <1>13, <3>1, <3>2, <3>3
  <2>3. QED BY <2>1, <2>2 DEF TypeOK
<1>14. ASSUME NEW t \in Threads, Register(t) \/ Send(t) PROVE TypeOK'
  <2>1. AppTypes'
    <3>1. pc' \in [Threads -> Places]
      BY <1>14 DEF Register, Send, Goto, TypeOK, AppTypes, Places, Busy, Requesting
    <3>2. UNCHANGED <<appVars, stream, session, issued, held, keepVars, expired, forsaken>>
      BY <1>14 DEF Register, Send
    <3>3. QED BY <3>1, <3>2 DEF TypeOK, AppTypes
  <2>2. RequestTypes'
    <3>1. CASE Register(t) BY <3>1 DEF Register, TypeOK, RequestTypes
    <3>2. CASE Send(t)
      <4>1. used' \subseteq Nat \X Nat
        BY <3>2 DEF Send, TypeOK, RequestTypes
      <4>2. QED BY <3>2, <4>1 DEF Send, TypeOK, RequestTypes
    <3>3. QED BY <1>14, <3>1, <3>2
  <2>3. QED BY <2>1, <2>2 DEF TypeOK
<1>15. ASSUME NEW t \in Threads, Stale(t) PROVE TypeOK'
  <2>1. AppTypes'
    BY <1>15 DEF Stale, Goto, TypeOK, AppTypes, Places, Busy, Requesting
  <2>2. RequestTypes'
    <3>1. digest' \in Nat \X Nat /\ nonces' \in Nat
      BY <1>15 DEF Stale, TypeOK, RequestTypes
    <3>2. attempt' \in [Threads -> {0, 1}]
      BY <1>15 DEF Stale, TypeOK, RequestTypes
    <3>3. pending' \subseteq Nat /\ UNCHANGED <<lock, cseq, auth, mine, used>>
      BY <1>15 DEF Stale, TypeOK, RequestTypes
    <3>4. QED BY <3>1, <3>2, <3>3 DEF TypeOK, RequestTypes
  <2>3. QED BY <2>1, <2>2 DEF TypeOK
<1>16. ASSUME NEW t \in Threads, Answered(t) PROVE TypeOK'
  <2>1. issued' \in Nat /\ held' \subseteq Nat
    <3>1. Acts(t)
      BY <1>16 DEF Answered
    <3>2. QED BY <3>1, ActsTypes DEF TypeOK, AppTypes
  <2>2. RequestTypes'
    BY <1>16 DEF Answered, Forget, TypeOK, RequestTypes, NoAuth
  <2>3. /\ UNCHANGED <<stream, expired, forsaken>>
        /\ pc' \in [Threads -> Places]
    BY <1>16 DEF Answered, Goto, TypeOK, AppTypes, Places, Busy, Requesting
  <2>4. plan' \in Seq(Methods) /\ session' \in Nat
    <3>1. CASE UNCHANGED <<plan, session>>
      BY <3>1 DEF TypeOK, AppTypes
    <3>2. CASE t = "app" /\ Accept
      <4>1. plan # <<>>
        BY <1>16, <3>2 DEF Answered, AppInv, PlanOK, Busy, Requesting
      <4>2. plan' \in Seq(Methods)
        BY <3>2, <4>1, PlanTail, Zenon DEF Accept, TypeOK, AppTypes
      <4>3. session' \in {issued', 0, session}
        BY <3>2 DEF Accept
      <4>4. QED BY <2>1, <4>2, <4>3 DEF TypeOK, AppTypes
    <3>3. QED BY <1>16, <3>1, <3>2 DEF Answered
  <2>5. life' \in {"new", "active", "closed"} /\ task' \in {"none", "start", "request", "close"}
    BY <1>16 DEF Answered, TypeOK, AppTypes
  <2>6. stop' \in BOOLEAN /\ handle' \in BOOLEAN /\ joins' \in BOOLEAN
    BY <1>16 DEF Answered, TypeOK, AppTypes
  <2>7. AppTypes'
    BY <2>1, <2>3, <2>4, <2>5, <2>6 DEF TypeOK, AppTypes
  <2>8. QED BY <2>2, <2>7 DEF TypeOK
<1>17. CASE Challenged \/ Unchallenged
  <2>1. plan # <<>> /\ Head(plan) = "CHALLENGE" /\ plan \in Seq(Methods)
    BY <1>17 DEF Challenged, Unchallenged, Method, AppInv, PlanOK, Busy, Requesting, TypeOK, AppTypes
  <2>2. Len(plan) >= 3
    <3>1. plan[1] = "CHALLENGE" /\ 1 \in 1..Len(plan)
      BY <2>1
    <3>2. task = "start"
      BY <1>17, <3>1 DEF Challenged, Unchallenged, AppInv, PlanOK, Busy, Requesting, TypeOK, AppTypes
    <3>3. QED BY <1>17, <3>1, <3>2 DEF Challenged, Unchallenged, AppInv, PlanOK, Busy, Requesting
  <2>3. Tail(plan) \in Seq(Methods) /\ Tail(plan) # <<>> /\ Tail(Tail(plan)) \in Seq(Methods)
    <3>1. Tail(plan) \in Seq(Methods) /\ Len(Tail(plan)) = Len(plan) - 1
      BY <2>1, PlanTail
    <3>2. Tail(plan) # <<>>
      <4>1. Len(plan) \in Nat
        BY <2>1
      <4>2. Len(Tail(plan)) # 0
        BY <2>2, <3>1, <4>1
      <4>3. QED BY <3>1, <4>2, NotEmpty
    <3>3. QED BY <3>1, <3>2, PlanTail
  <2>4. plan' \in Seq(Methods)
    BY <1>17, <2>3, Zenon DEF Challenged, Unchallenged
  <2>5. AppTypes'
    <3>1. pc' \in [Threads -> Places]
      BY <1>17 DEF Challenged, Unchallenged, Goto, TypeOK, AppTypes, Places, Busy, Requesting
    <3>2. UNCHANGED <<life, task, stream, session, issued, held, keepVars, expired, forsaken>>
      BY <1>17 DEF Challenged, Unchallenged
    <3>3. QED BY <2>4, <3>1, <3>2 DEF TypeOK, AppTypes
  <2>6. RequestTypes'
    <3>1. attempt' \in [Threads -> {0, 1}] /\ auth' \in [Threads -> Nat \X Nat] /\ mine' \in [Threads -> Nat]
      <4>1. Forget("app")
        BY <1>17 DEF Challenged, Unchallenged
      <4>2. QED BY <4>1 DEF Forget, TypeOK, RequestTypes, NoAuth
    <3>2. digest' \in Nat \X Nat /\ nonces' \in Nat
      BY <1>17 DEF Challenged, Unchallenged, TypeOK, RequestTypes
    <3>3. pending' \subseteq pending /\ UNCHANGED <<lock, cseq, used>>
      BY <1>17 DEF Challenged, Unchallenged
    <3>4. QED BY <3>1, <3>2, <3>3 DEF TypeOK, RequestTypes
  <2>7. QED BY <2>5, <2>6 DEF TypeOK
<1>18. CASE KeepaliveFail \/ StreamFails
  <2>1. AppTypes'
    <3>1. pc' \in [Threads -> Places]
      BY <1>18 DEF KeepaliveFail, StreamFails, Goto, TypeOK, AppTypes, Places, Busy, Requesting
    <3>2. /\ UNCHANGED <<appVars, session, issued, held, keepVars, expired, forsaken>>
          /\ stream' \in {"failed", stream}
      BY <1>18 DEF KeepaliveFail, StreamFails
    <3>3. QED BY <3>1, <3>2 DEF TypeOK, AppTypes
  <2>2. RequestTypes'
    BY <1>18 DEF KeepaliveFail, StreamFails, TypeOK, RequestTypes
  <2>3. QED BY <2>1, <2>2 DEF TypeOK
<1>19. CASE UNCHANGED vars
  BY <1>3, <1>19 DEF vars, TypeOK, AppTypes
<1>20. QED
  BY Steps, <1>1, <1>2, <1>4, <1>5, <1>6, <1>7, <1>8, <1>9, <1>10, <1>11, <1>12, <1>13, <1>14, <1>15, <1>16,
     <1>17, <1>18, <1>19

(* The application: it is in the middle of what its task says.             *)
LEMMA AppInvStep ==
  ASSUME TypeOK, AppInv, [Next]_vars PROVE AppInv'
<1> USE DEF appVars, sharedVars, localVars, keepVars, recVars, Busy, Requesting
<1>0. plan \in Seq(Methods) /\ pc \in [Threads -> Places] /\ "app" \in Threads /\ "keeper" \in Threads
  BY DEF TypeOK, AppTypes, Threads
<1>1. ASSUME UNCHANGED <<life, task, plan>>, pc'["app"] = pc["app"], stream' = stream \/ stream # "none"
      PROVE  AppInv'
  BY <1>1 DEF AppInv, PlanOK
<1>2. ASSUME UNCHANGED <<life, task, plan, stream>>, pc["app"] \in Busy, pc'["app"] \in Busy
      PROVE  AppInv'
  BY <1>2 DEF AppInv, PlanOK
<1>3. ASSUME Raise("app"), stream' = stream, pc["app"] \in Busy
      PROVE  AppInv'
  <2>1. /\ plan' = <<>> /\ life' = life
        /\ task' = (IF task = "request" THEN "none" ELSE task)
        /\ pc'["app"] = IF task = "request" THEN "idle" ELSE "abort"
    BY <1>0, <1>3 DEF Raise, Goto
  <2>2. QED BY <1>3, <2>1 DEF AppInv
<1>4. ASSUME Raise("keeper"), stream' = stream
      PROVE  AppInv'
  <2>1. UNCHANGED <<life, task, plan>> /\ pc'["app"] = pc["app"]
    BY <1>0, <1>4 DEF Raise, Goto
  <2>2. QED BY <1>1, <1>4, <2>1
<1>5. ASSUME NEW t \in Threads,
             BeginRefused(t) \/ SignFails(t) \/ RegisterRefused(t) \/ SendFails(t) \/ Unauthorized(t) \/ Refused(t)
      PROVE  AppInv'
  <2>1. Raise(t) /\ stream' = stream /\ pc[t] \in Busy
    BY <1>5 DEF BeginRefused, SignFails, RegisterRefused, SendFails, Unauthorized, Refused
  <2>2. QED BY <1>3, <1>4, <2>1 DEF Threads
<1>6. CASE Misdescribed \/ Unprepared
  BY <1>3, <1>6 DEF Misdescribed, Unprepared
<1>7. ASSUME NEW t \in Threads,
             Begin(t) \/ Lock(t) \/ Count(t) \/ Sign(t) \/ Register(t) \/ Send(t) \/ Stale(t)
      PROVE  AppInv'
  <2>1. /\ UNCHANGED <<life, task, plan, stream>> /\ pc[t] \in Busy /\ pc'[t] \in Busy
        /\ t # "app" => pc'["app"] = pc["app"]
    BY <1>0, <1>7 DEF Begin, Lock, Count, Sign, Register, Send, Stale, Goto
  <2>2. CASE t = "app" BY <1>2, <2>1, <2>2
  <2>3. CASE t # "app" BY <1>1, <2>1, <2>3
  <2>4. QED BY <2>2, <2>3
<1>8. CASE KeepaliveTick \/ KeepaliveExcept \/ KeepaliveFail \/ StreamFails
  <2>1. UNCHANGED <<life, task, plan>> /\ pc'["app"] = pc["app"]
    BY <1>0, <1>8 DEF KeepaliveTick, KeepaliveExcept, KeepaliveFail, StreamFails, Goto
  <2>2. stream' = stream \/ stream # "none"
    BY <1>8 DEF KeepaliveTick, KeepaliveExcept, KeepaliveFail, StreamFails
  <2>3. QED BY <1>1, <2>1, <2>2
<1>9. CASE Start
  <2>1. /\ life = "new" /\ life' = life /\ task' = "start" /\ plan' = StartPlan /\ stream' = "open"
        /\ pc'["app"] = "next"
    BY <1>0, <1>9 DEF Start, Goto
  <2>2. PlanOK'
    BY <2>1, StartPlanShape DEF PlanOK
  <2>3. QED BY <2>1, <2>2 DEF AppInv
<1>10. CASE SessionRequest
  <2>1. /\ life = "active" /\ life' = life /\ task' = "request" /\ plan' \in {<<"PAUSE">>, <<"PLAY">>}
        /\ pc'["app"] = "next"
    BY <1>0, <1>10 DEF SessionRequest, Goto
  <2>2. PlanOK'
    BY <2>1 DEF PlanOK
  <2>3. QED BY <2>1, <2>2 DEF AppInv
<1>11. CASE Close
  <2>1. /\ life # "closed" /\ life' = life /\ task' = "close"
        /\ \/ plan' = <<"TEARDOWN">> /\ pc'["app"] = "stop"
           \/ plan' = <<>> /\ pc'["app"] = "abort"
    BY <1>0, <1>11 DEF Close, Goto
  <2>2. plan' = <<"TEARDOWN">> => PlanOK'
    BY <2>1 DEF PlanOK
  <2>3. QED BY <2>1, <2>2 DEF AppInv
<1>12. CASE StopKeepalive
  <2>1. /\ UNCHANGED <<life, task, plan, stream>>
        /\ \/ pc["app"] = "stop" /\ pc'["app"] = "join"
           \/ pc["app"] = "abort" /\ pc'["app"] = "abort_join"
    BY <1>0, <1>12 DEF StopKeepalive, Goto
  <2>2. PlanOK' <=> PlanOK
    BY <2>1 DEF PlanOK
  <2>3. QED BY <2>1, <2>2 DEF AppInv
<1>13. CASE Join \/ JoinExpires
  <2>1. /\ UNCHANGED <<life, task, plan, stream>>
        /\ \/ pc["app"] = "join" /\ pc'["app"] = "next"
           \/ pc["app"] = "abort_join" /\ pc'["app"] = "drop"
    BY <1>0, <1>13 DEF Join, JoinExpires, Joined, Goto
  <2>2. PlanOK' <=> PlanOK
    BY <2>1 DEF PlanOK
  <2>3. QED BY <2>1, <2>2 DEF AppInv
<1>14. CASE CloseSocket
  <2>1. /\ stream' = "none" /\ task' = "none" /\ pc'["app"] = "idle"
    BY <1>0, <1>14 DEF CloseSocket, Goto
  <2>2. QED BY <2>1 DEF AppInv
<1>15. CASE Answered("keeper")
  <2>1. UNCHANGED <<life, task, plan, stream>> /\ pc'["app"] = pc["app"]
    BY <1>0, <1>15 DEF Answered, Goto
  <2>2. QED BY <1>1, <2>1
<1>16. CASE Answered("app") /\ NotInStart
  <2>1. /\ pc["app"] = "wait" /\ Method("app") # "CHALLENGE" /\ UNCHANGED <<life, stream>>
        /\ plan' = Tail(plan)
        /\ task' = (IF task = "request" THEN "none" ELSE task)
        /\ pc'["app"] = IF Len(plan) > 1 THEN "next" ELSE IF task = "close" THEN "abort" ELSE "idle"
    BY <1>0, <1>16 DEF Answered, Goto, Accept
  <2>2. PlanOK /\ task # "none"
    BY <2>1 DEF AppInv
  <2>3. CASE task = "start"
    <3>1. Len(plan) > 1
      BY <1>16, <2>3 DEF NotInStart
    <3>2. /\ Tail(plan) \in Seq(Methods) /\ Len(Tail(plan)) = Len(plan) - 1
          /\ Head(plan) = plan[1]
          /\ \A i \in 1..Len(Tail(plan)) : Tail(plan)[i] = plan[i + 1]
      BY <1>0, <2>2, PlanTail DEF PlanOK
    <3>3. \A i \in 1..Len(plan') : plan'[i] # "TEARDOWN" /\ plan'[i] # "CHALLENGE"
      <4>1. ASSUME NEW i \in 1..Len(plan') PROVE plan'[i] # "TEARDOWN" /\ plan'[i] # "CHALLENGE"
        <5>1. plan'[i] = plan[i + 1] /\ i + 1 \in 1..Len(plan) /\ i + 1 # 1
          BY <1>0, <2>1, <3>2
        <5>2. QED BY <2>2, <2>3, <5>1 DEF PlanOK
      <4>2. QED BY <4>1
    <3>4. plan' # <<>>
      <4>1. Len(Tail(plan)) # 0
        <5>1. plan \in Seq(Methods) /\ Len(Tail(plan)) = Len(plan) - 1
          BY <1>0, <3>2
        <5> DEFINE n == Len(plan)
                   k == Len(Tail(plan))
        <5>2. n \in Nat /\ n > 1 /\ k = n - 1
          BY <3>1, <5>1
        <5> HIDE DEF n, k
        <5>3. k # 0
          BY <5>2
        <5>4. QED BY <5>3 DEF k
      <4>2. QED BY <2>1, <3>2, <4>1, NotEmpty
    <3>5. task' = "start"
      BY <2>1, <2>3
    <3>6. PlanOK'
      BY <3>3, <3>4, <3>5 DEF PlanOK
    <3>7. QED BY <2>1, <2>3, <3>1, <3>5, <3>6 DEF AppInv
  <2>4. CASE task # "start"
    <3>1. Len(plan) = 1
      <4>1. plan \in {<<"PAUSE">>, <<"PLAY">>, <<"TEARDOWN">>}
        BY <2>2, <2>4 DEF PlanOK, TypeOK, AppTypes
      <4>2. QED BY <4>1
    <3>2. pc'["app"] = IF task = "close" THEN "abort" ELSE "idle"
      BY <2>1, <3>1
    <3>3. CASE task = "request"
      BY <2>1, <3>2, <3>3 DEF AppInv
    <3>4. CASE task = "close"
      BY <2>1, <3>2, <3>4 DEF AppInv
    <3>5. QED BY <2>2, <2>4, <3>3, <3>4 DEF TypeOK, AppTypes
  <2>5. QED BY <2>3, <2>4
<1>17. CASE Answered("app") /\ ~NotInStart
  <2>1. life' = "active" /\ task' = "none" /\ pc'["app"] = "idle"
    BY <1>0, <1>17 DEF Answered, Goto
  <2>2. QED BY <2>1 DEF AppInv
<1>18. CASE Challenged \/ Unchallenged
  <2>1. /\ pc["app"] = "wait" /\ Head(plan) = "CHALLENGE" /\ UNCHANGED <<life, task, stream>>
        /\ plan' = Tail(plan) \/ plan' = Tail(Tail(plan))
        /\ pc'["app"] = "next"
    BY <1>0, <1>18 DEF Challenged, Unchallenged, Goto, Method
  <2>2. PlanOK
    BY <2>1 DEF AppInv
  <2>3. /\ Tail(plan) \in Seq(Methods) /\ Len(Tail(plan)) = Len(plan) - 1
        /\ plan[1] = "CHALLENGE"
        /\ \A i \in 1..Len(Tail(plan)) : Tail(plan)[i] = plan[i + 1]
    BY <1>0, <2>1, <2>2, PlanTail DEF PlanOK
  <2>4. 1 \in 1..Len(plan) /\ Len(plan) \in Nat
    BY <1>0, <2>2 DEF PlanOK
  <2>5. task = "start"
    BY <2>1, <2>2, <2>3 DEF PlanOK, AppInv, TypeOK, AppTypes
  <2>6. Len(plan) >= 3
    BY <2>2, <2>3, <2>4, <2>5 DEF PlanOK
  <2>7. /\ Tail(plan) # <<>>
        /\ \A i \in 1..Len(Tail(plan)) : Tail(plan)[i] # "TEARDOWN" /\ Tail(plan)[i] # "CHALLENGE"
    <3>1. Tail(plan) # <<>>
      <4>1. Len(Tail(plan)) # 0
        BY <2>3, <2>4, <2>6
      <4>2. QED BY <2>3, <4>1, NotEmpty
    <3>2. ASSUME NEW i \in 1..Len(Tail(plan)) PROVE Tail(plan)[i] # "TEARDOWN" /\ Tail(plan)[i] # "CHALLENGE"
      <4>1. Tail(plan)[i] = plan[i + 1] /\ i + 1 \in 1..Len(plan) /\ i + 1 # 1
        BY <2>3, <2>4
      <4>2. QED BY <2>2, <2>5, <4>1 DEF PlanOK
    <3>3. QED BY <3>1, <3>2
  <2>8. /\ Tail(Tail(plan)) # <<>>
        /\ \A i \in 1..Len(Tail(Tail(plan))) : Tail(Tail(plan))[i] # "TEARDOWN" /\ Tail(Tail(plan))[i] # "CHALLENGE"
    <3>1. /\ Len(Tail(Tail(plan))) = Len(Tail(plan)) - 1 /\ Tail(Tail(plan)) \in Seq(Methods)
          /\ \A i \in 1..Len(Tail(Tail(plan))) : Tail(Tail(plan))[i] = Tail(plan)[i + 1]
      BY <2>3, <2>7, PlanTail
    <3>2. Tail(Tail(plan)) # <<>>
      <4>1. Len(Tail(Tail(plan))) # 0
        BY <2>3, <2>4, <2>6, <3>1
      <4>2. QED BY <3>1, <4>1, NotEmpty
    <3>3. ASSUME NEW i \in 1..Len(Tail(Tail(plan)))
          PROVE  Tail(Tail(plan))[i] # "TEARDOWN" /\ Tail(Tail(plan))[i] # "CHALLENGE"
      <4>1. Tail(Tail(plan))[i] = Tail(plan)[i + 1] /\ i + 1 \in 1..Len(Tail(plan))
        BY <2>3, <3>1
      <4>2. QED BY <2>7, <4>1
    <3>4. QED BY <3>2, <3>3
  <2>9. /\ plan' # <<>>
        /\ \A i \in 1..Len(plan') : plan'[i] # "TEARDOWN" /\ plan'[i] # "CHALLENGE"
    BY <2>1, <2>7, <2>8, Zenon
  <2>10. task' = "start" /\ PlanOK'
    BY <2>1, <2>5, <2>9 DEF PlanOK
  <2>11. QED BY <2>1, <2>10 DEF AppInv
<1>19. CASE UNCHANGED vars
  BY <1>1, <1>19 DEF vars
<1>20. QED
  BY Steps, <1>5, <1>6, <1>7, <1>8, <1>9, <1>10, <1>11, <1>12, <1>13, <1>14, <1>15, <1>16, <1>17, <1>18, <1>19
     DEF Threads

(* The keepalive thread: born with the session, gone before its end.       *)
LEMMA KeeperInvStep ==
  ASSUME TypeOK, AppInv, KeeperInv, [Next]_vars PROVE KeeperInv'
<1> USE DEF appVars, sharedVars, localVars, keepVars, recVars, Busy, Requesting
<1>0. pc \in [Threads -> Places] /\ "app" \in Threads /\ "keeper" \in Threads
  BY DEF TypeOK, AppTypes, Threads
<1>1. ASSUME UNCHANGED <<life, task, stop, handle, joins, expired, stream>>,
             pc'["keeper"] = pc["keeper"], pc["app"] \in Busy, pc'["app"] \in Busy
      PROVE  KeeperInv'
  BY <1>1 DEF KeeperInv, KeeperAlive
<1>2. ASSUME UNCHANGED <<life, task, stop, handle, joins, expired, stream>>, pc'["app"] = pc["app"],
             KeeperAlive, pc'["keeper"] \in Busy \cup {"sleep", "except", "fail"}
      PROVE  KeeperInv'
  BY <1>2 DEF KeeperInv, KeeperAlive
<1>3. ASSUME Raise("app"), UNCHANGED <<stop, handle, joins, expired, stream>>, pc["app"] \in Busy
      PROVE  KeeperInv'
  <2>1. /\ life' = life /\ task' = (IF task = "request" THEN "none" ELSE task)
        /\ pc'["app"] \in {"idle", "abort"} /\ pc'["keeper"] = pc["keeper"]
    BY <1>0, <1>3 DEF Raise, Goto
  <2>2. QED BY <1>3, <2>1 DEF KeeperInv, KeeperAlive
<1>4. ASSUME Raise("keeper"), UNCHANGED <<stop, handle, joins, expired, stream>>, pc["keeper"] \in Busy
      PROVE  KeeperInv'
  <2>1. UNCHANGED <<life, task>> /\ pc'["app"] = pc["app"] /\ pc'["keeper"] = "except"
    BY <1>0, <1>4 DEF Raise, Goto
  <2>2. QED BY <1>2, <1>4, <2>1 DEF KeeperAlive
<1>5. ASSUME NEW t \in Threads,
             BeginRefused(t) \/ SignFails(t) \/ RegisterRefused(t) \/ SendFails(t) \/ Unauthorized(t) \/ Refused(t)
      PROVE  KeeperInv'
  <2>1. Raise(t) /\ UNCHANGED <<stop, handle, joins, expired, stream>> /\ pc[t] \in Busy
    BY <1>5 DEF BeginRefused, SignFails, RegisterRefused, SendFails, Unauthorized, Refused
  <2>2. QED BY <1>3, <1>4, <2>1 DEF Threads
<1>6. CASE Misdescribed \/ Unprepared
  BY <1>3, <1>6 DEF Misdescribed, Unprepared
<1>7. ASSUME NEW t \in Threads,
             Begin(t) \/ Lock(t) \/ Count(t) \/ Sign(t) \/ Register(t) \/ Send(t) \/ Stale(t)
      PROVE  KeeperInv'
  <2>1. /\ UNCHANGED <<life, task, stop, handle, joins, expired, stream>> /\ pc[t] \in Busy /\ pc'[t] \in Busy
        /\ t # "app" => pc'["app"] = pc["app"]
        /\ t # "keeper" => pc'["keeper"] = pc["keeper"]
    BY <1>0, <1>7 DEF Begin, Lock, Count, Sign, Register, Send, Stale, Goto
  <2>2. CASE t = "app" BY <1>1, <2>1, <2>2
  <2>3. CASE t = "keeper" BY <1>2, <2>1, <2>3 DEF KeeperAlive
  <2>4. QED BY <2>2, <2>3 DEF Threads
<1>8. CASE KeepaliveTick \/ KeepaliveExcept
  <2>1. /\ UNCHANGED <<life, task, stop, handle, joins, expired, stream>> /\ pc'["app"] = pc["app"] /\ KeeperAlive
        /\ \/ pc'["keeper"] \in {"next", "fail"}
           \/ pc'["keeper"] = "dead" /\ (stop \/ stream = "none")
    BY <1>0, <1>8 DEF KeepaliveTick, KeepaliveExcept, Goto, KeeperAlive
  <2>2. CASE pc'["keeper"] = "dead"
    BY <2>1, <2>2 DEF KeeperInv, KeeperAlive
  <2>3. QED BY <1>2, <2>1, <2>2
<1>9. CASE KeepaliveFail \/ StreamFails
  <2>1. /\ UNCHANGED <<life, task, stop, handle, joins, expired>> /\ pc'["app"] = pc["app"]
        /\ pc'["keeper"] = pc["keeper"] \/ (pc["keeper"] = "fail" /\ pc'["keeper"] = "dead")
        /\ stream' # "open" /\ (stream' = "none" => stream = "none")
    BY <1>0, <1>9 DEF KeepaliveFail, StreamFails, Goto, TypeOK, AppTypes
  <2>2. QED BY <2>1 DEF KeeperInv, KeeperAlive
<1>10. CASE Start
  <2>1. /\ life = "new" /\ life' = life /\ task' = "start" /\ pc'["keeper"] = pc["keeper"]
        /\ UNCHANGED <<handle, joins, expired>>
    BY <1>0, <1>10 DEF Start, Goto
  <2>2. QED BY <2>1 DEF KeeperInv, KeeperAlive
<1>11. CASE SessionRequest
  <2>1. /\ task = "none" /\ task' = "request" /\ pc'["keeper"] = pc["keeper"] /\ pc["app"] = "idle"
        /\ UNCHANGED <<life, stop, handle, joins, expired, stream>>
    BY <1>0, <1>11 DEF SessionRequest, Goto, AppInv
  <2>2. QED BY <2>1 DEF KeeperInv, KeeperAlive
<1>12. CASE Close
  <2>1. /\ life # "closed" /\ task' = "close" /\ pc'["keeper"] = pc["keeper"] /\ pc["app"] = "idle"
        /\ pc'["app"] \in {"stop", "abort"}
        /\ UNCHANGED <<life, stop, handle, joins, expired, stream>>
    BY <1>0, <1>12 DEF Close, Goto
  <2>2. QED BY <2>1 DEF KeeperInv, KeeperAlive
<1>13. CASE StopKeepalive
  <2>1. /\ UNCHANGED <<life, task, expired, stream>> /\ pc'["keeper"] = pc["keeper"]
        /\ pc["app"] \in {"stop", "abort"} /\ pc'["app"] \in {"join", "abort_join"}
        /\ joins' = handle /\ handle' = FALSE
    BY <1>0, <1>13 DEF StopKeepalive, Goto
  <2>2. ~(life = "active" /\ task # "close")
    BY <2>1 DEF AppInv, TypeOK, AppTypes
  <2>3. QED BY <2>1, <2>2 DEF KeeperInv, KeeperAlive
<1>14. CASE Join \/ JoinExpires
  <2>1. /\ UNCHANGED <<life, task, stop, handle, joins, stream>> /\ pc'["keeper"] = pc["keeper"]
        /\ pc["app"] \in {"join", "abort_join"} /\ pc'["app"] \in {"next", "drop"}
        /\ expired' \/ (expired' = expired /\ (joins => pc["keeper"] = "dead"))
    BY <1>0, <1>14 DEF Join, JoinExpires, Joined, Goto
  <2>2. QED BY <2>1 DEF KeeperInv, KeeperAlive
<1>15. CASE CloseSocket
  <2>1. /\ pc["app"] = "drop" /\ task' = "none" /\ life' = (IF task = "close" THEN "closed" ELSE life)
        /\ pc'["app"] = "idle" /\ pc'["keeper"] = pc["keeper"]
        /\ UNCHANGED <<stop, handle, joins, expired>>
    BY <1>0, <1>15 DEF CloseSocket, Goto
  <2>2. task = "close" \/ life = "new"
    BY <2>1 DEF AppInv, TypeOK, AppTypes
  <2>3. QED BY <2>1, <2>2 DEF KeeperInv, KeeperAlive
<1>16. CASE Answered("keeper")
  <2>1. /\ UNCHANGED <<life, task, stop, handle, joins, expired, stream>> /\ pc'["app"] = pc["app"]
        /\ pc["keeper"] = "wait" /\ pc'["keeper"] = "sleep"
    BY <1>0, <1>16 DEF Answered, Goto
  <2>2. QED BY <1>2, <2>1 DEF KeeperAlive
<1>17. CASE Answered("app") /\ NotInStart
  <2>1. /\ UNCHANGED <<life, stop, handle, joins, expired, stream>> /\ pc'["keeper"] = pc["keeper"]
        /\ pc["app"] = "wait" /\ pc'["app"] \in {"next", "abort", "idle"}
        /\ task' = (IF task = "request" THEN "none" ELSE task)
    BY <1>0, <1>17 DEF Answered, Goto
  <2>2. QED BY <2>1 DEF KeeperInv, KeeperAlive
<1>18. CASE Answered("app") /\ ~NotInStart
  <2>1. /\ stream = "open" /\ stream' = stream /\ expired' = expired
        /\ handle' = TRUE /\ stop' = FALSE /\ life' = "active" /\ task' = "none"
        /\ pc'["app"] = "idle" /\ pc'["keeper"] = "sleep"
    BY <1>0, <1>18 DEF Answered, Goto
  <2>2. QED BY <2>1 DEF KeeperInv, KeeperAlive
<1>19. CASE Challenged \/ Unchallenged
  <2>1. /\ UNCHANGED <<life, task, stop, handle, joins, expired, stream>> /\ pc'["keeper"] = pc["keeper"]
        /\ pc["app"] = "wait" /\ pc'["app"] = "next"
    BY <1>0, <1>19 DEF Challenged, Unchallenged, Goto
  <2>2. QED BY <1>1, <2>1
<1>20. CASE UNCHANGED vars
  BY <1>20 DEF vars, KeeperInv, KeeperAlive
<1>21. QED
  BY Steps, <1>5, <1>6, <1>7, <1>8, <1>9, <1>10, <1>11, <1>12, <1>13, <1>14, <1>15, <1>16, <1>17, <1>18, <1>19, <1>20
     DEF Threads

-----------------------------------------------------------------------------
(* Before the first challenge is answered there is no other thread.        *)
LEMMA ChallengeAlone ==
  ASSUME TypeOK, AppInv, KeeperInv, pc["app"] \in Busy, Method("app") = "CHALLENGE"
  PROVE  pc["keeper"] = "unborn"
<1>1. PlanOK /\ Head(plan) = "CHALLENGE"
  BY DEF AppInv, Method
<1>2. task = "start"
  <2>1. task # "request"
    BY <1>1 DEF PlanOK
  <2>2. task # "close"
    BY <1>1 DEF PlanOK
  <2>3. task # "none"
    BY DEF AppInv, Busy, Requesting
  <2>4. QED BY <2>1, <2>2, <2>3 DEF TypeOK, AppTypes
<1>3. QED BY <1>2 DEF AppInv, KeeperInv

(* The lock is with the thread that is in _request, and with nobody else.  *)
LEMMA LockInvStep ==
  ASSUME TypeOK, AppInv, LockInv, [Next]_vars PROVE LockInv'
<1> USE DEF appVars, sharedVars, localVars, keepVars, recVars, Threads, Nobody
<1>0. pc \in [Threads -> Places] /\ lock \in {"app", "keeper", "nobody"}
  BY DEF TypeOK, AppTypes, RequestTypes
<1>1. ASSUME lock' = lock, plan' = plan, pc' = pc
      PROVE  LockInv'
  BY <1>1 DEF LockInv, Locked, Method
<1>2. ASSUME lock' = lock, pc'["keeper"] = pc["keeper"],
             pc["app"] \notin Critical, pc'["app"] \notin Requesting
      PROVE  LockInv'
  BY <1>2 DEF LockInv, Locked, Method, Critical, Requesting
<1>3. ASSUME lock' = lock, plan' = plan, pc'["app"] = pc["app"],
             pc["keeper"] \notin Critical, pc'["keeper"] \notin Requesting
      PROVE  LockInv'
  BY <1>3 DEF LockInv, Locked, Method, Critical, Requesting
<1>4. ASSUME NEW t \in Threads, Raise(t), pc[t] \in Busy
      PROVE  LockInv'
  <2>1. /\ lock' = (IF lock = t THEN "nobody" ELSE lock)
        /\ pc'[t] \in {"idle", "abort", "except"}
        /\ t = "app" => pc'["keeper"] = pc["keeper"]
        /\ t = "keeper" => pc'["app"] = pc["app"] /\ plan' = plan
    BY <1>0, <1>4 DEF Raise, Goto
  <2>2. CASE t = "app"
    BY <1>0, <2>1, <2>2 DEF LockInv, Locked, Method
  <2>3. CASE t = "keeper"
    BY <1>0, <2>1, <2>3 DEF LockInv, Locked, Method
  <2>4. QED BY <2>2, <2>3
<1>5. ASSUME NEW t \in Threads,
             BeginRefused(t) \/ SignFails(t) \/ RegisterRefused(t) \/ SendFails(t) \/ Unauthorized(t) \/ Refused(t)
      PROVE  LockInv'
  BY <1>4, <1>5 DEF BeginRefused, SignFails, RegisterRefused, SendFails, Unauthorized, Refused, Busy, Requesting
<1>6. CASE Misdescribed \/ Unprepared
  BY <1>4, <1>6 DEF Misdescribed, Unprepared, Busy, Requesting
<1>7. ASSUME NEW t \in Threads, Begin(t) PROVE LockInv'
  <2>1. /\ lock' = lock /\ plan' = plan /\ pc[t] = "next"
        /\ pc' = [pc EXCEPT ![t] = IF Method(t) = "CHALLENGE" THEN "register" ELSE "lock"]
    BY <1>7 DEF Begin, Goto
  <2>2. QED BY <1>0, <2>1 DEF LockInv, Locked, Method
<1>8. ASSUME NEW t \in Threads, Lock(t) PROVE LockInv'
  <2>1. /\ lock = "nobody" /\ lock' = t /\ plan' = plan /\ pc[t] = "lock"
        /\ pc' = [pc EXCEPT ![t] = "count"]
    BY <1>8 DEF Lock, Goto
  <2>2. QED BY <1>0, <2>1 DEF LockInv, Locked, Method
<1>9. ASSUME NEW t \in Threads, Count(t) \/ Sign(t) \/ Register(t) \/ Send(t) \/ Stale(t)
      PROVE  LockInv'
  <2>1. /\ lock' = lock /\ plan' = plan
        /\ \/ pc[t] = "count" /\ pc' = [pc EXCEPT ![t] = "sign"]
           \/ pc[t] = "sign" /\ pc' = [pc EXCEPT ![t] = "register"]
           \/ pc[t] = "register" /\ pc' = [pc EXCEPT ![t] = "send"]
           \/ pc[t] = "send" /\ pc' = [pc EXCEPT ![t] = "wait"]
           \/ pc[t] = "wait" /\ pc' = [pc EXCEPT ![t] = "count"] /\ Method(t) # "CHALLENGE"
    BY <1>9 DEF Count, Sign, Register, Send, Stale, Goto
  <2>2. QED BY <1>0, <2>1 DEF LockInv, Locked, Method
<1>10. CASE Answered("keeper")
  <2>1. /\ lock' = "nobody" /\ plan' = plan /\ pc["keeper"] = "wait" /\ pc' = [pc EXCEPT !["keeper"] = "sleep"]
    BY <1>10 DEF Answered, Goto
  <2>2. QED BY <1>0, <2>1 DEF LockInv, Locked, Method
<1>11. CASE Answered("app")
  <2>1. /\ lock' = "nobody" /\ pc["app"] = "wait" /\ Method("app") # "CHALLENGE"
        /\ pc'["app"] \in {"next", "abort", "idle"}
        /\ pc'["keeper"] \in {pc["keeper"], "sleep"}
    BY <1>0, <1>11 DEF Answered, Goto
  <2>2. QED BY <1>0, <2>1 DEF LockInv, Locked, Method
<1>12. CASE Challenged \/ Unchallenged
  <2>1. /\ lock' = lock /\ pc["app"] = "wait" /\ Method("app") = "CHALLENGE"
        /\ pc' = [pc EXCEPT !["app"] = "next"]
    BY <1>12 DEF Challenged, Unchallenged, Goto
  <2>2. QED BY <1>0, <2>1 DEF LockInv, Locked, Method
<1>13. CASE Start \/ SessionRequest \/ Close \/ StopKeepalive \/ Join \/ JoinExpires \/ CloseSocket
  <2>1. lock' = lock /\ pc'["keeper"] = pc["keeper"]
    BY <1>0, <1>13 DEF Start, SessionRequest, Close, StopKeepalive, Join, JoinExpires, Joined, CloseSocket, Goto
  <2>2. pc["app"] \notin Critical /\ pc'["app"] \notin Requesting
    BY <1>0, <1>13 DEF Start, SessionRequest, Close, StopKeepalive, Join, JoinExpires, Joined, CloseSocket, Goto,
       Critical, Requesting
  <2>3. QED BY <1>2, <2>1, <2>2
<1>14. CASE KeepaliveTick \/ KeepaliveExcept \/ KeepaliveFail
  <2>1. lock' = lock /\ plan' = plan /\ pc'["app"] = pc["app"]
    BY <1>0, <1>14 DEF KeepaliveTick, KeepaliveExcept, KeepaliveFail, Goto
  <2>2. pc["keeper"] \notin Critical /\ pc'["keeper"] \notin Requesting
    BY <1>0, <1>14 DEF KeepaliveTick, KeepaliveExcept, KeepaliveFail, Goto, Critical, Requesting
  <2>3. QED BY <1>3, <2>1, <2>2
<1>15. CASE StreamFails \/ UNCHANGED vars
  BY <1>1, <1>15 DEF StreamFails, vars
<1>16. QED
  BY Steps, <1>5, <1>6, <1>7, <1>8, <1>9, <1>10, <1>11, <1>12, <1>13, <1>14, <1>15

(* At most one thread is between taking the lock, or sending the first     *)
(* DESCRIBE, and the end of its wait.                                      *)
LEMMA MutualExclusion ==
  ASSUME TypeOK, AppInv, KeeperInv, LockInv
  PROVE  ~(pc["app"] \in Critical /\ pc["keeper"] \in Critical)
<1>1. SUFFICES ASSUME pc["app"] \in Critical, pc["keeper"] \in Critical PROVE FALSE
  OBVIOUS
<1>2. Method("app") # "CHALLENGE"
  BY <1>1, ChallengeAlone DEF Critical, Busy, Requesting
<1>3. Locked("app")
  BY <1>1, <1>2 DEF Locked, Critical
<1>4. Locked("keeper")
  BY <1>1 DEF Locked, Critical, Method
<1>5. QED BY <1>3, <1>4 DEF LockInv, Threads

-----------------------------------------------------------------------------
(* A step of one thread leaves the CSeq of the other where it was.         *)
LEMMA PendingFrame ==
  ASSUME PendingInv, NEW t \in Threads,
         \A n \in pending' : n \in pending,
         \A u \in Threads \ {t} :
           pc[u] \in {"send", "wait"} => pc'[u] \in {"send", "wait"} /\ mine'[u] = mine[u],
         \/ pc[t] \notin {"send", "wait"}
         \/ mine[t] \notin pending'
         \/ pc'[t] \in {"send", "wait"} /\ mine'[t] = mine[t]
  PROVE  PendingInv'
BY Zenon DEF PendingInv

LEMMA PendingInvStep ==
  ASSUME TypeOK, AppInv, KeeperInv, LockInv, PendingInv, [Next]_vars PROVE PendingInv'
<1> USE DEF appVars, sharedVars, localVars, keepVars, recVars
<1>0. /\ pc \in [Threads -> Places] /\ mine \in [Threads -> Nat]
      /\ "app" \in Threads /\ "keeper" \in Threads
  BY DEF TypeOK, AppTypes, RequestTypes, Threads
<1>1. ASSUME NEW t \in Threads, Raise(t)
      PROVE  \A u \in Threads \ {t} : pc'[u] = pc[u] /\ mine'[u] = mine[u]
  BY <1>0, <1>1 DEF Raise, Goto, Forget, Threads
<1>2. ASSUME NEW t \in Threads, BeginRefused(t) \/ SignFails(t) \/ RegisterRefused(t)
      PROVE  PendingInv'
  <2>1. Raise(t) /\ pending' = pending /\ pc[t] \notin {"send", "wait"}
    BY <1>2 DEF BeginRefused, SignFails, RegisterRefused
  <2>2. QED BY <1>1, <2>1, PendingFrame
<1>3. ASSUME NEW t \in Threads, SendFails(t) \/ Unauthorized(t) \/ Refused(t)
      PROVE  PendingInv'
  <2>1. Raise(t) /\ pending' = pending \ {mine[t]}
    BY <1>3 DEF SendFails, Unauthorized, Refused
  <2>2. QED BY <1>1, <2>1, PendingFrame
<1>4. CASE Misdescribed \/ Unprepared
  <2>1. Raise("app") /\ pending' = pending \ {mine["app"]}
    BY <1>4 DEF Misdescribed, Unprepared
  <2>2. QED BY <1>0, <1>1, <2>1, PendingFrame
<1>5. ASSUME NEW t \in Threads, Begin(t) \/ Lock(t) \/ Count(t) \/ Sign(t)
      PROVE  PendingInv'
  <2>1. pending' = pending /\ mine' = mine /\ pc[t] \notin {"send", "wait"}
    BY <1>5 DEF Begin, Lock, Count, Sign
  <2>2. \A u \in Threads \ {t} : pc'[u] = pc[u]
    BY <1>0, <1>5 DEF Begin, Lock, Count, Sign, Goto
  <2>3. QED BY <2>1, <2>2, PendingFrame
<1>6. ASSUME NEW t \in Threads, Send(t) PROVE PendingInv'
  <2>1. pending' = pending /\ mine' = mine /\ pc' = [pc EXCEPT ![t] = "wait"]
    BY <1>6 DEF Send, Goto
  <2>2. pc'[t] = "wait" /\ \A u \in Threads \ {t} : pc'[u] = pc[u]
    BY <1>0, <2>1
  <2>3. QED BY <2>1, <2>2, PendingFrame
<1>7. ASSUME NEW t \in Threads, Register(t) PROVE PendingInv'
  <2>1. /\ pending' = pending \cup {cseq} /\ pc[t] = "register"
        /\ mine' = [mine EXCEPT ![t] = cseq] /\ pc' = [pc EXCEPT ![t] = "send"]
    BY <1>7 DEF Register, Goto
  <2>2. pc'[t] = "send" /\ mine'[t] = cseq /\ \A u \in Threads \ {t} : pc'[u] = pc[u] /\ mine'[u] = mine[u]
    BY <1>0, <2>1
  <2>3. ASSUME NEW n \in pending' PROVE \E u \in Threads : pc'[u] \in {"send", "wait"} /\ n = mine'[u]
    <3>1. CASE n = cseq
      BY <2>2, <3>1
    <3>2. CASE n # cseq
      <4>1. PICK u \in Threads : pc[u] \in {"send", "wait"} /\ n = mine[u]
        BY <2>1, <3>2 DEF PendingInv
      <4>2. u # t
        BY <2>1, <4>1
      <4>3. QED BY <2>2, <4>1, <4>2
    <3>3. QED BY <3>1, <3>2
  <2>4. QED BY <2>3 DEF PendingInv
<1>8. ASSUME NEW t \in Threads, Stale(t) PROVE PendingInv'
  <2>1. pending' = pending \ {mine[t]} /\ mine' = mine /\ pc' = [pc EXCEPT ![t] = "count"]
    BY <1>8 DEF Stale, Goto
  <2>2. \A u \in Threads \ {t} : pc'[u] = pc[u]
    BY <1>0, <2>1
  <2>3. QED BY <2>1, <2>2, PendingFrame
<1>9. CASE Answered("keeper")
  <2>1. /\ pending' = pending \ {mine["keeper"]} /\ Forget("keeper")
        /\ pc' = [pc EXCEPT !["keeper"] = "sleep"]
    BY <1>9 DEF Answered, Goto
  <2>2. \A u \in Threads \ {"keeper"} : pc'[u] = pc[u] /\ mine'[u] = mine[u]
    BY <1>0, <2>1 DEF Forget
  <2>3. QED BY <1>0, <2>1, <2>2, PendingFrame
<1>10. CASE Answered("app")
  <2>1. /\ pending' = pending \ {mine["app"]} /\ Forget("app") /\ pc["app"] = "wait"
    BY <1>10 DEF Answered
  <2>2. \A u \in Threads \ {"app"} : pc[u] \notin {"send", "wait"}
    BY <2>1, MutualExclusion DEF Critical, Threads
  <2>3. QED BY <1>0, <2>1, <2>2, PendingFrame
<1>11. CASE Challenged \/ Unchallenged
  <2>1. /\ pending' = pending \ {mine["app"]} /\ Forget("app")
        /\ pc' = [pc EXCEPT !["app"] = "next"]
    BY <1>11 DEF Challenged, Unchallenged, Goto
  <2>2. \A u \in Threads \ {"app"} : pc'[u] = pc[u] /\ mine'[u] = mine[u]
    BY <1>0, <2>1 DEF Forget
  <2>3. QED BY <1>0, <2>1, <2>2, PendingFrame
<1>12. CASE Start \/ SessionRequest \/ Close \/ StopKeepalive \/ Join \/ JoinExpires \/ CloseSocket
  <2>1. /\ pending' \subseteq pending /\ mine' = mine
    BY <1>12 DEF Start, SessionRequest, Close, StopKeepalive, Join, JoinExpires, CloseSocket
  <2>2. pc["app"] \notin {"send", "wait"}
    BY <1>12 DEF Start, SessionRequest, Close, StopKeepalive, Join, JoinExpires, CloseSocket
  <2>3. \A u \in Threads \ {"app"} : pc'[u] = pc[u]
    BY <1>0, <1>12 DEF Start, SessionRequest, Close, StopKeepalive, Join, JoinExpires, Joined, CloseSocket, Goto
  <2>4. QED BY <1>0, <2>1, <2>2, <2>3, PendingFrame
<1>13. CASE KeepaliveTick \/ KeepaliveExcept \/ KeepaliveFail
  <2>1. /\ pending' \subseteq pending /\ mine' = mine /\ pc["keeper"] \notin {"send", "wait"}
    BY <1>13 DEF KeepaliveTick, KeepaliveExcept, KeepaliveFail
  <2>2. \A u \in Threads \ {"keeper"} : pc'[u] = pc[u]
    BY <1>0, <1>13 DEF KeepaliveTick, KeepaliveExcept, KeepaliveFail, Goto
  <2>3. QED BY <1>0, <2>1, <2>2, PendingFrame
<1>14. CASE StreamFails
  BY <1>14 DEF StreamFails, PendingInv
<1>15. CASE UNCHANGED vars
  BY <1>15 DEF vars, PendingInv
<1>16. QED
  BY Steps, <1>2, <1>3, <1>4, <1>5, <1>6, <1>7, <1>8, <1>9, <1>10, <1>11, <1>12, <1>13, <1>14, <1>15 DEF Threads

-----------------------------------------------------------------------------
(* The session: what the recorder holds is what the connection will give   *)
(* back.                                                                   *)
LEMMA SessionInvStep ==
  ASSUME TypeOK, AppInv, KeeperInv, SessionInv, [Next]_vars PROVE SessionInv'
<1> USE DEF appVars, sharedVars, localVars, keepVars, recVars, Busy, Requesting
<1>0. /\ pc \in [Threads -> Places] /\ "app" \in Threads /\ "keeper" \in Threads
      /\ session \in Nat /\ issued \in Nat /\ held \subseteq Nat
  BY DEF TypeOK, AppTypes, Threads
<1>1. ASSUME UNCHANGED <<life, task, session, held, forsaken>>,
             pc'["app"] \in {"abort", "abort_join", "drop"} => pc["app"] \in {"abort", "abort_join", "drop"}
      PROVE  SessionInv'
  BY <1>1 DEF SessionInv
<1>2. ASSUME Raise("app"), task = "request", UNCHANGED <<session, held>>
      PROVE  SessionInv'
  <2>1. /\ life' = life /\ task' = "none" /\ pc'["app"] = "idle" /\ life = "active"
        /\ forsaken => forsaken'
    BY <1>0, <1>2 DEF Raise, Goto, AppInv
  <2>2. QED BY <1>2, <2>1 DEF SessionInv
<1>3. ASSUME Raise("app"), task # "request", pc["app"] \in Busy
      PROVE  SessionInv'
  <2>1. task = "close" \/ task = "start"
    BY <1>3 DEF AppInv, TypeOK, AppTypes
  <2>2. /\ life' = life /\ task' = task /\ life # "closed"
        /\ ~forsaken' => held' = {}
    BY <1>0, <1>3, <2>1 DEF Raise, AppInv
  <2>3. QED BY <2>1, <2>2 DEF SessionInv
<1>4. ASSUME NEW t \in Threads, Method(t) \notin {"SETUP", "TEARDOWN"}, Acts(t)
      PROVE  UNCHANGED <<issued, held>>
  BY <1>4 DEF Acts
<1>5. ASSUME NEW t \in Threads,
             BeginRefused(t) \/ SignFails(t) \/ RegisterRefused(t) \/ SendFails(t) \/ Unauthorized(t) \/ Refused(t)
      PROVE  SessionInv'
  <2>1. Raise(t) /\ pc[t] \in Busy /\ session' = session
    BY <1>5 DEF BeginRefused, SignFails, RegisterRefused, SendFails, Unauthorized, Refused
  <2>2. Method(t) \notin {"SETUP", "TEARDOWN"} => held' = held
    BY <1>4, <1>5 DEF BeginRefused, SignFails, RegisterRefused, SendFails, Unauthorized, Refused
  <2>3. CASE t = "keeper"
    <3>1. held' = held
      BY <2>2, <2>3 DEF Method
    <3>2. UNCHANGED <<life, task, forsaken>> /\ pc'["app"] = pc["app"]
      BY <1>0, <2>1, <2>3 DEF Raise, Goto
    <3>3. QED BY <1>1, <2>1, <3>1, <3>2
  <2>4. CASE t = "app" /\ task = "request"
    <3>1. Method("app") \in {"PLAY", "PAUSE"}
      BY <2>1, <2>4 DEF AppInv, PlanOK, Method
    <3>2. QED BY <1>2, <2>1, <2>2, <2>4, <3>1
  <2>5. CASE t = "app" /\ task # "request"
    BY <1>3, <2>1, <2>5
  <2>6. QED BY <2>3, <2>4, <2>5 DEF Threads
<1>6. CASE Misdescribed \/ Unprepared
  <2>1. Raise("app") /\ pc["app"] = "wait" /\ Method("app") \in {"CHALLENGE", "DESCRIBE", "SETUP"}
    BY <1>6 DEF Misdescribed, Unprepared
  <2>2. task # "request"
    BY <2>1 DEF AppInv, PlanOK, Method
  <2>3. QED BY <1>3, <2>1, <2>2
<1>7. ASSUME NEW t \in Threads,
             Begin(t) \/ Lock(t) \/ Count(t) \/ Sign(t) \/ Register(t) \/ Send(t) \/ Stale(t)
      PROVE  SessionInv'
  <2>1. UNCHANGED <<life, task, session, held, forsaken>>
    BY <1>7 DEF Begin, Lock, Count, Sign, Register, Send, Stale
  <2>2. pc'["app"] = pc["app"] \/ pc'["app"] \in Busy
    BY <1>0, <1>7 DEF Begin, Lock, Count, Sign, Register, Send, Stale, Goto
  <2>3. QED BY <1>1, <2>1, <2>2
<1>8. CASE KeepaliveTick \/ KeepaliveExcept \/ KeepaliveFail \/ StreamFails
  <2>1. UNCHANGED <<life, task, session, held, forsaken>> /\ pc'["app"] = pc["app"]
    BY <1>0, <1>8 DEF KeepaliveTick, KeepaliveExcept, KeepaliveFail, StreamFails, Goto
  <2>2. QED BY <1>1, <2>1
<1>9. CASE Start \/ SessionRequest
  <2>1. UNCHANGED <<life, session, held, forsaken>> /\ task' # "none" /\ pc'["app"] = "next"
    BY <1>0, <1>9 DEF Start, SessionRequest, Goto
  <2>2. QED BY <2>1 DEF SessionInv
<1>10. CASE Close
  <2>1. UNCHANGED <<life, session, held, forsaken>> /\ task = "none" /\ task' = "close"
    BY <1>10 DEF Close, AppInv
  <2>2. /\ pc'["app"] \in {"stop", "abort"} /\ life # "closed"
        /\ pc'["app"] = "abort" => ~(life = "active" /\ session # 0 /\ stream # "none")
    BY <1>0, <1>10 DEF Close, Goto
  <2>3. life = "active" => stream # "none"
    BY <2>1 DEF KeeperInv
  <2>4. CASE life = "new"
    BY <2>1, <2>2, <2>4 DEF SessionInv
  <2>5. CASE life = "active" /\ pc'["app"] = "abort"
    BY <2>1, <2>2, <2>3, <2>5 DEF SessionInv
  <2>6. CASE life = "active" /\ pc'["app"] = "stop"
    BY <2>1, <2>6 DEF SessionInv
  <2>7. QED BY <2>2, <2>4, <2>5, <2>6 DEF TypeOK, AppTypes
<1>11. CASE StopKeepalive \/ Join \/ JoinExpires
  <2>1. UNCHANGED <<life, task, session, held, forsaken>>
    BY <1>11 DEF StopKeepalive, Join, JoinExpires
  <2>2. pc'["app"] \in {"abort", "abort_join", "drop"} => pc["app"] \in {"abort", "abort_join", "drop"}
    BY <1>0, <1>11 DEF StopKeepalive, Join, JoinExpires, Joined, Goto
  <2>3. QED BY <1>1, <2>1, <2>2
<1>12. CASE CloseSocket
  <2>1. UNCHANGED <<session, held, forsaken>> /\ pc["app"] = "drop" /\ pc'["app"] = "idle"
    BY <1>0, <1>12 DEF CloseSocket, Goto
  <2>2. QED BY <2>1 DEF SessionInv
<1>13. CASE Answered("keeper")
  <2>1. UNCHANGED <<life, task, session, forsaken>> /\ pc'["app"] = pc["app"] /\ Acts("keeper")
    BY <1>0, <1>13 DEF Answered, Goto
  <2>2. held' = held
    BY <1>0, <1>4, <2>1 DEF Method
  <2>3. QED BY <1>1, <2>1, <2>2
<1>14. CASE Answered("app")
  <2>1. /\ pc["app"] = "wait" /\ Acts("app") /\ Accept /\ forsaken' = forsaken /\ PlanOK
        /\ life' \in {life, "active"}
        /\ ~NotInStart => life' = "active" /\ pc'["app"] = "idle"
        /\ NotInStart => /\ life' = life /\ task' = (IF task = "request" THEN "none" ELSE task)
                         /\ pc'["app"] = IF Len(plan) > 1 THEN "next" ELSE IF task = "close" THEN "abort" ELSE "idle"
    BY <1>0, <1>14 DEF Answered, Goto, AppInv
  <2>2. CASE task = "request"
    <3>1. plan \in {<<"PAUSE">>, <<"PLAY">>} /\ life = "active"
      BY <2>1, <2>2 DEF PlanOK, AppInv
    <3>2. Head(plan) \in {"PAUSE", "PLAY"} /\ Len(plan) = 1
      BY <3>1
    <3>3. session' = session /\ held' = held
      BY <2>1, <3>2 DEF Accept, Acts, Method
    <3>4. pc'["app"] = "idle" /\ life' = "active"
      BY <2>1, <2>2, <3>1, <3>2 DEF NotInStart
    <3>5. QED BY <2>1, <3>3, <3>4 DEF SessionInv
  <2>3. CASE task = "close"
    <3>1. plan = <<"TEARDOWN">>
      BY <2>1, <2>3 DEF PlanOK
    <3>2. Head(plan) = "TEARDOWN"
      BY <3>1
    <3>3. held' = held \ {session} /\ session' = 0
      BY <2>1, <3>2 DEF Accept, Acts, Method
    <3>4. QED BY <2>1, <3>3 DEF SessionInv
  <2>4. CASE task = "start"
    <3>1. life = "new" /\ Head(plan) # "TEARDOWN"
      <4>1. plan[1] # "TEARDOWN" /\ Head(plan) = plan[1]
        BY <2>1, <2>4 DEF PlanOK, TypeOK, AppTypes
      <4>2. QED BY <2>4, <4>1 DEF AppInv
    <3>2. pc'["app"] \in {"next", "idle"} /\ life' # "closed" /\ ~(life' = "new" /\ task' = "none")
      BY <2>1, <2>4, <3>1
    <3>3. ~forsaken => held' \subseteq {session'} \ {0}
      <4>1. CASE Head(plan) = "SETUP" /\ session = 0
        <5>1. session' = issued + 1 /\ held' = held \cup {issued + 1} /\ issued + 1 # 0
          BY <1>0, <2>1, <4>1 DEF Accept, Acts, NewSession, Method
        <5>2. ~forsaken => held = {}
          BY <4>1 DEF SessionInv
        <5>3. QED BY <5>1, <5>2
      <4>2. CASE ~(Head(plan) = "SETUP" /\ session = 0)
        <5>1. session' = session /\ held' = held
          BY <2>1, <3>1, <4>2 DEF Accept, Acts, Method
        <5>2. QED BY <5>1 DEF SessionInv
      <4>3. QED BY <4>1, <4>2
    <3>4. QED BY <2>1, <3>2, <3>3 DEF SessionInv
  <2>5. task # "none"
    BY <2>1 DEF AppInv
  <2>6. QED BY <2>2, <2>3, <2>4, <2>5 DEF TypeOK, AppTypes
<1>15. CASE Challenged \/ Unchallenged
  <2>1. UNCHANGED <<life, task, session, held, forsaken>> /\ pc'["app"] = "next"
    BY <1>0, <1>15 DEF Challenged, Unchallenged, Goto
  <2>2. QED BY <1>1, <2>1
<1>16. CASE UNCHANGED vars
  BY <1>1, <1>16 DEF vars
<1>17. QED
  BY Steps, <1>5, <1>6, <1>7, <1>8, <1>9, <1>10, <1>11, <1>12, <1>13, <1>14, <1>15, <1>16 DEF Threads

-----------------------------------------------------------------------------
(* What a thread outside _request_once leaves as it was.                   *)
Clear(u) == pc[u] \notin Critical /\ auth[u] = NoAuth

LEMMA DigestFrame ==
  ASSUME DigestInv, UNCHANGED <<digest, nonces, used>>,
         \A u \in Threads :
           \/ pc'[u] = pc[u] /\ auth'[u] = auth[u] /\ (pc[u] \in {"register", "send"} => Method(u)' = Method(u))
           \/ Clear(u)'
           \/ pc'[u] \in {"count", "wait"}
  PROVE  DigestInv'
<1>1. ASSUME NEW u \in Threads
      PROVE  /\ pc'[u] \notin Critical => auth'[u] = NoAuth
             /\ pc'[u] = "sign" => Above(digest)'
             /\ pc'[u] \in {"register", "send"} /\ Method(u)' = "CHALLENGE" => auth'[u] = NoAuth
             /\ pc'[u] \in {"register", "send"} /\ Method(u)' # "CHALLENGE" => auth'[u] = digest' /\ Above(digest)'
  BY DEF DigestInv, Clear, Critical, Above
<1>2. /\ digest'[1] <= nonces'
      /\ NoAuth \notin used'
      /\ \A u \in used' : u[1] <= nonces' /\ (u[1] = digest'[1] => u[2] <= digest'[2])
  BY DEF DigestInv
<1>3. QED BY <1>1, <1>2 DEF DigestInv

(* A new nonce: nothing has been sent with it.                             *)
LEMMA NewNonce ==
  ASSUME TypeOK, DigestInv, nonces' = nonces + 1, digest' = <<nonces + 1, 0>>, used' = used,
         \A u \in Threads : Clear(u)' \/ pc'[u] = "count"
  PROVE  DigestInv'
<1> USE DEF TypeOK, RequestTypes
<1>1. \A u \in used : u[1] \in Nat /\ u[2] \in Nat /\ u[1] <= nonces
  BY DEF DigestInv
<1>2. digest'[1] = nonces + 1 /\ digest'[2] = 0 /\ nonces \in Nat
  OBVIOUS
<1>3. \A u \in used' : u[1] <= nonces' /\ (u[1] = digest'[1] => u[2] <= digest'[2])
  BY <1>1, <1>2
<1>4. digest'[1] <= nonces' /\ NoAuth \notin used'
  BY <1>2 DEF DigestInv
<1>5. ASSUME NEW u \in Threads
      PROVE  /\ pc'[u] \notin Critical => auth'[u] = NoAuth
             /\ pc'[u] # "sign" /\ pc'[u] \notin {"register", "send"}
  BY DEF Clear, Critical
<1>6. QED BY <1>3, <1>4, <1>5 DEF DigestInv

LEMMA DigestInvStep ==
  ASSUME TypeOK, AppInv, KeeperInv, LockInv, DigestInv, [Next]_vars PROVE DigestInv'
<1> USE DEF appVars, sharedVars, localVars, keepVars, recVars
<1>0. /\ pc \in [Threads -> Places] /\ auth \in [Threads -> Nat \X Nat]
      /\ "app" \in Threads /\ "keeper" \in Threads
  BY DEF TypeOK, AppTypes, RequestTypes, Threads
<1>1. ASSUME NEW t \in Threads, pc[t] \in Critical
      PROVE  \A u \in Threads \ {t} : Clear(u)
  BY <1>1, MutualExclusion DEF Threads, DigestInv, Clear
<1>2. ASSUME NEW t \in Threads, Raise(t), UNCHANGED <<digest, nonces, used>>
      PROVE  DigestInv'
  <2>1. Clear(t)'
    BY <1>0, <1>2 DEF Raise, Goto, Forget, Clear, Critical
  <2>2. \A u \in Threads \ {t} : pc'[u] = pc[u] /\ auth'[u] = auth[u] /\ Method(u)' = Method(u)
    BY <1>0, <1>2 DEF Raise, Goto, Forget, Threads, Method
  <2>3. QED BY <1>2, <2>1, <2>2, DigestFrame
<1>3. ASSUME NEW t \in Threads,
             BeginRefused(t) \/ SignFails(t) \/ RegisterRefused(t) \/ SendFails(t) \/ Unauthorized(t) \/ Refused(t)
      PROVE  DigestInv'
  <2>1. Raise(t) /\ UNCHANGED <<digest, nonces, used>>
    BY <1>3 DEF BeginRefused, SignFails, RegisterRefused, SendFails, Unauthorized, Refused
  <2>2. QED BY <1>2, <2>1
<1>4. CASE Misdescribed \/ Unprepared
  <2>1. Raise("app") /\ UNCHANGED <<digest, nonces, used>>
    BY <1>4 DEF Misdescribed, Unprepared
  <2>2. QED BY <1>0, <1>2, <2>1
<1>5. ASSUME NEW t \in Threads, Begin(t) PROVE DigestInv'
  <2>1. /\ UNCHANGED <<digest, nonces, used, auth, plan>> /\ pc[t] = "next"
        /\ pc' = [pc EXCEPT ![t] = IF Method(t) = "CHALLENGE" THEN "register" ELSE "lock"]
    BY <1>5 DEF Begin, Goto
  <2>2. \A u \in Threads \ {t} : pc'[u] = pc[u] /\ auth'[u] = auth[u] /\ Method(u)' = Method(u)
    BY <1>0, <2>1 DEF Method
  <2>3. auth[t] = NoAuth /\ auth'[t] = NoAuth /\ Method(t)' = Method(t)
    BY <2>1 DEF DigestInv, Critical, Method
  <2>4. CASE Method(t) # "CHALLENGE"
    <3>1. Clear(t)'
      BY <1>0, <2>1, <2>3, <2>4 DEF Clear, Critical
    <3>2. QED BY <2>1, <2>2, <3>1, DigestFrame
  <2>5. CASE Method(t) = "CHALLENGE"
    <3>1. pc'[t] = "register"
      BY <1>0, <2>1, <2>5
    <3>2. ASSUME NEW u \in Threads
          PROVE  /\ pc'[u] \notin Critical => auth'[u] = NoAuth
                 /\ pc'[u] = "sign" => Above(digest)'
                 /\ pc'[u] \in {"register", "send"} /\ Method(u)' = "CHALLENGE" => auth'[u] = NoAuth
                 /\ pc'[u] \in {"register", "send"} /\ Method(u)' # "CHALLENGE" => auth'[u] = digest' /\ Above(digest)'
      <4>1. CASE u = t
        BY <2>3, <2>5, <3>1, <4>1
      <4>2. CASE u # t
        BY <2>1, <2>2, <4>2 DEF DigestInv, Above
      <4>3. QED BY <4>1, <4>2
    <3>3. /\ digest'[1] <= nonces'
          /\ NoAuth \notin used'
          /\ \A u \in used' : u[1] <= nonces' /\ (u[1] = digest'[1] => u[2] <= digest'[2])
      BY <2>1 DEF DigestInv
    <3>4. QED BY <3>2, <3>3 DEF DigestInv
  <2>6. QED BY <2>4, <2>5
<1>6. ASSUME NEW t \in Threads, Lock(t) PROVE DigestInv'
  <2>1. UNCHANGED <<digest, nonces, used, auth, plan>> /\ pc' = [pc EXCEPT ![t] = "count"]
    BY <1>6 DEF Lock, Goto
  <2>2. \A u \in Threads \ {t} : pc'[u] = pc[u] /\ auth'[u] = auth[u] /\ Method(u)' = Method(u)
    BY <1>0, <2>1 DEF Method
  <2>3. pc'[t] = "count"
    BY <1>0, <2>1
  <2>4. QED BY <2>1, <2>2, <2>3, DigestFrame
<1>7. ASSUME NEW t \in Threads, Count(t) PROVE DigestInv'
  <2>1. /\ digest' = <<digest[1], digest[2] + 1>> /\ UNCHANGED <<nonces, used, auth>>
        /\ pc[t] = "count" /\ pc' = [pc EXCEPT ![t] = "sign"]
    BY <1>7 DEF Count, Goto
  <2>2. pc'[t] = "sign" /\ \A u \in Threads \ {t} : Clear(u)'
    <3>1. \A u \in Threads \ {t} : Clear(u) /\ pc'[u] = pc[u]
      BY <1>0, <1>1, <2>1 DEF Critical
    <3>2. QED BY <1>0, <2>1, <3>1 DEF Clear
  <2>3. digest[1] \in Nat /\ digest[2] \in Nat /\ \A u \in used : u[1] \in Nat /\ u[2] \in Nat
    BY DEF TypeOK, RequestTypes
  <2>4. digest'[1] = digest[1] /\ digest'[2] = digest[2] + 1
    BY <2>1
  <2>5. \A u \in used : u[1] <= nonces /\ (u[1] = digest[1] => u[2] <= digest[2])
    BY DEF DigestInv
  <2>6. \A u \in used' : u[1] <= nonces' /\ (u[1] = digest'[1] => u[2] < digest'[2])
    BY <2>1, <2>3, <2>4, <2>5
  <2>7. Above(digest)' /\ \A u \in used' : u[1] <= nonces' /\ (u[1] = digest'[1] => u[2] <= digest'[2])
    BY <2>1, <2>3, <2>4, <2>6 DEF Above
  <2>8. digest'[1] <= nonces' /\ NoAuth \notin used'
    BY <2>1, <2>4 DEF DigestInv
  <2>9. \A u \in Threads : /\ pc'[u] \notin Critical => auth'[u] = NoAuth
                           /\ pc'[u] \notin {"register", "send"}
    BY <2>2 DEF Clear, Critical
  <2>10. QED BY <2>7, <2>8, <2>9 DEF DigestInv
<1>8. ASSUME NEW t \in Threads, Sign(t) PROVE DigestInv'
  <2>1. /\ UNCHANGED <<digest, nonces, used, plan>> /\ auth' = [auth EXCEPT ![t] = digest]
        /\ pc[t] = "sign" /\ pc' = [pc EXCEPT ![t] = "register"]
    BY <1>8 DEF Sign, Goto
  <2>2. /\ pc'[t] = "register" /\ auth'[t] = digest /\ Method(t)' = Method(t) /\ Method(t) # "CHALLENGE"
        /\ Above(digest)
    BY <1>0, <2>1 DEF Method, LockInv, DigestInv
  <2>3. \A u \in Threads \ {t} : Clear(u)'
    <3>1. \A u \in Threads \ {t} : Clear(u) /\ pc'[u] = pc[u] /\ auth'[u] = auth[u]
      BY <1>0, <1>1, <2>1 DEF Critical
    <3>2. QED BY <3>1 DEF Clear
  <2>4. Above(digest)'
    BY <2>1, <2>2 DEF Above
  <2>5. /\ digest'[1] <= nonces'
        /\ NoAuth \notin used'
        /\ \A u \in used' : u[1] <= nonces' /\ (u[1] = digest'[1] => u[2] <= digest'[2])
    BY <2>1 DEF DigestInv
  <2>6. ASSUME NEW u \in Threads
        PROVE  /\ pc'[u] \notin Critical => auth'[u] = NoAuth
               /\ pc'[u] = "sign" => Above(digest)'
               /\ pc'[u] \in {"register", "send"} /\ Method(u)' = "CHALLENGE" => auth'[u] = NoAuth
               /\ pc'[u] \in {"register", "send"} /\ Method(u)' # "CHALLENGE" => auth'[u] = digest' /\ Above(digest)'
    <3>1. CASE u = t
      BY <2>1, <2>2, <2>4, <3>1 DEF Critical
    <3>2. CASE u # t
      BY <2>3, <3>2 DEF Clear, Critical
    <3>3. QED BY <3>1, <3>2
  <2>7. QED BY <2>5, <2>6 DEF DigestInv
<1>9. ASSUME NEW t \in Threads, Register(t) PROVE DigestInv'
  <2>1. /\ UNCHANGED <<digest, nonces, used, plan, auth>>
        /\ pc[t] = "register" /\ pc' = [pc EXCEPT ![t] = "send"]
    BY <1>9 DEF Register, Goto
  <2>2. pc'[t] = "send" /\ \A u \in Threads \ {t} : pc'[u] = pc[u]
    BY <1>0, <2>1
  <2>3. \A u \in Threads : Method(u)' = Method(u)
    BY <2>1 DEF Method
  <2>4. ASSUME NEW u \in Threads
        PROVE  /\ pc'[u] \notin Critical => auth'[u] = NoAuth
               /\ pc'[u] = "sign" => Above(digest)'
               /\ pc'[u] \in {"register", "send"} /\ Method(u)' = "CHALLENGE" => auth'[u] = NoAuth
               /\ pc'[u] \in {"register", "send"} /\ Method(u)' # "CHALLENGE" => auth'[u] = digest' /\ Above(digest)'
    <3>1. Above(digest)' <=> Above(digest)
      BY <2>1 DEF Above
    <3>2. pc[u] \in Critical <=> pc'[u] \in Critical
      BY <2>1, <2>2 DEF Critical
    <3>3. pc'[u] \in {"register", "send"} => pc[u] \in {"register", "send"}
      BY <2>1, <2>2
    <3>4. pc'[u] = "sign" => pc[u] = "sign"
      BY <2>1, <2>2
    <3>5. QED BY <2>1, <2>3, <3>1, <3>2, <3>3, <3>4 DEF DigestInv
  <2>5. /\ digest'[1] <= nonces'
        /\ NoAuth \notin used'
        /\ \A u \in used' : u[1] <= nonces' /\ (u[1] = digest'[1] => u[2] <= digest'[2])
    BY <2>1 DEF DigestInv
  <2>6. QED BY <2>4, <2>5 DEF DigestInv
<1>10. ASSUME NEW t \in Threads, Send(t) PROVE DigestInv'
  <2>1. /\ UNCHANGED <<digest, nonces, auth>> /\ used' = used \cup ({auth[t]} \ {NoAuth})
        /\ pc[t] = "send" /\ pc' = [pc EXCEPT ![t] = "wait"]
    BY <1>10 DEF Send, Goto
  <2>2. auth[t] = NoAuth \/ auth[t] = digest
    BY <2>1 DEF DigestInv
  <2>3. \A u \in used' : u \in used \/ u = digest
    BY <2>1, <2>2
  <2>4. digest[1] \in Nat /\ digest[2] \in Nat /\ digest[1] <= nonces
    BY DEF TypeOK, RequestTypes, DigestInv
  <2>5. \A u \in used' : u[1] <= nonces' /\ (u[1] = digest'[1] => u[2] <= digest'[2])
    BY <2>1, <2>3, <2>4 DEF DigestInv
  <2>6. digest'[1] <= nonces' /\ NoAuth \notin used'
    BY <2>1 DEF DigestInv
  <2>7. pc'[t] = "wait" /\ \A u \in Threads \ {t} : Clear(u)'
    <3>1. \A u \in Threads \ {t} : Clear(u) /\ pc'[u] = pc[u]
      BY <1>0, <1>1, <2>1 DEF Critical
    <3>2. QED BY <1>0, <2>1, <3>1 DEF Clear
  <2>8. \A u \in Threads : /\ pc'[u] \notin Critical => auth'[u] = NoAuth
                           /\ pc'[u] # "sign" /\ pc'[u] \notin {"register", "send"}
    BY <2>7 DEF Clear, Critical
  <2>9. QED BY <2>5, <2>6, <2>8 DEF DigestInv
<1>11. ASSUME NEW t \in Threads, Stale(t) PROVE DigestInv'
  <2>1. /\ nonces' = nonces + 1 /\ digest' = <<nonces + 1, 0>> /\ used' = used /\ auth' = auth
        /\ pc[t] = "wait" /\ pc' = [pc EXCEPT ![t] = "count"]
    BY <1>11 DEF Stale, Goto
  <2>2. \A u \in Threads : Clear(u)' \/ pc'[u] = "count"
    <3>1. \A u \in Threads \ {t} : Clear(u) /\ pc'[u] = pc[u]
      BY <1>0, <1>1, <2>1 DEF Critical
    <3>2. QED BY <1>0, <2>1, <3>1 DEF Clear
  <2>3. QED BY <2>1, <2>2, NewNonce
<1>12. CASE Challenged
  <2>1. /\ nonces' = nonces + 1 /\ digest' = <<nonces + 1, 0>> /\ used' = used
        /\ pc["app"] = "wait" /\ pc' = [pc EXCEPT !["app"] = "next"] /\ auth' = [auth EXCEPT !["app"] = NoAuth]
    BY <1>12 DEF Challenged, Goto, Forget
  <2>2. \A u \in Threads : Clear(u)' \/ pc'[u] = "count"
    <3>1. \A u \in Threads \ {"app"} : Clear(u) /\ pc'[u] = pc[u] /\ auth'[u] = auth[u]
      BY <1>0, <1>1, <2>1 DEF Critical
    <3>2. pc'["app"] = "next" /\ auth'["app"] = NoAuth
      BY <1>0, <2>1
    <3>3. QED BY <3>1, <3>2 DEF Clear, Critical
  <2>3. QED BY <2>1, <2>2, NewNonce
<1>13. ASSUME NEW t \in Threads, Answered(t) PROVE DigestInv'
  <2>1. UNCHANGED <<digest, nonces, used>> /\ auth' = [auth EXCEPT ![t] = NoAuth] /\ pc[t] = "wait"
    BY <1>13 DEF Answered, Forget
  <2>2. /\ pc'[t] \in {"sleep", "next", "abort", "idle"}
        /\ \A u \in Threads \ {t} : pc'[u] \in {pc[u], "sleep"}
    BY <1>0, <1>13 DEF Answered, Goto, Threads
  <2>3. \A u \in Threads : Clear(u)'
    <3>1. \A u \in Threads \ {t} : Clear(u) /\ auth'[u] = auth[u]
      BY <1>0, <1>1, <2>1 DEF Critical
    <3>2. auth'[t] = NoAuth
      BY <1>0, <2>1
    <3>3. QED BY <2>2, <3>1, <3>2 DEF Clear, Critical
  <2>4. QED BY <2>1, <2>3, DigestFrame
<1>14. CASE Unchallenged
  <2>1. UNCHANGED <<digest, nonces, used>> /\ auth' = [auth EXCEPT !["app"] = NoAuth]
        /\ pc["app"] = "wait" /\ pc' = [pc EXCEPT !["app"] = "next"]
    BY <1>14 DEF Unchallenged, Forget, Goto
  <2>2. \A u \in Threads : Clear(u)'
    <3>1. \A u \in Threads \ {"app"} : Clear(u) /\ pc'[u] = pc[u] /\ auth'[u] = auth[u]
      BY <1>0, <1>1, <2>1 DEF Critical
    <3>2. pc'["app"] = "next" /\ auth'["app"] = NoAuth
      BY <1>0, <2>1
    <3>3. QED BY <3>1, <3>2 DEF Clear, Critical
  <2>3. QED BY <2>1, <2>2, DigestFrame
<1>15. CASE Start \/ SessionRequest \/ Close \/ StopKeepalive \/ Join \/ JoinExpires \/ CloseSocket
  <2>1. UNCHANGED <<digest, nonces, used, auth>>
    BY <1>15 DEF Start, SessionRequest, Close, StopKeepalive, Join, JoinExpires, CloseSocket
  <2>2. pc["app"] \notin Critical /\ pc'["app"] \notin Critical /\ pc'["keeper"] = pc["keeper"]
    BY <1>0, <1>15 DEF Start, SessionRequest, Close, StopKeepalive, Join, JoinExpires, Joined, CloseSocket, Goto,
       Critical
  <2>3. Clear("app")'
    BY <1>0, <2>1, <2>2 DEF Clear, DigestInv
  <2>4. Method("keeper")' = Method("keeper")
    BY DEF Method
  <2>5. QED BY <2>1, <2>2, <2>3, <2>4, DigestFrame DEF Threads
<1>16. CASE KeepaliveTick \/ KeepaliveExcept \/ KeepaliveFail
  <2>1. UNCHANGED <<digest, nonces, used, auth, plan>>
    BY <1>16 DEF KeepaliveTick, KeepaliveExcept, KeepaliveFail
  <2>2. pc["keeper"] \notin Critical /\ pc'["keeper"] \notin Critical /\ pc'["app"] = pc["app"]
    BY <1>0, <1>16 DEF KeepaliveTick, KeepaliveExcept, KeepaliveFail, Goto, Critical
  <2>3. Clear("keeper")'
    BY <1>0, <2>1, <2>2 DEF Clear, DigestInv
  <2>4. Method("app")' = Method("app")
    BY <2>1 DEF Method
  <2>5. QED BY <2>1, <2>2, <2>3, <2>4, DigestFrame DEF Threads
<1>17. CASE StreamFails \/ UNCHANGED vars
  <2>1. UNCHANGED <<digest, nonces, used, auth, plan, pc>>
    BY <1>17 DEF StreamFails, vars
  <2>2. QED BY <2>1, DigestFrame DEF Method
<1>18. QED
  BY Steps, <1>3, <1>4, <1>5, <1>6, <1>7, <1>8, <1>9, <1>10, <1>11, <1>12, <1>13, <1>14, <1>15, <1>16, <1>17

-----------------------------------------------------------------------------
(* IInv is an inductive invariant.                                         *)
LEMMA Invariance == Spec => []IInv
<1>1. Init => TypeOK
  <2> SUFFICES ASSUME Init PROVE TypeOK
    OBVIOUS
  <2>1. AppTypes
    BY EmptyPlan DEF Init, AppTypes, Places, Threads
  <2>2. RequestTypes
    BY DEF Init, RequestTypes, Threads, NoAuth
  <2>3. QED BY <2>1, <2>2 DEF TypeOK
<1>2. Init => AppInv /\ KeeperInv
  BY DEF Init, AppInv, KeeperInv, KeeperAlive, Busy, Requesting, Threads
<1>3. Init => LockInv /\ PendingInv /\ SessionInv
  BY DEF Init, LockInv, Locked, PendingInv, SessionInv, Threads, Nobody
<1>4. Init => DigestInv
  BY DEF Init, DigestInv, Threads, NoAuth
<1>5. IInv /\ [Next]_vars => IInv'
  BY TypesStep, AppInvStep, KeeperInvStep, LockInvStep, PendingInvStep, DigestInvStep, SessionInvStep DEF IInv
<1>6. QED BY <1>1, <1>2, <1>3, <1>4, <1>5, PTL DEF Spec, IInv

(* No nonce count is sent twice with a nonce, whatever requests are        *)
(* repeated with a new nonce and whichever of the two threads makes them.  *)
THEOREM NonceCountsAreFresh == Spec => []NonceCountIsFresh
<1>1. IInv => NonceCountIsFresh
  <2> SUFFICES ASSUME IInv, NEW t \in Threads, pc[t] \in {"register", "send"} PROVE auth[t] \notin used
    BY DEF NonceCountIsFresh
  <2>1. CASE Method(t) = "CHALLENGE"
    BY <2>1 DEF IInv, DigestInv
  <2>2. CASE Method(t) # "CHALLENGE"
    <3>1. auth[t] = digest /\ digest[2] \in Nat /\ \A u \in used : u[1] = digest[1] => u[2] < digest[2]
      BY <2>2 DEF IInv, DigestInv, Above, TypeOK, RequestTypes
    <3>2. QED BY <3>1
  <2>3. QED BY <2>1, <2>2
<1>2. QED BY <1>1, Invariance, PTL

(* A pending CSeq is always that of a thread that is sending or waiting,   *)
(* and no request is refused for a CSeq that is pending.                   *)
THEOREM PendingHasAnOwner == Spec => []PendingIsOwned
<1>1. IInv => PendingIsOwned
  <2> SUFFICES ASSUME IInv PROVE PendingIsOwned
    OBVIOUS
  <2>1. pending \subseteq {mine[t] : t \in {u \in Threads : pc[u] \in {"send", "wait"}}}
    BY DEF IInv, PendingInv
  <2>2. ASSUME NEW t \in Threads, pc[t] = "register" PROVE cseq \notin pending
    BY <2>2, MutualExclusion DEF IInv, PendingInv, Critical, Threads
  <2>3. QED BY <2>1, <2>2 DEF PendingIsOwned
<1>2. QED BY <1>1, Invariance, PTL

(* The keepalive thread does not end in a session that is still used, nor  *)
(* outlive one that was closed.                                            *)
THEOREM KeepaliveIsBound == Spec => []KeepaliveEndsWithSession
<1>1. IInv => KeepaliveEndsWithSession
  <2> SUFFICES ASSUME IInv PROVE KeepaliveEndsWithSession
    OBVIOUS
  <2> USE DEF IInv, AppInv, KeeperInv
  <2>1. life = "active" /\ task # "close" /\ pc["keeper"] = "dead" => stream # "open"
    OBVIOUS
  <2>2. life = "closed" => task = "none"
    BY DEF TypeOK, AppTypes
  <2>3. life = "closed" /\ ~expired => ~KeeperAlive
    BY <2>2
  <2>4. ASSUME plan = <<"TEARDOWN">>, pc["app"] \in Requesting PROVE task = "close"
    <3>1. PlanOK /\ task # "none"
      BY <2>4 DEF Busy, Requesting
    <3>2. plan[1] = "TEARDOWN" /\ Len(plan) = 1
      BY <2>4
    <3>3. task # "start"
      BY <3>1, <3>2 DEF PlanOK
    <3>4. task # "request"
      BY <3>1, <3>2 DEF PlanOK
    <3>5. QED BY <3>1, <3>3, <3>4 DEF TypeOK, AppTypes
  <2>5. ASSUME plan = <<"TEARDOWN">>, pc["app"] \in Requesting, ~expired PROVE ~KeeperAlive
    BY <2>4, <2>5 DEF Requesting
  <2>6. QED BY <2>1, <2>3, <2>5 DEF KeepaliveEndsWithSession
<1>2. QED BY <1>1, Invariance, PTL

(* A start that failed leaves nothing behind, and a close() leaves no      *)
(* session with the recorder, unless a request of its own failed.          *)
THEOREM SessionsAreReleased == Spec => []SessionIsReleased
<1>1. IInv => SessionIsReleased
  <2> SUFFICES ASSUME IInv PROVE SessionIsReleased
    OBVIOUS
  <2>1. ASSUME life = "new", task = "none"
        PROVE  stream = "none" /\ ~handle /\ ~KeeperAlive /\ lock = Nobody
    <3>1. stream = "none" /\ pc["app"] = "idle" /\ pc["keeper"] = "unborn" /\ ~handle
      BY <2>1 DEF IInv, AppInv, KeeperInv
    <3>2. ~Locked("app") /\ ~Locked("keeper")
      BY <3>1 DEF Locked
    <3>3. lock = Nobody
      BY <3>2 DEF IInv, LockInv, Threads, TypeOK, RequestTypes
    <3>4. QED BY <3>1, <3>3 DEF KeeperAlive
  <2>2. QED BY <2>1 DEF SessionIsReleased, IInv, SessionInv
<1>2. QED BY <1>1, Invariance, PTL

-----------------------------------------------------------------------------
(* The variables hold what they are meant to hold.                         *)
THEOREM TypeCorrect == Spec => []TypeOK
<1>1. IInv => TypeOK
  BY DEF IInv
<1>2. QED BY <1>1, Invariance, PTL

(* Two requests never overlap, although the first DESCRIBE takes no lock:  *)
(* while one thread signs, registers, sends or waits, the other does not.  *)
RequestsOverlap == pc["app"] \in Critical /\ pc["keeper"] \in Critical

THEOREM RequestsAreExclusive == Spec => []~RequestsOverlap
<1>1. IInv => ~RequestsOverlap
  BY MutualExclusion DEF IInv, RequestsOverlap
<1>2. QED BY <1>1, Invariance, PTL

(* Nobody waits for one who waits.  Whoever holds the request lock is      *)
(* making its request, and neither joins a thread nor wants the lock       *)
(* again; and the thread that close() or a failed start joins has been     *)
(* told to stop.  (Of CloseEnds, what is not fairness.)                    *)
NobodyWaitsForAWaiter ==
  /\ lock # Nobody => lock \in Threads /\ pc[lock] \in Critical
  /\ pc["app"] \in {"join", "abort_join"} => stop

THEOREM NoCircularWait == Spec => []NobodyWaitsForAWaiter
<1> DEFINE Told == pc["app"] \in {"join", "abort_join"} => stop
<1>1. Init => Told
  BY DEF Init, Threads
<1>2. IInv /\ Told /\ [Next]_vars => Told'
  <2> SUFFICES ASSUME IInv, Told, [Next]_vars, pc'["app"] \in {"join", "abort_join"}
               PROVE  stop'
    OBVIOUS
  <2> USE DEF keepVars, Threads
  <2>0. pc \in [Threads -> Places]
    BY DEF IInv, TypeOK, AppTypes
  <2>1. ASSUME NEW t \in Threads, Raise(t), stop' = stop PROVE stop'
    BY <2>0, <2>1 DEF Raise, Goto
  <2>2. ASSUME NEW t \in Threads,
               \/ Begin(t) \/ Lock(t) \/ Count(t) \/ Sign(t) \/ Register(t) \/ Send(t) \/ Stale(t)
        PROVE  stop'
    BY <2>0, <2>2 DEF Begin, Lock, Count, Sign, Register, Send, Stale, Goto
  <2>3. ASSUME NEW t \in Threads,
               \/ BeginRefused(t) \/ SignFails(t) \/ RegisterRefused(t) \/ SendFails(t)
               \/ Unauthorized(t) \/ Refused(t) \/ Misdescribed \/ Unprepared
        PROVE  stop'
    BY <2>1, <2>3 DEF BeginRefused, SignFails, RegisterRefused, SendFails, Unauthorized, Refused,
       Misdescribed, Unprepared
  <2>4. ASSUME NEW t \in Threads, Answered(t) PROVE stop'
    BY <2>0, <2>4 DEF Answered, Goto
  <2>5. CASE StopKeepalive
    BY <2>5 DEF StopKeepalive
  <2>6. CASE Start \/ SessionRequest \/ Close \/ Join \/ JoinExpires \/ CloseSocket \/ Challenged \/ Unchallenged
    BY <2>0, <2>6 DEF Start, SessionRequest, Close, Join, JoinExpires, Joined, CloseSocket,
       Challenged, Unchallenged, Goto
  <2>7. CASE KeepaliveTick \/ KeepaliveExcept \/ KeepaliveFail \/ StreamFails \/ UNCHANGED vars
    BY <2>0, <2>7 DEF KeepaliveTick, KeepaliveExcept, KeepaliveFail, StreamFails, Goto, vars
  <2>8. QED BY Steps, <2>2, <2>3, <2>4, <2>5, <2>6, <2>7
<1>3. IInv /\ Told => NobodyWaitsForAWaiter
  BY DEF IInv, LockInv, Locked, Critical, TypeOK, RequestTypes, NobodyWaitsForAWaiter
<1> HIDE DEF Told
<1>4. QED BY <1>1, <1>2, <1>3, Invariance, PTL DEF Spec

-----------------------------------------------------------------------------
(* A request goes out under the CSeq its response is awaited under, and no *)
(* CSeq goes out twice: a response that comes late, after its request has  *)
(* been given up, is never that of a later one.  (_request_once registers  *)
(* the counter, and _send reads it again.)                                 *)
RegisteredIsSent ==
  \A t \in Threads :
    /\ pc[t] = "send" => mine[t] = cseq
    /\ pc[t] = "wait" => mine[t] < cseq

THEOREM RegisteredCSeqIsSent == Spec => []RegisteredIsSent
<1>1. Init => RegisteredIsSent
  BY DEF Init, RegisteredIsSent, Threads
<1>2. IInv /\ RegisteredIsSent /\ [Next]_vars => RegisteredIsSent'
  <2> SUFFICES ASSUME IInv, RegisteredIsSent, [Next]_vars PROVE RegisteredIsSent'
    OBVIOUS
  <2> USE DEF sharedVars, localVars
  <2>0. /\ pc \in [Threads -> Places] /\ mine \in [Threads -> Nat] /\ cseq \in Nat
        /\ Threads = {"app", "keeper"}
    BY DEF IInv, TypeOK, AppTypes, RequestTypes, Threads
  <2>a. ASSUME cseq' = cseq,
               \A t \in Threads : pc'[t] \in {"send", "wait"} => pc'[t] = pc[t] /\ mine'[t] = mine[t]
        PROVE  RegisteredIsSent'
    BY <2>a DEF RegisteredIsSent
  <2>b. ASSUME NEW t \in Threads, pc[t] \in {"register", "send", "wait"}
        PROVE  \A u \in Threads : u # t => pc[u] \notin {"send", "wait"}
    BY <2>0, <2>b, MutualExclusion DEF IInv, Critical
  <2>1. ASSUME NEW t \in Threads, Raise(t)
        PROVE  /\ pc'[t] \notin {"send", "wait"}
               /\ \A u \in Threads : u # t => pc'[u] = pc[u] /\ mine'[u] = mine[u]
    BY <2>0, <2>1 DEF Raise, Goto, Forget
  <2>2. ASSUME NEW t \in Threads, Begin(t) \/ Lock(t) \/ Count(t) \/ Sign(t) \/ Stale(t)
        PROVE  RegisteredIsSent'
    BY <2>0, <2>2, <2>a DEF Begin, Lock, Count, Sign, Stale, Goto
  <2>3. ASSUME NEW t \in Threads, Register(t) PROVE RegisteredIsSent'
    <3>1. /\ pc[t] = "register" /\ cseq' = cseq
          /\ pc' = [pc EXCEPT ![t] = "send"] /\ mine' = [mine EXCEPT ![t] = cseq]
      BY <2>3 DEF Register, Goto
    <3>2. QED BY <2>0, <3>1 DEF RegisteredIsSent
  <2>4. ASSUME NEW t \in Threads, Send(t) PROVE RegisteredIsSent'
    <3>1. /\ pc[t] = "send" /\ cseq' = cseq + 1 /\ mine' = mine
          /\ pc' = [pc EXCEPT ![t] = "wait"]
      BY <2>4 DEF Send, Goto
    <3>2. mine[t] < cseq' /\ \A u \in Threads : u # t => pc'[u] \notin {"send", "wait"}
      BY <2>0, <2>b, <3>1 DEF RegisteredIsSent
    <3>3. QED BY <2>0, <3>1, <3>2 DEF RegisteredIsSent
  <2>5. ASSUME NEW t \in Threads, SendFails(t) PROVE RegisteredIsSent'
    <3>1. pc[t] = "send" /\ Raise(t)
      BY <2>5 DEF SendFails
    <3>2. \A u \in Threads : pc'[u] \notin {"send", "wait"}
      BY <2>1, <2>b, <3>1
    <3>3. QED BY <3>2 DEF RegisteredIsSent
  <2>6. ASSUME NEW t \in Threads,
               BeginRefused(t) \/ SignFails(t) \/ RegisterRefused(t) \/ Unauthorized(t) \/ Refused(t)
        PROVE  RegisteredIsSent'
    <3>1. Raise(t) /\ cseq' = cseq
      BY <2>6 DEF BeginRefused, SignFails, RegisterRefused, Unauthorized, Refused
    <3>2. QED BY <2>1, <2>a, <3>1
  <2>7. CASE Misdescribed \/ Unprepared
    <3>1. Raise("app") /\ cseq' = cseq
      BY <2>7 DEF Misdescribed, Unprepared
    <3>2. QED BY <2>0, <2>1, <2>a, <3>1
  <2>8. ASSUME NEW t \in Threads, Answered(t) PROVE RegisteredIsSent'
    <3>1. pc[t] = "wait" /\ cseq' = cseq /\ Forget(t)
      BY <2>8 DEF Answered
    <3>2. \A u \in Threads : pc'[u] \notin {"send", "wait"}
      <4>1. \A u \in Threads : u # t => pc[u] \notin {"send", "wait"}
        BY <2>b, <3>1
      <4>2. QED BY <2>0, <2>8, <4>1 DEF Answered, Goto
    <3>3. QED BY <3>2 DEF RegisteredIsSent
  <2>9. CASE Challenged \/ Unchallenged
    BY <2>0, <2>9, <2>a DEF Challenged, Unchallenged, Goto, Forget
  <2>10. CASE Start \/ SessionRequest \/ Close \/ StopKeepalive \/ Join \/ JoinExpires \/ CloseSocket
    BY <2>0, <2>10, <2>a DEF Start, SessionRequest, Close, StopKeepalive, Join, JoinExpires, Joined, CloseSocket, Goto
  <2>11. CASE KeepaliveTick \/ KeepaliveExcept \/ KeepaliveFail \/ StreamFails \/ UNCHANGED vars
    BY <2>0, <2>11, <2>a DEF KeepaliveTick, KeepaliveExcept, KeepaliveFail, StreamFails, Goto, vars
  <2>12. QED BY Steps, <2>2, <2>3, <2>4, <2>5, <2>6, <2>7, <2>8, <2>9, <2>10, <2>11
<1>3. QED BY <1>1, <1>2, Invariance, PTL DEF Spec
=============================================================================
