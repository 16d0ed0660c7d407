------------------------- MODULE RpcConnectionProofs -------------------------
(* Theorems about RpcConnection, for any clients, any programs and any     *)
(* number of keepalive threads.                                            *)
EXTENDS RpcConnection, SequenceTheorems, TLAPS

KeeperStates == {"unborn", "created", "waiting", "want", "locked", "rejecting", "dead"}

Inside  == LoggingIn \cup {"get", "check", "post", "logout"}
Leading == {"stop_forget", "stop_set", "join"}

ConnTypes ==
  /\ logins \in Nat /\ session \in 0..logins
  /\ handle \in 0..MaxThreads
  /\ created \in 0..MaxThreads
  /\ keeper \in [Threads -> KeeperStates]
  /\ live \subseteq 1..logins

CallTypes ==
  /\ pc \in [Clients -> Inside \cup Leading \cup {"idle", "want_logout"}]
  /\ joined \in [Clients -> 0..MaxThreads]
  /\ todo \in [Clients -> Seq(Ops)]

TypeOK == ConnTypes /\ CallTypes

(* The lock is held by the thread that is inside it.                       *)
LockInv ==
  /\ \A c \in Clients : pc[c] \in Inside <=> lock = c
  /\ \A k \in Threads : keeper[k] = "locked" <=> lock = k

(* The threads that exist, and the one that is created but not yet run.    *)
BirthInv ==
  /\ \A k \in Threads : k > created => keeper[k] = "unborn"
  /\ \A c \in Clients : pc[c] = "start_run" /\ handle # 0 => keeper[handle] = "created"

(* A client that is doing something has something to do; whoever has       *)
(* stopped the keepalive thread is about to give the session up.           *)
TodoInv ==
  /\ \A c \in Clients : StopsToEnd(todo[c])
  /\ \A c \in Clients : pc[c] # "idle" => todo[c] # <<>>
  /\ \A c \in Clients : pc[c] \in Leading => Head(todo[c]) \in {"stop", "logout", "close"}

(* The session of a login under way, and the sessions of the recorder.     *)
LeakInv ==
  /\ \A c \in Clients : pc[c] = "challenge" => session = 0
  /\ \A c \in Clients : pc[c] \in LoggingIn \ {"challenge"} => session # 0
  /\ \A c \in Clients : pc[c] = "password" => live \subseteq lost
  /\ NoSessionLeak

(* As long as nothing has overlapped a logout: who is in the way of whom.  *)
OrderInv ==
  ~crossed =>
    \A c, d \in Clients :
      c # d /\ pc[c] \in Stopping => pc[d] \notin Stopping \cup LoggingIn

(* The thread that runs is that of the connection, or the one a client is  *)
(* about to join.                                                          *)
OneKeeper ==
  /\ \A k \in Threads :
       Running(k) => k = handle \/ \E c \in Clients : pc[c] \in {"stop_set", "join"} /\ joined[c] = k
  /\ \A c \in Clients : pc[c] = "stop_forget" => joined[c] = handle
  /\ \A c \in Clients : pc[c] \in Stopping \ {"stop_forget"} => handle = 0
  /\ \A c \in Clients : pc[c] \in LoggingIn \ {"start_run"} => handle = 0

(* Without a session there is nothing to keep alive and no error.          *)
NoSessionNothing ==
  /\ session = 0 => handle = 0 /\ ~rejected /\ \A k \in Threads : ~Running(k)
  /\ \A c \in Clients : pc[c] \in {"challenge", "password"} => ~rejected

(* The thread of the connection runs until it is rejected, and only who    *)
(* gives the session up, or is opening it, leaves it without one.          *)
KeptAlive ==
  /\ handle # 0 => ~stop /\ (Running(handle) \/ rejected)
  /\ \A c \in Clients : pc[c] = "start_assign" => ~stop
  /\ handle = 0 /\ session # 0 =>
       \E c \in Clients : GivingUp(c) \/ pc[c] = "logout" \/ pc[c] \in LoggingIn

OrderlyInv == Orderly => OneKeeper /\ NoSessionNothing /\ KeptAlive

IInv == TypeOK /\ LockInv /\ BirthInv /\ TodoInv /\ LeakInv /\ OrderInv /\ OrderlyInv

-----------------------------------------------------------------------------
(* What a step of client c does to c's place, the lock and its programs.   *)
Places == Inside \cup Leading \cup {"idle", "want_logout"}

MovesTo(c, w) ==
  /\ pc' = [pc EXCEPT ![c] = w]
  /\ crossed' = (crossed \/ Crossing(c, w))
  /\ mishaps \subseteq mishaps'

Locks(c, w) ==
  \/ pc[c] \notin Inside /\ w \in Inside /\ lock = Nobody /\ lock' = c
  \/ pc[c] \in Inside /\ w \notin Inside /\ lock' = Nobody
  \/ (pc[c] \in Inside <=> w \in Inside) /\ lock' = lock

Does(c, w) ==
  /\ todo[c] # <<>>
  /\ \/ todo' = todo /\ (w \in Leading => Head(todo[c]) \in {"stop", "logout", "close"})
     \/ w = "idle" /\ todo' = [todo EXCEPT ![c] = Tail(todo[c])]
     \/ w = "idle" /\ todo' = [todo EXCEPT ![c] = <<"logout">> \o Tail(todo[c])]

(* Every step of a client is such a move.                                  *)
LEMMA ClientMoves ==
  ASSUME TypeOK, TodoInv, NEW c \in Clients, Client(c)
  PROVE  \E w \in Places : MovesTo(c, w) /\ Locks(c, w) /\ Does(c, w)
<1> DEFINE P(w) == w \in Places /\ MovesTo(c, w) /\ Locks(c, w) /\ Does(c, w)
<1> SUFFICES \E w : P(w)  OBVIOUS
<1> USE DEF Places, Inside, Leading, LoggingIn
<1>1. CASE Enter(c)
  <2>1. P("get") \/ P("check")  BY <1>1 DEF Enter, Acquire, MovesTo, Locks, Does, Goto, Doing, TodoInv, callVars, wireVars, connVars, stopVars, keepVars
  <2> QED  BY <2>1
<1>2. CASE Get(c)
  <2>1. P("idle")  BY <1>2 DEF Get, Leave, End, MovesTo, Locks, Does, Goto, Doing, TodoInv, callVars, wireVars, connVars, stopVars, keepVars
  <2> QED  BY <2>1
<1>3. CASE CallRefused(c)
  <2>1. P("idle")  BY <1>3 DEF CallRefused, Leave, End, MovesTo, Locks, Does, Goto, Doing, TodoInv, callVars, wireVars, connVars, stopVars, keepVars
  <2> QED  BY <2>1
<1>4. CASE SessionFound(c)
  <2>1. P("post") \/ P("idle")  BY <1>4 DEF SessionFound, Leave, End, MovesTo, Locks, Does, Goto, Doing, TodoInv, callVars, wireVars, connVars, stopVars, keepVars
  <2> QED  BY <2>1
<1>5. CASE SessionMissing(c)
  <2>1. P("challenge")  BY <1>5 DEF SessionMissing, MovesTo, Locks, Does, Goto, Doing, TodoInv, callVars, wireVars, connVars, stopVars, keepVars
  <2> QED  BY <2>1
<1>6. CASE Challenge(c)
  <2>1. P("password")  BY <1>6 DEF Challenge, MovesTo, Locks, Does, Goto, Doing, TodoInv, callVars, wireVars, connVars, stopVars, keepVars
  <2> QED  BY <2>1
<1>7. CASE ChallengeFails(c)
  <2>1. P("idle")  BY <1>7 DEF ChallengeFails, Leave, End, MovesTo, Locks, Does, Goto, Doing, TodoInv, callVars, wireVars, connVars, stopVars, keepVars
  <2> QED  BY <2>1
<1>8. CASE Password(c)
  <2>1. P("start_check")  BY <1>8 DEF Password, MovesTo, Locks, Does, Goto, Doing, TodoInv, callVars, wireVars, connVars, stopVars, keepVars
  <2> QED  BY <2>1
<1>9. CASE PasswordFails(c)
  <2>1. P("idle")  BY <1>9 DEF PasswordFails, Leave, End, MovesTo, Locks, Does, Goto, Doing, TodoInv, callVars, wireVars, connVars, stopVars, keepVars
  <2> QED  BY <2>1
<1>10. CASE StartCheck(c)
  <2>1. P("start_clear") \/ P("post") \/ P("idle")  BY <1>10 DEF StartCheck, LoggedIn, Leave, End, MovesTo, Locks, Does, Goto, Doing, TodoInv, callVars, wireVars, connVars, stopVars, keepVars
  <2> QED  BY <2>1
<1>11. CASE StartClear(c)
  <2>1. P("start_assign")  BY <1>11 DEF StartClear, MovesTo, Locks, Does, Goto, Doing, TodoInv, callVars, wireVars, connVars, stopVars, keepVars
  <2> QED  BY <2>1
<1>12. CASE StartAssign(c)
  <2>1. P("start_run")  BY <1>12 DEF StartAssign, MovesTo, Locks, Does, Goto, Doing, TodoInv, callVars, wireVars, connVars, stopVars, keepVars
  <2> QED  BY <2>1
<1>13. CASE StartRun(c)
  <2>1. P("post") \/ P("idle")  BY <1>13 DEF StartRun, LoggedIn, Leave, End, MovesTo, Locks, Does, Goto, Doing, TodoInv, callVars, wireVars, connVars, stopVars, keepVars
  <2> QED  BY <2>1
<1>14. CASE Post(c)
  <2>1. P("idle")  BY <1>14 DEF Post, Leave, End, MovesTo, Locks, Does, Goto, Doing, TodoInv, callVars, wireVars, connVars, stopVars, keepVars
  <2> QED  BY <2>1
<1>15. CASE StopRead(c)
  <2>1. P("stop_forget")  BY <1>15 DEF StopRead, MovesTo, Locks, Does, Goto, Doing, TodoInv, callVars, wireVars, connVars, stopVars, keepVars
  <2> QED  BY <2>1
<1>16. CASE StopForget(c)
  <2>1. P("stop_set")  BY <1>16 DEF StopForget, MovesTo, Locks, Does, Goto, Doing, TodoInv, callVars, wireVars, connVars, stopVars, keepVars
  <2> QED  BY <2>1
<1>17. CASE StopSet(c)
  <2>1. P("join")  BY <1>17 DEF StopSet, MovesTo, Locks, Does, Goto, Doing, TodoInv, callVars, wireVars, connVars, stopVars, keepVars
  <2> QED  BY <2>1
<1>18. CASE Join(c)
  <2>1. P("idle") \/ P("want_logout")  BY <1>18 DEF Join, Stopped, End, MovesTo, Locks, Does, Goto, Doing, TodoInv, callVars, wireVars, connVars, stopVars, keepVars
  <2> QED  BY <2>1
<1>19. CASE JoinExpires(c)
  <2>1. P("idle") \/ P("want_logout")  BY <1>19 DEF JoinExpires, Stopped, End, MovesTo, Locks, Does, Goto, Doing, TodoInv, callVars, wireVars, connVars, stopVars, keepVars
  <2> QED  BY <2>1
<1>20. CASE JoinUnstarted(c)
  <2>1. P("idle")  BY <1>20 DEF JoinUnstarted, End, MovesTo, Locks, Does, Goto, Doing, TodoInv, callVars, wireVars, connVars, stopVars, keepVars
  <2> QED  BY <2>1
<1>21. CASE EnterLogout(c)
  <2>1. P("logout")  BY <1>21 DEF EnterLogout, Acquire, MovesTo, Locks, Does, Goto, Doing, TodoInv, callVars, wireVars, connVars, stopVars, keepVars
  <2> QED  BY <2>1
<1>22. CASE LogoutNothing(c)
  <2>1. P("idle")  BY <1>22 DEF LogoutNothing, Leave, End, MovesTo, Locks, Does, Goto, Doing, TodoInv, callVars, wireVars, connVars, stopVars, keepVars
  <2> QED  BY <2>1
<1>23. CASE Logout(c)
  <2>1. P("idle")  BY <1>23 DEF Logout, Leave, End, MovesTo, Locks, Does, Goto, Doing, TodoInv, callVars, wireVars, connVars, stopVars, keepVars
  <2> QED  BY <2>1
<1> HIDE DEF P
<1> QED  BY <1>1, <1>2, <1>3, <1>4, <1>5, <1>6, <1>7, <1>8, <1>9, <1>10, <1>11, <1>12, <1>13, <1>14, <1>15, <1>16, <1>17, <1>18, <1>19, <1>20, <1>21, <1>22, <1>23 DEF Client, ClientStep

-----------------------------------------------------------------------------
(* What follows a join, with or without its thread alive.                  *)
LEMMA JoinMoves ==
  ASSUME TypeOK, TodoInv, NEW c \in Clients, Join(c) \/ JoinExpires(c)
  PROVE  \/ pc'[c] = "want_logout" /\ todo' = todo
         \/ pc'[c] = "idle" /\ todo' = [todo EXCEPT ![c] = Tail(todo[c])] /\ Head(todo[c]) = "stop"
         \/ pc'[c] = "idle" /\ todo' = [todo EXCEPT ![c] = <<"logout">> \o Tail(todo[c])]
<1>1. Head(todo[c]) \in {"stop", "logout", "close"} /\ Stopped(c)
  BY DEF Join, JoinExpires, TodoInv, Leading
<1> QED  BY <1>1 DEF Stopped, End, Goto, TypeOK, CallTypes

(* The keepalive threads and the recorder leave the clients alone.         *)
LEMMA OthersStay ==
  ASSUME (\E k \in Threads : Keeper(k)) \/ RecorderExpires \/ UNCHANGED vars
  PROVE  UNCHANGED callVars
BY DEF Keeper, KeepaliveTick, KeepaliveLock, KeepalivePost, KeepaliveRejected,
       RecorderExpires, vars, callVars

(* No client locks a keepalive thread in or out.                           *)
LEMMA ClientsLeaveLocked ==
  ASSUME TypeOK, BirthInv, NEW c \in Clients, Client(c), NEW k \in Threads
  PROVE  keeper'[k] = "locked" <=> keeper[k] = "locked"
<1> USE ThreadsAssumption DEF TypeOK, ConnTypes, Threads, KeeperStates, keepVars
<1>1. CASE UNCHANGED keeper  BY <1>1
<1>2. CASE StartAssign(c)
  <2>1. created + 1 \in Threads /\ keeper' = [keeper EXCEPT ![created + 1] = "created"]
    BY <1>2 DEF StartAssign
  <2>2. keeper[created + 1] = "unborn"  BY <2>1 DEF BirthInv
  <2> QED  BY <2>1, <2>2
<1>3. CASE StartRun(c) /\ handle # 0
  <2>1. pc[c] = "start_run" /\ keeper' = [keeper EXCEPT ![handle] = "waiting"]
    BY <1>3 DEF StartRun
  <2>2. handle \in Threads /\ keeper[handle] = "created"  BY <1>3, <2>1 DEF BirthInv
  <2> QED  BY <2>1, <2>2
<1>4. CASE StartRun(c) /\ handle = 0
  BY <1>4 DEF StartRun
<1> QED
  BY <1>1, <1>2, <1>3, <1>4 DEF Client, ClientStep, Enter, Get, CallRefused, SessionFound,
     SessionMissing, Challenge, ChallengeFails, Password, PasswordFails, StartCheck, StartClear,
     Post, StopRead, StopForget, StopSet, Join, JoinExpires, JoinUnstarted, EnterLogout,
     LogoutNothing, Logout

(* Mutual exclusion: whoever acts inside the lock holds it, clients and    *)
(* keepalive threads alike.                                                *)
LEMMA LockStep ==
  ASSUME TypeOK, TodoInv, BirthInv, LockInv, [Next]_vars
  PROVE  LockInv'
<1> USE ClientsAssumption DEF LockInv, Nobody
<1>t. Threads \subseteq Nat \ {0} /\ Nobody \notin Clients /\ Threads \cap Clients = {}
  BY ThreadsAssumption DEF Threads
<1>1. ASSUME NEW c \in Clients, Client(c) PROVE LockInv'
  <2>1. PICK w \in Places : MovesTo(c, w) /\ Locks(c, w)
    BY <1>1, ClientMoves
  <2>2. \A k \in Threads : keeper'[k] = "locked" <=> keeper[k] = "locked"
    BY <1>1, ClientsLeaveLocked
  <2>3. pc' = [pc EXCEPT ![c] = w]
    BY <2>1 DEF MovesTo
  <2>4. CASE pc[c] \notin Inside /\ w \in Inside /\ lock = Nobody /\ lock' = c
    BY <1>t, <2>2, <2>3, <2>4 DEF TypeOK, CallTypes
  <2>5. CASE pc[c] \in Inside /\ w \notin Inside /\ lock' = Nobody
    BY <1>t, <2>2, <2>3, <2>5 DEF TypeOK, CallTypes
  <2>6. CASE (pc[c] \in Inside <=> w \in Inside) /\ lock' = lock
    BY <1>t, <2>2, <2>3, <2>6 DEF TypeOK, CallTypes
  <2> QED  BY <2>1, <2>4, <2>5, <2>6 DEF Locks
<1>2. ASSUME NEW k \in Threads, Keeper(k) PROVE LockInv'
  <2> USE DEF TypeOK, ConnTypes, Become
  <2>0. pc' = pc  BY <1>2, OthersStay DEF callVars
  <2>1. CASE KeepaliveTick(k)
    <3>1. \E next \in {"dead", "want"} : keeper' = [keeper EXCEPT ![k] = next]
      BY <2>1 DEF KeepaliveTick
    <3>2. keeper[k] = "waiting" /\ lock' = lock  BY <2>1 DEF KeepaliveTick
    <3> QED  BY <2>0, <3>1, <3>2
  <2>2. CASE KeepaliveLock(k)
    <3>1. lock = Nobody /\ lock' = k /\ keeper' = [keeper EXCEPT ![k] = "locked"]
      BY <2>2 DEF KeepaliveLock
    <3> QED  BY <1>t, <2>0, <3>1
  <2>3. CASE KeepalivePost(k)
    <3>1. \E next \in {"dead", "waiting", "rejecting"} : keeper' = [keeper EXCEPT ![k] = next]
      BY <2>3 DEF KeepalivePost
    <3>2. keeper[k] = "locked" /\ lock' = Nobody  BY <2>3 DEF KeepalivePost
    <3> QED  BY <1>t, <2>0, <3>1, <3>2
  <2>4. CASE KeepaliveRejected(k)
    <3>1. keeper[k] = "rejecting" /\ lock' = lock /\ keeper' = [keeper EXCEPT ![k] = "dead"]
      BY <2>4 DEF KeepaliveRejected
    <3> QED  BY <2>0, <3>1
  <2> QED  BY <1>2, <2>1, <2>2, <2>3, <2>4 DEF Keeper
<1>3. CASE RecorderExpires \/ UNCHANGED vars
  BY <1>3 DEF RecorderExpires, vars, callVars, keepVars
<1> QED  BY <1>1, <1>2, <1>3 DEF Next

(* Goto notices every overlap of a logout.                                 *)
LEMMA OrderStep ==
  ASSUME TypeOK, TodoInv, OrderInv, [Next]_vars
  PROVE  OrderInv'
<1>1. ASSUME NEW c \in Clients, Client(c) PROVE OrderInv'
  <2>1. PICK w \in Places : MovesTo(c, w)
    BY <1>1, ClientMoves
  <2> SUFFICES ASSUME ~crossed', NEW a \in Clients, NEW b \in Clients, a # b, pc'[a] \in Stopping
               PROVE  pc'[b] \notin Stopping \cup LoggingIn
    BY DEF OrderInv
  <2>2. pc' = [pc EXCEPT ![c] = w] /\ ~crossed /\ ~Crossing(c, w)
    BY <2>1 DEF MovesTo
  <2>3. CASE a # c /\ b # c  BY <2>2, <2>3 DEF OrderInv, TypeOK, CallTypes
  <2>4. CASE a = c  BY <2>2, <2>4 DEF Crossing, TypeOK, CallTypes
  <2>5. CASE b = c
    BY <2>2, <2>5 DEF Crossing, TypeOK, CallTypes
  <2> QED  BY <2>3, <2>4, <2>5
<1>2. CASE UNCHANGED callVars
  BY <1>2 DEF OrderInv, callVars
<1> QED  BY <1>1, <1>2, OthersStay DEF Next

-----------------------------------------------------------------------------
(* The rest of a program, and what close() makes of it.                    *)
LEMMA PlansGoOn ==
  ASSUME NEW ops \in Seq(Ops), ops # <<>>, StopsToEnd(ops)
  PROVE  /\ Tail(ops) \in Seq(Ops) /\ StopsToEnd(Tail(ops))
         /\ <<"logout">> \o Tail(ops) \in Seq(Ops) /\ StopsToEnd(<<"logout">> \o Tail(ops))
         /\ Head(<<"logout">> \o Tail(ops)) = "logout" /\ <<"logout">> \o Tail(ops) # <<>>
         /\ Head(ops) = "stop" =>
              Tail(ops) # <<>> /\ Head(Tail(ops)) \in {"logout", "close"}
<1> DEFINE t == Tail(ops)  l == <<"logout">> \o t
<1>1. t \in Seq(Ops) /\ Len(t) = Len(ops) - 1 /\ \A i \in 1..Len(t) : t[i] = ops[i + 1]
  BY HeadTailProperties
<1>2. Len(ops) \in Nat \ {0}  BY LenProperties, EmptySeq
<1>3. Head(ops) = ops[1]  BY HeadTailProperties
<1>4. StopsToEnd(t)
  <2> SUFFICES ASSUME NEW i \in 1..Len(t), t[i] = "stop"
               PROVE  i < Len(t) /\ t[i + 1] \in {"logout", "close"}
    BY DEF StopsToEnd
  <2>1. i + 1 \in 1..Len(ops) /\ ops[i + 1] = "stop"  BY <1>1, <1>2
  <2>2. i + 1 < Len(ops) /\ ops[i + 1 + 1] \in {"logout", "close"}  BY <2>1 DEF StopsToEnd
  <2>3. i + 1 \in 1..Len(t)  BY <1>1, <1>2, <2>2
  <2> QED  BY <1>1, <1>2, <2>2, <2>3
<1>5. l \in Seq(Ops) /\ Len(l) = Len(t) + 1 /\ l[1] = "logout" /\ \A i \in 1..Len(t) : l[i + 1] = t[i]
  <2>1. <<"logout">> \in Seq(Ops) /\ Len(<<"logout">>) = 1 /\ <<"logout">>[1] = "logout"
    BY DEF Ops
  <2>2. Len(t) \in Nat  BY <1>1, <1>2
  <2>3. l \in Seq(Ops) /\ Len(l) = Len(t) + 1  BY <1>1, <2>1, ConcatProperties
  <2>4. \A i \in 1..Len(l) : l[i] = IF i <= 1 THEN <<"logout">>[i] ELSE t[i - 1]
    BY <1>1, <2>1, ConcatProperties
  <2>5. l[1] = "logout"
    <3>1. 1 \in 1..Len(l)  BY <2>2, <2>3
    <3> QED  BY <2>1, <2>4, <3>1
  <2>6. ASSUME NEW i \in 1..Len(t) PROVE l[i + 1] = t[i]
    <3>1. i + 1 \in 1..Len(l) /\ ~(i + 1 <= 1) /\ i + 1 - 1 = i  BY <2>2, <2>3
    <3> QED  BY <2>4, <3>1
  <2> QED  BY <2>3, <2>5, <2>6
<1>6. StopsToEnd(l)
  <2> SUFFICES ASSUME NEW i \in 1..Len(l), l[i] = "stop"
               PROVE  i < Len(l) /\ l[i + 1] \in {"logout", "close"}
    BY DEF StopsToEnd
  <2>1. i # 1  BY <1>5
  <2>2. i - 1 \in 1..Len(t) /\ i - 1 + 1 = i  BY <1>1, <1>2, <1>5, <2>1
  <2>3. t[i - 1] = "stop"  BY <1>5, <2>2
  <2>4. i - 1 < Len(t) /\ t[i - 1 + 1] \in {"logout", "close"}  BY <1>4, <2>2, <2>3 DEF StopsToEnd
  <2>5. i \in 1..Len(t)  BY <1>1, <1>2, <2>2, <2>4
  <2> QED  BY <1>1, <1>2, <1>5, <2>2, <2>4, <2>5
<1>7. Head(l) = "logout" /\ l # <<>>
  <2>1. l # <<>>  BY <1>1, <1>2, <1>5, EmptySeq
  <2> QED  BY <1>5, <2>1, HeadTailProperties
<1>8. ASSUME Head(ops) = "stop"
      PROVE  t # <<>> /\ Head(t) \in {"logout", "close"}
  <2>1. 1 \in 1..Len(ops) /\ ops[1] = "stop"  BY <1>2, <1>3, <1>8
  <2>2. 1 < Len(ops) /\ ops[1 + 1] \in {"logout", "close"}  BY <2>1 DEF StopsToEnd
  <2>3. 1 \in 1..Len(t) /\ Len(t) # 0  BY <1>1, <1>2, <2>2
  <2>4. t # <<>>  BY <1>1, <2>3, EmptySeq
  <2>5. Head(t) = t[1]  BY <1>1, <2>4, HeadTailProperties
  <2> QED  BY <1>1, <2>2, <2>3, <2>4, <2>5
<1> QED  BY <1>1, <1>4, <1>5, <1>6, <1>7, <1>8

(* Programs stay programs, and whoever is at work has one.                 *)
LEMMA TodoStep ==
  ASSUME TypeOK, TodoInv, [Next]_vars
  PROVE  TodoInv' /\ CallTypes'
<1>1. ASSUME NEW c \in Clients, Client(c) PROVE TodoInv' /\ CallTypes'
  <2>1. PICK w \in Places : MovesTo(c, w) /\ Does(c, w)
    BY <1>1, ClientMoves
  <2>2. pc' = [pc EXCEPT ![c] = w]  BY <2>1 DEF MovesTo
  <2>3. todo[c] \in Seq(Ops) /\ todo[c] # <<>> /\ StopsToEnd(todo[c])
    BY <2>1 DEF Does, TypeOK, CallTypes, TodoInv
  <2>4. /\ Tail(todo[c]) \in Seq(Ops) /\ StopsToEnd(Tail(todo[c]))
        /\ <<"logout">> \o Tail(todo[c]) \in Seq(Ops) /\ StopsToEnd(<<"logout">> \o Tail(todo[c]))
    BY <2>3, PlansGoOn
  <2>5. joined' \in [Clients -> 0..MaxThreads]
    <3>1. joined' = joined \/ joined' = [joined EXCEPT ![c] = handle]
      BY <1>1 DEF Client, ClientStep, Enter, Get, CallRefused, SessionFound,
         SessionMissing, Challenge, ChallengeFails, Password, PasswordFails, StartCheck, StartClear,
         StartAssign, StartRun, Post, StopRead, StopForget, StopSet, Join, JoinExpires,
         JoinUnstarted, EnterLogout, LogoutNothing, Logout
    <3> QED  BY <3>1 DEF TypeOK, ConnTypes, CallTypes
  <2>6. pc' \in [Clients -> Inside \cup Leading \cup {"idle", "want_logout"}]
    BY <2>2 DEF TypeOK, CallTypes, Places
  <2>7. CASE todo' = todo /\ (w \in Leading => Head(todo[c]) \in {"stop", "logout", "close"})
    BY <2>2, <2>3, <2>5, <2>6, <2>7 DEF TypeOK, CallTypes, TodoInv
  <2>8. ASSUME w = "idle", NEW t \in Seq(Ops), StopsToEnd(t), todo' = [todo EXCEPT ![c] = t]
        PROVE  TodoInv' /\ CallTypes'
    BY <2>2, <2>3, <2>5, <2>6, <2>8 DEF TypeOK, CallTypes, TodoInv, Leading
  <2> QED  BY <2>1, <2>4, <2>7, <2>8 DEF Does
<1>2. CASE UNCHANGED callVars
  BY <1>2 DEF TodoInv, TypeOK, CallTypes, callVars
<1> QED  BY <1>1, <1>2, OthersStay DEF Next

-----------------------------------------------------------------------------
(* The connection's numbers and threads keep their types.                  *)
LEMMA ConnStep ==
  ASSUME TypeOK, LeakInv, [Next]_vars
  PROVE  ConnTypes'
<1> USE ThreadsAssumption DEF TypeOK, ConnTypes, Threads, KeeperStates
<1>1. CASE UNCHANGED <<session, logins, handle, keepVars, live>>  BY <1>1 DEF keepVars
<1>2. ASSUME NEW c \in Clients, Client(c) PROVE ConnTypes'
  <2>1. CASE Challenge(c)  BY <2>1 DEF Challenge, stopVars, keepVars, wireVars
  <2>2. CASE Password(c)
    <3>1. /\ pc[c] = "password" /\ live' = live \cup {session}
          /\ UNCHANGED <<session, logins, handle, created, keeper>>
      BY <2>2 DEF Password, stopVars, keepVars
    <3>2. session # 0  BY <3>1 DEF LeakInv, LoggingIn
    <3> QED  BY <3>1, <3>2
  <2>3. CASE PasswordFails(c)
    <3>1. /\ pc[c] = "password" /\ live' \subseteq live \cup {session} /\ session' = 0
          /\ UNCHANGED <<logins, handle, created, keeper>>
      BY <2>3 DEF PasswordFails, stopVars, keepVars, wireVars
    <3>2. session # 0  BY <3>1 DEF LeakInv, LoggingIn
    <3> QED  BY <3>1, <3>2
  <2>4. CASE StartAssign(c)
    <3>1. /\ created + 1 \in Threads /\ created' = created + 1 /\ handle' = created + 1
          /\ keeper' = [keeper EXCEPT ![created + 1] = "created"]
          /\ UNCHANGED <<session, logins, live>>
      BY <2>4 DEF StartAssign, connVars, wireVars
    <3> QED  BY <3>1
  <2>5. CASE StartRun(c)
    <3>1. /\ keeper' = keeper \/ keeper' = [keeper EXCEPT ![handle] = "waiting"]
          /\ UNCHANGED <<session, logins, handle, created, live>>
      BY <2>5 DEF StartRun, connVars, stopVars, wireVars
    <3> QED  BY <3>1
  <2>6. CASE StopForget(c)  BY <2>6 DEF StopForget, connVars, keepVars, wireVars
  <2>7. CASE Logout(c)
    <3>1. /\ live' \subseteq live /\ session' = 0
          /\ UNCHANGED <<logins, handle, created, keeper>>
      BY <2>7 DEF Logout, stopVars, keepVars
    <3> QED  BY <3>1
  <2> QED
    BY <1>1, <1>2, <2>1, <2>2, <2>3, <2>4, <2>5, <2>6, <2>7
    DEF Client, ClientStep, Enter, Get, CallRefused, SessionFound,
        SessionMissing, ChallengeFails, StartCheck, StartClear,
        Post, StopRead, StopSet, Join, JoinExpires, JoinUnstarted, EnterLogout,
        LogoutNothing, connVars, stopVars, keepVars, wireVars
<1>3. ASSUME NEW k \in Threads, Keeper(k) PROVE ConnTypes'
  <2>1. \E next \in KeeperStates : keeper' = [keeper EXCEPT ![k] = next]
    BY <1>3 DEF Keeper, KeepaliveTick, KeepaliveLock, KeepalivePost, KeepaliveRejected, Become
  <2>2. UNCHANGED <<session, logins, handle, created, live>>
    BY <1>3 DEF Keeper, KeepaliveTick, KeepaliveLock, KeepalivePost, KeepaliveRejected,
                connVars, stopVars, wireVars
  <2> QED  BY <2>1, <2>2
<1>4. CASE RecorderExpires  BY <1>4 DEF RecorderExpires, connVars, stopVars, keepVars
<1>5. CASE UNCHANGED vars  BY <1>1, <1>5 DEF vars, connVars, stopVars, wireVars
<1> QED  BY <1>2, <1>3, <1>4, <1>5 DEF Next

(* A thread is born once, and nobody but its starter runs it.              *)
LEMMA BirthStep ==
  ASSUME TypeOK, TodoInv, LockInv, BirthInv, [Next]_vars
  PROVE  BirthInv'
<1> USE ThreadsAssumption DEF TypeOK, ConnTypes, CallTypes, Threads, BirthInv
<1>1. ASSUME UNCHANGED <<created, keeper>>, handle' \in {0, handle},
             \A c \in Clients : pc'[c] = "start_run" => pc[c] = "start_run"
      PROVE  BirthInv'
  BY <1>1
<1>2. ASSUME NEW c \in Clients, Client(c) PROVE BirthInv'
  <2>1. PICK w \in Places : MovesTo(c, w)  BY <1>2, ClientMoves
  <2>2. pc' = [pc EXCEPT ![c] = w]  BY <2>1 DEF MovesTo
  <2>3. CASE StartAssign(c)
    <3>1. /\ created + 1 \in Threads /\ created' = created + 1 /\ handle' = created + 1
          /\ keeper' = [keeper EXCEPT ![created + 1] = "created"]
      BY <2>3 DEF StartAssign
    <3> QED  BY <3>1
  <2>4. CASE StartRun(c)
    <3>1. /\ pc[c] = "start_run" /\ pc'[c] \in {"post", "idle"}
          /\ UNCHANGED <<created, handle>>
          /\ keeper' = keeper \/ (handle # 0 /\ keeper' = [keeper EXCEPT ![handle] = "waiting"])
      BY <2>4 DEF StartRun, LoggedIn, Leave, End, Goto, stopVars
    <3>2. \A d \in Clients : pc'[d] # "start_run"
      <4>1. \A d \in Clients : pc[d] = "start_run" => d = c
        BY <3>1 DEF LockInv, Inside, LoggingIn
      <4> QED  BY <2>2, <3>1, <4>1
    <3>3. handle # 0 => keeper[handle] = "created"  BY <3>1
    <3> QED  BY <3>1, <3>2, <3>3
  <2>5. CASE ~StartAssign(c) /\ ~StartRun(c)
    <3>1. UNCHANGED <<created, keeper>> /\ handle' \in {0, handle}
      BY <1>2, <2>5 DEF Client, ClientStep, Enter, Get, CallRefused, SessionFound,
        SessionMissing, Challenge, ChallengeFails, Password, PasswordFails, StartCheck, StartClear,
        Post, StopRead, StopForget, StopSet, Join, JoinExpires, JoinUnstarted, EnterLogout,
        LogoutNothing, Logout, stopVars, keepVars
    <3>2. pc'[c] # "start_run"
      BY <1>2, <2>5, JoinMoves DEF Client, ClientStep, Enter, Get, CallRefused, SessionFound,
        SessionMissing, Challenge, ChallengeFails, Password, PasswordFails, StartCheck, StartClear,
        Post, StopRead, StopForget, StopSet, JoinUnstarted, EnterLogout,
        LogoutNothing, Logout, LoggedIn, Leave, End, Goto, Acquire
    <3> QED  BY <1>1, <2>2, <3>1, <3>2
  <2> QED  BY <2>3, <2>4, <2>5
<1>3. ASSUME NEW k \in Threads, Keeper(k) PROVE BirthInv'
  <2>1. keeper[k] \notin {"unborn", "created"} /\ UNCHANGED <<handle, created>>
    BY <1>3 DEF Keeper, KeepaliveTick, KeepaliveLock, KeepalivePost, KeepaliveRejected, stopVars
  <2>2. \E next \in KeeperStates : keeper' = [keeper EXCEPT ![k] = next]
    BY <1>3 DEF Keeper, KeepaliveTick, KeepaliveLock, KeepalivePost, KeepaliveRejected, Become, KeeperStates
  <2>3. pc' = pc  BY <1>3, OthersStay DEF callVars
  <2> QED  BY <2>1, <2>2, <2>3
<1>4. CASE RecorderExpires \/ UNCHANGED vars
  <2>1. UNCHANGED <<created, keeper, handle, pc>>
    BY <1>4 DEF RecorderExpires, vars, callVars, stopVars, keepVars
  <2> QED  BY <2>1
<1> QED  BY <1>2, <1>3, <1>4 DEF Next

-----------------------------------------------------------------------------
(* A login starts from no session, so it leaves none behind; and no step   *)
(* outside a login or a logout touches a session but to end it.            *)
LEMMA LeakStep ==
  ASSUME TypeOK, TodoInv, LockInv, LeakInv, [Next]_vars
  PROVE  LeakInv'
<1> USE DEF TypeOK, ConnTypes, CallTypes, LeakInv, NoSessionLeak
<1>1. ASSUME session' = session, live' \subseteq live, lost \subseteq lost',
             \A c \in Clients : pc'[c] \in LoggingIn => pc[c] \in LoggingIn /\ (pc'[c] = "challenge" => pc[c] = "challenge")
                                  /\ (pc[c] = "challenge" => pc'[c] = "challenge")
                                  /\ (pc'[c] = "password" => pc[c] = "password")
      PROVE  LeakInv'
  BY <1>1 DEF LoggingIn
<1>2. ASSUME NEW c \in Clients, Client(c) PROVE LeakInv'
  <2>1. PICK w \in Places : MovesTo(c, w)  BY <1>2, ClientMoves
  <2>2. pc' = [pc EXCEPT ![c] = w]  BY <2>1 DEF MovesTo
  <2>a. ASSUME pc[c] \in LoggingIn \cup {"logout"}
        PROVE  \A d \in Clients \ {c} : pc'[d] \notin LoggingIn
    <3>1. \A d \in Clients \ {c} : pc[d] \notin LoggingIn
      BY <2>a DEF LockInv, Inside
    <3> QED  BY <2>2, <3>1
  <2>3. CASE SessionMissing(c)
    <3>1. /\ session = 0 /\ pc'[c] = "challenge" /\ UNCHANGED <<session, live, lost>>
      BY <2>3 DEF SessionMissing, Goto, connVars, wireVars
    <3> QED  BY <2>2, <3>1 DEF LoggingIn
  <2>4. CASE Challenge(c)
    <3>1. /\ pc[c] = "challenge" /\ pc'[c] = "password"
          /\ session' = logins + 1 /\ UNCHANGED <<live, lost>>
      BY <2>4 DEF Challenge, Goto, wireVars
    <3>2. live \subseteq lost /\ session' # 0  BY <3>1
    <3>3. \A d \in Clients \ {c} : pc'[d] \notin LoggingIn  BY <2>a, <3>1 DEF LoggingIn
    <3> QED  BY <3>1, <3>2, <3>3 DEF LoggingIn
  <2>5. CASE Password(c)
    <3>1. /\ pc[c] = "password" /\ pc'[c] = "start_check"
          /\ live' = live \cup {session} /\ UNCHANGED <<session, lost>>
      BY <2>5 DEF Password, Goto
    <3>2. live \subseteq lost /\ session # 0  BY <3>1 DEF LoggingIn
    <3>3. \A d \in Clients \ {c} : pc'[d] \notin LoggingIn  BY <2>a, <3>1 DEF LoggingIn
    <3> QED  BY <3>1, <3>2, <3>3 DEF LoggingIn
  <2>6. CASE PasswordFails(c)
    <3>1. /\ pc[c] = "password" /\ pc'[c] = "idle" /\ session' = 0
          /\ \/ live' = live /\ lost' = lost
             \/ live' = live \cup {session} /\ lost' = lost \cup {session}
      BY <2>6 DEF PasswordFails, Leave, End, Goto, wireVars
    <3>2. live \subseteq lost  BY <3>1
    <3>3. \A d \in Clients \ {c} : pc'[d] \notin LoggingIn  BY <2>a, <3>1 DEF LoggingIn
    <3> QED  BY <3>1, <3>2, <3>3 DEF LoggingIn
  <2>7. CASE Logout(c)
    <3>1. /\ pc[c] = "logout" /\ pc'[c] = "idle" /\ session' = 0
          /\ \/ live' = live \ {session} /\ lost' = lost
             \/ live' = live /\ lost' = lost \cup {session}
      BY <2>7 DEF Logout, Leave, End, Goto
    <3>3. \A d \in Clients \ {c} : pc'[d] \notin LoggingIn  BY <2>a, <3>1
    <3> QED  BY <3>1, <3>3 DEF LoggingIn
  <2>8. CASE StartCheck(c) \/ StartClear(c) \/ StartAssign(c) \/ StartRun(c)
    <3>1. /\ pc[c] \in LoggingIn \ {"challenge"} /\ pc'[c] \notin {"challenge", "password"}
          /\ UNCHANGED <<session, live, lost>>
      BY <2>8 DEF StartCheck, StartClear, StartAssign, StartRun, LoggedIn, Leave, End, Goto,
                  connVars, wireVars, LoggingIn
    <3> QED  BY <1>1, <2>2, <3>1
  <2>9. CASE ~(SessionMissing(c) \/ Challenge(c) \/ Password(c) \/ PasswordFails(c) \/ Logout(c)
               \/ StartCheck(c) \/ StartClear(c) \/ StartAssign(c) \/ StartRun(c))
    <3>1. UNCHANGED <<session, live, lost>>
      BY <1>2, <2>9 DEF Client, ClientStep, Enter, Get, CallRefused, SessionFound, ChallengeFails,
         Post, StopRead, StopForget, StopSet, Join, JoinExpires, JoinUnstarted, EnterLogout,
         LogoutNothing, connVars, wireVars
    <3>2. pc'[c] \notin LoggingIn
      BY <1>2, <2>9, JoinMoves DEF Client, ClientStep, Enter, Get, CallRefused, SessionFound,
         ChallengeFails, Post, StopRead, StopForget, StopSet, JoinUnstarted, EnterLogout,
         LogoutNothing, Leave, End, Goto, LoggingIn
    <3> QED  BY <1>1, <2>2, <3>1, <3>2
  <2> QED  BY <2>3, <2>4, <2>5, <2>6, <2>7, <2>8, <2>9
<1>3. ASSUME NEW k \in Threads, Keeper(k) PROVE LeakInv'
  <2>1. UNCHANGED <<session, live, lost>>
    BY <1>3 DEF Keeper, KeepaliveTick, KeepaliveLock, KeepalivePost, KeepaliveRejected, connVars, wireVars
  <2>2. pc' = pc  BY <1>3, OthersStay DEF callVars
  <2> QED  BY <2>1, <2>2
<1>4. CASE RecorderExpires \/ UNCHANGED vars
  <2>1. session' = session /\ live' \subseteq live /\ lost' = lost /\ pc' = pc
    BY <1>4 DEF RecorderExpires, vars, callVars, connVars, wireVars
  <2> QED  BY <2>1
<1> QED  BY <1>2, <1>3, <1>4 DEF Next

-----------------------------------------------------------------------------
(* What the steps have in common for the rest: most of them leave the      *)
(* connection's session, error and thread alone.                           *)
Quiet == UNCHANGED <<session, rejected, stopVars, keepVars, joined>>

(* Steps between places that say nothing about the session.                *)
LEMMA QuietSteps ==
  ASSUME TypeOK, TodoInv, NEW c \in Clients,
         \/ Enter(c) \/ Get(c) \/ CallRefused(c) \/ SessionFound(c) \/ ChallengeFails(c)
         \/ StartCheck(c) \/ Post(c) \/ EnterLogout(c) \/ LogoutNothing(c)
  PROVE  /\ Quiet
         /\ pc[c] \notin Leading
         /\ \/ pc[c] = "idle" /\ Head(todo[c]) \in {"call", "login", "get"} /\ pc'[c] \in {"check", "get"}
            \/ pc[c] \in {"check", "get", "post"} /\ pc'[c] \in {"post", "idle"}
            \/ pc[c] = "challenge" /\ pc'[c] = "idle"
            \/ pc[c] = "start_check" /\ handle # 0 /\ pc'[c] \in {"post", "idle"}
            \/ pc[c] = "start_check" /\ pc'[c] = "start_clear"
            \/ pc[c] = "want_logout" /\ pc'[c] = "logout"
            \/ pc[c] = "logout" /\ session = 0 /\ pc'[c] = "idle"
<1> USE DEF Quiet, TypeOK, CallTypes, Leading, connVars, stopVars, keepVars
<1>1. CASE Enter(c)  BY <1>1 DEF Enter, Doing, Goto
<1>2. CASE Get(c)  BY <1>2 DEF Get, Leave, End, Goto
<1>3. CASE CallRefused(c)  BY <1>3 DEF CallRefused, Leave, End, Goto
<1>4. CASE SessionFound(c)  BY <1>4 DEF SessionFound, Leave, End, Goto
<1>5. CASE ChallengeFails(c)  BY <1>5 DEF ChallengeFails, Leave, End, Goto
<1>6. CASE StartCheck(c)  BY <1>6 DEF StartCheck, LoggedIn, Leave, End, Goto
<1>7. CASE Post(c)  BY <1>7 DEF Post, Leave, End, Goto
<1>8. CASE EnterLogout(c)  BY <1>8 DEF EnterLogout, Goto
<1>9. CASE LogoutNothing(c)  BY <1>9 DEF LogoutNothing, Leave, End, Goto
<1> QED  BY <1>1, <1>2, <1>3, <1>4, <1>5, <1>6, <1>7, <1>8, <1>9

(* What is orderly after a step was orderly before it, and the thread      *)
(* handles gave no trouble.                                                *)
LEMMA OrderlyBack ==
  ASSUME TypeOK, TodoInv, NEW c \in Clients, Client(c), Orderly'
  PROVE  /\ Orderly
         /\ ~JoinExpires(c) /\ ~JoinUnstarted(c)
         /\ StartRun(c) => handle # 0
<1>1. PICK w \in Places : MovesTo(c, w)  BY ClientMoves
<1> QED  BY <1>1 DEF MovesTo, Orderly, JoinExpires, JoinUnstarted, StartRun

(* Nothing runs where the connection has no thread and nobody is about to  *)
(* join one.                                                               *)
LEMMA NothingRuns ==
  ASSUME TypeOK, OrderInv, Orderly, OneKeeper, NEW c \in Clients,
         pc[c] \in (LoggingIn \ {"start_run"}) \cup {"want_logout", "logout"}
  PROVE  handle = 0 /\ \A k \in Threads : ~Running(k)
<1>1. handle = 0  BY DEF OneKeeper, Stopping
<1>2. \A d \in Clients : pc[d] \notin {"stop_set", "join"}
  <2>1. ~crossed  BY DEF Orderly
  <2>2. pc[c] \in Stopping \cup LoggingIn /\ pc[c] \notin {"stop_set", "join"}
    BY DEF Stopping, LoggingIn
  <2>3. {"stop_set", "join"} \subseteq Stopping  BY DEF Stopping
  <2> QED  BY <2>1, <2>2, <2>3 DEF OrderInv
<1>3. \A k \in Threads : k # 0  BY ThreadsAssumption DEF Threads
<1> QED  BY <1>1, <1>2, <1>3 DEF OneKeeper

(* Whoever is in a login or at a logout is there alone.                    *)
LEMMA AloneInside ==
  ASSUME TypeOK, LockInv, NEW c \in Clients, pc[c] \in LoggingIn \cup {"logout"}
  PROVE  \A d \in Clients : pc[d] \in LoggingIn \cup {"logout"} => d = c
BY DEF LockInv, Inside

(* A keepalive thread that takes a step runs, and does not come to life.   *)
LEMMA KeeperSteps ==
  ASSUME TypeOK, NEW k \in Threads, Keeper(k)
  PROVE  /\ Running(k) /\ keeper[k] # "created"
         /\ UNCHANGED <<session, stopVars, joined, pc, todo>>
         /\ \A j \in Threads : Running(j)' => Running(j)
         /\ \A j \in Threads \ {k} : Running(j) => Running(j)'
         /\ \/ Running(k)' /\ rejected' = rejected
            \/ stop /\ rejected' = rejected
            \/ session = 0 /\ rejected' = rejected
            \/ rejected' = TRUE
<1> USE DEF TypeOK, ConnTypes, Running
<1>1. UNCHANGED <<session, stopVars, joined, pc, todo>>
  BY DEF Keeper, KeepaliveTick, KeepaliveLock, KeepalivePost, KeepaliveRejected, connVars, callVars
<1>2. /\ keeper[k] \in {"waiting", "want", "locked", "rejecting"}
      /\ \E next \in {"want", "locked", "waiting", "rejecting", "dead"} :
           /\ keeper' = [keeper EXCEPT ![k] = next]
           /\ next # "dead" => rejected' = rejected
           /\ next = "dead" => \/ stop /\ rejected' = rejected
                               \/ session = 0 /\ rejected' = rejected
                               \/ rejected' = TRUE
  BY DEF Keeper, KeepaliveTick, KeepaliveLock, KeepalivePost, KeepaliveRejected, Become, connVars
<1> QED  BY <1>1, <1>2

-----------------------------------------------------------------------------
(* One keepalive thread: it is that of the connection, until a client      *)
(* takes the handle away to join it, and no login starts another before.   *)
LEMMA OneKeeperStep ==
  ASSUME IInv, [Next]_vars, Orderly', OrderInv'
  PROVE  OneKeeper'
<1> USE DEF IInv, TypeOK, ConnTypes, CallTypes, OrderlyInv
<1>1. ASSUME UNCHANGED <<handle, joined, pc>>, OneKeeper, \A k \in Threads : Running(k)' => Running(k)
      PROVE  OneKeeper'
  BY <1>1 DEF OneKeeper
<1>2. ASSUME NEW c \in Clients, Client(c) PROVE OneKeeper'
  <2>0. Orderly /\ OneKeeper /\ NoSessionNothing  BY <1>2, OrderlyBack
  <2>1. PICK w \in Places : MovesTo(c, w)  BY <1>2, ClientMoves
  <2>2. pc' = [pc EXCEPT ![c] = w]  BY <2>1 DEF MovesTo
  <2>3. ASSUME UNCHANGED <<handle, joined, keeper>>, w # "stop_forget",
               pc[c] \in {"stop_set", "join"} => w \in {"stop_set", "join"} \/ \A k \in Threads : ~Running(k),
               w \in (Stopping \cup LoggingIn) \ {"start_run"} => handle = 0
        PROVE  OneKeeper'
    <3>1. \A k \in Threads : Running(k)' = Running(k)  BY <2>3 DEF Running
    <3>2. \A k \in Threads : Running(k)' =>
            k = handle' \/ \E d \in Clients : pc'[d] \in {"stop_set", "join"} /\ joined'[d] = k
      BY <2>0, <2>2, <2>3, <3>1 DEF OneKeeper
    <3>3. \A d \in Clients : pc'[d] = "stop_forget" => joined'[d] = handle'
      BY <2>0, <2>2, <2>3 DEF OneKeeper
    <3>4. \A d \in Clients : pc'[d] \in Stopping \ {"stop_forget"} => handle' = 0
      BY <2>0, <2>2, <2>3 DEF OneKeeper, Stopping
    <3>5. \A d \in Clients : pc'[d] \in LoggingIn \ {"start_run"} => handle' = 0
      BY <2>0, <2>2, <2>3 DEF OneKeeper
    <3> QED  BY <3>2, <3>3, <3>4, <3>5 DEF OneKeeper
  <2>4. CASE \/ Enter(c) \/ Get(c) \/ CallRefused(c) \/ SessionFound(c) \/ ChallengeFails(c)
             \/ StartCheck(c) \/ Post(c) \/ EnterLogout(c) \/ LogoutNothing(c)
    <3>1. Quiet /\ pc[c] \notin Leading  BY <2>4, QuietSteps
    <3>2. w = pc'[c]  BY <2>2
    <3>3. /\ w \in {"check", "get", "post", "idle", "start_clear", "logout"}
          /\ w = "start_clear" => pc[c] = "start_check"
          /\ w = "logout" => pc[c] = "want_logout"
      BY <2>4, <3>2, QuietSteps
    <3>4. w \in Stopping \cup LoggingIn => handle = 0
      BY <2>0, <3>3 DEF OneKeeper, Stopping, LoggingIn
    <3> QED  BY <2>3, <3>1, <3>3, <3>4 DEF Quiet, stopVars, keepVars, Leading
  <2>5. CASE SessionMissing(c)
    <3>1. session = 0 /\ pc[c] = "check" /\ pc'[c] = "challenge" /\ UNCHANGED <<handle, joined, keeper>>
      BY <2>5 DEF SessionMissing, Goto, stopVars, keepVars
    <3>2. handle = 0  BY <2>0, <3>1 DEF NoSessionNothing
    <3> QED  BY <2>2, <2>3, <3>1, <3>2
  <2>6. CASE Challenge(c) \/ Password(c) \/ PasswordFails(c) \/ StartClear(c) \/ Logout(c)
    <3>1. /\ pc[c] \in (LoggingIn \ {"start_run"}) \cup {"logout"}
          /\ pc'[c] \in {"password", "start_check", "idle", "start_assign"}
          /\ UNCHANGED <<handle, joined, keeper>>
      BY <2>6 DEF Challenge, Password, PasswordFails, StartClear, Logout, Leave, End, Goto,
                  stopVars, keepVars, LoggingIn
    <3>2. handle = 0 /\ pc[c] \notin {"stop_set", "join"}
      BY <2>0, <3>1, NothingRuns DEF LoggingIn
    <3> QED  BY <2>2, <2>3, <3>1, <3>2
  <2>7. CASE StartAssign(c)
    <3>1. /\ pc[c] = "start_assign" /\ pc'[c] = "start_run" /\ joined' = joined
          /\ created + 1 \in Threads /\ handle' = created + 1
          /\ keeper' = [keeper EXCEPT ![created + 1] = "created"]
      BY <2>7, ThreadsAssumption DEF StartAssign, Goto, Threads
    <3>2. \A k \in Threads : ~Running(k)
      BY <2>0, <3>1, NothingRuns DEF LoggingIn
    <3>3. \A k \in Threads : Running(k)' => k = handle'  BY <3>1, <3>2 DEF Running
    <3>4. \A d \in Clients : pc'[d] \notin Stopping
      <4>1. \A d \in Clients : d # c => pc[d] \notin Stopping
        BY <2>0, <3>1 DEF OrderInv, Orderly, LoggingIn
      <4> QED  BY <2>2, <3>1, <4>1 DEF Stopping
    <3>5. \A d \in Clients : pc'[d] \notin LoggingIn \ {"start_run"}
      <4>1. \A d \in Clients : d # c => pc[d] \notin LoggingIn
        BY <3>1, AloneInside DEF LoggingIn
      <4> QED  BY <2>2, <3>1, <4>1
    <3> QED  BY <3>3, <3>4, <3>5 DEF OneKeeper, Stopping
  <2>8. CASE StartRun(c)
    <3>1. /\ pc[c] = "start_run" /\ pc'[c] \in {"post", "idle"} /\ UNCHANGED <<handle, joined>>
          /\ handle # 0 /\ keeper' = [keeper EXCEPT ![handle] = "waiting"]
      BY <1>2, <2>8, OrderlyBack DEF StartRun, LoggedIn, Leave, End, Goto, stopVars
    <3>2. \A k \in Threads : Running(k)' => k = handle \/ Running(k)  BY <3>1 DEF Running
    <3>3. \A d \in Clients : pc'[d] \in Stopping \cup LoggingIn => pc'[d] = pc[d]
      BY <2>2, <3>1 DEF Stopping, LoggingIn
    <3>4. \A d \in Clients : pc[d] \in {"stop_set", "join"} => pc'[d] = pc[d]
      BY <2>2, <3>1
    <3> QED  BY <2>0, <3>1, <3>2, <3>3, <3>4 DEF OneKeeper, Stopping
  <2>9. CASE StopRead(c)
    <3>1. /\ pc[c] = "idle" /\ w = "stop_forget" /\ UNCHANGED <<handle, keeper>>
          /\ joined' = [joined EXCEPT ![c] = handle]
      BY <2>2, <2>9 DEF StopRead, Goto, stopVars, keepVars
    <3>2. \A k \in Threads : Running(k)' = Running(k)  BY <3>1 DEF Running
    <3>3. \A d \in Clients \ {c} : pc'[d] = pc[d] /\ joined'[d] = joined[d]  BY <2>2, <3>1
    <3>4. pc'[c] = "stop_forget" /\ joined'[c] = handle  BY <2>2, <3>1
    <3>5. \A k \in Threads : Running(k)' =>
            k = handle' \/ \E d \in Clients : pc'[d] \in {"stop_set", "join"} /\ joined'[d] = k
      BY <2>0, <3>1, <3>2, <3>3 DEF OneKeeper
    <3>6. \A d \in Clients : pc'[d] = "stop_forget" => joined'[d] = handle'
      BY <2>0, <3>1, <3>3, <3>4 DEF OneKeeper
    <3>7. \A d \in Clients : pc'[d] \in Stopping \ {"stop_forget"} => handle' = 0
      BY <2>0, <3>1, <3>3, <3>4 DEF OneKeeper
    <3>8. \A d \in Clients : pc'[d] \in LoggingIn \ {"start_run"} => handle' = 0
      BY <2>0, <3>1, <3>3, <3>4 DEF OneKeeper, LoggingIn
    <3> QED  BY <3>5, <3>6, <3>7, <3>8 DEF OneKeeper
  <2>10. CASE StopForget(c)
    <3>1. /\ pc[c] = "stop_forget" /\ w = "stop_set" /\ handle' = 0 /\ UNCHANGED <<joined, keeper>>
      BY <2>2, <2>10 DEF StopForget, Goto, keepVars
    <3>2. \A k \in Threads : Running(k)' = Running(k)  BY <3>1 DEF Running
    <3>3. joined[c] = handle  BY <2>0, <3>1 DEF OneKeeper
    <3>4. \A d \in Clients : pc'[d] # "stop_forget"
      <4>1. pc'[c] = "stop_set" /\ ~crossed'  BY <2>2, <3>1 DEF Orderly
      <4> QED  BY <4>1 DEF OrderInv, Stopping
    <3>5. \A k \in Threads : Running(k)' =>
            \E d \in Clients : pc'[d] \in {"stop_set", "join"} /\ joined'[d] = k
      BY <2>0, <2>2, <3>1, <3>2, <3>3 DEF OneKeeper
    <3> QED  BY <3>1, <3>4, <3>5 DEF OneKeeper
  <2>11. CASE StopSet(c)
    <3>1. /\ pc[c] = "stop_set" /\ w = "join" /\ UNCHANGED <<handle, joined, keeper>>
      BY <2>2, <2>11 DEF StopSet, Goto, keepVars
    <3>2. handle = 0  BY <2>0, <3>1 DEF OneKeeper, Stopping
    <3> QED  BY <2>3, <3>1, <3>2
  <2>12. CASE Join(c)
    <3>1. /\ pc[c] = "join" /\ UNCHANGED <<handle, joined, keeper>>
          /\ joined[c] = 0 \/ (joined[c] \in Threads /\ keeper[joined[c]] = "dead")
      BY <2>12 DEF Join, stopVars, keepVars
    <3>2. w \in {"want_logout", "idle"}  BY <2>2, <2>12, JoinMoves
    <3>3. handle = 0  BY <2>0, <3>1 DEF OneKeeper, Stopping
    <3>4. \A d \in Clients : pc[d] \in {"stop_set", "join"} => d = c
      BY <2>0, <3>1 DEF OrderInv, Orderly, Stopping
    <3>5. \A k \in Threads : k # 0  BY ThreadsAssumption DEF Threads
    <3>6. \A k \in Threads : ~Running(k)
      BY <2>0, <3>1, <3>3, <3>4, <3>5 DEF OneKeeper, Running
    <3> QED  BY <2>3, <3>1, <3>2, <3>3, <3>6
  <2> QED
    BY <1>2, <2>4, <2>5, <2>6, <2>7, <2>8, <2>9, <2>10, <2>11, <2>12, OrderlyBack DEF Client, ClientStep
<1>3. ASSUME NEW k \in Threads, Keeper(k) PROVE OneKeeper'
  <2>1. OneKeeper
    BY <1>3, OthersStay DEF callVars, Orderly
  <2> QED  BY <1>1, <1>3, <2>1, KeeperSteps DEF stopVars
<1>4. CASE RecorderExpires \/ UNCHANGED vars
  <2>1. UNCHANGED <<handle, joined, pc, keeper, callVars>>
    BY <1>4 DEF RecorderExpires, vars, callVars, stopVars, keepVars
  <2>2. OneKeeper  BY <2>1 DEF callVars, Orderly
  <2> QED  BY <1>1, <2>1, <2>2 DEF Running
<1> QED  BY <1>2, <1>3, <1>4 DEF Next

(* Without a session no keepalive thread runs and no error is kept: the    *)
(* thread whose session is given up has ended before.                      *)
LEMMA NoSessionStep ==
  ASSUME IInv, [Next]_vars, Orderly'
  PROVE  NoSessionNothing'
<1> USE DEF IInv, TypeOK, ConnTypes, CallTypes, OrderlyInv
<1>1. ASSUME NEW c \in Clients, Client(c) PROVE NoSessionNothing'
  <2>0. Orderly /\ OneKeeper /\ NoSessionNothing  BY <1>1, OrderlyBack
  <2>1. PICK w \in Places : MovesTo(c, w)  BY <1>1, ClientMoves
  <2>2. pc' = [pc EXCEPT ![c] = w]  BY <2>1 DEF MovesTo
  <2>3. ASSUME UNCHANGED <<session, rejected, keeper>>, handle' \in {0, handle},
               w \in {"challenge", "password"} => ~rejected
        PROVE  NoSessionNothing'
    BY <2>0, <2>2, <2>3 DEF NoSessionNothing, Running
  <2>4. CASE \/ Enter(c) \/ Get(c) \/ CallRefused(c) \/ SessionFound(c) \/ ChallengeFails(c)
             \/ StartCheck(c) \/ Post(c) \/ EnterLogout(c) \/ LogoutNothing(c)
    <3>1. Quiet /\ pc'[c] \notin {"challenge", "password"}  BY <2>4, QuietSteps
    <3> QED  BY <2>2, <2>3, <3>1 DEF Quiet, stopVars, keepVars
  <2>5. CASE SessionMissing(c)
    <3>1. session = 0 /\ UNCHANGED <<session, rejected, handle, keeper>>
      BY <2>5 DEF SessionMissing, connVars, stopVars, keepVars
    <3> QED  BY <2>0, <2>3, <3>1 DEF NoSessionNothing
  <2>6. CASE StartClear(c) \/ StopRead(c) \/ StopForget(c) \/ StopSet(c) \/ Join(c)
    <3>1. UNCHANGED <<session, rejected, keeper>> /\ handle' \in {0, handle}
      BY <2>6 DEF StartClear, StopRead, StopForget, StopSet, Join, connVars, stopVars, keepVars
    <3>2. pc'[c] \notin {"challenge", "password"}
      BY <2>6, JoinMoves DEF StartClear, StopRead, StopForget, StopSet, Goto
    <3> QED  BY <2>2, <2>3, <3>1, <3>2
  <2>7. ASSUME pc[c] \in LoggingIn \cup {"logout"}
        PROVE  \A d \in Clients : pc'[d] \in LoggingIn => d = c
    BY <2>2, <2>7, AloneInside
  <2>8. CASE Challenge(c)
    <3>1. /\ pc[c] = "challenge" /\ session' = logins + 1 /\ rejected' = rejected
      BY <2>8 DEF Challenge
    <3>2. ~rejected /\ session' # 0  BY <2>0, <3>1 DEF NoSessionNothing
    <3> QED  BY <3>1, <3>2 DEF NoSessionNothing
  <2>9. CASE Password(c)
    <3>1. pc[c] = "password" /\ session' = session /\ rejected' = FALSE
      BY <2>9 DEF Password
    <3>2. session # 0  BY <3>1 DEF LeakInv, LoggingIn
    <3> QED  BY <3>1, <3>2 DEF NoSessionNothing
  <2>10. CASE PasswordFails(c)
    <3>1. /\ pc[c] = "password" /\ pc'[c] = "idle" /\ UNCHANGED <<rejected, handle, keeper>>
      BY <2>10 DEF PasswordFails, Leave, End, Goto, stopVars, keepVars
    <3>2. ~rejected  BY <2>0, <3>1 DEF NoSessionNothing
    <3>3. handle = 0 /\ \A k \in Threads : ~Running(k)
      BY <2>0, <3>1, NothingRuns DEF LoggingIn
    <3> QED  BY <3>1, <3>2, <3>3 DEF NoSessionNothing, Running
  <2>11. CASE Logout(c)
    <3>1. /\ pc[c] = "logout" /\ rejected' = FALSE /\ UNCHANGED <<handle, keeper>>
      BY <2>11 DEF Logout, stopVars, keepVars
    <3>2. handle = 0 /\ \A k \in Threads : ~Running(k)
      BY <2>0, <3>1, NothingRuns
    <3> QED  BY <3>1, <3>2 DEF NoSessionNothing, Running
  <2>12. CASE StartAssign(c) \/ StartRun(c)
    <3>1. /\ pc[c] \in LoggingIn \ {"challenge"} /\ pc'[c] \notin {"challenge", "password"}
          /\ UNCHANGED <<session, rejected>>
      BY <2>12 DEF StartAssign, StartRun, LoggedIn, Leave, End, Goto, connVars, LoggingIn
    <3>2. session # 0  BY <3>1 DEF LeakInv
    <3> QED  BY <2>0, <2>2, <3>1, <3>2 DEF NoSessionNothing
  <2> QED
    BY <1>1, <2>4, <2>5, <2>6, <2>8, <2>9, <2>10, <2>11, <2>12, OrderlyBack DEF Client, ClientStep
<1>2. ASSUME NEW k \in Threads, Keeper(k) PROVE NoSessionNothing'
  <2>1. Orderly /\ OneKeeper /\ NoSessionNothing
    BY <1>2, OthersStay DEF callVars, Orderly
  <2>2. /\ Running(k) /\ UNCHANGED <<session, handle, pc>>
        /\ \A j \in Threads : Running(j)' => Running(j)
    BY <1>2, KeeperSteps DEF stopVars
  <2>3. session # 0  BY <2>1, <2>2 DEF NoSessionNothing
  <2>4. \A c \in Clients : pc[c] \notin {"challenge", "password"}
    BY <2>1, <2>2, NothingRuns DEF LoggingIn
  <2> QED  BY <2>2, <2>3, <2>4 DEF NoSessionNothing
<1>3. CASE RecorderExpires \/ UNCHANGED vars
  <2>1. UNCHANGED <<session, rejected, handle, pc, keeper, callVars>>
    BY <1>3 DEF RecorderExpires, vars, connVars, callVars, stopVars, keepVars
  <2>2. NoSessionNothing  BY <2>1 DEF callVars, Orderly
  <2> QED  BY <2>1, <2>2 DEF NoSessionNothing, Running
<1> QED  BY <1>1, <1>2, <1>3 DEF Next

(* The thread of a session: it is told to stop only after its handle has   *)
(* been taken away, and every login that finds none starts one.            *)
LEMMA KeptAliveStep ==
  ASSUME IInv, [Next]_vars, Orderly', OrderInv'
  PROVE  KeptAlive'
<1> USE DEF IInv, TypeOK, ConnTypes, CallTypes, OrderlyInv
<1> DEFINE Busy(c) == GivingUp(c) \/ pc[c] = "logout" \/ pc[c] \in LoggingIn
<1>1. ASSUME NEW c \in Clients, Client(c) PROVE KeptAlive'
  <2>0. Orderly /\ OneKeeper /\ NoSessionNothing /\ KeptAlive  BY <1>1, OrderlyBack
  <2>1. PICK w \in Places : MovesTo(c, w) /\ Does(c, w)  BY <1>1, ClientMoves
  <2>2. pc' = [pc EXCEPT ![c] = w] /\ pc'[c] = w  BY <2>1 DEF MovesTo
  <2>3. \A d \in Clients \ {c} : pc'[d] = pc[d] /\ todo'[d] = todo[d]
    BY <2>1, <2>2 DEF Does
  <2>4. \A d \in Clients \ {c} : Busy(d) => Busy(d)'
    BY <2>3 DEF GivingUp, Doing
  <2>5. ASSUME UNCHANGED <<session, rejected, stop, handle, keeper>>, w # "start_assign",
               Busy(c) => Busy(c)' \/ session = 0 \/ handle # 0
        PROVE  KeptAlive'
    <3>1. handle' # 0 => ~stop' /\ (Running(handle)' \/ rejected')
      BY <2>0, <2>5 DEF KeptAlive, Running
    <3>2. \A d \in Clients : pc'[d] = "start_assign" => ~stop'
      BY <2>0, <2>2, <2>5 DEF KeptAlive
    <3>3. handle' = 0 /\ session' # 0 => \E d \in Clients : Busy(d)'
      BY <2>0, <2>4, <2>5 DEF KeptAlive
    <3> QED  BY <3>1, <3>2, <3>3 DEF KeptAlive
  <2>6. ASSUME handle' = 0, Busy(c)', \A d \in Clients : pc'[d] = "start_assign" => ~stop'
        PROVE  KeptAlive'
    BY <2>6 DEF KeptAlive
  <2>7. CASE \/ Enter(c) \/ Get(c) \/ CallRefused(c) \/ SessionFound(c) \/ ChallengeFails(c)
             \/ StartCheck(c) \/ Post(c) \/ EnterLogout(c) \/ LogoutNothing(c)
    <3>1. Quiet /\ w # "start_assign"  BY <2>2, <2>7, QuietSteps
    <3>2. Busy(c) => Busy(c)' \/ session = 0 \/ handle # 0
      <4>1. CASE pc[c] = "idle" /\ Head(todo[c]) \in {"call", "login", "get"}
        BY <4>1 DEF GivingUp, Doing, LoggingIn
      <4>2. CASE pc[c] \in {"check", "get", "post"}
        BY <4>2 DEF GivingUp, LoggingIn
      <4>3. CASE pc[c] = "challenge"
        BY <4>3 DEF LeakInv
      <4>4. CASE w \in {"start_clear", "logout"}
        BY <2>2, <4>4 DEF LoggingIn
      <4> QED  BY <2>2, <2>7, <4>1, <4>2, <4>3, <4>4, QuietSteps
    <3> QED  BY <2>5, <3>1, <3>2 DEF Quiet, stopVars, keepVars
  <2>8. CASE SessionMissing(c)
    <3>1. session = 0 /\ w = "challenge" /\ UNCHANGED <<session, rejected, stop, handle, keeper>>
      BY <2>2, <2>8 DEF SessionMissing, Goto, connVars, stopVars, keepVars
    <3> QED  BY <2>5, <3>1
  <2>9. CASE Challenge(c) \/ Password(c)
    <3>1. /\ pc[c] \in {"challenge", "password"} /\ pc'[c] \in {"password", "start_check"}
          /\ UNCHANGED <<handle, stop>>
      BY <2>9 DEF Challenge, Password, Goto, stopVars
    <3>2. handle = 0  BY <2>0, <3>1 DEF OneKeeper, LoggingIn
    <3>3. Busy(c)'  BY <3>1 DEF LoggingIn
    <3>4. \A d \in Clients : pc'[d] = "start_assign" => ~stop'
      BY <2>0, <2>3, <3>1 DEF KeptAlive
    <3> QED  BY <2>6, <3>1, <3>2, <3>3, <3>4
  <2>10. CASE PasswordFails(c) \/ Logout(c)
    <3>1. pc[c] \in {"password", "logout"} /\ session' = 0 /\ UNCHANGED <<handle, stop>> /\ pc'[c] = "idle"
      BY <2>10 DEF PasswordFails, Logout, Leave, End, Goto, stopVars
    <3>2. handle = 0  BY <2>0, <3>1 DEF OneKeeper, LoggingIn, Stopping
    <3>3. \A d \in Clients : pc'[d] = "start_assign" => ~stop'
      BY <2>0, <2>3, <3>1 DEF KeptAlive
    <3> QED  BY <3>1, <3>2, <3>3 DEF KeptAlive
  <2>11. CASE StartClear(c)
    <3>1. pc[c] = "start_clear" /\ pc'[c] = "start_assign" /\ stop' = FALSE /\ handle' = handle
      BY <2>11 DEF StartClear, Goto
    <3>2. handle = 0  BY <2>0, <3>1 DEF OneKeeper, LoggingIn
    <3> QED  BY <2>6, <3>1, <3>2 DEF LoggingIn
  <2>12. CASE StartAssign(c)
    <3>1. /\ pc[c] = "start_assign" /\ pc'[c] = "start_run" /\ stop' = stop
          /\ created + 1 \in Threads /\ handle' = created + 1
          /\ keeper' = [keeper EXCEPT ![created + 1] = "created"]
      BY <2>12, ThreadsAssumption DEF StartAssign, Goto, Threads
    <3>2. ~stop  BY <2>0, <3>1 DEF KeptAlive
    <3>3. handle' # 0 /\ keeper'[handle'] = "created"  BY <3>1
    <3> QED  BY <3>1, <3>2, <3>3 DEF KeptAlive, Running
  <2>13. CASE StartRun(c)
    <3>1. /\ pc[c] = "start_run" /\ pc'[c] \in {"post", "idle"} /\ UNCHANGED <<handle, stop>>
          /\ handle # 0 /\ keeper' = [keeper EXCEPT ![handle] = "waiting"]
      BY <1>1, <2>13, OrderlyBack DEF StartRun, LoggedIn, Leave, End, Goto, stopVars
    <3>2. ~stop  BY <2>0, <3>1 DEF KeptAlive
    <3>3. handle \in Threads /\ keeper'[handle'] = "waiting"  BY <3>1 DEF Threads
    <3> QED  BY <3>1, <3>2, <3>3 DEF KeptAlive, Running
  <2>14. CASE StopRead(c)
    <3>1. w = "stop_forget" /\ UNCHANGED <<session, rejected, stop, handle, keeper>>
      BY <2>2, <2>14 DEF StopRead, Goto, connVars, stopVars, keepVars
    <3>2. Busy(c)'  BY <2>2, <3>1 DEF GivingUp
    <3> QED  BY <2>5, <3>1, <3>2
  <2>15. CASE StopForget(c) \/ StopSet(c)
    <3>1. /\ pc[c] \in {"stop_forget", "stop_set"} /\ pc'[c] \in {"stop_set", "join"}
          /\ handle' = 0 \/ (handle' = handle /\ pc[c] = "stop_set")
      BY <2>15 DEF StopForget, StopSet, Goto
    <3>2. handle' = 0  BY <2>0, <3>1 DEF OneKeeper, Stopping
    <3>3. Busy(c)'  BY <3>1 DEF GivingUp
    <3>4. \A d \in Clients : pc'[d] # "start_assign"
      <4>1. pc'[c] \in Stopping /\ pc'[c] # "start_assign" /\ ~crossed'  BY <3>1 DEF Stopping, Orderly
      <4> QED  BY <4>1 DEF OrderInv, LoggingIn
    <3> QED  BY <2>6, <3>2, <3>3, <3>4
  <2>16. CASE Join(c)
    <3>1. pc[c] = "join" /\ UNCHANGED <<session, rejected, stop, handle, keeper>>
      BY <2>16 DEF Join, connVars, stopVars, keepVars
    <3>2. todo[c] \in Seq(Ops) /\ todo[c] # <<>> /\ StopsToEnd(todo[c])
      BY <3>1 DEF TodoInv
    <3>3. Busy(c)'
      <4>1. CASE pc'[c] = "want_logout"  BY <4>1 DEF GivingUp
      <4>2. CASE pc'[c] = "idle" /\ todo' = [todo EXCEPT ![c] = Tail(todo[c])] /\ Head(todo[c]) = "stop"
        <5>1. Tail(todo[c]) # <<>> /\ Head(Tail(todo[c])) \in {"logout", "close"}
          BY <3>2, <4>2, PlansGoOn
        <5>2. todo'[c] = Tail(todo[c])  BY <4>2
        <5> QED  BY <4>2, <5>1, <5>2 DEF GivingUp, Doing
      <4>3. CASE pc'[c] = "idle" /\ todo' = [todo EXCEPT ![c] = <<"logout">> \o Tail(todo[c])]
        <5>1. <<"logout">> \o Tail(todo[c]) # <<>> /\ Head(<<"logout">> \o Tail(todo[c])) = "logout"
          BY <3>2, PlansGoOn
        <5>2. todo'[c] = <<"logout">> \o Tail(todo[c])  BY <4>3
        <5> QED  BY <4>3, <5>1, <5>2 DEF GivingUp, Doing
      <4> QED  BY <2>16, <4>1, <4>2, <4>3, JoinMoves
    <3>4. w # "start_assign"  BY <2>2, <2>16, JoinMoves
    <3> QED  BY <2>5, <3>1, <3>3, <3>4
  <2> QED
    BY <1>1, <2>7, <2>8, <2>9, <2>10, <2>11, <2>12, <2>13, <2>14, <2>15, <2>16, OrderlyBack
    DEF Client, ClientStep
<1>2. ASSUME NEW k \in Threads, Keeper(k) PROVE KeptAlive'
  <2>1. Orderly /\ OneKeeper /\ NoSessionNothing /\ KeptAlive
    BY <1>2, OthersStay DEF callVars, Orderly
  <2>2. /\ Running(k) /\ UNCHANGED <<session, handle, stop, pc, todo>>
        /\ \A j \in Threads \ {k} : Running(j) => Running(j)'
        /\ \/ Running(k)' /\ rejected' = rejected
           \/ stop /\ rejected' = rejected
           \/ session = 0 /\ rejected' = rejected
           \/ rejected' = TRUE
    BY <1>2, KeeperSteps DEF stopVars
  <2>3. session # 0  BY <2>1, <2>2 DEF NoSessionNothing
  <2>4. handle # 0 => ~stop /\ handle \in Threads /\ (Running(handle) \/ rejected)
    BY <2>1 DEF KeptAlive, Threads
  <2>5. handle # 0 => Running(handle)' \/ rejected'
    BY <2>2, <2>3, <2>4
  <2>6. \A c \in Clients : Busy(c) => Busy(c)'
    BY <2>2 DEF GivingUp, Doing
  <2> QED  BY <2>1, <2>2, <2>4, <2>5, <2>6 DEF KeptAlive, Running
<1>3. CASE RecorderExpires \/ UNCHANGED vars
  <2>1. UNCHANGED <<session, rejected, handle, stop, pc, todo, keeper, callVars>>
    BY <1>3 DEF RecorderExpires, vars, connVars, callVars, stopVars, keepVars
  <2>2. KeptAlive  BY <2>1 DEF callVars, Orderly
  <2> QED  BY <2>1, <2>2 DEF KeptAlive, Running, GivingUp, Doing
<1> QED  BY <1>1, <1>2, <1>3 DEF Next

-----------------------------------------------------------------------------
(* The invariant holds at the beginning ...                                *)
LEMMA InitInv ==
  ASSUME Init PROVE IInv
<1> USE DEF Init
<1>1. TypeOK
  BY ProgramsAssumption, ThreadsAssumption DEF TypeOK, ConnTypes, CallTypes, KeeperStates, Threads
<1>2. LockInv
  BY ClientsAssumption DEF LockInv, Inside, LoggingIn, Nobody, Threads
<1>3. BirthInv  BY DEF BirthInv
<1>4. TodoInv  BY StopAssumption DEF TodoInv, Leading
<1>5. LeakInv  BY DEF LeakInv, NoSessionLeak, LoggingIn
<1>6. OrderInv  BY DEF OrderInv, Stopping
<1>7. OneKeeper /\ NoSessionNothing /\ KeptAlive
  BY DEF OneKeeper, NoSessionNothing, KeptAlive, Stopping, LoggingIn, Running
<1> QED  BY <1>1, <1>2, <1>3, <1>4, <1>5, <1>6, <1>7 DEF IInv, OrderlyInv

(* ... and every step keeps it.                                            *)
LEMMA StepInv ==
  ASSUME IInv, [Next]_vars PROVE IInv'
<1>1. TypeOK'  BY ConnStep, TodoStep DEF IInv, TypeOK
<1>2. LockInv' /\ BirthInv'  BY LockStep, BirthStep DEF IInv
<1>3. TodoInv' /\ LeakInv' /\ OrderInv'  BY TodoStep, LeakStep, OrderStep DEF IInv
<1>4. OrderlyInv'
  BY <1>3, OneKeeperStep, NoSessionStep, KeptAliveStep DEF OrderlyInv
<1> QED  BY <1>1, <1>2, <1>3, <1>4 DEF IInv

(* The invariant, for every behaviour.                                     *)
LEMMA Invariance == Spec => []IInv
BY InitInv, StepInv, PTL DEF Spec

(* No login replaces a session without giving it back: what the recorder   *)
(* holds is the session of the connection, or that of an exchange whose    *)
(* outcome was lost.                                                       *)
THEOREM NoSessionIsLost == Spec => []NoSessionLeak
<1>1. IInv => NoSessionLeak  BY DEF IInv, LeakInv
<1> QED  BY <1>1, Invariance, PTL

(* Without a session the next call logs in, rather than be refused for the *)
(* error of a session that is gone.                                        *)
THEOREM ErrorsGoWithTheirSession == Spec => []NoErrorWithoutSession
<1>1. IInv => NoErrorWithoutSession
  BY DEF IInv, OrderlyInv, NoSessionNothing, NoErrorWithoutSession
<1> QED  BY <1>1, Invariance, PTL

(* At most one keepalive thread runs, and a session in use has one.        *)
THEOREM SessionsAreMaintained == Spec => []SessionIsMaintained
<1>1. ASSUME IInv, Orderly PROVE \A j, k \in Threads : Running(j) /\ Running(k) => j = k
  <2>1. OneKeeper /\ OrderInv /\ ~crossed  BY <1>1 DEF IInv, OrderlyInv, Orderly
  <2>2. \A c, d \in Clients : pc[c] \in {"stop_set", "join"} /\ pc[d] \in {"stop_set", "join"} => c = d
    BY <2>1 DEF OrderInv, Stopping
  <2>3. \A c \in Clients : pc[c] \in {"stop_set", "join"} => handle = 0
    BY <2>1 DEF OneKeeper, Stopping
  <2>4. \A k \in Threads : k # 0  BY ThreadsAssumption DEF Threads
  <2> QED  BY <2>1, <2>2, <2>3, <2>4 DEF OneKeeper
<1>2. ASSUME IInv, Orderly, lock = Nobody, session # 0, ~rejected, \A c \in Clients : ~GivingUp(c)
      PROVE  handle # 0 /\ Running(handle)
  <2>1. KeptAlive /\ LockInv  BY <1>2 DEF IInv, OrderlyInv
  <2>2. \A c \in Clients : pc[c] \notin LoggingIn \cup {"logout"}
    BY <1>2, <2>1, ClientsAssumption DEF LockInv, Inside, Nobody
  <2>3. handle # 0  BY <1>2, <2>1, <2>2 DEF KeptAlive
  <2> QED  BY <1>2, <2>1, <2>3 DEF KeptAlive
<1>3. IInv => SessionIsMaintained  BY <1>1, <1>2 DEF SessionIsMaintained
<1> QED  BY <1>3, Invariance, PTL


-----------------------------------------------------------------------------
(* The variables hold what they are meant to hold.                         *)
THEOREM TypeCorrect == Spec => []TypeOK
<1>1. IInv => TypeOK  BY DEF IInv
<1> QED  BY <1>1, Invariance, PTL

(* The session changes hands under the lock only, and is given up before   *)
(* it is replaced, by one the recorder does not hold already: no two       *)
(* clients log in at a time, and no client, and no keepalive, has its      *)
(* session exchanged while it uses it.                                     *)
SessionsComeOneByOne ==
  [][session' # session =>
       /\ lock \in Clients
       /\ session' = 0 \/ (session = 0 /\ session' \notin live)]_vars

THEOREM SessionsAreReplacedOrderly == Spec => SessionsComeOneByOne
<1> DEFINE P == session' # session =>
                  lock \in Clients /\ (session' = 0 \/ (session = 0 /\ session' \notin live))
<1>1. IInv /\ [Next]_vars => [P]_vars
  <2> SUFFICES ASSUME IInv, Next, session' # session PROVE P
    OBVIOUS
  <2>1. PICK c \in Clients : Challenge(c) \/ PasswordFails(c) \/ Logout(c)
    BY DEF Next, Client, ClientStep, Enter, Get, CallRefused, SessionFound, SessionMissing,
       ChallengeFails, Password, StartCheck, StartClear, StartAssign, StartRun, Post,
       StopRead, StopForget, StopSet, Join, JoinExpires, JoinUnstarted, EnterLogout, LogoutNothing,
       Keeper, KeepaliveTick, KeepaliveLock, KeepalivePost, KeepaliveRejected, RecorderExpires, connVars
  <2>2. lock = c
    BY <2>1 DEF Challenge, PasswordFails, Logout, IInv, LockInv, Inside, LoggingIn
  <2>3. session' = 0 \/ (session = 0 /\ session' = logins + 1)
    BY <2>1 DEF Challenge, PasswordFails, Logout, IInv, LeakInv
  <2>4. logins + 1 \notin live
    BY DEF IInv, TypeOK, ConnTypes
  <2> QED  BY <2>2, <2>3, <2>4
<1> QED  BY <1>1, Invariance, PTL DEF Spec, SessionsComeOneByOne

-----------------------------------------------------------------------------
(* Nobody waits for one who waits.  Whoever holds the lock is in the       *)
(* middle of an exchange or of what follows it: it neither joins a thread  *)
(* nor wants the lock again.  And a client that joins the keepalive thread *)
(* has told it to stop, unless a login overlapped and took that back.      *)
(* (Of ClientsEnd, what is not fairness.)                                  *)
NobodyWaitsForAWaiter ==
  /\ lock # Nobody => \/ lock \in Clients /\ pc[lock] \in Inside
                      \/ lock \in Threads /\ keeper[lock] = "locked"
  /\ ~crossed => \A c \in Clients : pc[c] = "join" => stop

THEOREM NoCircularWait == Spec => []NobodyWaitsForAWaiter
<1> DEFINE Held == lock \in Clients \cup Threads \cup {Nobody}
           Told == ~crossed => \A c \in Clients : pc[c] = "join" => stop
<1>1. Init => Held /\ Told
  BY DEF Init
<1>2. IInv /\ Held /\ [Next]_vars => Held'
  <2> SUFFICES ASSUME IInv, Held, [Next]_vars PROVE Held'
    OBVIOUS
  <2>1. ASSUME NEW c \in Clients, Client(c) PROVE Held'
    <3>1. \E w \in Places : Locks(c, w)
      BY <2>1, ClientMoves DEF IInv
    <3> QED  BY <3>1 DEF Locks
  <2>2. ASSUME NEW k \in Threads, Keeper(k) PROVE Held'
    BY <2>2 DEF Keeper, KeepaliveTick, KeepaliveLock, KeepalivePost, KeepaliveRejected
  <2>3. CASE RecorderExpires \/ UNCHANGED vars
    BY <2>3 DEF RecorderExpires, vars
  <2> QED  BY <2>1, <2>2, <2>3 DEF Next
<1>3. IInv /\ Told /\ [Next]_vars => Told'
  <2> SUFFICES ASSUME IInv, Told, [Next]_vars PROVE Told'
    OBVIOUS
  <2>1. ASSUME NEW c \in Clients, Client(c) PROVE Told'
    <3>1. PICK w \in Places : MovesTo(c, w)
      BY <2>1, ClientMoves DEF IInv
    <3>2. pc \in [Clients -> Places] /\ pc' = [pc EXCEPT ![c] = w] /\ (~crossed' => ~crossed)
      BY <3>1 DEF MovesTo, IInv, TypeOK, CallTypes, Places
    <3>3. CASE StopSet(c)
      BY <3>3 DEF StopSet
    <3>4. CASE StartClear(c)
      <4>1. pc[c] = "start_clear" /\ pc'[c] = "start_assign"
        BY <3>2, <3>4 DEF StartClear, Goto
      <4>2. \A d \in Clients : ~crossed /\ pc[d] \in Stopping => d = c
        BY <4>1 DEF IInv, OrderInv, LoggingIn
      <4>3. ~crossed' => \A d \in Clients : pc'[d] # "join"
        BY <3>2, <4>1, <4>2 DEF Stopping
      <4> QED  BY <4>3
    <3>5. CASE ~StopSet(c) /\ ~StartClear(c)
      <4>1. stop' = stop /\ pc'[c] # "join"
        BY <2>1, <3>2, <3>5, JoinMoves
           DEF Client, ClientStep, Enter, Get, CallRefused, SessionFound, SessionMissing, Challenge,
             ChallengeFails, Password, PasswordFails, StartCheck, StartAssign, StartRun, Post,
             StopRead, StopForget, Join, JoinExpires, JoinUnstarted, EnterLogout, LogoutNothing, Logout,
             Goto, Leave, End, LoggedIn, stopVars, IInv
      <4> QED  BY <3>2, <4>1
    <3> QED  BY <3>3, <3>4, <3>5
  <2>2. ASSUME (\E k \in Threads : Keeper(k)) \/ RecorderExpires \/ UNCHANGED vars PROVE Told'
    <3>1. pc' = pc /\ crossed' = crossed
      BY <2>2, OthersStay DEF callVars
    <3>2. stop' = stop
      BY <2>2 DEF Keeper, KeepaliveTick, KeepaliveLock, KeepalivePost, KeepaliveRejected, RecorderExpires,
         vars, stopVars
    <3> QED  BY <3>1, <3>2
  <2> QED  BY <2>1, <2>2 DEF Next
<1>4. IInv /\ Held /\ Told => NobodyWaitsForAWaiter
  BY DEF IInv, LockInv, NobodyWaitsForAWaiter
<1> HIDE DEF Held, Told
<1> QED  BY <1>1, <1>2, <1>3, <1>4, Invariance, PTL DEF Spec
=============================================================================
