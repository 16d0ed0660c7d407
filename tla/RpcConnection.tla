---------------------------- MODULE RpcConnection ----------------------------
(***************************************************************************)
(* The RPC2 session of a client: class _RpcConnection of                   *)
(* src/src/dahua_rpc/_rpc_connection.py.  Caller threads share one lock,   *)
(* one session and one keepalive thread; a session is opened lazily by the *)
(* first call, kept alive by the thread, and given back by logout.         *)
(*                                                                         *)
(* The lock is held through whole HTTP exchanges.  What is read or written *)
(* without it (_keepalive_thread, _keepalive_stop, in stop_keepalive and   *)
(* _start_keepalive) is one step for each access.                          *)
(***************************************************************************)
EXTENDS Naturals, Sequences, FiniteSets

CONSTANTS
  Clients,          \* threads that use the connection
  Programs,         \* the assignments of operations to the clients
  MaxThreads        \* bound: keepalive threads created in a behaviour

Ops == {"call", "login", "get", "logout", "stop", "close"}

ASSUME ProgramsAssumption == Programs \subseteq [Clients -> Seq(Ops)]
ASSUME ThreadsAssumption == MaxThreads \in Nat

ASSUME ClientsAssumption == Clients \cap Nat = {}

(* Only DahuaClient.close() calls stop_keepalive by itself, and it goes on *)
(* to close the connection.                                                *)
StopsToEnd(ops) ==
  \A i \in 1..Len(ops) :
    ops[i] = "stop" => i < Len(ops) /\ ops[i + 1] \in {"logout", "close"}

ASSUME StopAssumption == \A p \in Programs : \A c \in Clients : StopsToEnd(p[c])

Threads == 1..MaxThreads
Nobody == 0

VARIABLES
  (* the connection *)
  lock,             \* who holds _lock
  session,          \* _session: the number of the login that made it, or 0
  rejected,         \* _session_error is not None
  handle,           \* _keepalive_thread, or 0
  stop,             \* _keepalive_stop
  logins,           \* challenges answered so far
  (* the keepalive threads *)
  created, keeper,
  (* the callers *)
  todo, pc, joined,
  mishaps,          \* ghost: an operation broke off with an error of a thread
                    \* handle, or a join ended with its thread alive
  crossed,          \* ghost: a login or a logout overlapped a logout
  (* the recorder *)
  live,             \* sessions it considers logged in
  lost              \* ghost: sessions of exchanges whose outcome was lost

connVars == <<session, rejected, logins>>
stopVars == <<handle, stop>>
keepVars == <<created, keeper>>
callVars == <<todo, pc, joined, mishaps, crossed>>
wireVars == <<live, lost>>
vars == <<lock, connVars, stopVars, keepVars, callVars, wireVars>>

Init ==
  /\ lock = Nobody
  /\ session = 0 /\ rejected = FALSE /\ logins = 0
  /\ handle = 0 /\ stop = FALSE
  /\ created = 0 /\ keeper = [k \in Threads |-> "unborn"]
  /\ todo \in Programs
  /\ pc = [c \in Clients |-> "idle"]
  /\ joined = [c \in Clients |-> 0]
  /\ mishaps = {} /\ crossed = FALSE
  /\ live = {} /\ lost = {}

-----------------------------------------------------------------------------
Stopping == {"stop_forget", "stop_set", "join", "want_logout", "logout"}
LoggingIn == {"challenge", "password", "start_check", "start_clear", "start_assign", "start_run"}

Crossing(c, where) ==
  \E d \in Clients \ {c} :
    \/ where \in Stopping /\ pc[d] \in LoggingIn \cup Stopping
    \/ where \in LoggingIn /\ pc[d] \in Stopping

Goto(c, where) ==
  /\ pc' = [pc EXCEPT ![c] = where]
  /\ crossed' = (crossed \/ Crossing(c, where))

(* The operation of c returns or raises, outside the lock or leaving it.   *)
End(c) == Goto(c, "idle") /\ todo' = [todo EXCEPT ![c] = Tail(todo[c])]
Leave(c) == End(c) /\ lock' = Nobody

Doing(c, ops) == todo[c] # <<>> /\ Head(todo[c]) \in ops

Acquire(c) == lock = Nobody /\ lock' = c

-----------------------------------------------------------------------------
(* call, login, get *)

Enter(c) ==
  /\ pc[c] = "idle" /\ Doing(c, {"call", "login", "get"})
  /\ Acquire(c)
  /\ Goto(c, IF Head(todo[c]) = "get" THEN "get" ELSE "check")
  /\ UNCHANGED <<connVars, stopVars, keepVars, todo, joined, mishaps, wireVars>>

(* get needs no session: HTTP Digest, under the same lock. *)
Get(c) ==
  /\ pc[c] = "get"
  /\ Leave(c)
  /\ UNCHANGED <<connVars, stopVars, keepVars, joined, mishaps, wireVars>>

CallRefused(c) ==
  /\ pc[c] = "check" /\ Doing(c, {"call"})
  /\ rejected
  /\ Leave(c)
  /\ UNCHANGED <<connVars, stopVars, keepVars, joined, mishaps, wireVars>>

(* A connection that has its session: login returns, call goes on. *)
SessionFound(c) ==
  /\ pc[c] = "check" /\ session # 0
  /\ \/ Doing(c, {"call"}) /\ ~rejected /\ Goto(c, "post") /\ UNCHANGED <<lock, todo>>
     \/ Doing(c, {"login"}) /\ Leave(c)
  /\ UNCHANGED <<connVars, stopVars, keepVars, joined, mishaps, wireVars>>

(* mutation: login does not look whether there is a session *)
SessionMissingUnchecked(c) ==
  /\ pc[c] = "check" /\ (session = 0 \/ Doing(c, {"login"}))
  /\ Goto(c, "challenge")
  /\ UNCHANGED <<lock, connVars, stopVars, keepVars, todo, joined, mishaps, wireVars>>

(* login does not look at _session_error. *)
SessionMissing(c) ==
  /\ pc[c] = "check" /\ session = 0
  /\ Doing(c, {"login"}) \/ ~rejected
  /\ Goto(c, "challenge")
  /\ UNCHANGED <<lock, connVars, stopVars, keepVars, todo, joined, mishaps, wireVars>>

(* First stage: the recorder names a session. *)
Challenge(c) ==
  /\ pc[c] = "challenge"
  /\ logins' = logins + 1 /\ session' = logins + 1
  /\ Goto(c, "password")
  /\ UNCHANGED <<lock, rejected, stopVars, keepVars, todo, joined, mishaps, wireVars>>

ChallengeFails(c) ==
  /\ pc[c] = "challenge"
  /\ Leave(c)
  /\ UNCHANGED <<connVars, stopVars, keepVars, joined, mishaps, wireVars>>

(* Second stage: the recorder logs the session in. *)
Password(c) ==
  /\ pc[c] = "password"
  /\ live' = live \cup {session}
  /\ rejected' = FALSE
  /\ Goto(c, "start_check")
  /\ UNCHANGED <<lock, session, logins, stopVars, keepVars, todo, joined, mishaps, lost>>

(* Refused, or an exchange that failed before or after the recorder acted. *)
PasswordFails(c) ==
  /\ pc[c] = "password"
  /\ \/ UNCHANGED wireVars
     \/ /\ live' = live \cup {session} /\ lost' = lost \cup {session}
  /\ session' = 0
  /\ Leave(c)
  /\ UNCHANGED <<rejected, logins, stopVars, keepVars, joined, mishaps>>

(* What follows the login: call posts its request, login returns. *)
LoggedIn(c) ==
  IF Head(todo[c]) = "call" THEN Goto(c, "post") /\ UNCHANGED <<lock, todo>>
                            ELSE Leave(c)

(* _start_keepalive *)
StartCheck(c) ==
  /\ pc[c] = "start_check"
  /\ IF handle # 0 THEN LoggedIn(c)
                   ELSE Goto(c, "start_clear") /\ UNCHANGED <<lock, todo>>
  /\ UNCHANGED <<connVars, stopVars, keepVars, joined, mishaps, wireVars>>

StartClear(c) ==
  /\ pc[c] = "start_clear"
  /\ stop' = FALSE
  /\ Goto(c, "start_assign")
  /\ UNCHANGED <<lock, connVars, handle, keepVars, todo, joined, mishaps, wireVars>>

StartAssign(c) ==
  /\ pc[c] = "start_assign"
  /\ created < MaxThreads
  /\ created' = created + 1
  /\ handle' = created + 1
  /\ keeper' = [keeper EXCEPT ![created + 1] = "created"]
  /\ Goto(c, "start_run")
  /\ UNCHANGED <<lock, connVars, stop, todo, joined, mishaps, wireVars>>

(* self._keepalive_thread.start() reads the attribute again: stop_keepalive *)
(* may have made it None, and the call ends with an AttributeError.         *)
StartRun(c) ==
  /\ pc[c] = "start_run"
  /\ IF handle # 0
       THEN /\ keeper' = [keeper EXCEPT ![handle] = "waiting"]
            /\ LoggedIn(c)
            /\ UNCHANGED mishaps
       ELSE /\ mishaps' = mishaps \cup {"handle"}
            /\ Leave(c)
            /\ UNCHANGED keeper
  /\ UNCHANGED <<connVars, stopVars, created, joined, wireVars>>

(* The request of a call: any answer, or none, returns or raises. *)
Post(c) ==
  /\ pc[c] = "post"
  /\ Leave(c)
  /\ UNCHANGED <<connVars, stopVars, keepVars, joined, mishaps, wireVars>>

-----------------------------------------------------------------------------
(* stop_keepalive, without the lock *)

(* mutation: logout stops the keepalive thread with the lock in its hands *)
StopReadLocked(c) ==
  /\ pc[c] = "idle" /\ Doing(c, {"stop", "logout", "close"})
  /\ IF Head(todo[c]) = "logout" THEN Acquire(c) ELSE UNCHANGED lock
  /\ joined' = [joined EXCEPT ![c] = handle]
  /\ Goto(c, "stop_forget")
  /\ UNCHANGED <<connVars, stopVars, keepVars, todo, mishaps, wireVars>>

StopRead(c) ==
  /\ pc[c] = "idle" /\ Doing(c, {"stop", "logout", "close"})
  /\ joined' = [joined EXCEPT ![c] = handle]
  /\ Goto(c, "stop_forget")
  /\ UNCHANGED <<lock, connVars, stopVars, keepVars, todo, mishaps, wireVars>>

(* mutation: the handle of the stopped thread is kept *)
StopKeepsHandle(c) ==
  /\ pc[c] = "stop_forget"
  /\ Goto(c, "stop_set")
  /\ UNCHANGED <<lock, connVars, stopVars, keepVars, todo, joined, mishaps, wireVars>>

StopForget(c) ==
  /\ pc[c] = "stop_forget"
  /\ handle' = 0
  /\ Goto(c, "stop_set")
  /\ UNCHANGED <<lock, connVars, stop, keepVars, todo, joined, mishaps, wireVars>>

StopSet(c) ==
  /\ pc[c] = "stop_set"
  /\ stop' = TRUE
  /\ Goto(c, "join")
  /\ UNCHANGED <<lock, connVars, handle, keepVars, todo, joined, mishaps, wireVars>>

(* What follows the join: stop_keepalive returns, logout goes on, and      *)
(* close calls logout, which stops the keepalive thread once more.  (The   *)
(* _http.close() that ends close touches nothing that is modelled.)        *)
Stopped(c) ==
  CASE Head(todo[c]) = "stop"   -> End(c)
    [] Head(todo[c]) = "logout" -> Goto(c, "want_logout") /\ UNCHANGED todo
    [] Head(todo[c]) = "close"  -> /\ Goto(c, "idle")
                                   /\ todo' = [todo EXCEPT ![c] = <<"logout">> \o Tail(todo[c])]

Join(c) ==
  /\ pc[c] = "join"
  /\ joined[c] \in {0} \cup {k \in Threads : keeper[k] = "dead"}
  /\ Stopped(c)
  /\ UNCHANGED <<lock, connVars, stopVars, keepVars, joined, mishaps, wireVars>>

JoinExpires(c) ==
  /\ pc[c] = "join"
  /\ joined[c] \in {k \in Threads : keeper[k] \notin {"created", "dead"}}
  /\ mishaps' = mishaps \cup {"join"}
  /\ Stopped(c)
  /\ UNCHANGED <<lock, connVars, stopVars, keepVars, joined, wireVars>>

(* join() of a thread assigned and not yet started raises RuntimeError.    *)
JoinUnstarted(c) ==
  /\ pc[c] = "join"
  /\ joined[c] \in {k \in Threads : keeper[k] = "created"}
  /\ mishaps' = mishaps \cup {"handle"}
  /\ End(c)
  /\ UNCHANGED <<lock, connVars, stopVars, keepVars, joined, wireVars>>

(* logout, with the lock *)
EnterLogout(c) ==
  /\ pc[c] = "want_logout"
  /\ Acquire(c)
  /\ Goto(c, "logout")
  /\ UNCHANGED <<connVars, stopVars, keepVars, todo, joined, mishaps, wireVars>>

LogoutNothing(c) ==
  /\ pc[c] = "logout" /\ session = 0
  /\ Leave(c)
  /\ UNCHANGED <<connVars, stopVars, keepVars, joined, mishaps, wireVars>>

(* mutation: the error of the session is not forgotten with it *)
LogoutKeepsError(c) ==
  /\ pc[c] = "logout" /\ session # 0
  /\ \/ live' = live \ {session} /\ UNCHANGED lost
     \/ UNCHANGED live /\ lost' = lost \cup {session}
  /\ session' = 0
  /\ Leave(c)
  /\ UNCHANGED <<rejected, logins, stopVars, keepVars, joined, mishaps>>

(* The session is forgotten, whether the recorder gave it up or not. *)
Logout(c) ==
  /\ pc[c] = "logout" /\ session # 0
  /\ \/ live' = live \ {session} /\ UNCHANGED lost
     \/ UNCHANGED live /\ lost' = lost \cup {session}
  /\ session' = 0 /\ rejected' = FALSE
  /\ Leave(c)
  /\ UNCHANGED <<logins, stopVars, keepVars, joined, mishaps>>

-----------------------------------------------------------------------------
(* _keepalive_loop *)

Become(k, state) == keeper' = [keeper EXCEPT ![k] = state]

(* _keepalive_stop.wait(interval) *)
KeepaliveTick(k) ==
  /\ keeper[k] = "waiting"
  /\ Become(k, IF stop THEN "dead" ELSE "want")
  /\ UNCHANGED <<lock, connVars, stopVars, created, callVars, wireVars>>

KeepaliveLock(k) ==
  /\ keeper[k] = "want"
  /\ lock = Nobody /\ lock' = k
  /\ Become(k, "locked")
  /\ UNCHANGED <<connVars, stopVars, created, callVars, wireVars>>

(* No session: the thread ends.  Otherwise keepAlive is posted: accepted,  *)
(* or failed in a way that is tried again at the next interval (no         *)
(* connection, no answer), or rejected, which is what any other answer     *)
(* counts as (401, another HTTP status, not JSON, no result), whether the  *)
(* recorder still has the session or not.                                  *)
KeepalivePost(k) ==
  /\ keeper[k] = "locked"
  /\ lock' = Nobody
  /\ \/ session = 0 /\ Become(k, "dead")
     \/ session # 0 /\ \E next \in {"waiting", "rejecting"} : Become(k, next)
  /\ UNCHANGED <<connVars, stopVars, created, callVars, wireVars>>

(* The except clause takes the lock again to leave the error.              *)
KeepaliveRejected(k) ==
  /\ keeper[k] = "rejecting"
  /\ lock = Nobody
  /\ rejected' = TRUE
  /\ Become(k, "dead")
  /\ UNCHANGED <<lock, session, logins, stopVars, created, callVars, wireVars>>

(* The recorder ends a session by itself (restart, session timeout). *)
RecorderExpires ==
  /\ \E s \in live : live' = live \ {s}
  /\ UNCHANGED <<lock, connVars, stopVars, keepVars, callVars, lost>>

-----------------------------------------------------------------------------
ClientStep(c) ==
  \/ Enter(c) \/ Get(c) \/ CallRefused(c) \/ SessionFound(c) \/ SessionMissing(c)
  \/ Challenge(c) \/ ChallengeFails(c) \/ Password(c) \/ PasswordFails(c)
  \/ StartCheck(c) \/ StartClear(c) \/ StartAssign(c) \/ StartRun(c) \/ Post(c)
  \/ StopRead(c) \/ StopForget(c) \/ StopSet(c)
  \/ Join(c) \/ JoinUnstarted(c)
  \/ EnterLogout(c) \/ LogoutNothing(c) \/ Logout(c)

Client(c) == ClientStep(c) \/ JoinExpires(c)

Keeper(k) ==
  KeepaliveTick(k) \/ KeepaliveLock(k) \/ KeepalivePost(k) \/ KeepaliveRejected(k)

Next ==
  \/ \E c \in Clients : Client(c)
  \/ \E k \in Threads : Keeper(k)
  \/ RecorderExpires

Spec == Init /\ [][Next]_vars

-----------------------------------------------------------------------------
(* Safety *)

(* A session the recorder still holds is the one the connection will log   *)
(* out, or one of an exchange whose outcome never reached the connection:  *)
(* no login replaces a session without giving it back.                     *)
NoSessionLeak == live \subseteq {session} \cup lost

(* Orderly: no login or logout has overlapped a logout of another client,  *)
(* no operation has broken off with an error of a thread handle (StartRun, *)
(* JoinUnstarted) and no join has left its thread alive.                   *)
Orderly == ~crossed /\ mishaps = {}

(* No call is refused for the error of a session that is gone: without a   *)
(* session the next call logs in ("logging in on first use").              *)
NoErrorWithoutSession == Orderly => (session = 0 => ~rejected)

Running(k) == keeper[k] \notin {"unborn", "dead"}

(* A client that is giving the session up: it is in the middle of it, or   *)
(* it is the next thing it does (stop_keepalive returns before close() or  *)
(* logout is called, and close calls logout).                              *)
GivingUp(c) ==
  \/ pc[c] \in {"stop_forget", "stop_set", "join", "want_logout"}
  \/ pc[c] = "idle" /\ Doing(c, {"logout", "close"})

(* A session in use is maintained, by one thread: at most one keepalive    *)
(* thread runs, and while nobody gives the session up and its keepalive    *)
(* has not been rejected, the keepalive thread of the connection does      *)
(* ("The client maintains its authenticated RPC2 control session           *)
(* internally").                                                           *)
SessionIsMaintained ==
  Orderly =>
    /\ \A j, k \in Threads : Running(j) /\ Running(k) => j = k
    /\ lock = Nobody /\ session # 0 /\ ~rejected /\ (\A c \in Clients : ~GivingUp(c))
         => handle # 0 /\ Running(handle)

-----------------------------------------------------------------------------
(* Liveness *)

(* Threads keep running, exchanges end (the HTTP timeout) and the lock,    *)
(* which a keepalive thread leaves for a whole interval, is not withheld   *)
(* from one client for ever.  No join needs to expire.                     *)
FairSpec ==
  /\ Spec
  /\ \A c \in Clients :
       /\ SF_vars(Enter(c)) /\ SF_vars(EnterLogout(c))
       /\ WF_vars(ClientStep(c))
  /\ \A k \in Threads :
       /\ SF_vars(KeepaliveLock(k)) /\ SF_vars(KeepaliveRejected(k))
       /\ WF_vars(Keeper(k))

(* Every operation of every client ends, without the help of a join's      *)
(* timeout: nobody waits for the lock while its holder waits for the       *)
(* keepalive thread.  Only a logout that another client's login or logout  *)
(* overlapped may need it: the login clears the event it has set.          *)
ClientsEnd == <>crossed \/ \A c \in Clients : <>(todo[c] = <<>>)
=============================================================================
