------------------------------- MODULE Client -------------------------------
(***************************************************************************)
(* A client and what it opens: class DahuaClient of                        *)
(* src/src/dahua_rpc/client.py, the media searches of _media_search.py and *)
(* the lifetimes of playbacks and live streams.  One thread constructs and *)
(* closes the client; searches and streams may be used by others.          *)
(*                                                                         *)
(* Every call of the RPC connection is made under its lock and is one step *)
(* here (RpcConnection.tla opens it up), and so is starting or closing a   *)
(* stream (RtspConnection.tla).                                            *)
(***************************************************************************)
EXTENDS Naturals, Sequences, FiniteSets

CONSTANTS
  Searches,
  Playbacks, Lives,   \* the streams the application may create
  Items,              \* what the recorder has for a search: 1..Items, ...
  PageSize,           \* ... in pages of this many
  MaxLogins           \* bound: sessions opened in a behaviour

ASSUME ItemsAssumption == Items \in Nat /\ PageSize \in Nat \ {0}
ASSUME LoginsAssumption == MaxLogins \in Nat

Streams == Playbacks \cup Lives

VARIABLES
  phase,            \* of the constructor, then of close()
  checked,          \* verification calls answered
  (* _RpcConnection *)
  session,          \* the number of the login that made it, or 0
  rejected,         \* _session_error is not None
  keeper,           \* its keepalive thread
  logins,
  (* the searches *)
  at,               \* where the iterator is; "idle" outside
  object,           \* _object: the session it was created in, or 0
  closing,          \* object_id, while close() uses it
  buffer, finished, closed,
  (* the streams *)
  stream,           \* "none", "new", "active" or "closed"
  owned,            \* _playbacks and _live_streams
  sweep,            \* what the loop of close() has left
  (* the recorder *)
  live,             \* its RPC sessions
  objects,          \* its search objects, <<session, search>>
  cursor,           \* items it has handed out
  (* ghosts *)
  lost,             \* sessions of exchanges whose outcome was lost
  orphans,          \* objects of exchanges whose outcome was lost
  early,            \* the streams the client owned when close() began
  late,             \* a closed client has logged in again
  got, ended        \* what each search returned, and how it ended

connVars   == <<session, rejected, keeper, logins, live, lost, late>>
iterVars   == <<at, object, closing, buffer, finished, closed, got, ended>>
objVars    == <<objects, cursor, orphans>>
streamVars == <<stream, owned>>
closeVars  == <<phase, checked, sweep, early>>
vars == <<connVars, iterVars, objVars, streamVars, closeVars>>

Init ==
  /\ phase = "constructing" /\ checked = 0
  /\ session = 0 /\ rejected = FALSE /\ keeper = "none" /\ logins = 0
  /\ at = [s \in Searches |-> "idle"]
  /\ object = [s \in Searches |-> 0] /\ closing = [s \in Searches |-> 0]
  /\ buffer = [s \in Searches |-> <<>>] /\ got = [s \in Searches |-> <<>>]
  /\ finished = [s \in Searches |-> FALSE] /\ closed = [s \in Searches |-> FALSE]
  /\ ended = [s \in Searches |-> "no"]
  /\ stream = [p \in Streams |-> "none"] /\ owned = {} /\ sweep = {} /\ early = {}
  /\ live = {} /\ lost = {} /\ late = FALSE
  /\ objects = {} /\ orphans = {} /\ cursor = [s \in Searches |-> 0]

-----------------------------------------------------------------------------
(* _RpcConnection.call *)

(* It finds or opens a session, and its request goes out under session'.   *)
Posts ==
  /\ ~rejected
  /\ \/ session # 0 /\ UNCHANGED connVars
     \/ /\ session = 0 /\ logins < MaxLogins
        /\ logins' = logins + 1 /\ session' = logins + 1
        /\ live' = live \cup {logins + 1}
        /\ keeper' = IF keeper = "none" THEN "running" ELSE keeper
        /\ late' = (late \/ phase = "closed")
        /\ UNCHANGED <<rejected, lost>>

(* The request never goes out: the error of the session is raised, or the  *)
(* login fails, perhaps after the recorder accepted it.                    *)
PostsNothing ==
  \/ rejected /\ UNCHANGED connVars
  \/ ~rejected /\ session = 0 /\ UNCHANGED connVars
  \/ /\ ~rejected /\ session = 0 /\ logins < MaxLogins
     /\ logins' = logins + 1
     /\ live' = live \cup {logins + 1} /\ lost' = lost \cup {logins + 1}
     /\ UNCHANGED <<session, rejected, keeper, late>>

(* A call that leaves the search objects alone, whether it returns or      *)
(* raises.                                                                 *)
JustCalls == (Posts \/ PostsNothing) /\ UNCHANGED objVars

-----------------------------------------------------------------------------
(* Construction: four verification calls, and a look at what they returned *)

Verify ==
  /\ phase = "constructing" /\ checked < 4
  /\ Posts /\ session' \in live'
  /\ checked' = checked + 1
  /\ UNCHANGED <<phase, sweep, early, iterVars, objVars, streamVars>>

Verified ==
  /\ phase = "constructing" /\ checked = 4
  /\ phase' = "open"
  /\ UNCHANGED <<checked, sweep, early, connVars, iterVars, objVars, streamVars>>

(* A call raises, or an answer is not what it should be. *)
VerificationFails ==
  /\ phase = "constructing"
  /\ JustCalls
  /\ phase' = "failed"
  /\ UNCHANGED <<checked, sweep, early, iterVars, streamVars>>

Constructed == phase \notin {"constructing", "failed"}

-----------------------------------------------------------------------------
(* The searches *)

Goto(s, where) == at' = [at EXCEPT ![s] = where]

(* mutation: an error ends the iteration without cleaning up *)
CloseOnlyAsked(s, why) ==
  /\ closed' = [closed EXCEPT ![s] = TRUE]
  /\ buffer' = [buffer EXCEPT ![s] = <<>>]
  /\ closing' = [closing EXCEPT ![s] = IF why = "raised" THEN 0 ELSE object[s]]
  /\ object' = [object EXCEPT ![s] = 0]
  /\ ended' = [ended EXCEPT ![s] = why]
  /\ Goto(s, IF object[s] # 0 /\ why # "raised" THEN "close" ELSE "idle")
  /\ UNCHANGED <<finished, got>>

(* _MediaSearch.close: the attributes first, then two calls, if there is   *)
(* an object.                                                              *)
Close(s, why) ==
  /\ closed' = [closed EXCEPT ![s] = TRUE]
  /\ buffer' = [buffer EXCEPT ![s] = <<>>]
  /\ closing' = [closing EXCEPT ![s] = object[s]]
  /\ object' = [object EXCEPT ![s] = 0]
  /\ ended' = [ended EXCEPT ![s] = why]
  /\ Goto(s, IF object[s] # 0 THEN "close" ELSE "idle")
  /\ UNCHANGED <<finished, got>>

AskClose(s) ==
  /\ Constructed /\ at[s] = "idle" /\ ~closed[s]
  /\ Close(s, "asked")
  /\ UNCHANGED <<connVars, objVars, streamVars, closeVars>>

(* __next__ of an iterator that is not closed. *)
Iterate(s) ==
  /\ Constructed /\ at[s] = "idle" /\ ~closed[s]
  /\ Goto(s, "loop")
  /\ UNCHANGED <<object, closing, buffer, finished, closed, got, ended,
                 connVars, objVars, streamVars, closeVars>>

Return(s) ==
  /\ at[s] = "loop" /\ buffer[s] # <<>>
  /\ got' = [got EXCEPT ![s] = Append(@, Head(buffer[s]))]
  /\ buffer' = [buffer EXCEPT ![s] = Tail(@)]
  /\ Goto(s, "idle")
  /\ UNCHANGED <<object, closing, finished, closed, ended,
                 connVars, objVars, streamVars, closeVars>>

Exhaust(s) ==
  /\ at[s] = "loop" /\ buffer[s] = <<>> /\ finished[s]
  /\ Close(s, "exhausted")
  /\ UNCHANGED <<connVars, objVars, streamVars, closeVars>>

Refill(s) == at[s] = "loop" /\ buffer[s] = <<>> /\ ~finished[s]

(* _create: the recorder makes an object, and its reply is usable or not.  *)
Create(s) ==
  /\ Refill(s) /\ object[s] = 0
  /\ Posts /\ session' \in live'
  /\ objects' = objects \cup {<<session', s>>}
  /\ \/ /\ object' = [object EXCEPT ![s] = session']
        /\ Goto(s, "find")
        /\ UNCHANGED <<closing, buffer, finished, closed, got, ended, orphans>>
     \/ /\ orphans' = orphans \cup {<<session', s>>}
        /\ Close(s, "raised")
  /\ UNCHANGED <<cursor, streamVars, closeVars>>

(* _find *)
Find(s) ==
  /\ at[s] = "find"
  /\ Posts /\ <<session', s>> \in objects /\ session' = object[s]
  /\ Goto(s, "fetch")
  /\ UNCHANGED <<object, closing, buffer, finished, closed, got, ended,
                 objVars, streamVars, closeVars>>

Least(x, y) == IF x < y THEN x ELSE y

Page(s) ==
  LET first == cursor[s] + 1
      last == Least(cursor[s] + PageSize, Items)
  IN  [i \in 1..(last + 1 - first) |-> cursor[s] + i]

Rejected == <<0>>

(* mutation: entries that cannot be read are left out *)
ParsesSomeOf(page) == {SubSeq(page, 1, n) : n \in 0..Len(page)}

(* parse_rpc_recordings, parse_rpc_snapshots: every entry of the page, or, *)
(* when the count is wrong or one entry cannot be read (a local time that  *)
(* a change of daylight-saving time makes ambiguous or skips), none.       *)
Parses(page) == {page, Rejected}

Fetching(s) == at[s] = "fetch" \/ (Refill(s) /\ object[s] # 0)

(* _fetch_page: the first page without items is the end. *)
Fetch(s) ==
  /\ Fetching(s)
  /\ Posts /\ <<session', s>> \in objects /\ session' = object[s]
  /\ cursor' = [cursor EXCEPT ![s] = @ + Len(Page(s))]
  /\ \E parsed \in Parses(Page(s)) :
       \/ /\ parsed = Rejected
          /\ Close(s, "raised")
       \/ /\ parsed # Rejected
          /\ buffer' = [buffer EXCEPT ![s] = @ \o parsed]
          /\ finished' = [finished EXCEPT ![s] = parsed = <<>>]
          /\ Goto(s, "loop")
          /\ UNCHANGED <<object, closing, closed, got, ended>>
  /\ UNCHANGED <<objects, orphans, streamVars, closeVars>>

(* A page is handed out, and its reply is lost. *)
FetchLost(s) ==
  /\ Fetching(s)
  /\ Posts /\ <<session', s>> \in objects /\ session' = object[s]
  /\ cursor' = [cursor EXCEPT ![s] = @ + Len(Page(s))]
  /\ Close(s, "raised")
  /\ UNCHANGED <<objects, orphans, streamVars, closeVars>>

(* A call of __next__ raises: the search is closed before the error leaves *)
Fail(s) ==
  /\ (Refill(s) /\ object[s] = 0) \/ at[s] = "find" \/ Fetching(s)
  /\ JustCalls
  /\ Close(s, "raised")
  /\ UNCHANGED <<streamVars, closeVars>>

(* mediaFileFind.close, whatever becomes of it *)
CloseObject(s) ==
  /\ at[s] = "close"
  /\ JustCalls
  /\ Goto(s, "destroy")
  /\ UNCHANGED <<object, closing, buffer, finished, closed, got, ended, streamVars, closeVars>>

Destroyed(s) ==
  /\ closing' = [closing EXCEPT ![s] = 0]
  /\ Goto(s, "idle")
  /\ UNCHANGED <<object, buffer, finished, closed, got, ended, streamVars, closeVars>>

(* mediaFileFind.destroy: done, if it goes out under the object's session. *)
Destroy(s) ==
  /\ at[s] = "destroy"
  /\ Posts
  /\ objects' = objects \ (IF session' = closing[s] THEN {<<session', s>>} ELSE {})
  /\ UNCHANGED <<cursor, orphans>>
  /\ Destroyed(s)

DestroyFails(s) ==
  /\ at[s] = "destroy"
  /\ Posts \/ PostsNothing
  /\ orphans' = orphans \cup {<<closing[s], s>>}
  /\ UNCHANGED <<objects, cursor>>
  /\ Destroyed(s)

-----------------------------------------------------------------------------
(* The streams *)

(* _create_playback, _create_live_stream: nothing looks whether the client *)
(* is closed.                                                              *)
Creates(p) ==
  /\ Constructed /\ stream[p] = "none"
  /\ stream' = [stream EXCEPT ![p] = "new"]
  /\ owned' = owned \cup {p}

CreatePlayback(p) ==
  /\ Creates(p)
  /\ UNCHANGED <<connVars, iterVars, objVars, closeVars>>

(* cameras.live_stream: the camera and the stream are looked up first, by  *)
(* four calls (the others are Query), of which the last has to be answered.*)
CreateLive(p) ==
  /\ Creates(p)
  /\ Posts /\ session' \in live'
  /\ UNCHANGED <<iterVars, objVars, closeVars>>

StartStream(p) ==
  /\ stream[p] = "new"
  /\ stream' = [stream EXCEPT ![p] = "active"]
  /\ UNCHANGED <<owned, connVars, iterVars, objVars, closeVars>>

(* close(), its teardown raising or not, and on_close. *)
Closed(p) ==
  /\ stream' = [stream EXCEPT ![p] = "closed"]
  /\ owned' = owned \ {p}

CloseStream(p) ==
  /\ stream[p] \in {"new", "active"}
  /\ Closed(p)
  /\ sweep' = sweep \ {p}
  /\ UNCHANGED <<phase, checked, early, connVars, iterVars, objVars>>

-----------------------------------------------------------------------------
(* current_time, cameras.list, get and streams: calls whose answers are    *)
(* returned, or rejected, and not kept.  (recording_bytes and              *)
(* snapshot_bytes use no session at all.)                                  *)
Query ==
  /\ Constructed
  /\ JustCalls
  /\ UNCHANGED <<iterVars, streamVars, closeVars>>

-----------------------------------------------------------------------------
(* close() of the client *)

(* stop_keepalive *)
BeginClose ==
  /\ phase \in {"open", "closed"}
  /\ phase' = "stopped"
  /\ keeper' = "none"
  /\ early' = owned
  /\ UNCHANGED <<checked, sweep, session, rejected, logins, live, lost, late,
                 iterVars, objVars, streamVars>>

SweepPlaybacks ==
  /\ phase = "stopped"
  /\ phase' = "playbacks" /\ sweep' = owned \cap Playbacks
  /\ UNCHANGED <<checked, early, connVars, iterVars, objVars, streamVars>>

(* The other set is looked at when the first loop has ended. *)
SweepLives ==
  /\ phase = "playbacks" /\ sweep = {}
  /\ phase' = "lives" /\ sweep' = owned \cap Lives
  /\ UNCHANGED <<checked, early, connVars, iterVars, objVars, streamVars>>

(* mutation: an exception of a stream leaves both loops *)
SweepStreamEscapes ==
  /\ phase \in {"playbacks", "lives"}
  /\ \E p \in sweep :
       /\ Closed(p)
       /\ \/ sweep' = sweep \ {p} /\ UNCHANGED phase
          \/ sweep' = {} /\ phase' = "logout"
  /\ UNCHANGED <<checked, early, connVars, iterVars, objVars>>

SweepStream ==
  /\ phase \in {"playbacks", "lives"}
  /\ \E p \in sweep : Closed(p) /\ sweep' = sweep \ {p}
  /\ UNCHANGED <<phase, checked, early, connVars, iterVars, objVars>>

Swept ==
  /\ phase = "lives" /\ sweep = {}
  /\ phase' = "logout"
  /\ UNCHANGED <<checked, sweep, early, connVars, iterVars, objVars, streamVars>>

(* The end of a session at the recorder, with its search objects. *)
Ends(k) == live' = live \ {k} /\ objects' = objects \ ({k} \X Searches)

(* _RpcConnection.close: the keepalive thread once more, and the session,  *)
(* which is forgotten whether the recorder gave it up or not.              *)
Logout ==
  /\ phase = "logout"
  /\ \/ session # 0 /\ Ends(session) /\ UNCHANGED lost
     \/ session # 0 /\ lost' = lost \cup {session} /\ UNCHANGED <<live, objects>>
     \/ session = 0 /\ UNCHANGED <<live, objects, lost>>
  /\ session' = 0 /\ rejected' = FALSE /\ keeper' = "none" /\ late' = FALSE
  /\ phase' = "closed"
  /\ UNCHANGED <<checked, sweep, early, logins, cursor, orphans, iterVars, streamVars>>

-----------------------------------------------------------------------------
(* The keepalive thread leaves an error and ends. *)
KeepaliveRejected ==
  /\ keeper = "running" /\ session # 0
  /\ rejected' = TRUE /\ keeper' = "ended"
  /\ UNCHANGED <<session, logins, live, lost, late, iterVars, objVars, streamVars, closeVars>>

(* The recorder ends a session by itself. *)
RecorderExpires ==
  /\ \E k \in live : Ends(k)
  /\ UNCHANGED <<session, rejected, keeper, logins, lost, late, cursor, orphans,
                 iterVars, streamVars, closeVars>>

-----------------------------------------------------------------------------
Next ==
  \/ Verify \/ Verified \/ VerificationFails
  \/ \E s \in Searches :
       \/ AskClose(s) \/ Iterate(s) \/ Return(s) \/ Exhaust(s)
       \/ Create(s) \/ Find(s) \/ Fetch(s) \/ FetchLost(s) \/ Fail(s)
       \/ CloseObject(s) \/ Destroy(s) \/ DestroyFails(s)
  \/ \E p \in Playbacks : CreatePlayback(p)
  \/ \E p \in Lives : CreateLive(p)
  \/ \E p \in Streams : StartStream(p) \/ CloseStream(p)
  \/ Query
  \/ BeginClose \/ SweepPlaybacks \/ SweepLives \/ SweepStream \/ Swept \/ Logout
  \/ KeepaliveRejected \/ RecorderExpires

Spec == Init /\ [][Next]_vars

-----------------------------------------------------------------------------
(* A search object of the recorder is known to a search that will give it  *)
(* back, or it is one of an exchange whose outcome was lost: no error, no  *)
(* close() and no end of the iteration forgets one.                        *)
SearchObjectsAreReturned ==
  \A o \in objects :
    \/ o[1] \in {object[o[2]], closing[o[2]]}
    \/ o \in orphans \/ o[1] \in lost

(* An iteration that ends of itself has returned all the recorder has, in  *)
(* order: neither an error, nor a lost page, nor a session that is gone    *)
(* looks like the end.                                                     *)
ExhaustionIsReal ==
  \A s \in Searches : ended[s] = "exhausted" => got[s] = [i \in 1..Items |-> i]

(* close() releases everything.  When it returns, every stream the client  *)
(* owned when it began is closed, whatever the others raised and whoever   *)
(* else was closing them ("closes the RPC session plus any live or         *)
(* recorded RTSP sessions it owns"); and there is no session, no keepalive *)
(* thread and nothing at the recorder but the sessions of lost exchanges,  *)
(* unless the client was used after it.                                    *)
ClosedClientIsQuiet ==
  /\ phase \in {"logout", "closed"} => \A p \in early : stream[p] = "closed"
  /\ phase = "closed" /\ ~late => session = 0 /\ keeper = "none" /\ live \subseteq lost

(* A constructor that raises leaves no session and no thread that nobody   *)
(* can end ("Resources acquired by the SDK should be released by the SDK   *)
(* unless ownership is explicitly transferred to the caller").             *)
FailedConstructionLeavesNothing ==
  phase = "failed" => session = 0 /\ keeper = "none"
=============================================================================
