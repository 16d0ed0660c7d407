---------------------------- MODULE ClientProofs ----------------------------
(* Theorems about Client, for any searches, streams, page size and number  *)
(* of items at the recorder.                                               *)
EXTENDS Client, SequenceTheorems, TLAPS

Phases == {"constructing", "failed", "open", "stopped", "playbacks", "lives", "logout", "closed"}

ConnTypes ==
  /\ logins \in Nat /\ session \in 0..logins
  /\ live \subseteq 1..logins
  /\ objects \subseteq (1..logins) \X Searches

IterTypes ==
  /\ at \in [Searches -> {"idle", "loop", "find", "fetch", "close", "destroy"}]
  /\ object \in [Searches -> Nat] /\ closing \in [Searches -> Nat]
  /\ ended \in [Searches -> {"no", "asked", "raised", "exhausted"}]
  /\ closed \in [Searches -> BOOLEAN] /\ finished \in [Searches -> BOOLEAN]

ItemTypes ==
  /\ buffer \in [Searches -> Seq(Nat)] /\ got \in [Searches -> Seq(Nat)]
  /\ cursor \in [Searches -> 0..Items]

StreamTypes ==
  /\ stream \in [Streams -> {"none", "new", "active", "closed"}]
  /\ owned \subseteq Streams /\ early \subseteq Streams
  /\ phase \in Phases

TypeOK == ConnTypes /\ IterTypes /\ ItemTypes /\ StreamTypes

(* The recorder's sessions, and the search objects it has for them.        *)
SessionInv ==
  /\ live \subseteq {session} \cup lost
  /\ \A o \in objects : o[1] \in live

(* What close() of a search is about to give back.                         *)
ObjectInv ==
  /\ \A s \in Searches : at[s] \notin {"close", "destroy"} => closing[s] = 0
  /\ SearchObjectsAreReturned

(* A sequence of numbers that goes on from n.                              *)
CountsFrom(n, q) == \A i \in 1..Len(q) : q[i] = n + i

(* What an iterator has returned and what it has buffered are what the     *)
(* recorder has handed out, until it is closed.                            *)
ItemInv ==
  \A s \in Searches :
    /\ closed[s] <=> ended[s] # "no"
    /\ at[s] \in {"loop", "find", "fetch"} => ~closed[s]
    /\ ended[s] = "no" =>
         /\ CountsFrom(0, got[s])
         /\ CountsFrom(Len(got[s]), buffer[s])
         /\ Len(got[s]) + Len(buffer[s]) = cursor[s]
         /\ finished[s] => cursor[s] = Items
    /\ ended[s] = "exhausted" => got[s] = [i \in 1..Items |-> i]

(* The streams close() has yet to close.                                   *)
StreamInv ==
  /\ \A p \in Streams : stream[p] \in {"new", "active"} => p \in owned
  /\ \A p \in owned \cup early : stream[p] # "none"
  /\ phase = "playbacks" => \A p \in early \cap Playbacks : stream[p] = "closed" \/ p \in sweep
  /\ phase = "lives" =>
       /\ \A p \in early \cap Playbacks : stream[p] = "closed"
       /\ \A p \in early \cap Lives : stream[p] = "closed" \/ p \in sweep

IInv == TypeOK /\ SessionInv /\ ObjectInv /\ ItemInv /\ StreamInv /\ ClosedClientIsQuiet

-----------------------------------------------------------------------------
(* The steps of a search, and those of everybody else.                     *)
SearchStep(s) ==
  \/ AskClose(s) \/ Iterate(s) \/ Return(s) \/ Exhaust(s)
  \/ Create(s) \/ Find(s) \/ Fetch(s) \/ FetchLost(s) \/ Fail(s)
  \/ CloseObject(s) \/ Destroy(s) \/ DestroyFails(s)

OtherStep ==
  \/ Verify \/ Verified \/ VerificationFails
  \/ \E p \in Playbacks : CreatePlayback(p)
  \/ \E p \in Lives : CreateLive(p)
  \/ \E p \in Streams : StartStream(p) \/ CloseStream(p)
  \/ Query
  \/ BeginClose \/ SweepPlaybacks \/ SweepLives \/ SweepStream \/ Swept \/ Logout
  \/ KeepaliveRejected \/ RecorderExpires

(* Every step is one or the other.                                         *)
LEMMA Steps ==
  ASSUME [Next]_vars
  PROVE  (\E s \in Searches : SearchStep(s)) \/ OtherStep \/ UNCHANGED vars
BY DEF Next, SearchStep, OtherStep

(* A search leaves the streams and close() alone, ...                      *)
LEMMA SearchesKeep ==
  ASSUME NEW s \in Searches, SearchStep(s)
  PROVE  UNCHANGED <<streamVars, closeVars>>
BY DEF SearchStep, AskClose, Iterate, Return, Exhaust, Create, Find, Fetch, FetchLost, Fail,
       CloseObject, Destroy, DestroyFails, Destroyed

(* ... and nobody else touches the iterators.                              *)
LEMMA OthersKeep ==
  ASSUME OtherStep \/ UNCHANGED vars
  PROVE  UNCHANGED <<iterVars, cursor, orphans>> /\ objects' \subseteq objects
<1>1. CASE Logout  BY <1>1 DEF Logout, Ends
<1>2. CASE RecorderExpires  BY <1>2 DEF RecorderExpires, Ends
<1>3. CASE OtherStep /\ ~Logout /\ ~RecorderExpires
  BY <1>3 DEF OtherStep, Verify, Verified, VerificationFails, CreatePlayback, CreateLive,
     StartStream, CloseStream, Query, BeginClose, SweepPlaybacks, SweepLives, SweepStream, Swept,
     KeepaliveRejected, JustCalls, objVars
<1>4. CASE UNCHANGED vars  BY <1>4 DEF vars, objVars
<1> QED  BY <1>1, <1>2, <1>3, <1>4

-----------------------------------------------------------------------------
Calls == Posts \/ PostsNothing

(* A call loses no session of the recorder: it opens one only when the     *)
(* connection has none.                                                    *)
LEMMA CallsKeepSessions ==
  ASSUME ConnTypes, SessionInv, Calls
  PROVE  /\ logins' \in Nat /\ logins <= logins' /\ session' \in 0..logins'
         /\ live' \subseteq 1..logins' /\ live \subseteq live'
         /\ live' \subseteq {session'} \cup lost' /\ lost \subseteq lost'
         /\ Posts => session' # 0
<1> USE DEF ConnTypes, SessionInv
<1>1. 0 \notin live  OBVIOUS
<1>2. CASE Posts /\ session # 0
  <2>1. UNCHANGED <<session, logins, live, lost>>  BY <1>2 DEF Posts, connVars
  <2> QED  BY <1>2, <2>1
<1>3. CASE Posts /\ session = 0
  <2>1. logins' = logins + 1 /\ session' = logins + 1 /\ live' = live \cup {logins + 1} /\ lost' = lost
    BY <1>3 DEF Posts
  <2> QED  BY <1>1, <1>3, <2>1
<1>4. CASE UNCHANGED connVars /\ ~Posts  BY <1>4 DEF connVars
<1>5. CASE PostsNothing /\ ~UNCHANGED connVars
  <2>1. /\ logins' = logins + 1 /\ session' = session /\ live' = live \cup {logins + 1}
        /\ lost' = lost \cup {logins + 1} /\ session = 0
    BY <1>5 DEF PostsNothing
  <2>2. ~Posts \/ session' # 0  BY <1>2, <1>3
  <2> QED  BY <2>1, <2>2
<1> QED  BY <1>2, <1>3, <1>4, <1>5 DEF Calls, PostsNothing

(* What a step can do to the connection and to the recorder's objects.     *)
LEMMA ConnShapes ==
  ASSUME [Next]_vars
  PROVE  \/ UNCHANGED <<session, logins, live, lost>> /\ objects' \subseteq objects
         \/ Calls /\ objects' \subseteq objects
         \/ Calls /\ session' \in live' /\ \E s \in Searches : objects' = objects \cup {<<session', s>>}
         \/ Logout
         \/ RecorderExpires
<1>1. ASSUME NEW s \in Searches, SearchStep(s)
      PROVE  \/ UNCHANGED <<session, logins, live, lost>> /\ objects' \subseteq objects
             \/ Calls /\ objects' \subseteq objects
             \/ Calls /\ session' \in live' /\ objects' = objects \cup {<<session', s>>}
  BY <1>1 DEF SearchStep, AskClose, Iterate, Return, Exhaust, Create, Find, Fetch, FetchLost, Fail,
     CloseObject, Destroy, DestroyFails, Destroyed, JustCalls, Calls, connVars, objVars
<1>2. CASE OtherStep
  BY <1>2 DEF OtherStep, Verify, Verified, VerificationFails, CreatePlayback, CreateLive,
     StartStream, CloseStream, Query, BeginClose, SweepPlaybacks, SweepLives, SweepStream, Swept,
     KeepaliveRejected, JustCalls, Calls, connVars, objVars
<1>3. CASE UNCHANGED vars  BY <1>3 DEF vars, connVars, objVars
<1> QED  BY <1>1, <1>2, <1>3, Steps

(* The recorder holds no session but the connection's and lost ones, and   *)
(* no search object but of a session it holds.                             *)
LEMMA SessionStep ==
  ASSUME ConnTypes, SessionInv, [Next]_vars
  PROVE  ConnTypes' /\ SessionInv' /\ (~Logout /\ ~RecorderExpires => live \subseteq live') /\ lost \subseteq lost'
<1> USE DEF ConnTypes, SessionInv
<1>1. CASE UNCHANGED <<session, logins, live, lost>> /\ objects' \subseteq objects
  BY <1>1
<1>2. CASE Calls /\ objects' \subseteq objects
  <2>1. (1..logins) \X Searches \subseteq (1..logins') \X Searches  BY <1>2, CallsKeepSessions
  <2> QED  BY <1>2, <2>1, CallsKeepSessions
<1>3. CASE Calls /\ session' \in live' /\ \E s \in Searches : objects' = objects \cup {<<session', s>>}
  <2>0. PICK s \in Searches : objects' = objects \cup {<<session', s>>}  BY <1>3
  <2>1. (1..logins) \X Searches \subseteq (1..logins') \X Searches  BY <1>3, CallsKeepSessions
  <2>2. <<session', s>> \in (1..logins') \X Searches  BY <1>3, CallsKeepSessions
  <2>3. objects' \subseteq (1..logins') \X Searches  BY <2>0, <2>1, <2>2
  <2>4. \A o \in objects' : o[1] \in live'
    <3>1. \A o \in objects : o[1] \in live'  BY <1>3, CallsKeepSessions
    <3> QED  BY <1>3, <2>0, <3>1
  <2> QED  BY <1>3, <2>3, <2>4, CallsKeepSessions
<1>4. ASSUME NEW k, Ends(k)
      PROVE  live' = live \ {k} /\ objects' \subseteq objects /\ \A o \in objects' : o[1] \in live'
  <2>1. live' = live \ {k} /\ objects' = objects \ ({k} \X Searches)  BY <1>4 DEF Ends
  <2>2. ASSUME NEW o \in objects' PROVE o[1] \in live'
    <3>1. o \in objects /\ o \notin {k} \X Searches /\ o[1] \in live  BY <2>1
    <3>2. o \in (1..logins) \X Searches  BY <3>1
    <3>3. o[1] # k  BY <3>1, <3>2
    <3> QED  BY <2>1, <3>1, <3>3
  <2> QED  BY <2>1, <2>2
<1>5. CASE Logout
  <2>1. session' = 0 /\ logins' = logins  BY <1>5 DEF Logout
  <2>2. CASE session # 0 /\ Ends(session) /\ UNCHANGED lost
    <3>1. live' = live \ {session} /\ objects' \subseteq objects /\ \A o \in objects' : o[1] \in live'
      BY <1>4, <2>2
    <3>2. lost' = lost  BY <2>2
    <3> QED  BY <1>5, <2>1, <3>1, <3>2
  <2>3. CASE session # 0 /\ lost' = lost \cup {session} /\ UNCHANGED <<live, objects>>
    BY <1>5, <2>1, <2>3
  <2>4. CASE session = 0 /\ UNCHANGED <<live, objects, lost>>
    BY <1>5, <2>1, <2>4
  <2> QED  BY <1>5, <2>2, <2>3, <2>4 DEF Logout
<1>6. CASE RecorderExpires
  <2>1. PICK k \in live : Ends(k)  BY <1>6 DEF RecorderExpires
  <2>2. UNCHANGED <<session, logins, lost>>  BY <1>6 DEF RecorderExpires
  <2> QED  BY <1>4, <1>6, <2>1, <2>2
<1> QED  BY <1>1, <1>2, <1>3, <1>5, <1>6, ConnShapes

-----------------------------------------------------------------------------
(* Closing an iterator, as far as the searches' state goes.                *)
LEMMA CloseShape ==
  ASSUME IterTypes, ItemTypes, NEW s \in Searches, NEW why, Close(s, why),
         why \in {"asked", "raised", "exhausted"}
  PROVE  /\ closed'[s] = TRUE /\ ended'[s] = why /\ object'[s] = 0 /\ closing'[s] = object[s]
         /\ at'[s] \in {"close", "idle"} /\ (at'[s] = "idle" => object[s] = 0)
         /\ buffer' = [buffer EXCEPT ![s] = <<>>] /\ UNCHANGED <<finished, got>>
         /\ IterTypes'
         /\ \A r \in Searches \ {s} :
              /\ at'[r] = at[r] /\ object'[r] = object[r] /\ closing'[r] = closing[r]
              /\ closed'[r] = closed[r] /\ ended'[r] = ended[r] /\ buffer'[r] = buffer[r]
<1> USE DEF Close, Goto, IterTypes, ItemTypes
<1>1. /\ closed' = [closed EXCEPT ![s] = TRUE] /\ ended' = [ended EXCEPT ![s] = why]
      /\ object' = [object EXCEPT ![s] = 0] /\ closing' = [closing EXCEPT ![s] = object[s]]
      /\ buffer' = [buffer EXCEPT ![s] = <<>>] /\ UNCHANGED <<finished, got>>
  OBVIOUS
<1>2. PICK w \in {"close", "idle"} : at' = [at EXCEPT ![s] = w] /\ (w = "idle" => object[s] = 0)
  OBVIOUS
<1>3. closed' \in [Searches -> BOOLEAN]  BY <1>1
<1>4. IterTypes'  BY <1>1, <1>2, <1>3
<1> QED  BY <1>1, <1>2, <1>4

(* The searches that do not move in a step of s.                           *)
LEMMA SearchesApart ==
  ASSUME IterTypes, ItemTypes, NEW s \in Searches, SearchStep(s), NEW r \in Searches \ {s}
  PROVE  /\ at'[r] = at[r] /\ object'[r] = object[r] /\ closing'[r] = closing[r]
         /\ closed'[r] = closed[r] /\ ended'[r] = ended[r] /\ finished'[r] = finished[r]
         /\ buffer'[r] = buffer[r] /\ got'[r] = got[r] /\ cursor'[r] = cursor[r]
<1> USE DEF IterTypes, ItemTypes
<1>1. CASE \E why \in {"asked", "raised", "exhausted"} : Close(s, why)
  <2>1. cursor'[r] = cursor[r]
    BY DEF SearchStep, AskClose, Iterate, Return, Exhaust, Create, Find, Fetch, FetchLost, Fail,
       CloseObject, Destroy, DestroyFails, Destroyed, JustCalls, objVars
  <2> QED  BY <1>1, <2>1 DEF Close, Goto
<1>2. CASE ~\E why \in {"asked", "raised", "exhausted"} : Close(s, why)
  BY <1>2 DEF SearchStep, AskClose, Iterate, Return, Exhaust, Create, Find, Fetch, FetchLost, Fail,
     CloseObject, Destroy, DestroyFails, Destroyed, JustCalls, objVars, Goto
<1> QED  BY <1>1, <1>2

(* What a search can do with its object.                                   *)
LEMMA ObjectShapes ==
  ASSUME ConnTypes, IterTypes, ItemTypes, NEW s \in Searches, SearchStep(s)
  PROVE  /\ IterTypes'
         /\ \/ /\ UNCHANGED <<object, closing, objects>> /\ orphans \subseteq orphans'
               /\ at'[s] \in {"close", "destroy"} <=> at[s] \in {"close", "destroy"}
            \/ /\ object'[s] = 0 /\ closing'[s] = object[s]
               /\ at[s] \notin {"close", "destroy"}
               /\ at'[s] \in {"close", "idle"} /\ (at'[s] = "idle" => object[s] = 0)
               /\ \/ objects' = objects /\ orphans' = orphans
                  \/ objects' = objects \cup {<<session', s>>} /\ orphans' = orphans \cup {<<session', s>>}
            \/ /\ object[s] = 0 /\ object'[s] = session' /\ closing' = closing
               /\ at[s] = "loop" /\ at'[s] = "find"
               /\ objects' = objects \cup {<<session', s>>} /\ orphans' = orphans
            \/ /\ object' = object /\ closing'[s] = 0 /\ at'[s] = "idle"
               /\ \/ /\ Posts /\ orphans' = orphans
                     /\ objects' = objects \ (IF session' = closing[s] THEN {<<session', s>>} ELSE {})
                  \/ objects' = objects /\ orphans' = orphans \cup {<<closing[s], s>>}
<1> DEFINE Closes == \E why \in {"asked", "raised", "exhausted"} : Close(s, why)
<1> USE DEF SearchStep
<1>0. ASSUME Closes
      PROVE  /\ object'[s] = 0 /\ closing'[s] = object[s] /\ IterTypes'
             /\ at'[s] \in {"close", "idle"} /\ (at'[s] = "idle" => object[s] = 0)
  BY <1>0, CloseShape
<1>1. CASE AskClose(s) \/ Exhaust(s)
  <2>1. Closes /\ at[s] \in {"idle", "loop"} /\ objects' = objects /\ orphans' = orphans
    BY <1>1 DEF AskClose, Exhaust, objVars
  <2> QED  BY <1>0, <2>1
<1>2. CASE Iterate(s) \/ Return(s)
  <2>1. /\ UNCHANGED <<object, closing, objects, orphans, finished, closed, ended>>
        /\ \E w \in {"loop", "idle"} : at' = [at EXCEPT ![s] = w]
        /\ at[s] \in {"idle", "loop"}
    BY <1>2 DEF Iterate, Return, objVars, Goto
  <2> QED  BY <2>1 DEF IterTypes
<1>3. CASE Create(s)
  <2>1. /\ at[s] = "loop" /\ object[s] = 0 /\ objects' = objects \cup {<<session', s>>}
    BY <1>3 DEF Create, Refill
  <2>2. CASE Closes
    <3>1. CASE orphans' = orphans \cup {<<session', s>>}
      BY <1>0, <2>1, <2>2, <3>1
    <3>2. CASE object' = [object EXCEPT ![s] = session'] /\ at' = [at EXCEPT ![s] = "find"]
      BY <1>0, <2>1, <2>2, <3>2 DEF IterTypes
    <3> QED  BY <1>3, <3>1, <3>2 DEF Create, Goto
  <2>3. CASE ~Closes
    <3>1. /\ object' = [object EXCEPT ![s] = session'] /\ at' = [at EXCEPT ![s] = "find"]
          /\ UNCHANGED <<closing, orphans, finished, closed, ended>>
      BY <1>3, <2>3 DEF Create, Goto
    <3>2. session' \in Nat
      BY <1>3 DEF Create, Posts, ConnTypes, connVars
    <3> QED  BY <2>1, <3>1, <3>2 DEF IterTypes
  <2> QED  BY <2>2, <2>3
<1>4. CASE Find(s)
  <2>1. /\ UNCHANGED <<object, closing, objects, orphans, finished, closed, ended>>
        /\ at[s] = "find" /\ at' = [at EXCEPT ![s] = "fetch"]
    BY <1>4 DEF Find, objVars, Goto
  <2> QED  BY <2>1 DEF IterTypes
<1>5. CASE Fetch(s) \/ FetchLost(s)
  <2>1. at[s] \in {"fetch", "loop"} /\ UNCHANGED <<objects, orphans>>
    BY <1>5 DEF Fetch, FetchLost, Fetching, Refill
  <2>2. CASE Closes  BY <1>0, <2>1, <2>2
  <2>3. CASE ~Closes
    <3>1. /\ UNCHANGED <<object, closing, closed, ended>>
          /\ at' = [at EXCEPT ![s] = "loop"]
          /\ \E b \in BOOLEAN : finished' = [finished EXCEPT ![s] = b]
      BY <1>5, <2>3 DEF Fetch, FetchLost, Goto
    <3> QED  BY <2>1, <3>1 DEF IterTypes
  <2> QED  BY <2>2, <2>3
<1>6. CASE Fail(s)
  <2>1. Closes /\ at[s] \in {"loop", "find", "fetch"} /\ UNCHANGED <<objects, orphans>>
    BY <1>6 DEF Fail, Fetching, Refill, JustCalls, objVars
  <2> QED  BY <1>0, <2>1
<1>7. CASE CloseObject(s)
  <2>1. /\ UNCHANGED <<object, closing, objects, orphans, finished, closed, ended>>
        /\ at[s] = "close" /\ at' = [at EXCEPT ![s] = "destroy"]
    BY <1>7 DEF CloseObject, JustCalls, objVars, Goto
  <2> QED  BY <2>1 DEF IterTypes
<1>8. CASE Destroy(s) \/ DestroyFails(s)
  <2>1. /\ UNCHANGED <<object, finished, closed, ended>>
        /\ closing' = [closing EXCEPT ![s] = 0] /\ at' = [at EXCEPT ![s] = "idle"]
    BY <1>8 DEF Destroy, DestroyFails, Destroyed, Goto
  <2>2. closing'[s] = 0 /\ at'[s] = "idle" /\ IterTypes'  BY <2>1 DEF IterTypes
  <2> QED  BY <1>8, <2>1, <2>2 DEF Destroy, DestroyFails
<1> QED  BY <1>1, <1>2, <1>3, <1>4, <1>5, <1>6, <1>7, <1>8

(* No step forgets a search object: it moves with the search that knows    *)
(* it, or its session has ended, or an exchange about it was lost.         *)
LEMMA ObjectStep ==
  ASSUME TypeOK, SessionInv, ObjectInv, [Next]_vars
  PROVE  IterTypes' /\ ObjectInv'
<1> USE DEF TypeOK
<1>0. lost \subseteq lost' /\ SessionInv'  BY SessionStep
<1>1. \A o \in objects : o = <<o[1], o[2]>> /\ o[1] # 0 /\ o[2] \in Searches
  <2>1. ASSUME NEW o \in objects PROVE o \in (1..logins) \X Searches  BY DEF ConnTypes
  <2> QED  BY <2>1 DEF ConnTypes
<1>2. \A o \in objects : o[1] \in {object[o[2]], closing[o[2]]} \/ o \in orphans \/ o[1] \in lost
  BY DEF ObjectInv, SearchObjectsAreReturned
<1>3. ASSUME NEW s \in Searches, SearchStep(s) PROVE IterTypes' /\ ObjectInv'
  <2>1. \A r \in Searches \ {s} : at'[r] = at[r] /\ object'[r] = object[r] /\ closing'[r] = closing[r]
    BY <1>3, SearchesApart
  <2>2. IterTypes'  BY <1>3, ObjectShapes
  <2>3. at[s] \notin {"close", "destroy"} => closing[s] = 0  BY DEF ObjectInv
  <2>4. ASSUME at'[s] \notin {"close", "destroy"} => closing'[s] = 0,
               \A o \in objects' : o[2] \in Searches /\ (o[2] # s => o \in objects),
               \A o \in objects' : o[2] = s =>
                  o[1] \in {object'[s], closing'[s]} \/ o \in orphans' \/ o[1] \in lost',
               orphans \subseteq orphans'
        PROVE  ObjectInv'
    <3>1. \A r \in Searches : at'[r] \notin {"close", "destroy"} => closing'[r] = 0
      BY <2>1, <2>4 DEF ObjectInv
    <3>2. ASSUME NEW o \in objects'
          PROVE  o[1] \in {object'[o[2]], closing'[o[2]]} \/ o \in orphans' \/ o[1] \in lost'
      <4>1. CASE o[2] = s  BY <2>4, <4>1
      <4>2. CASE o[2] \in Searches \ {s}
        <5>1. o[1] \in {object[o[2]], closing[o[2]]} \/ o \in orphans \/ o[1] \in lost
          BY <1>2, <2>4, <4>2
        <5> QED  BY <1>0, <2>1, <2>4, <4>2, <5>1
      <4> QED  BY <2>4, <4>1, <4>2
    <3> QED  BY <3>1, <3>2 DEF ObjectInv, SearchObjectsAreReturned
  <2>5. CASE /\ UNCHANGED <<object, closing, objects>> /\ orphans \subseteq orphans'
             /\ at'[s] \in {"close", "destroy"} <=> at[s] \in {"close", "destroy"}
    <3>1. at'[s] \notin {"close", "destroy"} => closing'[s] = 0  BY <2>3, <2>5
    <3>2. \A o \in objects' : o[2] \in Searches /\ (o[2] # s => o \in objects)  BY <1>1, <2>5
    <3>3. \A o \in objects' : o[2] = s =>
            o[1] \in {object'[s], closing'[s]} \/ o \in orphans' \/ o[1] \in lost'
      BY <1>0, <1>2, <2>5
    <3> QED  BY <2>2, <2>4, <2>5, <3>1, <3>2, <3>3
  <2>6. CASE /\ object'[s] = 0 /\ closing'[s] = object[s]
             /\ at[s] \notin {"close", "destroy"}
             /\ at'[s] \in {"close", "idle"} /\ (at'[s] = "idle" => object[s] = 0)
             /\ \/ objects' = objects /\ orphans' = orphans
                \/ objects' = objects \cup {<<session', s>>} /\ orphans' = orphans \cup {<<session', s>>}
    <3>1. at'[s] \notin {"close", "destroy"} => closing'[s] = 0  BY <2>6
    <3>2. orphans \subseteq orphans' /\ (\A o \in objects' : o \in objects \/ (o \in orphans' /\ o[2] = s))
      BY <2>6
    <3>3. \A o \in objects' : o[2] \in Searches /\ (o[2] # s => o \in objects)  BY <1>1, <3>2
    <3>4. ASSUME NEW o \in objects', o[2] = s
          PROVE  o[1] \in {object'[s], closing'[s]} \/ o \in orphans' \/ o[1] \in lost'
      <4>1. CASE o \in objects
        <5>1. o[1] \in {object[s], closing[s]} \/ o \in orphans \/ o[1] \in lost
          BY <1>2, <3>4, <4>1
        <5>2. closing[s] = 0 /\ o[1] # 0  BY <1>1, <2>3, <2>6, <4>1
        <5> QED  BY <1>0, <2>6, <3>2, <5>1, <5>2
      <4> QED  BY <3>2, <4>1
    <3> QED  BY <2>2, <2>4, <3>1, <3>2, <3>3, <3>4
  <2>7. CASE /\ object[s] = 0 /\ object'[s] = session' /\ closing' = closing
             /\ at[s] = "loop" /\ at'[s] = "find"
             /\ objects' = objects \cup {<<session', s>>} /\ orphans' = orphans
    <3>1. at'[s] \notin {"close", "destroy"} => closing'[s] = 0  BY <2>3, <2>7
    <3>2. \A o \in objects' : o \in objects \/ (o[1] = session' /\ o[2] = s)
      BY <2>7
    <3>3. \A o \in objects' : o[2] \in Searches /\ (o[2] # s => o \in objects)  BY <1>1, <3>2
    <3>4. ASSUME NEW o \in objects', o[2] = s
          PROVE  o[1] \in {object'[s], closing'[s]} \/ o \in orphans' \/ o[1] \in lost'
      <4>1. CASE o \in objects
        <5>1. o[1] \in {object[s], closing[s]} \/ o \in orphans \/ o[1] \in lost
          BY <1>2, <3>4, <4>1
        <5>2. closing[s] = 0 /\ object[s] = 0 /\ o[1] # 0  BY <1>1, <2>3, <2>7, <4>1
        <5> QED  BY <1>0, <2>7, <5>1, <5>2
      <4> QED  BY <2>7, <3>2, <4>1
    <3>5. orphans \subseteq orphans'  BY <2>7
    <3> QED  BY <2>2, <2>4, <3>1, <3>3, <3>4, <3>5
  <2>8. CASE /\ object' = object /\ closing'[s] = 0 /\ at'[s] = "idle"
             /\ \/ /\ Posts /\ orphans' = orphans
                   /\ objects' = objects \ (IF session' = closing[s] THEN {<<session', s>>} ELSE {})
                \/ objects' = objects /\ orphans' = orphans \cup {<<closing[s], s>>}
    <3>1. orphans \subseteq orphans' /\ objects' \subseteq objects  BY <2>8
    <3>2. \A o \in objects' : o[2] \in Searches /\ (o[2] # s => o \in objects)  BY <1>1, <3>1
    <3>3. ASSUME NEW o \in objects', o[2] = s
          PROVE  o[1] \in {object'[s], closing'[s]} \/ o \in orphans' \/ o[1] \in lost'
      <4>1. o \in objects /\ o = <<o[1], s>>  BY <1>1, <3>1, <3>3
      <4>2. o[1] \in {object[s], closing[s]} \/ o \in orphans \/ o[1] \in lost
        BY <1>2, <3>3, <4>1
      <4>3. CASE o[1] # closing[s]
        BY <1>0, <2>8, <3>1, <4>2, <4>3
      <4>4. CASE o[1] = closing[s] /\ orphans' = orphans \cup {<<closing[s], s>>}
        BY <4>1, <4>4
      <4>5. CASE o[1] = closing[s] /\ objects' = objects \ (IF session' = closing[s] THEN {<<session', s>>} ELSE {})
        <5>1. o[1] # session'  BY <4>1, <4>5
        <5>2. o[1] \in {session'} \cup lost'  BY <1>0 DEF SessionInv
        <5> QED  BY <5>1, <5>2
      <4> QED  BY <2>8, <4>3, <4>4, <4>5
    <3> QED  BY <2>2, <2>4, <2>8, <3>1, <3>2, <3>3
  <2> QED  BY <1>3, <2>2, <2>5, <2>6, <2>7, <2>8, ObjectShapes
<1>4. CASE OtherStep \/ UNCHANGED vars
  <2>1. UNCHANGED <<at, object, closing, ended, closed, finished, orphans>> /\ objects' \subseteq objects
    BY <1>4, OthersKeep DEF iterVars
  <2> QED  BY <1>0, <2>1 DEF ObjectInv, SearchObjectsAreReturned, IterTypes
<1> QED  BY <1>3, <1>4, Steps

-----------------------------------------------------------------------------
(* The numbers n + 1, ... in sequences.                                    *)
LEMMA CountsAppend ==
  ASSUME NEW q \in Seq(Nat), NEW n \in Nat, CountsFrom(n, q), NEW x \in Nat, x = n + Len(q) + 1
  PROVE  Append(q, x) \in Seq(Nat) /\ Len(Append(q, x)) = Len(q) + 1 /\ CountsFrom(n, Append(q, x))
<1> DEFINE a == Append(q, x)
<1>1. a \in Seq(Nat) /\ Len(a) = Len(q) + 1 /\ (\A i \in 1..Len(q) : a[i] = q[i]) /\ a[Len(q) + 1] = x
  BY AppendProperties
<1>2. Len(q) \in Nat  BY LenProperties
<1>3. ASSUME NEW i \in 1..Len(a) PROVE a[i] = n + i
  <2>1. CASE i = Len(q) + 1  BY <1>1, <1>2, <2>1
  <2>2. CASE i # Len(q) + 1
    <3>1. i \in 1..Len(q)  BY <1>1, <1>2, <2>2
    <3> QED  BY <1>1, <3>1 DEF CountsFrom
  <2> QED  BY <2>1, <2>2
<1> HIDE DEF a
<1>4. CountsFrom(n, a)  BY <1>3 DEF CountsFrom
<1> QED  BY <1>1, <1>4 DEF a

(* What is taken from the front is the next number.                        *)
LEMMA CountsTail ==
  ASSUME NEW q \in Seq(Nat), NEW n \in Nat, CountsFrom(n, q), q # <<>>
  PROVE  /\ Head(q) = n + 1 /\ Head(q) \in Nat /\ Len(q) \in Nat \ {0}
         /\ Tail(q) \in Seq(Nat) /\ Len(Tail(q)) = Len(q) - 1 /\ CountsFrom(n + 1, Tail(q))
<1> DEFINE t == Tail(q)
<1>1. /\ t \in Seq(Nat) /\ Len(t) = Len(q) - 1 /\ \A i \in 1..Len(t) : t[i] = q[i + 1]
      /\ Head(q) = q[1] /\ Head(q) \in Nat
  BY HeadTailProperties
<1>2. Len(q) \in Nat \ {0}  BY LenProperties, EmptySeq
<1>3. 1 \in 1..Len(q)  BY <1>2
<1>4. q[1] = n + 1  BY <1>3 DEF CountsFrom
<1>5. ASSUME NEW i \in 1..Len(t) PROVE t[i] = n + 1 + i
  <2>1. i + 1 \in 1..Len(q)  BY <1>1, <1>2
  <2>2. q[i + 1] = n + (i + 1)  BY <2>1 DEF CountsFrom
  <2> QED  BY <1>1, <2>2
<1> HIDE DEF t
<1>6. CountsFrom(n + 1, t)  BY <1>5 DEF CountsFrom
<1> QED  BY <1>1, <1>2, <1>4, <1>6 DEF t

(* Two runs of numbers, one after the other.                               *)
LEMMA CountsConcat ==
  ASSUME NEW q \in Seq(Nat), NEW r \in Seq(Nat), NEW n \in Nat,
         CountsFrom(n, q), CountsFrom(n + Len(q), r)
  PROVE  q \o r \in Seq(Nat) /\ Len(q \o r) = Len(q) + Len(r) /\ CountsFrom(n, q \o r)
<1> DEFINE a == q \o r
<1>1. /\ a \in Seq(Nat) /\ Len(a) = Len(q) + Len(r)
      /\ \A i \in 1..Len(a) : a[i] = IF i <= Len(q) THEN q[i] ELSE r[i - Len(q)]
  BY ConcatProperties
<1>2. Len(q) \in Nat /\ Len(r) \in Nat  BY LenProperties
<1>3. ASSUME NEW i \in 1..Len(a) PROVE a[i] = n + i
  <2>1. CASE i <= Len(q)
    <3>1. i \in 1..Len(q)  BY <1>1, <1>2, <2>1
    <3> QED  BY <1>1, <2>1, <3>1 DEF CountsFrom
  <2>2. CASE ~(i <= Len(q))
    <3>1. i - Len(q) \in 1..Len(r)  BY <1>1, <1>2, <2>2
    <3>2. r[i - Len(q)] = n + Len(q) + (i - Len(q))  BY <3>1 DEF CountsFrom
    <3> QED  BY <1>1, <1>2, <2>2, <3>2
  <2> QED  BY <2>1, <2>2
<1> HIDE DEF a
<1>4. CountsFrom(n, a)  BY <1>3 DEF CountsFrom
<1> QED  BY <1>1, <1>4 DEF a

(* A page goes on where the recorder had stopped; it is empty only at the  *)
(* end, and never taken for a page that could not be read.                 *)
LEMMA PageShape ==
  ASSUME ItemTypes, NEW s \in Searches
  PROVE  /\ Page(s) \in Seq(Nat) /\ Len(Page(s)) \in Nat /\ CountsFrom(cursor[s], Page(s))
         /\ cursor[s] + Len(Page(s)) \in 0..Items
         /\ Page(s) = <<>> => cursor[s] = Items
         /\ Page(s) # Rejected
<1> DEFINE n == Least(cursor[s] + PageSize, Items) - cursor[s]
           f == [i \in 1..n |-> cursor[s] + i]
<1>1. cursor[s] \in 0..Items /\ Items \in Nat /\ PageSize \in Nat \ {0}
  BY ItemsAssumption DEF ItemTypes
<1>2. n \in Nat /\ cursor[s] + n \in 0..Items /\ (n = 0 => cursor[s] = Items)
  BY <1>1 DEF Least
<1>3. Least(cursor[s] + PageSize, Items) + 1 - (cursor[s] + 1) = n
  BY <1>1 DEF Least
<1>4. Page(s) = f  BY <1>3 DEF Page
<1>5. f \in Seq(Nat) /\ Len(f) = n
  <2>1. f \in [1..n -> Nat]  BY <1>1, <1>2
  <2> QED  BY <1>2, <2>1, SeqDef, LenProperties
<1>6. \A i \in 1..Len(f) : f[i] = cursor[s] + i  BY <1>5
<1>7. f = <<>> => n = 0  BY <1>5
<1> HIDE DEF f, n
<1>8. f # Rejected
  <2>1. Len(Rejected) = 1 /\ Rejected[1] = 0  BY DEF Rejected
  <2>2. CASE f = Rejected
    <3>1. Len(f) = 1 /\ f[1] = 0  BY <2>1, <2>2
    <3>2. f[1] = cursor[s] + 1  BY <1>6, <3>1
    <3> QED  BY <1>1, <3>1, <3>2
  <2> QED  BY <2>2
<1> QED  BY <1>2, <1>4, <1>5, <1>6, <1>7, <1>8 DEF CountsFrom

(* A whole run of numbers is the sequence 1..Items.                        *)
LEMMA CountsWhole ==
  ASSUME NEW q \in Seq(Nat), CountsFrom(0, q), Len(q) = Items
  PROVE  q = [i \in 1..Items |-> i]
<1>1. q \in [1..Items -> Nat]  BY LenProperties
<1>2. \A i \in 1..Items : q[i] = i  BY ItemsAssumption DEF CountsFrom
<1> QED  BY <1>1, <1>2

(* The item sequences keep their types.                                    *)
LEMMA ItemTypesStep ==
  ASSUME TypeOK, ItemInv, [Next]_vars
  PROVE  ItemTypes'
<1> USE DEF TypeOK, ItemTypes, IterTypes
<1>1. ASSUME NEW s \in Searches, SearchStep(s) PROVE ItemTypes'
  <2>1. ASSUME NEW why, Close(s, why), cursor' \in [Searches -> 0..Items] PROVE ItemTypes'
    <3>1. buffer' = [buffer EXCEPT ![s] = <<>>] /\ got' = got  BY <2>1 DEF Close
    <3>2. <<>> \in Seq(Nat)  BY EmptySeq
    <3> QED  BY <2>1, <3>1, <3>2
  <2>2. cursor[s] + Len(Page(s)) \in 0..Items /\ Page(s) \in Seq(Nat)  BY PageShape
  <2>3. CASE AskClose(s) \/ Exhaust(s) \/ Fail(s)
    BY <2>1, <2>3 DEF AskClose, Exhaust, Fail, JustCalls, objVars
  <2>4. CASE Iterate(s) \/ Find(s) \/ CloseObject(s) \/ Destroy(s) \/ DestroyFails(s)
    BY <2>4 DEF Iterate, Find, CloseObject, Destroy, DestroyFails, Destroyed, JustCalls, objVars
  <2>5. CASE Return(s)
    <3>1. /\ at[s] = "loop" /\ buffer[s] # <<>> /\ cursor' = cursor
          /\ got' = [got EXCEPT ![s] = Append(got[s], Head(buffer[s]))]
          /\ buffer' = [buffer EXCEPT ![s] = Tail(buffer[s])]
      BY <2>5 DEF Return, objVars
    <3>2. buffer[s] \in Seq(Nat) /\ got[s] \in Seq(Nat)  OBVIOUS
    <3>3. Tail(buffer[s]) \in Seq(Nat) /\ Head(buffer[s]) \in Nat  BY <3>1, <3>2, HeadTailProperties
    <3>4. Append(got[s], Head(buffer[s])) \in Seq(Nat)  BY <3>2, <3>3, AppendProperties
    <3> QED  BY <3>1, <3>3, <3>4
  <2>6. CASE Create(s)
    <3>1. cursor' = cursor  BY <2>6 DEF Create
    <3>2. (\E why : Close(s, why)) \/ UNCHANGED <<buffer, got>>  BY <2>6 DEF Create
    <3> QED  BY <2>1, <3>1, <3>2
  <2>7. CASE Fetch(s) \/ FetchLost(s)
    <3>1. cursor' = [cursor EXCEPT ![s] = cursor[s] + Len(Page(s))]
      BY <2>7 DEF Fetch, FetchLost
    <3>2. cursor' \in [Searches -> 0..Items]  BY <2>2, <3>1
    <3>3. \/ \E why : Close(s, why)
          \/ buffer' = [buffer EXCEPT ![s] = buffer[s] \o Page(s)] /\ got' = got
      BY <2>7 DEF Fetch, FetchLost, Parses
    <3>4. buffer[s] \o Page(s) \in Seq(Nat)
      <4>1. buffer[s] \in Seq(Nat)  OBVIOUS
      <4> QED  BY <2>2, <4>1, ConcatProperties
    <3>5. CASE \E why : Close(s, why)  BY <2>1, <3>2, <3>5
    <3>6. CASE buffer' = [buffer EXCEPT ![s] = buffer[s] \o Page(s)] /\ got' = got
      <4> DEFINE new == buffer[s] \o Page(s)
      <4>1. new \in Seq(Nat) /\ buffer' = [buffer EXCEPT ![s] = new] /\ got' = got
        BY <3>4, <3>6
      <4> HIDE DEF new
      <4> QED  BY <3>2, <4>1
    <3> QED  BY <3>3, <3>5, <3>6
  <2> QED  BY <1>1, <2>3, <2>4, <2>5, <2>6, <2>7 DEF SearchStep
<1>2. CASE OtherStep \/ UNCHANGED vars
  BY <1>2, OthersKeep DEF iterVars
<1> QED  BY <1>1, <1>2, Steps

(* Until it is closed an iterator holds what the recorder has handed out,  *)
(* in order and without a gap, and it has finished only at the end.        *)
LEMMA ItemStep ==
  ASSUME TypeOK, ItemInv, [Next]_vars
  PROVE  ItemInv'
<1> USE DEF TypeOK, ItemTypes, IterTypes
<1> DEFINE Inv(s) ==
      /\ closed[s] <=> ended[s] # "no"
      /\ at[s] \in {"loop", "find", "fetch"} => ~closed[s]
      /\ ended[s] = "no" =>
           /\ CountsFrom(0, got[s])
           /\ CountsFrom(Len(got[s]), buffer[s])
           /\ Len(got[s]) + Len(buffer[s]) = cursor[s]
           /\ finished[s] => cursor[s] = Items
      /\ ended[s] = "exhausted" => got[s] = [i \in 1..Items |-> i]
<1>0. \A s \in Searches : Inv(s)  BY DEF ItemInv
<1>1. ASSUME NEW s \in Searches, SearchStep(s) PROVE ItemInv'
  <2>0. Inv(s) /\ got[s] \in Seq(Nat) /\ buffer[s] \in Seq(Nat) /\ Len(got[s]) \in Nat
    BY <1>0, LenProperties
  <2>1. ASSUME NEW r \in Searches \ {s} PROVE Inv(r)'
    <3>1. /\ closed'[r] = closed[r] /\ ended'[r] = ended[r] /\ at'[r] = at[r]
          /\ finished'[r] = finished[r] /\ got'[r] = got[r] /\ buffer'[r] = buffer[r]
          /\ cursor'[r] = cursor[r]
      BY <1>1, <2>1, SearchesApart
    <3> QED  BY <1>0, <3>1
  <2> SUFFICES Inv(s)'  BY <2>1 DEF ItemInv
  <2>2. ASSUME NEW why \in {"asked", "raised"}, Close(s, why), at[s] \in {"idle", "loop", "find", "fetch"}
        PROVE  Inv(s)'
    BY <2>2, CloseShape
  <2>3. CASE AskClose(s) \/ Fail(s) \/ FetchLost(s)
    BY <2>2, <2>3 DEF AskClose, Fail, FetchLost, Fetching, Refill
  <2>4. CASE Exhaust(s)
    <3>1. Close(s, "exhausted") /\ at[s] = "loop" /\ buffer[s] = <<>> /\ finished[s]
      BY <2>4 DEF Exhaust
    <3>2. ended[s] = "no"  BY <2>0, <3>1
    <3>3. Len(got[s]) = Items
      <4>1. Len(buffer[s]) = 0  BY <3>1
      <4> QED  BY <2>0, <3>1, <3>2, <4>1, ItemsAssumption
    <3>4. got[s] = [i \in 1..Items |-> i]  BY <2>0, <3>2, <3>3, CountsWhole
    <3>5. /\ closed'[s] = TRUE /\ ended'[s] = "exhausted" /\ got' = got
          /\ at'[s] \in {"close", "idle"}
      BY <3>1, CloseShape
    <3> QED  BY <3>4, <3>5
  <2>5. CASE Iterate(s)
    <3>1. ~closed[s] /\ at' = [at EXCEPT ![s] = "loop"] /\ UNCHANGED <<closed, ended, got, buffer, finished, cursor>>
      BY <2>5 DEF Iterate, Goto, objVars
    <3> QED  BY <2>0, <3>1
  <2>6. CASE Return(s)
    <3>1. /\ at[s] = "loop" /\ buffer[s] # <<>> /\ UNCHANGED <<cursor, closed, ended, finished>>
          /\ got' = [got EXCEPT ![s] = Append(got[s], Head(buffer[s]))]
          /\ buffer' = [buffer EXCEPT ![s] = Tail(buffer[s])]
          /\ at' = [at EXCEPT ![s] = "idle"]
      BY <2>6 DEF Return, objVars, Goto
    <3>2. ended[s] = "no"  BY <2>0, <3>1
    <3>3. /\ Head(buffer[s]) = Len(got[s]) + 1 /\ Head(buffer[s]) \in Nat
          /\ Len(buffer[s]) \in Nat \ {0} /\ Len(Tail(buffer[s])) = Len(buffer[s]) - 1
          /\ CountsFrom(Len(got[s]) + 1, Tail(buffer[s]))
      BY <2>0, <3>1, <3>2, CountsTail
    <3>4. /\ Len(Append(got[s], Head(buffer[s]))) = Len(got[s]) + 1
          /\ CountsFrom(0, Append(got[s], Head(buffer[s])))
      BY <2>0, <3>2, <3>3, CountsAppend
    <3>5. /\ got'[s] = Append(got[s], Head(buffer[s])) /\ buffer'[s] = Tail(buffer[s])
          /\ at'[s] = "idle" /\ ended'[s] = "no" /\ closed'[s] = closed[s]
          /\ cursor'[s] = cursor[s] /\ finished'[s] = finished[s]
      BY <3>1, <3>2
    <3>6. Len(got'[s]) + Len(buffer'[s]) = cursor'[s]
      BY <2>0, <3>2, <3>3, <3>4, <3>5
    <3> QED  BY <2>0, <3>2, <3>3, <3>4, <3>5, <3>6
  <2>7. CASE Create(s)
    <3>1. at[s] = "loop" /\ cursor' = cursor  BY <2>7 DEF Create, Refill
    <3>2. CASE Close(s, "raised")  BY <2>2, <3>1, <3>2
    <3>3. CASE ~Close(s, "raised")
      <4>1. at' = [at EXCEPT ![s] = "find"] /\ UNCHANGED <<closed, ended, got, buffer, finished>>
        BY <2>7, <3>3 DEF Create, Goto
      <4> QED  BY <2>0, <3>1, <4>1
    <3> QED  BY <3>2, <3>3
  <2>8. CASE Find(s) \/ CloseObject(s) \/ Destroy(s) \/ DestroyFails(s)
    <3>1. /\ UNCHANGED <<closed, ended, got, buffer, finished, cursor>>
          /\ at'[s] \in {"loop", "find", "fetch"} => at[s] \in {"loop", "find", "fetch"}
      BY <2>8 DEF Find, CloseObject, Destroy, DestroyFails, Destroyed, JustCalls, Goto, objVars
    <3> QED  BY <2>0, <3>1
  <2>9. CASE Fetch(s)
    <3>1. at[s] \in {"loop", "fetch"} /\ cursor' = [cursor EXCEPT ![s] = cursor[s] + Len(Page(s))]
      BY <2>9 DEF Fetch, Fetching, Refill
    <3>2. ended[s] = "no"  BY <2>0, <3>1
    <3>3. CASE Close(s, "raised")  BY <2>2, <3>1, <3>3
    <3>4. CASE ~Close(s, "raised")
      <4>1. /\ buffer' = [buffer EXCEPT ![s] = buffer[s] \o Page(s)]
            /\ finished' = [finished EXCEPT ![s] = Page(s) = <<>>]
            /\ at' = [at EXCEPT ![s] = "loop"] /\ UNCHANGED <<closed, ended, got>>
        BY <2>9, <3>4 DEF Fetch, Parses, Goto
      <4>2. /\ Page(s) \in Seq(Nat) /\ Len(Page(s)) \in Nat /\ CountsFrom(cursor[s], Page(s))
            /\ Page(s) = <<>> => cursor[s] = Items
            /\ cursor[s] \in Nat
        BY PageShape
      <4>3. Len(buffer[s]) \in Nat /\ cursor[s] = Len(got[s]) + Len(buffer[s])
        BY <2>0, <3>2, LenProperties
      <4>4. /\ Len(buffer[s] \o Page(s)) = Len(buffer[s]) + Len(Page(s))
            /\ CountsFrom(Len(got[s]), buffer[s] \o Page(s))
        BY <2>0, <3>2, <4>2, <4>3, CountsConcat
      <4>5. /\ buffer'[s] = buffer[s] \o Page(s) /\ finished'[s] = (Page(s) = <<>>)
            /\ got'[s] = got[s] /\ ended'[s] = "no" /\ closed'[s] = closed[s]
            /\ cursor'[s] = cursor[s] + Len(Page(s))
        BY <3>1, <3>2, <4>1
      <4>6. Len(got'[s]) + Len(buffer'[s]) = cursor'[s]
        BY <2>0, <4>2, <4>3, <4>4, <4>5
      <4>7. finished'[s] => cursor'[s] = Items
        <5>1. Page(s) = <<>> => Len(Page(s)) = 0  BY <4>2, EmptySeq
        <5>2. Page(s) = <<>> => cursor'[s] = Items
          <6>1. cursor[s] + 0 = cursor[s]  BY <4>2
          <6> QED  BY <4>2, <4>5, <5>1, <6>1
        <5>3. finished'[s] => Page(s) = <<>>  BY <4>5
        <5> QED  BY <5>2, <5>3
      <4> QED  BY <2>0, <3>2, <4>4, <4>5, <4>6, <4>7
    <3> QED  BY <3>3, <3>4
  <2> QED  BY <1>1, <2>3, <2>4, <2>5, <2>6, <2>7, <2>8, <2>9 DEF SearchStep
<1>2. CASE OtherStep \/ UNCHANGED vars
  <2>1. UNCHANGED <<iterVars, cursor>>  BY <1>2, OthersKeep
  <2> QED  BY <2>1 DEF ItemInv, iterVars
<1> QED  BY <1>1, <1>2, Steps

-----------------------------------------------------------------------------
(* What a step does to the streams: nothing, or one of them moves on.      *)
LEMMA StreamSteps ==
  ASSUME StreamTypes, OtherStep, UNCHANGED <<phase, early>>, ~SweepStream
  PROVE  \/ UNCHANGED <<stream, owned, sweep>>
         \/ \E p \in Streams :
              \/ stream[p] = "none" /\ stream' = [stream EXCEPT ![p] = "new"]
                 /\ owned' = owned \cup {p} /\ sweep' = sweep
              \/ stream[p] = "new" /\ stream' = [stream EXCEPT ![p] = "active"]
                 /\ owned' = owned /\ sweep' = sweep
              \/ stream' = [stream EXCEPT ![p] = "closed"] /\ owned' = owned \ {p} /\ sweep' = sweep \ {p}
<1>1. CASE \E p \in Playbacks : CreatePlayback(p)
  BY <1>1 DEF CreatePlayback, Creates, closeVars, Streams
<1>2. CASE \E p \in Lives : CreateLive(p)
  BY <1>2 DEF CreateLive, Creates, closeVars, Streams
<1>3. CASE \E p \in Streams : StartStream(p) \/ CloseStream(p)
  BY <1>3 DEF StartStream, CloseStream, Closed, closeVars
<1>4. CASE Verify \/ Verified \/ VerificationFails \/ Query \/ KeepaliveRejected \/ RecorderExpires
  BY <1>4 DEF Verify, Verified, VerificationFails, Query, KeepaliveRejected, RecorderExpires,
              streamVars, closeVars
<1>5. CASE BeginClose \/ SweepPlaybacks \/ SweepLives \/ Swept \/ Logout
  BY <1>5 DEF BeginClose, SweepPlaybacks, SweepLives, Swept, Logout, streamVars
<1> QED  BY <1>1, <1>2, <1>3, <1>4, <1>5 DEF OtherStep

(* The first half of ClosedClientIsQuiet: the streams.                     *)
Early == phase \in {"logout", "closed"} => \A p \in early : stream[p] = "closed"

(* close() finds every stream of the client, whoever else closes them: one *)
(* that is open is still the client's, or in the loop's hands.             *)
LEMMA StreamStep ==
  ASSUME StreamTypes, StreamInv, Early, [Next]_vars
  PROVE  StreamTypes' /\ StreamInv' /\ Early'
<1> USE DEF StreamTypes, StreamInv, Early
<1>1. CASE /\ UNCHANGED <<stream, owned, sweep, early>>
           /\ phase' = phase \/ phase' \in {"open", "failed"}
  BY <1>1 DEF Phases
<1>2. ASSUME UNCHANGED <<phase, early>>, NEW p \in Streams,
             \/ stream[p] = "none" /\ stream' = [stream EXCEPT ![p] = "new"]
                /\ owned' = owned \cup {p} /\ sweep' = sweep
             \/ stream[p] = "new" /\ stream' = [stream EXCEPT ![p] = "active"]
                /\ owned' = owned /\ sweep' = sweep
             \/ stream' = [stream EXCEPT ![p] = "closed"] /\ owned' = owned \ {p} /\ sweep' = sweep \ {p}
      PROVE  StreamTypes' /\ StreamInv' /\ Early'
  <2>1. CASE stream[p] = "none" /\ stream' = [stream EXCEPT ![p] = "new"]
             /\ owned' = owned \cup {p} /\ sweep' = sweep
    <3>1. p \notin early  BY <2>1
    <3> QED  BY <1>2, <2>1, <3>1
  <2>2. CASE stream[p] = "new" /\ stream' = [stream EXCEPT ![p] = "active"]
             /\ owned' = owned /\ sweep' = sweep
    BY <1>2, <2>2
  <2>3. CASE stream' = [stream EXCEPT ![p] = "closed"] /\ owned' = owned \ {p} /\ sweep' = sweep \ {p}
    BY <1>2, <2>3
  <2> QED  BY <1>2, <2>1, <2>2, <2>3
<1>3. CASE OtherStep
  <2>1. CASE UNCHANGED <<phase, early>> /\ ~SweepStream
    BY <1>1, <1>2, <1>3, <2>1, StreamSteps
  <2>2. CASE SweepStream
    <3>1. PICK p \in sweep : Closed(p) /\ sweep' = sweep \ {p}  BY <2>2 DEF SweepStream
    <3>2. UNCHANGED <<phase, early>>  BY <2>2 DEF SweepStream
    <3>3. CASE p \in Streams  BY <1>2, <3>1, <3>2, <3>3 DEF Closed
    <3>4. CASE p \notin Streams
      <4>1. stream' = stream /\ owned' = owned
        BY <3>1, <3>4 DEF Closed
      <4> QED  BY <3>1, <3>2, <3>4, <4>1 DEF Streams
    <3> QED  BY <3>3, <3>4
  <2>3. CASE Verified \/ VerificationFails
    BY <1>1, <2>3 DEF Verified, VerificationFails, streamVars
  <2>4. CASE BeginClose
    <3>1. phase' = "stopped" /\ early' = owned /\ UNCHANGED <<stream, owned, sweep>>
      BY <2>4 DEF BeginClose, streamVars
    <3> QED  BY <3>1 DEF Phases
  <2>5. CASE SweepPlaybacks
    <3>1. phase' = "playbacks" /\ sweep' = owned \cap Playbacks /\ UNCHANGED <<stream, owned, early>>
      BY <2>5 DEF SweepPlaybacks, streamVars
    <3> QED  BY <3>1 DEF Phases
  <2>6. CASE SweepLives
    <3>1. /\ phase = "playbacks" /\ sweep = {} /\ phase' = "lives" /\ sweep' = owned \cap Lives
          /\ UNCHANGED <<stream, owned, early>>
      BY <2>6 DEF SweepLives, streamVars
    <3> QED  BY <3>1 DEF Phases
  <2>7. CASE Swept
    <3>1. /\ phase = "lives" /\ sweep = {} /\ phase' = "logout"
          /\ UNCHANGED <<stream, owned, early>>
      BY <2>7 DEF Swept, streamVars
    <3>2. \A p \in early : stream[p] = "closed"  BY <3>1 DEF Streams
    <3> QED  BY <3>1, <3>2 DEF Phases
  <2>8. CASE Logout
    <3>1. phase = "logout" /\ phase' = "closed" /\ UNCHANGED <<stream, owned, early>>
      BY <2>8 DEF Logout, streamVars
    <3> QED  BY <3>1 DEF Phases
  <2>9. CASE ~(Verified \/ VerificationFails \/ BeginClose \/ SweepPlaybacks \/ SweepLives \/ Swept \/ Logout)
    <3>1. UNCHANGED <<phase, early>>
      BY <1>3, <2>9 DEF OtherStep, Verify, CreatePlayback, CreateLive, StartStream, CloseStream, Query,
         SweepStream, KeepaliveRejected, RecorderExpires, closeVars
    <3> QED  BY <2>1, <2>2, <3>1
  <2> QED  BY <2>3, <2>4, <2>5, <2>6, <2>7, <2>8, <2>9
<1>4. ASSUME NEW s \in Searches, SearchStep(s) PROVE StreamTypes' /\ StreamInv' /\ Early'
  BY <1>1, <1>4, SearchesKeep DEF streamVars, closeVars
<1>5. CASE UNCHANGED vars
  BY <1>1, <1>5 DEF vars, streamVars, closeVars
<1> QED  BY <1>3, <1>4, <1>5, Steps

(* The second half: the session and the keepalive thread.                  *)
Quiet == phase = "closed" /\ ~late => session = 0 /\ keeper = "none" /\ live \subseteq lost

(* A client that has been closed and not used since has nothing left.      *)
LEMMA QuietStep ==
  ASSUME ConnTypes, SessionInv, Quiet, [Next]_vars
  PROVE  Quiet'
<1> USE DEF Quiet
<1>1. ASSUME phase' = phase \/ phase' # "closed", Calls PROVE Quiet'
  <2>1. CASE phase' = "closed" /\ ~late'
    <3>1. phase = "closed"  BY <1>1, <2>1
    <3>2. CASE Posts
      <4>1. ~late  BY <2>1, <3>2 DEF Posts, connVars
      <4>2. session = 0  BY <3>1, <4>1
      <4>3. late'  BY <3>1, <3>2, <4>2 DEF Posts
      <4> QED  BY <2>1, <4>3
    <3>3. CASE PostsNothing
      <4>1. /\ late' = late /\ session' = session /\ keeper' = keeper
            /\ \/ live' = live /\ lost' = lost
               \/ live' = live \cup {logins + 1} /\ lost' = lost \cup {logins + 1}
        BY <3>3 DEF PostsNothing, connVars
      <4> QED  BY <2>1, <3>1, <4>1
    <3> QED  BY <1>1, <3>2, <3>3 DEF Calls
  <2> QED  BY <2>1
<1>2. CASE Logout
  <2>1. SessionInv'  BY SessionStep
  <2>2. session' = 0 /\ keeper' = "none"  BY <1>2 DEF Logout
  <2>3. ConnTypes'  BY SessionStep
  <2>4. live' \subseteq lost'  BY <2>1, <2>2, <2>3 DEF SessionInv, ConnTypes
  <2> QED  BY <2>2, <2>4
<1>3. CASE RecorderExpires \/ KeepaliveRejected \/ BeginClose
  BY <1>3 DEF RecorderExpires, KeepaliveRejected, BeginClose, Ends, closeVars
<1>4. CASE UNCHANGED connVars /\ (phase' = phase \/ phase' # "closed")
  BY <1>4 DEF connVars
<1>5. ASSUME NEW s \in Searches, SearchStep(s)
      PROVE  phase' = phase /\ (Calls \/ UNCHANGED connVars)
  <2>1. phase' = phase  BY <1>5, SearchesKeep DEF closeVars
  <2> QED
    BY <1>5, <2>1 DEF SearchStep, AskClose, Iterate, Return, Exhaust, Create, Find, Fetch, FetchLost, Fail,
       CloseObject, Destroy, DestroyFails, Destroyed, JustCalls, Calls
<1>6. CASE OtherStep /\ ~(Logout \/ RecorderExpires \/ KeepaliveRejected \/ BeginClose)
  <2>1. phase' = phase \/ phase' # "closed"
    BY <1>6 DEF OtherStep, Verify, Verified, VerificationFails, CreatePlayback, CreateLive,
       StartStream, CloseStream, Query, SweepPlaybacks, SweepLives, SweepStream, Swept, closeVars
  <2>2. Calls \/ UNCHANGED connVars
    BY <1>6 DEF OtherStep, Verify, Verified, VerificationFails, CreatePlayback, CreateLive,
       StartStream, CloseStream, Query, SweepPlaybacks, SweepLives, SweepStream, Swept,
       JustCalls, Calls
  <2> QED  BY <1>1, <1>4, <2>1, <2>2
<1>7. CASE UNCHANGED vars  BY <1>4, <1>7 DEF vars, closeVars
<1> QED  BY <1>1, <1>2, <1>3, <1>4, <1>5, <1>6, <1>7, Steps

-----------------------------------------------------------------------------
(* The invariant holds at the beginning ...                                *)
LEMMA InitInv ==
  ASSUME Init PROVE IInv
<1> USE DEF Init
<1>0. <<>> \in Seq(Nat) /\ Len(<<>>) = 0  BY EmptySeq
<1>1. ConnTypes /\ StreamTypes  BY DEF ConnTypes, StreamTypes, Phases
<1>2. IterTypes  BY DEF IterTypes
<1>3. ItemTypes  BY <1>0, ItemsAssumption DEF ItemTypes
<1>4. SessionInv  BY DEF SessionInv
<1>5. ObjectInv  BY DEF ObjectInv, SearchObjectsAreReturned
<1>6. ItemInv
  <2>1. \A n : CountsFrom(n, <<>>)  BY <1>0 DEF CountsFrom
  <2> QED  BY <1>0, <2>1 DEF ItemInv
<1>7. StreamInv /\ ClosedClientIsQuiet  BY DEF StreamInv, ClosedClientIsQuiet
<1> QED  BY <1>1, <1>2, <1>3, <1>4, <1>5, <1>6, <1>7 DEF IInv, TypeOK

(* ... and every step keeps it.                                            *)
LEMMA StepInv ==
  ASSUME IInv, [Next]_vars PROVE IInv'
<1>1. ConnTypes' /\ SessionInv'  BY SessionStep DEF IInv, TypeOK
<1>2. IterTypes' /\ ObjectInv'  BY ObjectStep DEF IInv
<1>3. ItemTypes' /\ ItemInv'  BY ItemTypesStep, ItemStep DEF IInv
<1>4. StreamTypes' /\ StreamInv' /\ Early'  BY StreamStep DEF IInv, TypeOK, ClosedClientIsQuiet, Early
<1>5. Quiet'  BY QuietStep DEF IInv, TypeOK, ClosedClientIsQuiet, Quiet
<1>6. ClosedClientIsQuiet'  BY <1>4, <1>5 DEF ClosedClientIsQuiet, Early, Quiet
<1> QED  BY <1>1, <1>2, <1>3, <1>4, <1>6 DEF IInv, TypeOK

(* The invariant, for every behaviour.                                     *)
LEMMA Invariance == Spec => []IInv
BY InitInv, StepInv, PTL DEF Spec

(* No search object of the recorder is forgotten, however an iteration     *)
(* ends, for any number of searches that share the session.                *)
THEOREM ObjectsAreReturned == Spec => []SearchObjectsAreReturned
<1>1. IInv => SearchObjectsAreReturned  BY DEF IInv, ObjectInv
<1> QED  BY <1>1, Invariance, PTL

(* A search that ends of itself has returned every item, in order, for any *)
(* number of items and any page size.                                      *)
THEOREM ExhaustedIsComplete == Spec => []ExhaustionIsReal
<1>1. IInv => ExhaustionIsReal  BY DEF IInv, ItemInv, ExhaustionIsReal
<1> QED  BY <1>1, Invariance, PTL

(* close() leaves nothing behind, whatever is created, started or closed   *)
(* while it runs.                                                          *)
THEOREM ClosingReleases == Spec => []ClosedClientIsQuiet
<1>1. IInv => ClosedClientIsQuiet  BY DEF IInv
<1> QED  BY <1>1, Invariance, PTL

-----------------------------------------------------------------------------
(* The variables hold what they are meant to hold.                         *)
THEOREM TypeCorrect == Spec => []TypeOK
<1>1. IInv => TypeOK  BY DEF IInv
<1> QED  BY <1>1, Invariance, PTL

(* A step returns an item of an iterator that has not ended, or none.      *)
LEMMA OnlyOpenReturn ==
  ASSUME IInv, [Next]_vars, NEW s \in Searches
  PROVE  got'[s] = got[s] \/ (~closed[s] /\ ended'[s] = "no")
<1>1. CASE UNCHANGED got  BY <1>1
<1>2. CASE Return(s)
  <2>1. at[s] = "loop" /\ UNCHANGED <<ended, closed>>  BY <1>2 DEF Return
  <2>2. ~closed[s] /\ ended[s] = "no"  BY <2>1 DEF IInv, ItemInv
  <2> QED  BY <2>1, <2>2
<1>3. ASSUME NEW r \in Searches, r # s, Return(r) PROVE got'[s] = got[s]
  BY <1>3 DEF Return, IInv, TypeOK, ItemTypes
<1>4. (\E r \in Searches : Return(r)) \/ UNCHANGED got
  <2>1. ASSUME NEW r \in Searches, SearchStep(r), ~Return(r) PROVE UNCHANGED got
    BY <2>1 DEF SearchStep, AskClose, Iterate, Exhaust, Create, Find, Fetch, FetchLost, Fail,
       CloseObject, Destroy, DestroyFails, Destroyed, Close, JustCalls
  <2>2. CASE OtherStep \/ UNCHANGED vars  BY <2>2, OthersKeep DEF iterVars
  <2> QED  BY <2>1, <2>2, Steps
<1> QED  BY <1>1, <1>2, <1>3, <1>4

(* However a search ends, broken off by its user, by an error or by the    *)
(* close of the client, what it has returned is the beginning of what the  *)
(* recorder has: no item twice, none skipped.                              *)
ReturnedInOrder == \A s \in Searches : CountsFrom(0, got[s])

THEOREM BrokenOffIsInOrder == Spec => []ReturnedInOrder
<1>1. Init => ReturnedInOrder
  BY DEF Init, ReturnedInOrder, CountsFrom
<1>2. IInv /\ IInv' /\ ReturnedInOrder /\ [Next]_vars => ReturnedInOrder'
  <2> SUFFICES ASSUME IInv, IInv', ReturnedInOrder, [Next]_vars, NEW s \in Searches
               PROVE  CountsFrom(0, got[s])'
    BY DEF ReturnedInOrder
  <2>1. CASE got'[s] = got[s]  BY <2>1 DEF ReturnedInOrder, CountsFrom
  <2>2. CASE ended'[s] = "no"  BY <2>2 DEF IInv, ItemInv
  <2> QED  BY <2>1, <2>2, OnlyOpenReturn
<1> QED  BY <1>1, <1>2, Invariance, PTL DEF Spec

(* A search that has ended, or has been closed, returns nothing more.      *)
EndedReturnNothing == [][\A s \in Searches : closed[s] => got'[s] = got[s]]_vars

THEOREM EndIsFinal == Spec => EndedReturnNothing
<1>1. IInv /\ [Next]_vars => [\A s \in Searches : closed[s] => got'[s] = got[s]]_vars
  BY OnlyOpenReturn
<1> QED  BY <1>1, Invariance, PTL DEF Spec, EndedReturnNothing
=============================================================================
