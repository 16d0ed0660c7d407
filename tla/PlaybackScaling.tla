--------------------------- MODULE PlaybackScaling ---------------------------
(***************************************************************************)
(* The scaling probe, src/tools/probe_playback_scaling.py: it looks for a  *)
(* window that many cameras recorded, and then plays their recordings in   *)
(* stages, each of which opens sessions in a pool of worker threads,       *)
(* measures them and is to close what it opened before the next begins.    *)
(*                                                                         *)
(* A session is named by the section of main() that opens it, its role and *)
(* its number.  What a playback does inside is Playback.tla; that close()  *)
(* ends its connection whether it raises or not is Client.tla.             *)
(***************************************************************************)
EXTENDS Integers, Sequences, FiniteSets

CONSTANTS
  Cameras,        \* cameras 1..Cameras
  MaxTime,        \* recordings lie in 0..MaxTime
  MaxRecordings,  \* bound: recordings of a camera
  ActiveTarget,   \* ACTIVE_TARGET
  PressurePairs   \* active and prepared sessions of the pressure stage

ASSUME CamerasAssumption == Cameras \in Nat /\ MaxTime \in Nat /\ MaxRecordings \in Nat
ASSUME TargetsAssumption == ActiveTarget \in Nat \ {0, 1} /\ PressurePairs \in 1..ActiveTarget

Channels == 1..Cameras
Modes    == {"all", "fresh", "baseline", "pressure", "high", "hold"}
None     == [path |-> 0, start |-> 0, end |-> 0]

VARIABLES
  recordings,   \* of each channel, in the order of its search
  window,       \* _best_common_window: selections, start and end
  adjacent,     \* the recording to prepare, of each selected channel
  pairs,        \* how many there are
  mode,         \* DAHUA_SCALING_STAGE
  section,      \* the part of main(): 0 is discovery, 6 the end of the client
  step,         \* where its stage is; "idle" between stages
  checked,      \* the section's stage has run: its fresh check is due
  work,         \* the values a pool is working on, and how far it is
  reach,        \* the playbacks the stage holds, and will close
  trouble,      \* what the reports of the stages say went wrong
  raised,       \* an exception is on its way out of main()
  (* the recorder, and a ghost *)
  open,         \* its sessions
  dropped       \* those whose worker raised after it had opened them

planVars  == <<recordings, window, adjacent, pairs>>
mainVars  == <<mode, section, checked, trouble, raised>>
vars == <<planVars, mainVars, step, work, reach, open, dropped>>

-----------------------------------------------------------------------------
(* Discovery *)

Last(S) == CHOOSE i \in S : \A j \in S : j <= i

(* mutation: a recording stays active until another one starts *)
ActiveForever(found) ==
  LET active[t \in -1..MaxTime] == [c \in Channels |->
        LET items  == found[c]
            starts == {i \in DOMAIN items : items[i].start = t}
        IN  CASE t = -1 -> None
              [] t # -1 /\ starts # {} -> items[Last(starts)]
              [] OTHER -> active[t - 1][c]]
  IN  active

(* What is active in each channel after the events of a time: ends are     *)
(* sorted before starts; an end takes a recording away only if it is the   *)
(* active one, and a start takes the place of what was active.             *)
Active(found) ==
  LET active[t \in -1..MaxTime] == [c \in Channels |->
        LET items  == found[c]
            starts == {i \in DOMAIN items : items[i].start = t}
        IN  CASE t = -1 -> None
              [] t # -1 /\ starts # {} -> items[Last(starts)]
              [] OTHER -> IF active[t - 1][c].end = t THEN None ELSE active[t - 1][c]]
  IN  active

Selected(active) == {c \in Channels : active[c] # None}

(* The times of events, and the windows between one and the next. *)
Candidates(found) ==
  LET times == UNION {UNION {{found[c][i].start, found[c][i].end} : i \in DOMAIN found[c]}
                        : c \in Channels}
      active == Active(found)
      between == {p \in times \X times :
                    /\ p[1] < p[2] /\ Selected(active[p[1]]) # {}
                    /\ ~\E t \in times : p[1] < t /\ t < p[2]}
  IN  {[selections |-> active[p[1]], start |-> p[1], end |-> p[2]] : p \in between}

(* More cameras, or as many for longer; the first of those that are equal. *)
Better(v, w) ==
  LET n == Cardinality(Selected(v.selections))
      m == Cardinality(Selected(w.selections))
      longer == (v.end - v.start) - (w.end - w.start)
  IN  n > m \/ (n = m /\ (longer > 0 \/ (longer = 0 /\ v.start <= w.start)))

(* The first ActiveTarget of the selections. *)
Chosen(w) == {c \in Selected(w.selections) :
                Cardinality({d \in Selected(w.selections) : d < c}) < ActiveTarget}

NoWindow == [selections |-> [c \in Channels |-> None], start |-> 0, end |-> 0]

BestCommonWindow(found) ==
  LET all == Candidates(found)
  IN  IF all = {} THEN NoWindow ELSE CHOOSE v \in all : \A w \in all : Better(v, w)

(* The first recording after the current one has ended, or else the first  *)
(* that does not start before it.                                          *)
NextRecording(current, items) ==
  LET later  == {i \in DOMAIN items : items[i].path # current.path /\ items[i].start >= current.start}
      after  == {i \in later : items[i].start >= current.end}
      Before(i, j) == \/ items[i].start < items[j].start
                      \/ items[i].start = items[j].start /\ items[i].end < items[j].end
                      \/ items[i].start = items[j].start /\ items[i].end = items[j].end /\ i <= j
      First(S) == items[CHOOSE i \in S : \A j \in S : Before(i, j)]
  IN  CASE after # {} -> First(after)
        [] after = {} /\ later # {} -> First(later)
        [] OTHER -> None

-----------------------------------------------------------------------------
Interval == {p \in (0..MaxTime) \X (0..MaxTime) : p[1] <= p[2]}

(* The recordings of a channel: one after another as the search returns    *)
(* them, each in a file of its own.                                        *)
Found ==
  LET recs == {[i \in DOMAIN f |-> [path |-> i, start |-> f[i][1], end |-> f[i][2]]] :
                 f \in UNION {[1..n -> Interval] : n \in 0..MaxRecordings}}
  IN  {items \in recs : \A i, j \in DOMAIN items : i < j => items[i].start <= items[j].start}

Nothing == [c \in Channels |-> <<>>]

Init ==
  /\ recordings \in [Channels -> Found]
  /\ window = NoWindow /\ pairs = 0 /\ adjacent = [c \in Channels |-> None]
  /\ mode = "all" /\ section = 0 /\ step = "search" /\ checked = FALSE
  /\ work = <<>> /\ reach = {} /\ trouble = {} /\ raised = FALSE
  /\ open = {} /\ dropped = {}

(* The window and, for the cameras selected, the recordings that follow.   *)
Discover ==
  /\ step = "search"
  /\ LET best == BestCommonWindow(recordings) IN
       /\ window' = best
       /\ adjacent' = [c \in Channels |->
            IF c \in Chosen(best) THEN NextRecording(best.selections[c], recordings[c]) ELSE None]
  /\ pairs' = Cardinality({c \in Channels : adjacent'[c] # None})
  /\ step' = "plan"
  /\ UNCHANGED <<recordings, mainVars, work, reach, open, dropped>>

(* No window raises, and too few cameras end the probe.  (From here on     *)
(* only how many there are matters, and which stages are asked for.)       *)
Plan ==
  /\ step = "plan"
  /\ IF Cardinality(Selected(window.selections)) >= ActiveTarget
       THEN section' = 1
       ELSE section' = 6
  /\ mode' \in Modes /\ step' = "idle"
  /\ recordings' = Nothing /\ window' = NoWindow /\ adjacent' = [c \in Channels |-> None]
  /\ UNCHANGED <<pairs, checked, trouble, raised, work, reach, open, dropped>>

-----------------------------------------------------------------------------
(* main(): the sections, and what they wait for *)

Reported(sect, what) == <<sect, what>> \in trouble

(* mutation: sessions that did not start do not count *)
BaselineStableOnceStarted == mode # "all" \/ {<<2, "media">>, <<2, "silent">>} \cap trouble = {}

BaselineStable == mode # "all" \/ {<<2, "start">>, <<2, "media">>, <<2, "silent">>} \cap trouble = {}

(* It does not ask whether the active sessions of that stage started.      *)
PressureStable ==
  mode # "all" \/ {<<3, "not run">>, <<3, "prepared">>, <<3, "media">>, <<3, "resume">>} \cap trouble = {}

Due(sect) ==
  CASE sect = 1 -> mode = "fresh"
    [] sect = 2 -> mode \in {"all", "baseline"}
    [] sect = 3 -> mode \in {"all", "pressure"} /\ BaselineStable /\ pairs >= PressurePairs
    [] sect = 4 -> mode \in {"all", "high"} /\ BaselineStable /\ PressureStable /\ pairs > 0
    [] sect = 5 -> mode \in {"all", "hold"}

Batch(role, n) == [x \in {<<section, role, i>> : i \in 1..n} |-> "todo"]
Again(values) == [x \in values |-> "todo"]

(* The fresh check is all there is of the first section. *)
Enter ==
  /\ step = "idle" /\ section \in 1..5 /\ ~checked /\ ~raised
  /\ Due(section)
  /\ CASE section = 1 -> work' = Batch("fresh", 1) /\ step' = "fresh"
       [] section \in {2, 4} -> work' = Batch("active", ActiveTarget) /\ step' = "start"
       [] section = 3 -> work' = Batch("active", PressurePairs) /\ step' = "start"
       [] section = 5 -> work' = Batch("prepared", 1) /\ step' = "hold"
  /\ UNCHANGED <<planVars, mainVars, reach, open, dropped>>

Skip ==
  /\ step = "idle" /\ section \in 1..5 /\ ~checked /\ ~raised
  /\ ~Due(section)
  /\ section' = section + 1
  /\ trouble' = IF section = 3 THEN trouble \cup {<<3, "not run">>} ELSE trouble
  /\ UNCHANGED <<planVars, mode, checked, raised, step, work, reach, open, dropped>>

(* After its stage, every section plays one recording afresh. *)
Recheck ==
  /\ step = "idle" /\ checked /\ ~raised
  /\ work' = Batch("fresh", 1) /\ step' = "fresh"
  /\ UNCHANGED <<planVars, mainVars, reach, open, dropped>>

-----------------------------------------------------------------------------
(* The pool: _run_concurrently, and what its threads do *)

Opening == {"start", "prepare", "fresh", "hold"}

(* playback.start() *)
Open(x) ==
  /\ step \in Opening /\ work[x] = "todo"
  /\ \/ work' = [work EXCEPT ![x] = "started"] /\ open' = open \cup {x}
     \/ work' = [work EXCEPT ![x] = "raised"] /\ UNCHANGED open
  /\ UNCHANGED <<planVars, mainVars, step, reach, dropped>>

(* The rest of _start_selection and _prepare_one: an exception loses the   *)
(* playback with the local variable that held it.                          *)
Settle(x) ==
  /\ step \in Opening /\ work[x] = "started"
  /\ \/ work' = [work EXCEPT ![x] = "done"] /\ UNCHANGED dropped
     \/ work' = [work EXCEPT ![x] = "raised"] /\ dropped' = dropped \cup {x}
  /\ UNCHANGED <<planVars, mainVars, step, reach, open>>

(* _receive_for, or resume: media, none, or an exception. *)
Measure(x) ==
  /\ step \notin Opening /\ work[x] = "todo"
  /\ \E outcome \in {"done", "silent", "raised"} : work' = [work EXCEPT ![x] = outcome]
  /\ UNCHANGED <<planVars, mainVars, step, reach, open, dropped>>

Finished == \A x \in DOMAIN work : work[x] \notin {"todo", "started"}
Results  == {x \in DOMAIN work : work[x] # "raised"}
Errors   == Results # DOMAIN work

(* What the report of a stage says of the batch that has finished. *)
Reports(what) ==
  trouble' = trouble \cup (IF Errors THEN {<<section, what>>} ELSE {})
                     \cup (IF what = "media" /\ \E x \in Results : work[x] = "silent"
                             THEN {<<section, "silent">>} ELSE {})

(* On to another batch, or to the finally clause. *)
Goto(where, values) == step' = where /\ work' = Again(values)

Leave == Goto("cleanup", {})

Of(role) == {x \in reach : x[2] = role}

-----------------------------------------------------------------------------
(* _active_stage *)

(* A pool for no playback at all is a ValueError.  *)
ActiveStarted ==
  /\ step = "start" /\ section = 2 /\ Finished
  /\ reach' = Results
  /\ Reports("start")
  /\ raised' = (Results = {})
  /\ CASE Results = {} -> Leave
       [] Results # {} /\ Errors -> Goto("existing", Results)
       [] Results # {} /\ ~Errors -> Goto("receive", Results)
  /\ UNCHANGED <<planVars, mode, section, checked, open, dropped>>

ExistingReceived ==
  /\ step \in {"existing", "remaining"} /\ Finished
  /\ Leave
  /\ UNCHANGED <<planVars, mainVars, reach, open, dropped>>

First == CHOOSE x \in reach : \A y \in reach : x[3] <= y[3]

(* One is closed, the others receive on; unless its close() raises.  *)
ActiveReceived ==
  /\ step = "receive" /\ section = 2 /\ Finished
  /\ Reports("media")
  /\ open' = open \ {First}
  /\ \/ /\ reach' = reach \ {First}
        /\ Goto("remaining", reach') /\ UNCHANGED raised
     \/ UNCHANGED reach /\ raised' = TRUE /\ Leave
  /\ UNCHANGED <<planVars, mode, section, checked, dropped>>

-----------------------------------------------------------------------------
(* _pressure_stage *)

PressureStarted ==
  /\ step = "start" /\ section \in {3, 4} /\ Finished
  /\ reach' = Results
  /\ Reports("start")
  /\ IF Errors
       THEN Leave
       ELSE step' = "prepare" /\ work' = Batch("prepared", IF section = 3 THEN PressurePairs ELSE pairs)
  /\ UNCHANGED <<planVars, mode, section, checked, raised, open, dropped>>

(* mutation: what was prepared is not kept when another one failed *)
PreparedOrNone ==
  /\ step = "prepare" /\ Finished
  /\ reach' = reach \cup (IF Errors THEN {} ELSE Results)
  /\ Reports("prepared")
  /\ Goto("receive", Of("active"))
  /\ UNCHANGED <<planVars, mode, section, checked, raised, open, dropped>>

Prepared ==
  /\ step = "prepare" /\ Finished
  /\ reach' = reach \cup Results
  /\ Reports("prepared")
  /\ Goto("receive", Of("active"))
  /\ UNCHANGED <<planVars, mode, section, checked, raised, open, dropped>>

PressureReceived ==
  /\ step = "receive" /\ section \in {3, 4} /\ Finished
  /\ Reports("media")
  /\ IF ~Reported(section, "prepared") /\ section = 3
       THEN Goto("resume", Of("prepared"))
       ELSE Leave
  /\ UNCHANGED <<planVars, mode, section, checked, raised, reach, open, dropped>>

(* The active ones are closed, whatever they raise. *)
Resumed ==
  /\ step = "resume" /\ Finished
  /\ Reports("resume")
  /\ open' = open \ Of("active")
  /\ reach' = reach \ Of("active")
  /\ Goto("post", Of("prepared"))
  /\ UNCHANGED <<planVars, mode, section, checked, raised, dropped>>

PreparedReceived ==
  /\ step = "post" /\ Finished
  /\ Leave
  /\ UNCHANGED <<planVars, mainVars, reach, open, dropped>>

-----------------------------------------------------------------------------
(* The finally clauses: _close_all of what the stage holds *)

CloseAll ==
  /\ step = "cleanup"
  /\ open' = open \ reach /\ reach' = {}
  /\ step' = "idle" /\ checked' = TRUE
  /\ UNCHANGED <<planVars, mode, section, trouble, raised, work, dropped>>

(* _hold_prepared: resumed after a minute, and closed. *)
Held ==
  /\ step = "hold" /\ Finished
  /\ reach' = Results /\ raised' = Errors
  /\ IF Errors THEN Leave ELSE Goto("held", Results)
  /\ UNCHANGED <<planVars, mode, section, checked, trouble, open, dropped>>

Released ==
  /\ step = "held" /\ Finished
  /\ open' = open \ reach /\ reach' = {}
  /\ raised' \in {Errors, TRUE}
  /\ step' = "idle" /\ work' = <<>> /\ checked' = TRUE
  /\ UNCHANGED <<planVars, mode, section, trouble, dropped>>

(* _fresh_check: the exception of the start, or of close(), is not caught. *)
FreshChecked ==
  /\ step = "fresh" /\ Finished
  /\ open' = open \ Results
  /\ raised' \in {Errors, TRUE}
  /\ step' = "idle" /\ work' = <<>> /\ checked' = FALSE
  /\ section' = section + 1
  /\ UNCHANGED <<planVars, mode, trouble, reach, dropped>>

(* The end of "with DahuaClient": the client closes what it created. *)
CloseClient ==
  /\ step = "idle" /\ (section = 6 \/ raised)
  /\ open' = {} /\ step' = "end"
  /\ UNCHANGED <<planVars, mainVars, work, reach, dropped>>

Next ==
  \/ Discover \/ Plan \/ Enter \/ Skip \/ Recheck
  \/ \E x \in DOMAIN work : Open(x) \/ Settle(x) \/ Measure(x)
  \/ ActiveStarted \/ ExistingReceived \/ ActiveReceived
  \/ PressureStarted \/ Prepared \/ PressureReceived \/ Resumed \/ PreparedReceived
  \/ CloseAll \/ Held \/ Released \/ FreshChecked \/ CloseClient

Spec == Init /\ [][Next]_vars

-----------------------------------------------------------------------------
(* Safety *)

Covers(r, s, e) == r.start <= s /\ e <= r.end

(* The recordings of a channel follow each other, and none is empty. *)
Orderly(items) ==
  /\ \A i \in DOMAIN items : items[i].start < items[i].end
  /\ \A i, j \in DOMAIN items : i < j => items[i].end <= items[j].start

(* Every recording selected covers the whole window, unless its channel    *)
(* has one of no length, which is never taken out of the sweep; and when   *)
(* recordings do not overlap, nowhere do more cameras have one, or as many *)
(* for longer, and what is prepared is the very next recording.            *)
WindowIsCommon ==
  step = "plan" =>
    /\ \A c \in Selected(window.selections) :
         (\A i \in DOMAIN recordings[c] : recordings[c][i].start < recordings[c][i].end)
           => Covers(window.selections[c], window.start, window.end)
    /\ (\A c \in Channels : Orderly(recordings[c])) =>
         /\ \A s, e \in 0..MaxTime : s < e =>
              LET common == Cardinality({c \in Channels :
                              \E i \in DOMAIN recordings[c] : Covers(recordings[c][i], s, e)})
                  found  == Cardinality(Selected(window.selections))
              IN  common = 0 \/ found > common \/ (found = common /\ e - s <= window.end - window.start)
         /\ \A c \in Chosen(window) :
              LET now == window.selections[c] IN
              \A i \in DOMAIN recordings[c] :
                recordings[c][i].start >= now.end =>
                  adjacent[c] # None /\ now.end <= adjacent[c].start
                    /\ adjacent[c].start <= recordings[c][i].start

(* The sessions open at the recorder are those the stage holds, and those  *)
(* whose worker raised after it had opened them: the number of sessions a  *)
(* stage reports is the number there is, no stage leaves one to the next,  *)
(* whatever raised in it, and none is left in the end.                     *)
SessionsAreAccountedFor ==
  /\ step \in {"existing", "receive", "remaining", "resume", "post", "held"} => open \ dropped = reach
  /\ step = "idle" => open \subseteq dropped
  /\ step = "end" => open = {}

(* What is measured is what the reports say.  While playbacks are          *)
(* measured, any other session open at the recorder is one that a worker   *)
(* lost, and the report of its stage shows an error.  Beside a pressure    *)
(* stage it is one of its own: the conditions of main() keep that stage    *)
(* away from what the stages before it lost.  (All but active sessions of  *)
(* the first pressure stage: pressure_stable does not ask for those that   *)
(* did not start.)                                                         *)
Shown(x) ==
  \/ x[2] = "active" /\ Reported(x[1], "start")
  \/ x[2] = "prepared" /\ Reported(x[1], "prepared")

OtherSessionsAreExplained ==
  step \in {"existing", "receive", "remaining", "resume", "post", "held"} =>
    \A x \in open \ reach :
      /\ Shown(x)
      /\ section \in {3, 4} => x[1] = section \/ (x[1] = 3 /\ x[2] = "active")
=============================================================================
