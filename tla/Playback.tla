------------------------------ MODULE Playback ------------------------------
(***************************************************************************)
(* Recorded playback: class RecordingPlayback of                           *)
(* src/src/dahua_rpc/playback.py, beside the recorder that plays.  The     *)
(* playback keeps a state and an estimate of the position; the recorder    *)
(* keeps the truth.  They meet in exchanges that take time, may be lost on *)
(* either side of the recorder's action, and may or may not confirm where  *)
(* the recorder is.                                                        *)
(*                                                                         *)
(* Positions and times are whole numbers of one unit, coarser than the six *)
(* digits to which seek formats a position.  The threads below an exchange *)
(* are those of RtspConnection.tla.                                        *)
(***************************************************************************)
EXTENDS Integers

CONSTANTS
  Duration,       \* length of the recording
  MaxClock,       \* bound: how long a behaviour lasts
  Seeks,          \* the arguments of seek() and, either way, seek_relative()
  MaxTarget       \* bound: the farthest position a relative seek aims at

ASSUME DurationAssumption == Duration \in Nat
ASSUME BoundsAssumption == MaxClock \in Nat /\ MaxTarget \in Nat
ASSUME SeeksAssumption == Seeks \subseteq Nat

VARIABLES
  (* the playback *)
  known,          \* the recorder tells Duration (duration is not None)
  state,          \* _state
  anchor,         \* _anchor_npt
  anchorTime,     \* _anchor_time, or Never
  (* the operation in progress *)
  op,             \* its name, or "none"
  target,         \* seek: seconds; pause and resume: the fallback
  reply,          \* the exchange: "none" yet, "ok" or "raised"
  range,          \* the position the reply confirms, or NoRange
  clock,
  (* the recorder *)
  recorder,       \* "none", "playing" or "paused"
  head,           \* where it plays
  (* ghosts *)
  lag,            \* time spent in exchanges since the recorder last told,
                  \* or was told, where to be
  trusted,        \* no exchange has been lost since then
  agreed          \* the last exchange was not lost

playVars == <<known, state, anchor, anchorTime>>
opVars   == <<op, target, reply, range>>
recVars  == <<recorder, head>>
ghosts   == <<lag, trusted, agreed>>
vars == <<playVars, opVars, clock, recVars, ghosts>>

Never == -1
NoRange == -1
Ops == {"start", "pause", "resume", "seek", "close"}

TypeOK ==
  /\ known \in BOOLEAN /\ state \in {"new", "playing", "paused", "closed"}
  /\ anchor \in Nat /\ anchorTime \in 0..clock \cup {Never}
  /\ op \in Ops \cup {"none"} /\ target \in Nat
  /\ reply \in {"none", "ok", "raised"} /\ range \in 0..Duration \cup {NoRange}
  /\ clock \in 0..MaxClock
  /\ recorder \in {"none", "playing", "paused"} /\ head \in 0..Duration
  /\ lag \in Nat /\ trusted \in BOOLEAN /\ agreed \in BOOLEAN

Init ==
  /\ known \in BOOLEAN
  /\ state = "new" /\ anchor = 0 /\ anchorTime = Never
  /\ op = "none" /\ target = 0 /\ reply = "none" /\ range = NoRange
  /\ clock = 0
  /\ recorder = "none" /\ head = 0
  /\ lag = 0 /\ trusted = TRUE /\ agreed = TRUE

-----------------------------------------------------------------------------
Least(x, y) == IF x < y THEN x ELSE y

(* _clamp *)
Clamp(p) == LET q == IF p < 0 THEN 0 ELSE p IN IF known THEN Least(q, Duration) ELSE q

estimate ==
  IF state = "playing" /\ anchorTime # Never THEN anchor + clock - anchorTime ELSE anchor

position == Clamp(estimate)

(* _range_start *)
RangeStart(fallback) == IF range # NoRange THEN range ELSE fallback

-----------------------------------------------------------------------------
(* Operations: what happens before the request, ...                        *)

Begin(name, t) ==
  /\ op = "none"
  /\ op' = name /\ target' = t /\ reply' = "none" /\ range' = NoRange
  /\ UNCHANGED <<playVars, clock, recVars, ghosts>>

BeginStart == state = "new" /\ Begin("start", 0)

(* mutation: the fallback of pause is the anchor, not the position *)
BeginPauseAtAnchor == state = "playing" /\ Begin("pause", anchor)

BeginPause == state = "playing" /\ Begin("pause", position)

BeginResume == state = "paused" /\ Begin("resume", anchor)

(* seek, and seek_relative from the current position *)
BeginSeek ==
  /\ state \in {"playing", "paused"}
  /\ \/ \E s \in Seeks : (known => s <= Duration) /\ Begin("seek", s)
     \/ \E d \in Seeks \cup {-s : s \in Seeks} :
          Clamp(position + d) <= MaxTarget /\ Begin("seek", Clamp(position + d))

(* The last position is kept; the teardown follows if there is a session.  *)
BeginClose ==
  /\ op = "none" /\ state # "closed"
  /\ op' = "close" /\ target' = 0 /\ range' = NoRange
  /\ reply' = IF state = "new" THEN "ok" ELSE "none"
  /\ anchor' = IF state = "playing" THEN position ELSE anchor
  /\ anchorTime' = IF state = "playing" THEN Never ELSE anchorTime
  /\ UNCHANGED <<known, state, clock, recVars, ghosts>>

-----------------------------------------------------------------------------
(* ... the exchange, ...                                                   *)

(* What the recorder does with a request.  A seek beyond the end of the    *)
(* recording stays at its end.                                             *)
RecorderActs ==
  \/ op \in {"start", "seek"} /\ recorder' = "playing" /\ head' = Least(target, Duration)
  \/ op = "pause"  /\ recorder' = "paused"  /\ UNCHANGED head
  \/ op = "resume" /\ recorder' = "playing" /\ UNCHANGED head
  \/ op = "close"  /\ recorder' = "none"    /\ UNCHANGED head

Exchanging == op # "none" /\ reply = "none"

(* It acts, and its reply, which names the position or not, arrives. *)
Answer ==
  /\ Exchanging
  /\ RecorderActs
  /\ reply' = "ok"
  /\ range' \in {head', NoRange}
  /\ lag' = IF op \in {"start", "seek"} \/ range' # NoRange THEN 0 ELSE lag
  /\ UNCHANGED <<playVars, op, target, clock, trusted, agreed>>

(* It acts, or does not, and the request raises. *)
Lose ==
  /\ Exchanging
  /\ RecorderActs \/ UNCHANGED recVars
  /\ reply' = "raised"
  /\ UNCHANGED <<playVars, op, target, range, clock, ghosts>>

-----------------------------------------------------------------------------
(* ... and what follows a response, or an exception.                       *)

Idle == op' = "none" /\ reply' = "none" /\ target' = 0 /\ range' = NoRange

Finish(name) ==
  /\ op = name /\ reply = "ok"
  /\ Idle
  /\ trusted' = (trusted \/ name \in {"start", "seek"} \/ range # NoRange)
  /\ agreed' = TRUE
  /\ UNCHANGED <<known, clock, recVars, lag>>

(* _set_playing_anchor *)
PlayingFrom(p) == anchor' = Clamp(p) /\ anchorTime' = clock /\ state' = "playing"

FinishStart == Finish("start") /\ PlayingFrom(RangeStart(0))

FinishPause ==
  /\ Finish("pause")
  /\ anchor' = Clamp(RangeStart(target)) /\ anchorTime' = Never /\ state' = "paused"

(* mutation: the position of the pause is lost *)
FinishResumeAtZero == Finish("resume") /\ PlayingFrom(RangeStart(0))

FinishResume == Finish("resume") /\ PlayingFrom(RangeStart(target))

(* mutation: a seek does not resume a paused playback *)
FinishSeekStill ==
  /\ Finish("seek")
  /\ anchor' = Clamp(RangeStart(target)) /\ anchorTime' = clock /\ UNCHANGED state

FinishSeek == Finish("seek") /\ PlayingFrom(RangeStart(target))

(* The finally clause: closed, whatever became of TEARDOWN.  A playback    *)
(* that is still new sends none, not even after a start that was lost.     *)
FinishClose ==
  /\ op = "close" /\ reply \in {"ok", "raised"}
  /\ Idle
  /\ state' = "closed"
  /\ agreed' = IF state = "new" THEN agreed ELSE reply = "ok"
  /\ UNCHANGED <<known, anchor, anchorTime, clock, recVars, lag, trusted>>

(* Nothing has changed on this side. *)
Raise ==
  /\ op \notin {"none", "close"} /\ reply = "raised"
  /\ Idle
  /\ trusted' = FALSE /\ agreed' = FALSE
  /\ UNCHANGED <<playVars, clock, recVars, lag>>

-----------------------------------------------------------------------------
(* Time passes; the recorder plays, and stops at the end. *)
Tick ==
  /\ clock < MaxClock
  /\ clock' = clock + 1
  /\ head' = IF recorder = "playing" THEN Least(head + 1, Duration) ELSE head
  /\ lag' = IF op = "none" THEN lag ELSE lag + 1
  /\ UNCHANGED <<playVars, opVars, recorder, trusted, agreed>>

Next ==
  \/ BeginStart \/ BeginPause \/ BeginResume \/ BeginSeek \/ BeginClose
  \/ Answer \/ Lose
  \/ FinishStart \/ FinishPause \/ FinishResume \/ FinishSeek \/ FinishClose \/ Raise
  \/ Tick

Spec == Init /\ [][Next]_vars

-----------------------------------------------------------------------------
Active == state \in {"playing", "paused"}

(* The recorder is at p or has played on from it for part of lag.          *)
Near(p) == Least(p, Duration) \in head - lag .. head

(* Between operations, position never leads the recorder, and lags behind  *)
(* it by no more than the time the exchanges took since the recorder last  *)
(* told, or was told, where to be: through any number of pauses, resumes   *)
(* and seeks, confirmed or not ("an NPT estimate anchored by               *)
(* recorder-confirmed RTSP ranges").  (Without a duration the estimate may *)
(* run past the end of the recording.)                                     *)
PositionFollowsRecorder ==
  op = "none" /\ Active /\ trusted => Near(position)

(* After an operation that succeeded the playback and the recorder agree   *)
(* on whether it plays, whatever was lost before.                          *)
StateAgrees ==
  op = "none" /\ agreed => recorder = IF Active THEN state ELSE "none"

-----------------------------------------------------------------------------
(* The inductive invariant behind the safety properties.                   *)

(* What the operations take for granted about the state they found.        *)
OpInv ==
  /\ anchorTime # Never <=> state = "playing" /\ op # "close"
  /\ op = "none" => reply = "none"
  /\ op = "start" => state = "new" /\ target = 0
  /\ op = "pause" => state = "playing"
  /\ op = "resume" => state = "paused" /\ target = anchor
  /\ op = "seek" => Active
  /\ op = "close" => state # "closed"
  /\ reply # "ok" => range = NoRange

(* Before the reply the recorder does what the playback shows; after it,   *)
(* what the reply, or else the request, says.                              *)
FollowInv ==
  /\ trusted /\ Active /\ op # "close" /\ reply = "none" => recorder = state /\ Near(position)
  /\ trusted /\ op = "pause" /\ reply = "none" => Near(target)
  /\ reply = "ok" /\ op \notin {"none", "close"} =>
       /\ recorder = IF op = "pause" THEN "paused" ELSE "playing"
       /\ range # NoRange => Near(range)
       /\ range = NoRange /\ (trusted \/ op \in {"start", "seek"}) => Near(target)
       /\ trusted /\ op \in {"pause", "resume"} /\ range # NoRange => range >= Least(target, Duration)

AgreeInv ==
  /\ agreed /\ (reply = "none" \/ (op = "close" /\ state = "new")) =>
       recorder = IF Active THEN state ELSE "none"
  /\ op = "close" /\ state # "new" /\ reply = "ok" => recorder = "none"

IInv == TypeOK /\ OpInv /\ FollowInv /\ AgreeInv

-----------------------------------------------------------------------------
(* Action properties *)

(* Pausing and resuming never take the position back behind the one the    *)
(* playback showed when the operation began.                               *)
KeepsGround == anchor' >= Least(target, Duration)

PauseKeepsGround ==
  [][(FinishPause \/ FinishResume) /\ trusted => KeepsGround]_vars
=============================================================================
