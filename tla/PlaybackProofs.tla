--------------------------- MODULE PlaybackProofs ---------------------------
(* Theorems about Playback, for every duration and every set of seeks. *)
EXTENDS Playback, TLAPS

(* A position is a natural number, and clamping it to a known duration     *)
(* changes nothing that Least does not change.                             *)
LEMMA Clamped ==
  ASSUME known \in BOOLEAN, NEW p \in Int
  PROVE  /\ Clamp(p) \in Nat
         /\ p >= 0 => Least(Clamp(p), Duration) = Least(p, Duration)
BY DurationAssumption DEF Clamp, Least

LEMMA PositionType == ASSUME TypeOK PROVE position \in Nat
<1>1. known \in BOOLEAN
  BY DEF TypeOK
<1>2. estimate \in Int
  BY DEF TypeOK, Never, estimate
<1> QED
  BY <1>1, <1>2, Clamped DEF position

(* Type correctness, step by step. *)
LEMMA TypeStep == ASSUME TypeOK, [Next]_vars PROVE TypeOK'
<1> USE DurationAssumption, BoundsAssumption, SeeksAssumption DEF TypeOK
<1>1. CASE BeginStart
  BY <1>1 DEF BeginStart, Begin, playVars, recVars, ghosts, Ops, NoRange
<1>2. CASE BeginPause
  BY <1>2, PositionType DEF BeginPause, Begin, playVars, recVars, ghosts, Ops, NoRange
<1>3. CASE BeginResume
  BY <1>3 DEF BeginResume, Begin, playVars, recVars, ghosts, Ops, NoRange
<1>4. CASE BeginSeek
  <2>1. \E t \in Nat : Begin("seek", t)
    <3>1. ASSUME NEW d \in Seeks \cup {-s : s \in Seeks} PROVE Clamp(position + d) \in Nat
      BY PositionType, Clamped
    <3> QED
      BY <1>4, <3>1 DEF BeginSeek
  <2> QED
    BY <2>1 DEF Begin, playVars, recVars, ghosts, Ops, NoRange
<1>5. CASE BeginClose
  BY <1>5, PositionType DEF BeginClose, recVars, ghosts, Ops, NoRange
<1>6. RecorderActs /\ op \in Ops => recorder' \in {"none", "playing", "paused"} /\ head' \in 0..Duration
  BY DEF RecorderActs, Ops, Least
<1>7. CASE Answer
  BY <1>7, <1>6 DEF Answer, Exchanging, playVars, NoRange
<1>8. CASE Lose
  BY <1>8, <1>6 DEF Lose, Exchanging, playVars, recVars, ghosts
<1>9. RangeStart(0) \in Nat /\ RangeStart(target) \in Nat
  BY DEF RangeStart, NoRange
<1>10. ASSUME NEW p \in Nat, PlayingFrom(p)
       PROVE  anchor' \in Nat /\ anchorTime' \in 0..clock /\ state' = "playing"
  BY <1>10, Clamped DEF PlayingFrom
<1>11. CASE FinishStart
  BY <1>11, <1>9, <1>10 DEF FinishStart, Finish, Idle, recVars, NoRange
<1>12. CASE FinishPause
  BY <1>12, <1>9, Clamped DEF FinishPause, Finish, Idle, recVars, NoRange
<1>13. CASE FinishResume
  BY <1>13, <1>9, <1>10 DEF FinishResume, Finish, Idle, recVars, NoRange
<1>14. CASE FinishSeek
  BY <1>14, <1>9, <1>10 DEF FinishSeek, Finish, Idle, recVars, NoRange
<1>15. CASE FinishClose
  BY <1>15 DEF FinishClose, Idle, recVars, NoRange
<1>16. CASE Raise
  BY <1>16 DEF Raise, Idle, playVars, recVars, NoRange
<1>17. CASE Tick
  BY <1>17 DEF Tick, playVars, opVars, Least
<1>18. CASE UNCHANGED vars
  BY <1>18 DEF vars, playVars, opVars, recVars, ghosts
<1> QED
  BY <1>1, <1>2, <1>3, <1>4, <1>5, <1>7, <1>8, <1>11, <1>12, <1>13, <1>14, <1>15, <1>16, <1>17, <1>18
  DEF Next

(* The variables of Playback keep their types. *)
THEOREM TypeCorrect == Spec => []TypeOK
<1>1. Init => TypeOK
  BY DurationAssumption, BoundsAssumption DEF Init, TypeOK, NoRange
<1> QED
  BY <1>1, TypeStep, PTL DEF Spec

-----------------------------------------------------------------------------
(* What the operations take for granted. *)
LEMMA OpStep == ASSUME TypeOK, OpInv, [Next]_vars PROVE OpInv'
<1> USE DEF TypeOK, OpInv, Ops, Active
<1>1. CASE BeginStart
  BY <1>1 DEF BeginStart, Begin, playVars
<1>2. CASE BeginPause
  BY <1>2 DEF BeginPause, Begin, playVars
<1>3. CASE BeginResume
  BY <1>3 DEF BeginResume, Begin, playVars
<1>4. CASE BeginSeek
  <2>1. Active /\ \E t : Begin("seek", t)
    BY <1>4 DEF BeginSeek
  <2> QED
    BY <2>1 DEF Begin, playVars
<1>5. CASE BeginClose
  BY <1>5 DEF BeginClose
<1>6. CASE Answer
  BY <1>6 DEF Answer, Exchanging, playVars
<1>7. CASE Lose
  BY <1>7 DEF Lose, Exchanging, playVars
<1>8. ASSUME NEW p, PlayingFrom(p) PROVE anchorTime' # Never /\ state' = "playing"
  BY <1>8 DEF PlayingFrom, Never
<1>9. CASE FinishStart \/ FinishResume \/ FinishSeek
  BY <1>9, <1>8 DEF FinishStart, FinishResume, FinishSeek, Finish, Idle
<1>10. CASE FinishPause
  BY <1>10 DEF FinishPause, Finish, Idle
<1>11. CASE FinishClose
  BY <1>11 DEF FinishClose, Idle
<1>12. CASE Raise
  BY <1>12 DEF Raise, Idle, playVars
<1>13. CASE Tick
  BY <1>13 DEF Tick, playVars, opVars
<1>14. CASE UNCHANGED vars
  BY <1>14 DEF vars, playVars, opVars
<1> QED
  BY <1>1, <1>2, <1>3, <1>4, <1>5, <1>6, <1>7, <1>9, <1>10, <1>11, <1>12, <1>13, <1>14 DEF Next

-----------------------------------------------------------------------------
(* How position, and nearness to it, move.                                 *)

LEMMA PositionKept == ASSUME UNCHANGED <<playVars, clock>> PROVE position' = position
BY DEF position, estimate, Clamp, playVars

(* Up to the duration, position is the estimate it clamps. *)
LEMMA PositionIs ==
  ASSUME TypeOK PROVE estimate \in Nat /\ Least(position, Duration) = Least(estimate, Duration)
<1>1. estimate \in Nat
  BY DEF TypeOK, Never, estimate
<1> QED
  BY <1>1, Clamped DEF TypeOK, position

LEMMA PositionIsThen ==
  ASSUME known' \in BOOLEAN, estimate' \in Nat
  PROVE  Least(position', Duration) = Least(estimate', Duration)
BY DurationAssumption DEF position, Clamp, Least

(* A tick moves the position only while the playback plays. *)
LEMMA PositionTick ==
  ASSUME TypeOK, OpInv, Tick, op # "close"
  PROVE  Least(position', Duration) =
           IF state = "playing" THEN Least(Least(position, Duration) + 1, Duration)
                                ELSE Least(position, Duration)
<1>1. estimate \in Nat /\ estimate' = IF state = "playing" THEN estimate + 1 ELSE estimate
  BY PositionIs DEF TypeOK, OpInv, estimate, Never, Tick, playVars, opVars
<1>2. Least(position, Duration) = Least(estimate, Duration)
  BY PositionIs
<1>3. Least(position', Duration) = Least(estimate', Duration)
  BY <1>1, PositionIsThen DEF TypeOK, Tick, playVars
<1>4. Least(estimate + 1, Duration) = Least(Least(estimate, Duration) + 1, Duration)
  BY <1>1, DurationAssumption DEF Least
<1> QED
  BY <1>1, <1>2, <1>3, <1>4

(* What is near stays near during an operation: head moves by at most one. *)
LEMMA NearTick ==
  ASSUME TypeOK, Tick, op # "none", NEW p \in Nat, Near(p)
  PROVE  Least(p, Duration) \in head' - lag' .. head'
BY DurationAssumption DEF TypeOK, Tick, Near, Least

(* A playback anchored at p, now or for good, is at p.                     *)
LEMMA Anchored ==
  ASSUME TypeOK, NEW p \in Nat, UNCHANGED <<known, clock>>, anchor' = Clamp(p),
         state' = "playing" => anchorTime' = clock
  PROVE  Least(position', Duration) = Least(p, Duration)
<1>1. Clamp(p) \in Nat /\ Least(Clamp(p), Duration) = Least(p, Duration)
  BY Clamped DEF TypeOK
<1>2. estimate' = Clamp(p)
  BY <1>1 DEF TypeOK, estimate
<1> QED
  BY <1>1, <1>2, PositionIsThen DEF TypeOK

-----------------------------------------------------------------------------
(* The position and the recorder, operation by operation. *)
LEMMA FollowStep == ASSUME IInv, [Next]_vars PROVE FollowInv'
<1> USE DurationAssumption DEF IInv
<1>0. /\ head \in 0..Duration /\ lag \in Nat /\ target \in Nat /\ anchor \in Nat
      /\ range \in Nat \cup {NoRange} /\ position \in Nat
  BY PositionType DEF TypeOK
<1>1. CASE BeginStart
  BY <1>1, PositionKept DEF BeginStart, Begin, FollowInv, Active, Near, playVars, recVars, ghosts
<1>2. CASE BeginPause
  BY <1>2, PositionKept DEF BeginPause, Begin, OpInv, FollowInv, Active, Near, playVars, recVars, ghosts
<1>3. CASE BeginResume
  BY <1>3, PositionKept DEF BeginResume, Begin, OpInv, FollowInv, Active, Near, playVars, recVars, ghosts
<1>4. CASE BeginSeek
  <2>1. Active /\ \E t : Begin("seek", t)
    BY <1>4 DEF BeginSeek, Active
  <2> QED
    BY <2>1, PositionKept DEF Begin, OpInv, FollowInv, Active, Near, playVars, recVars, ghosts
<1>5. CASE BeginClose
  BY <1>5 DEF BeginClose, FollowInv
<1>6. CASE Answer
  <2>1. /\ op # "none" /\ reply = "none" /\ reply' = "ok" /\ UNCHANGED <<op, target, trusted>>
        /\ range' \in {head', NoRange}
    BY <1>6 DEF Answer, Exchanging
  <2>2. ASSUME op \notin {"none", "close"}
        PROVE  recorder' = IF op = "pause" THEN "paused" ELSE "playing"
    BY <1>6, <2>2 DEF Answer, RecorderActs
  <2>3. ASSUME trusted, op \in {"pause", "resume"}
        PROVE  Near(target) /\ head' = head /\ (range' = NoRange => lag' = lag)
    <3>1. Near(target)
      <4>1. CASE op = "pause"
        BY <4>1, <2>1, <2>3 DEF FollowInv
      <4>2. CASE op = "resume"
        <5>1. Near(position) /\ target = anchor /\ estimate = anchor
          BY <4>2, <2>1, <2>3 DEF FollowInv, OpInv, Active, estimate
        <5> QED
          BY <5>1, PositionIs DEF Near
      <4> QED
        BY <2>3, <4>1, <4>2
    <3> QED
      BY <1>6, <2>3, <3>1 DEF Answer, RecorderActs
  <2>4. ASSUME op \in {"start", "seek"}
        PROVE  head' = Least(target, Duration) /\ lag' = 0
    BY <1>6, <2>4 DEF Answer, RecorderActs
  <2>5. ASSUME op \in {"pause", "resume", "start", "seek"} PROVE head' \in 0..Duration
    BY <1>0, <1>6, <2>4, <2>5 DEF Answer, RecorderActs, Least
  <2>6. range' # NoRange => lag' = 0
    BY <1>6 DEF Answer
  <2>7. op \in {"none", "start", "pause", "resume", "seek", "close"}
    BY DEF TypeOK, Ops
  <2>8. op \notin {"none", "close"} /\ range' # NoRange =>
          Least(range', Duration) \in head' - lag' .. head'
    BY <2>1, <2>5, <2>6, <2>7 DEF Near, Least
  <2> QED
    BY <1>0, <2>1, <2>2, <2>3, <2>4, <2>5, <2>6, <2>7, <2>8 DEF FollowInv, Near, Least
<1>7. CASE Lose
  BY <1>7 DEF Lose, Exchanging, FollowInv, opVars
<1>8. CASE FinishStart \/ FinishResume \/ FinishSeek
  <2>1. PICK fallback \in {0, target} :
          /\ PlayingFrom(RangeStart(fallback))
          /\ op \in {"start", "seek", "resume"} /\ (op = "start" => fallback = 0)
          /\ (op # "start" => fallback = target)
    BY <1>8 DEF FinishStart, FinishResume, FinishSeek, Finish
  <2>2. /\ op' = "none" /\ reply' = "none" /\ reply = "ok" /\ state' = "playing"
        /\ UNCHANGED <<known, clock, recorder, head, lag>>
        /\ trusted' = (trusted \/ op \in {"start", "seek"} \/ range # NoRange)
    BY <1>8, <2>1 DEF FinishStart, FinishResume, FinishSeek, Finish, Idle, recVars, PlayingFrom
  <2>3. fallback = target
    BY <2>1 DEF OpInv
  <2>4. RangeStart(target) \in Nat
    BY <1>0 DEF RangeStart
  <2>5. recorder = "playing" /\ (trusted' => Near(RangeStart(target)))
    BY <2>1, <2>2 DEF FollowInv, RangeStart
  <2>6. Least(position', Duration) = Least(RangeStart(target), Duration)
    BY <2>1, <2>2, <2>3, <2>4, Anchored DEF PlayingFrom
  <2> QED
    BY <2>2, <2>5, <2>6 DEF FollowInv, Near
<1>9. CASE FinishPause
  <2>1. /\ op' = "none" /\ reply' = "none" /\ op = "pause" /\ reply = "ok" /\ state' = "paused"
        /\ UNCHANGED <<known, clock, recorder, head, lag>>
        /\ trusted' = (trusted \/ range # NoRange)
        /\ anchor' = Clamp(RangeStart(target))
    BY <1>9 DEF FinishPause, Finish, Idle, recVars
  <2>2. RangeStart(target) \in Nat
    BY <1>0 DEF RangeStart
  <2>3. recorder = "paused" /\ (trusted' => Near(RangeStart(target)))
    BY <2>1 DEF FollowInv, RangeStart
  <2>4. Least(position', Duration) = Least(RangeStart(target), Duration)
    BY <2>1, <2>2, Anchored
  <2> QED
    BY <2>1, <2>3, <2>4 DEF FollowInv, Near
<1>10. CASE FinishClose
  BY <1>10 DEF FinishClose, Idle, FollowInv, Active
<1>11. CASE Raise
  BY <1>11 DEF Raise, Idle, FollowInv
<1>12. CASE Tick
  <2>1. /\ UNCHANGED <<state, op, target, reply, range, recorder, trusted>>
    BY <1>12 DEF Tick, playVars, opVars
  <2>2. ASSUME trusted, Active, op # "close", reply = "none"
        PROVE  recorder = state /\ Least(position', Duration) \in head' - lag' .. head'
    <3>1. recorder = state /\ Near(position)
      BY <2>2 DEF FollowInv
    <3>2. Least(position', Duration) =
             IF state = "playing" THEN Least(Least(position, Duration) + 1, Duration)
                                  ELSE Least(position, Duration)
      BY <1>12, <2>2, PositionTick
    <3>3. head' = (IF recorder = "playing" THEN Least(head + 1, Duration) ELSE head)
          /\ lag' \in {lag, lag + 1}
      BY <1>12 DEF Tick
    <3>4. Least(position, Duration) \in Nat
      BY <1>0 DEF Least
    <3> QED
      BY <1>0, <3>1, <3>2, <3>3, <3>4 DEF Near, Least
  <2>3. ASSUME op # "none", Near(target) PROVE Least(target', Duration) \in head' - lag' .. head'
    BY <1>0, <1>12, <2>1, <2>3, NearTick
  <2>4. ASSUME op # "none", range # NoRange, Near(range)
        PROVE  Least(range', Duration) \in head' - lag' .. head'
    BY <1>0, <1>12, <2>1, <2>4, NearTick
  <2>5. trusted' /\ Active' /\ op' # "close" /\ reply' = "none" =>
          recorder' = state' /\ Near(position)'
    BY <2>1, <2>2 DEF Active, Near
  <2>6. trusted' /\ op' = "pause" /\ reply' = "none" => Near(target)'
    BY <2>1, <2>3 DEF FollowInv, Near
  <2>7. reply' = "ok" /\ op' \notin {"none", "close"} =>
          /\ recorder' = IF op' = "pause" THEN "paused" ELSE "playing"
          /\ range' # NoRange => Near(range)'
          /\ range' = NoRange /\ (trusted' \/ op' \in {"start", "seek"}) => Near(target)'
          /\ trusted' /\ op' \in {"pause", "resume"} /\ range' # NoRange =>
               range' >= Least(target', Duration)
    BY <2>1, <2>3, <2>4 DEF FollowInv, Near
  <2> QED
    BY <2>5, <2>6, <2>7 DEF FollowInv
<1>13. CASE UNCHANGED vars
  BY <1>13, PositionKept DEF vars, playVars, opVars, recVars, ghosts, FollowInv, Active, Near
<1> QED
  BY <1>1, <1>2, <1>3, <1>4, <1>5, <1>6, <1>7, <1>8, <1>9, <1>10, <1>11, <1>12, <1>13 DEF Next

-----------------------------------------------------------------------------
(* The playback and the recorder agree, operation by operation. *)
LEMMA AgreeStep == ASSUME IInv, [Next]_vars PROVE AgreeInv'
<1> USE DEF IInv, AgreeInv, Active
<1>1. CASE BeginStart
  BY <1>1 DEF BeginStart, Begin, OpInv, playVars, recVars, ghosts
<1>2. CASE BeginPause
  BY <1>2 DEF BeginPause, Begin, OpInv, playVars, recVars, ghosts
<1>3. CASE BeginResume
  BY <1>3 DEF BeginResume, Begin, OpInv, playVars, recVars, ghosts
<1>4. CASE BeginSeek
  <2>1. op = "none" /\ \E t : Begin("seek", t)
    BY <1>4 DEF BeginSeek, Begin
  <2> QED
    BY <2>1 DEF Begin, OpInv, playVars, recVars, ghosts
<1>5. CASE BeginClose
  BY <1>5 DEF BeginClose, OpInv, recVars, ghosts
<1>6. CASE Answer
  BY <1>6 DEF Answer, Exchanging, RecorderActs, OpInv, playVars
<1>7. CASE Lose
  BY <1>7 DEF Lose, Exchanging, RecorderActs, OpInv, playVars, recVars, ghosts
<1>8. ASSUME NEW p, PlayingFrom(p) PROVE state' = "playing"
  BY <1>8 DEF PlayingFrom
<1>9. CASE FinishStart \/ FinishResume \/ FinishSeek
  BY <1>9, <1>8 DEF FinishStart, FinishResume, FinishSeek, Finish, Idle, FollowInv, recVars
<1>10. CASE FinishPause
  BY <1>10 DEF FinishPause, Finish, Idle, FollowInv, recVars
<1>11. CASE FinishClose
  BY <1>11 DEF FinishClose, Idle, OpInv, recVars
<1>12. CASE Raise
  BY <1>12 DEF Raise, Idle, recVars
<1>13. CASE Tick
  BY <1>13 DEF Tick, playVars, opVars
<1>14. CASE UNCHANGED vars
  BY <1>14 DEF vars, playVars, opVars, recVars, ghosts
<1> QED
  BY <1>1, <1>2, <1>3, <1>4, <1>5, <1>6, <1>7, <1>9, <1>10, <1>11, <1>12, <1>13, <1>14 DEF Next

-----------------------------------------------------------------------------
LEMMA Invariance == Spec => []IInv
<1>1. Init => IInv
  BY DurationAssumption, BoundsAssumption
  DEF Init, IInv, TypeOK, OpInv, FollowInv, AgreeInv, Active, Never, NoRange
<1>2. IInv /\ [Next]_vars => IInv'
  BY TypeStep, OpStep, FollowStep, AgreeStep DEF IInv
<1> QED
  BY <1>1, <1>2, PTL DEF Spec

(* Between operations the position follows the recorder, whatever the      *)
(* exchanges confirmed and however often the playback paused and sought.   *)
THEOREM PositionIsFaithful == Spec => []PositionFollowsRecorder
<1>1. IInv => PositionFollowsRecorder
  BY DEF IInv, OpInv, FollowInv, PositionFollowsRecorder
<1> QED
  BY <1>1, Invariance, PTL

(* After an operation that succeeded, the playback and the recorder agree  *)
(* on whether it plays, whatever was lost before.                          *)
THEOREM StateIsFaithful == Spec => []StateAgrees
<1>1. IInv => StateAgrees
  BY DEF IInv, OpInv, AgreeInv, StateAgrees
<1> QED
  BY <1>1, Invariance, PTL

(* Pausing and resuming never take the position back. *)
THEOREM GroundIsKept == Spec => PauseKeepsGround
<1>1. ASSUME IInv, (FinishPause \/ FinishResume) /\ trusted PROVE KeepsGround
  <2>1. anchor' = Clamp(RangeStart(target)) /\ op \in {"pause", "resume"} /\ reply = "ok"
    BY <1>1 DEF FinishPause, FinishResume, PlayingFrom, Finish
  <2>2. range \in Nat \cup {NoRange} /\ target \in Nat /\ known \in BOOLEAN
    BY DurationAssumption, <1>1 DEF IInv, TypeOK
  <2>3. RangeStart(target) \in Nat /\ RangeStart(target) >= Least(target, Duration)
    BY <1>1, <2>1, <2>2, DurationAssumption DEF IInv, FollowInv, RangeStart, Least
  <2> QED
    BY <2>1, <2>2, <2>3, DurationAssumption DEF KeepsGround, Clamp, Least
<1>2. IInv => [(FinishPause \/ FinishResume) /\ trusted => KeepsGround]_vars
  BY <1>1
<1> QED
  BY <1>2, Invariance, PTL DEF PauseKeepsGround
=============================================================================
