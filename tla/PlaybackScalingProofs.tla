----------------------- MODULE PlaybackScalingProofs -----------------------
(* Theorems about PlaybackScaling, for any cameras, recordings and number  *)
(* of sessions.                                                            *)
EXTENDS PlaybackScaling, WellFoundedInduction, FiniteSetTheorems, TLAPS

Roles == {"active", "prepared", "fresh"}
Measuring == {"existing", "receive", "remaining", "resume", "post", "held"}

TypeOK ==
  /\ section \in 0..6 /\ checked \in BOOLEAN
  /\ step \in Opening \cup Measuring \cup {"search", "plan", "idle", "cleanup", "end"}
  /\ checked \/ step \in Opening \cup Measuring \cup {"cleanup"} => section \in 1..5
  /\ step \in {"search", "plan"} => ~checked

(* The sessions there have been.                                           *)
Used == open \cup dropped \cup reach

(* The roles a section may have given out when it is at its step.          *)
Given ==
  {r \in Roles :
     /\ step # "idle" \/ checked
     /\ r = "fresh" => step \in {"fresh", "end"}
     /\ step = "start" => r = "active"
     /\ step = "hold" => r = "prepared"}

(* Every session has a name of its own: a section gives out a role once.   *)
NamesInv ==
  /\ step \in {"search", "plan"} => Used = {}
  /\ \A x \in Used :
       x[1] \in Nat /\ (x[1] < section \/ (x[1] = section /\ x[2] \in Given))
  /\ step \in Opening =>
       \A x \in DOMAIN work :
         /\ x[1] = section /\ x[2] \in Given
         /\ work[x] \in {"todo", "started", "done", "raised"}
         /\ work[x] = "todo" => x \notin Used
         /\ x \notin reach

(* What is open at every step: what a pool has opened so far, or what the  *)
(* stage holds.                                                            *)
OpenInv ==
  /\ step \in Opening =>
       open \ dropped = reach \cup {x \in DOMAIN work : work[x] \in {"started", "done"}}
  /\ step \in {"start", "fresh", "hold", "idle"} => reach = {}
  /\ step \in Measuring => open \ dropped = reach
  /\ step = "cleanup" => open \ dropped \subseteq reach
  /\ step = "idle" => open \subseteq dropped
  /\ step = "end" => open = {}

(* The section that a mode asks for; "all" asks for all but the first.     *)
Stages == <<"fresh", "baseline", "pressure", "high", "hold">>
Wanted(sect) == mode = Stages[sect] \/ (mode = "all" /\ sect # 1)

(* A stage runs only in a mode that asks for it, a pressure stage only     *)
(* after stages that were stable, and none after an exception.             *)
StagesInv ==
  /\ raised => step \in {"cleanup", "idle", "end"}
  /\ step = "prepare" => section \in {3, 4}
  /\ step = "hold" => section = 5
  /\ step = "fresh" => \A x \in DOMAIN work : x[2] = "fresh"
  /\ step = "prepare" => \A x \in DOMAIN work : x[2] = "prepared"
  /\ checked \/ step \in Opening \cup Measuring \cup {"cleanup"} => Wanted(section)
  /\ section \in {3, 4} /\ step \in (Opening \cup Measuring) \ {"fresh"} =>
       BaselineStable /\ (section = 4 => PressureStable)

(* A session that was lost shows in a report, as soon as its pool has      *)
(* ended, or the exception that lost it is on its way out of main().       *)
LostInv ==
  \A x \in dropped :
    /\ x[1] \in 1..5 /\ Wanted(x[1])
    /\ x[2] = "prepared" => x[1] \in {3, 4, 5}
    /\ Shown(x) \/ raised \/ (step \in Opening /\ x \in DOMAIN work /\ work[x] = "raised")

IInv == TypeOK /\ NamesInv /\ OpenInv /\ StagesInv /\ LostInv

(* What a section begins with. *)
LEMMA EnterPlans ==
  ASSUME Enter
  PROVE  /\ step = "idle" /\ section \in 1..5 /\ checked = FALSE
         /\ UNCHANGED <<section, checked, reach, open, dropped>>
         /\ \/ section = 1 /\ work' = Batch("fresh", 1) /\ step' = "fresh"
            \/ section \in {2, 4} /\ work' = Batch("active", ActiveTarget) /\ step' = "start"
            \/ section = 3 /\ work' = Batch("active", PressurePairs) /\ step' = "start"
            \/ section = 5 /\ work' = Batch("prepared", 1) /\ step' = "hold"
<1>1. /\ step = "idle" /\ section \in 1..5 /\ checked = FALSE
      /\ UNCHANGED <<section, checked, reach, open, dropped>>
  BY DEF Enter, mainVars
<1>2. CASE section = 1
  BY <1>1, <1>2 DEF Enter
<1>3. CASE section \in {2, 4}
  BY <1>1, <1>3 DEF Enter
<1>4. CASE section = 3
  BY <1>1, <1>4 DEF Enter
<1>5. CASE section = 5
  BY <1>1, <1>5 DEF Enter
<1>6. section = 1 \/ section \in {2, 4} \/ section = 3 \/ section = 5
  BY <1>1
<1>7. QED  BY <1>2, <1>3, <1>4, <1>5, <1>6

(* The active stage goes on to a measurement, or ends. *)
LEMMA StartedGoes ==
  ASSUME ActiveStarted
  PROVE  step' \in {"cleanup", "existing", "receive"} /\ (raised' => step' = "cleanup")
<1>1. CASE Results = {}
  BY <1>1 DEF ActiveStarted, Leave, Goto
<1>2. CASE Results # {} /\ Errors
  BY <1>2 DEF ActiveStarted, Goto
<1>3. CASE ~Errors /\ Results # {}
  BY <1>3 DEF ActiveStarted, Goto
<1>4. QED  BY <1>1, <1>2, <1>3

(* The types are kept. *)
LEMMA TypeStep ==
  ASSUME IInv, [Next]_vars
  PROVE  TypeOK'
<1> USE DEF IInv, TypeOK, Opening, Measuring, mainVars, planVars, Goto, Leave
<1>1. CASE Discover
  BY <1>1 DEF Discover
<1>2. CASE Plan
  <2>1. section' \in {1, 6} /\ step = "plan" /\ step' = "idle" /\ checked' = checked
    BY <1>2 DEF Plan
  <2>2. checked' = FALSE
    BY <2>1
  <2>3. QED  BY <2>1, <2>2
<1>3. CASE Enter
  BY <1>3, EnterPlans
<1>4. CASE Skip
  <2>1. /\ step = "idle" /\ section \in 1..5 /\ ~checked /\ checked' = FALSE
        /\ section' = section + 1 /\ UNCHANGED <<step, work, reach, open, dropped>>
    BY <1>4 DEF Skip
  <2>2. section' \in 0..6 /\ section < section'
    BY <2>1
  <2>3. QED  BY <2>1, <2>2
<1>5. CASE Recheck
  BY <1>5 DEF Recheck
<1>6. ASSUME NEW x \in DOMAIN work, Open(x)
       PROVE  TypeOK'
  BY <1>6 DEF Open
<1>7. ASSUME NEW x \in DOMAIN work, Settle(x)
       PROVE  TypeOK'
  BY <1>7 DEF Settle
<1>8. ASSUME NEW x \in DOMAIN work, Measure(x)
       PROVE  TypeOK'
  BY <1>8 DEF Measure
<1>9. CASE ActiveStarted
  BY <1>9 DEF ActiveStarted
<1>10. CASE ExistingReceived
  BY <1>10 DEF ExistingReceived
<1>11. CASE ActiveReceived
  BY <1>11 DEF ActiveReceived
<1>12. CASE PressureStarted
  BY <1>12 DEF PressureStarted
<1>13. CASE Prepared
  BY <1>13 DEF Prepared
<1>14. CASE PressureReceived
  BY <1>14 DEF PressureReceived
<1>15. CASE Resumed
  BY <1>15 DEF Resumed
<1>16. CASE PreparedReceived
  BY <1>16 DEF PreparedReceived
<1>17. CASE CloseAll
  BY <1>17 DEF CloseAll
<1>18. CASE Held
  BY <1>18 DEF Held
<1>19. CASE Released
  BY <1>19 DEF Released
<1>20. CASE FreshChecked
  <2>1. /\ step = "fresh" /\ section \in 1..5 /\ checked' = FALSE
        /\ section' = section + 1 /\ step' = "idle" /\ open' = open \ Results
        /\ work' = <<>> /\ UNCHANGED <<reach, dropped>>
    BY <1>20 DEF FreshChecked
  <2>2. section' \in 0..6 /\ section < section'
    BY <2>1
  <2>3. QED  BY <2>1, <2>2
<1>21. CASE CloseClient
  BY <1>21 DEF CloseClient
<1>22. CASE UNCHANGED vars
  BY <1>22 DEF vars, planVars, mainVars
<1>23. QED  BY <1>1, <1>2, <1>3, <1>4, <1>5, <1>6, <1>7, <1>8, <1>9, <1>10, <1>11, <1>12, <1>13, <1>14, <1>15, <1>16, <1>17, <1>18, <1>19, <1>20, <1>21, <1>22 DEF Next

(* The names are kept apart. *)
LEMMA NamesStep ==
  ASSUME IInv, [Next]_vars
  PROVE  NamesInv'
<1> USE DEF IInv, NamesInv, Used, Given, Roles, TypeOK, Opening, Measuring, mainVars, planVars, Goto, Leave, Batch, Again, Results, Finished
<1>1. CASE Discover
  BY <1>1 DEF Discover
<1>2. CASE Plan
  BY <1>2 DEF Plan
<1>3. CASE Enter
  BY <1>3, EnterPlans
<1>4. CASE Skip
  <2>1. /\ step = "idle" /\ section \in 1..5 /\ ~checked /\ checked' = FALSE
        /\ section' = section + 1 /\ UNCHANGED <<step, work, reach, open, dropped>>
    BY <1>4 DEF Skip
  <2>2. section' \in 0..6 /\ section < section'
    BY <2>1
  <2>3. QED  BY <2>1, <2>2
<1>5. CASE Recheck
  BY <1>5 DEF Recheck
<1>6. ASSUME NEW x \in DOMAIN work, Open(x)
       PROVE  NamesInv'
  BY <1>6 DEF Open
<1>7. ASSUME NEW x \in DOMAIN work, Settle(x)
       PROVE  NamesInv'
  BY <1>7 DEF Settle
<1>8. ASSUME NEW x \in DOMAIN work, Measure(x)
       PROVE  NamesInv'
  BY <1>8 DEF Measure
<1>9. CASE ActiveStarted
  <2>1. /\ reach' = Results /\ step = "start"
        /\ UNCHANGED <<section, checked, open, dropped>>
    BY <1>9 DEF ActiveStarted
  <2>2. step' \in {"cleanup", "existing", "receive"}
    BY <1>9, StartedGoes
  <2>3. \A x \in Results : x[1] = section /\ x[2] \in Given
    BY <2>1
  <2>4. QED  BY <2>1, <2>2, <2>3
<1>10. CASE ExistingReceived
  BY <1>10 DEF ExistingReceived
<1>11. CASE ActiveReceived
  BY <1>11 DEF ActiveReceived
<1>12. CASE PressureStarted
  BY <1>12 DEF PressureStarted
<1>13. CASE Prepared
  BY <1>13 DEF Prepared
<1>14. CASE PressureReceived
  BY <1>14 DEF PressureReceived
<1>15. CASE Resumed
  BY <1>15 DEF Resumed
<1>16. CASE PreparedReceived
  BY <1>16 DEF PreparedReceived
<1>17. CASE CloseAll
  BY <1>17 DEF CloseAll
<1>18. CASE Held
  BY <1>18 DEF Held
<1>19. CASE Released
  BY <1>19 DEF Released
<1>20. CASE FreshChecked
  <2>1. /\ step = "fresh" /\ section \in 1..5 /\ checked' = FALSE
        /\ section' = section + 1 /\ step' = "idle" /\ open' = open \ Results
        /\ work' = <<>> /\ UNCHANGED <<reach, dropped>>
    BY <1>20 DEF FreshChecked
  <2>2. section' \in 0..6 /\ section < section'
    BY <2>1
  <2>3. QED  BY <2>1, <2>2
<1>21. CASE CloseClient
  BY <1>21 DEF CloseClient
<1>22. CASE UNCHANGED vars
  BY <1>22 DEF vars, planVars, mainVars
<1>23. QED  BY <1>1, <1>2, <1>3, <1>4, <1>5, <1>6, <1>7, <1>8, <1>9, <1>10, <1>11, <1>12, <1>13, <1>14, <1>15, <1>16, <1>17, <1>18, <1>19, <1>20, <1>21, <1>22 DEF Next

(* What is open is kept track of. *)
LEMMA OpenStep ==
  ASSUME IInv, [Next]_vars
  PROVE  OpenInv'
<1> USE DEF IInv, OpenInv, NamesInv, Used, Given, Roles, TypeOK, Opening, Measuring, mainVars, planVars, Goto, Leave, Batch, Again, Results, Finished
<1>1. CASE Discover
  BY <1>1 DEF Discover
<1>2. CASE Plan
  BY <1>2 DEF Plan
<1>3. CASE Enter
  BY <1>3, EnterPlans
<1>4. CASE Skip
  <2>1. /\ step = "idle" /\ section \in 1..5 /\ ~checked /\ checked' = FALSE
        /\ section' = section + 1 /\ UNCHANGED <<step, work, reach, open, dropped>>
    BY <1>4 DEF Skip
  <2>2. section' \in 0..6 /\ section < section'
    BY <2>1
  <2>3. QED  BY <2>1, <2>2
<1>5. CASE Recheck
  BY <1>5 DEF Recheck
<1>6. ASSUME NEW x \in DOMAIN work, Open(x)
       PROVE  OpenInv'
  BY <1>6 DEF Open
<1>7. ASSUME NEW x \in DOMAIN work, Settle(x)
       PROVE  OpenInv'
  BY <1>7 DEF Settle
<1>8. ASSUME NEW x \in DOMAIN work, Measure(x)
       PROVE  OpenInv'
  BY <1>8 DEF Measure
<1>9. CASE ActiveStarted
  <2>1. /\ reach' = Results /\ step = "start" /\ UNCHANGED <<open, dropped>>
        /\ Finished
    BY <1>9 DEF ActiveStarted
  <2>2. step' \in {"cleanup", "existing", "receive"}
    BY <1>9, StartedGoes
  <2>3. open \ dropped = Results
    BY <2>1
  <2>4. QED  BY <2>1, <2>2, <2>3
<1>10. CASE ExistingReceived
  BY <1>10 DEF ExistingReceived
<1>11. CASE ActiveReceived
  BY <1>11 DEF ActiveReceived
<1>12. CASE PressureStarted
  BY <1>12 DEF PressureStarted
<1>13. CASE Prepared
  BY <1>13 DEF Prepared
<1>14. CASE PressureReceived
  BY <1>14 DEF PressureReceived
<1>15. CASE Resumed
  BY <1>15 DEF Resumed
<1>16. CASE PreparedReceived
  BY <1>16 DEF PreparedReceived
<1>17. CASE CloseAll
  BY <1>17 DEF CloseAll
<1>18. CASE Held
  BY <1>18 DEF Held
<1>19. CASE Released
  BY <1>19 DEF Released
<1>20. CASE FreshChecked
  <2>1. /\ step = "fresh" /\ section \in 1..5 /\ checked' = FALSE
        /\ section' = section + 1 /\ step' = "idle" /\ open' = open \ Results
        /\ work' = <<>> /\ UNCHANGED <<reach, dropped>>
    BY <1>20 DEF FreshChecked
  <2>2. section' \in 0..6 /\ section < section'
    BY <2>1
  <2>3. QED  BY <2>1, <2>2
<1>21. CASE CloseClient
  BY <1>21 DEF CloseClient
<1>22. CASE UNCHANGED vars
  BY <1>22 DEF vars, planVars, mainVars
<1>23. QED  BY <1>1, <1>2, <1>3, <1>4, <1>5, <1>6, <1>7, <1>8, <1>9, <1>10, <1>11, <1>12, <1>13, <1>14, <1>15, <1>16, <1>17, <1>18, <1>19, <1>20, <1>21, <1>22 DEF Next

(* What a report adds is of its own section, and shows the errors.         *)
LEMMA ReportsAre ==
  ASSUME NEW what, Reports(what)
  PROVE  /\ trouble \subseteq trouble'
         /\ \A y \in trouble' : y \in trouble \/ y[1] = section
         /\ Errors => <<section, what>> \in trouble'
BY DEF Reports

(* So the conditions under which a pressure stage began hold while it      *)
(* runs.                                                                   *)
LEMMA ConditionsStay ==
  ASSUME section \in {3, 4}, BaselineStable, section = 4 => PressureStable,
         UNCHANGED <<section, mode>>, \A y \in trouble' : y \in trouble \/ y[1] = section
  PROVE  BaselineStable' /\ (section' = 4 => PressureStable')
<1>1. ASSUME NEW n \in {2, 3}, NEW what, <<n, what>> \in trouble', n < section
      PROVE  <<n, what>> \in trouble
  BY <1>1
<1>2. BaselineStable'
  BY <1>1 DEF BaselineStable
<1>3. ASSUME section = 4 PROVE PressureStable'
  <2>1. ASSUME NEW what, <<3, what>> \in trouble' PROVE <<3, what>> \in trouble
    BY <1>1, <1>3, <2>1
  <2>2. PressureStable
    BY <1>3
  <2>3. CASE mode' = "all"
    <3>1. {<<3, "not run">>, <<3, "prepared">>, <<3, "media">>, <<3, "resume">>} \cap trouble = {}
      BY <2>2, <2>3 DEF PressureStable
    <3>2. {<<3, "not run">>, <<3, "prepared">>, <<3, "media">>, <<3, "resume">>} \cap trouble' = {}
      BY <2>1, <3>1
    <3>3. QED  BY <3>2 DEF PressureStable
  <2>4. QED  BY <2>3 DEF PressureStable
<1>4. QED  BY <1>2, <1>3

(* A section that begins was wanted, and its conditions hold. *)
LEMMA EnterIsDue ==
  ASSUME Enter
  PROVE  /\ Wanted(section) /\ ~raised /\ UNCHANGED <<mode, raised, trouble>>
         /\ section \in {3, 4} => BaselineStable /\ (section = 4 => PressureStable)
<1>1. section \in 1..5 /\ Due(section) /\ ~raised /\ UNCHANGED <<mode, raised, trouble>>
  BY DEF Enter, mainVars
<1>2. CASE section = 1
  BY <1>1, <1>2 DEF Due, Wanted, Stages
<1>3. CASE section = 2
  BY <1>1, <1>3 DEF Due, Wanted, Stages
<1>4. CASE section = 3
  BY <1>1, <1>4 DEF Due, Wanted, Stages
<1>5. CASE section = 4
  BY <1>1, <1>5 DEF Due, Wanted, Stages
<1>6. CASE section = 5
  BY <1>1, <1>6 DEF Due, Wanted, Stages
<1>7. QED  BY <1>1, <1>2, <1>3, <1>4, <1>5, <1>6

(* Stages run in their turn. *)
LEMMA StagesStep ==
  ASSUME IInv, [Next]_vars
  PROVE  StagesInv'
<1> USE DEF IInv, TypeOK, StagesInv, Wanted, BaselineStable, PressureStable, Opening, Measuring, mainVars, planVars, Goto, Leave
<1>1. CASE Discover
  BY <1>1 DEF Discover
<1>2. CASE Plan
  BY <1>2 DEF Plan
<1>3. CASE Enter
  <2>1. /\ section \in 1..5 /\ UNCHANGED <<section, checked, mode, raised, trouble>> /\ ~raised
        /\ Wanted(section)
        /\ section \in {3, 4} => BaselineStable /\ (section = 4 => PressureStable)
    BY <1>3, EnterPlans, EnterIsDue
  <2>2. section' \in {3, 4} => BaselineStable' /\ (section' = 4 => PressureStable')
    BY <2>1
  <2>3. /\ step' = "hold" => section' = 5
        /\ step' # "prepare"
        /\ \A x \in DOMAIN work' : step' = "fresh" => x[2] = "fresh"
    BY <1>3, EnterPlans DEF Batch
  <2>4. Wanted(section)'
    BY <2>1
  <2> HIDE DEF Wanted, BaselineStable, PressureStable
  <2>5. QED  BY <2>1, <2>2, <2>3, <2>4
<1>4. CASE Skip
  BY <1>4 DEF Skip
<1>5. CASE Recheck
  <2>1. step' = "fresh" /\ step = "idle" /\ checked /\ ~raised /\ UNCHANGED <<section, checked, mode, raised, trouble>>
    BY <1>5 DEF Recheck
  <2>2. \A x \in DOMAIN work' : x[2] = "fresh"
    BY <1>5 DEF Recheck, Batch
  <2>3. QED  BY <2>1, <2>2
<1>6. ASSUME NEW x \in DOMAIN work, Open(x)
       PROVE  StagesInv'
  BY <1>6 DEF Open
<1>7. ASSUME NEW x \in DOMAIN work, Settle(x)
       PROVE  StagesInv'
  BY <1>7 DEF Settle
<1>8. ASSUME NEW x \in DOMAIN work, Measure(x)
       PROVE  StagesInv'
  BY <1>8 DEF Measure
<1>9. CASE ActiveStarted
  <2>1. /\ section = 2 /\ UNCHANGED <<section, checked, mode>> /\ step = "start"
    BY <1>9 DEF ActiveStarted
  <2>2. step' \in {"cleanup", "existing", "receive"} /\ (raised' => step' = "cleanup")
    BY <1>9, StartedGoes
  <2>3. QED  BY <2>1, <2>2
<1>10. CASE ExistingReceived
  BY <1>10 DEF ExistingReceived
<1>11. CASE ActiveReceived
  BY <1>11 DEF ActiveReceived
<1>12. CASE PressureStarted
  <2>1. /\ UNCHANGED <<section, checked, mode, raised>> /\ step = "start" /\ Reports("start")
    BY <1>12 DEF PressureStarted
  <2>2. /\ section \in {3, 4} /\ step' \in {"cleanup", "prepare"}
        /\ step' = "prepare" => \A x \in DOMAIN work' : x[2] = "prepared"
    <3>1. CASE Errors
      BY <1>12, <3>1 DEF PressureStarted
    <3>2. CASE ~Errors
      <4>1. PICK n : work' = Batch("prepared", n) /\ step' = "prepare" /\ section \in {3, 4}
        BY <1>12, <3>2, Zenon DEF PressureStarted
      <4>2. DOMAIN work' = {<<section, "prepared", i>> : i \in 1..n}
        BY <4>1 DEF Batch
      <4>3. ASSUME NEW x \in DOMAIN work' PROVE x[2] = "prepared"
        <5>1. PICK i \in 1..n : x = <<section, "prepared", i>>
          BY <4>2, <4>3, Zenon
        <5>2. QED  BY <5>1
      <4>4. QED  BY <4>1, <4>3
    <3>3. QED  BY <3>1, <3>2
  <2>3. section' \in {3, 4} => BaselineStable' /\ (section' = 4 => PressureStable')
    <3> HIDE DEF BaselineStable, PressureStable
    <3>1. QED  BY <2>1, ConditionsStay, ReportsAre
  <2> HIDE DEF BaselineStable, PressureStable
  <2>4. QED  BY <2>1, <2>2, <2>3
<1>13. CASE Prepared
  <2>1. /\ UNCHANGED <<section, checked, mode, raised>> /\ step = "prepare" /\ Reports("prepared")
    BY <1>13 DEF Prepared
  <2>2. step' = "receive"
    BY <1>13 DEF Prepared, Batch
  <2>3. section' \in {3, 4} => BaselineStable' /\ (section' = 4 => PressureStable')
    <3> HIDE DEF BaselineStable, PressureStable
    <3>1. QED  BY <2>1, ConditionsStay, ReportsAre
  <2> HIDE DEF BaselineStable, PressureStable
  <2>4. QED  BY <2>1, <2>2, <2>3
<1>14. CASE PressureReceived
  <2>1. /\ UNCHANGED <<section, checked, mode, raised>> /\ step = "receive" /\ Reports("media")
    BY <1>14 DEF PressureReceived
  <2>2. step' \in {"resume", "cleanup"}
    BY <1>14 DEF PressureReceived, Batch
  <2>3. section' \in {3, 4} => BaselineStable' /\ (section' = 4 => PressureStable')
    <3> HIDE DEF BaselineStable, PressureStable
    <3>1. QED  BY <2>1, ConditionsStay, ReportsAre
  <2> HIDE DEF BaselineStable, PressureStable
  <2>4. QED  BY <2>1, <2>2, <2>3
<1>15. CASE Resumed
  <2>1. /\ UNCHANGED <<section, checked, mode, raised>> /\ step = "resume" /\ Reports("resume")
    BY <1>15 DEF Resumed
  <2>2. step' = "post"
    BY <1>15 DEF Resumed, Batch
  <2>3. section' \in {3, 4} => BaselineStable' /\ (section' = 4 => PressureStable')
    <3> HIDE DEF BaselineStable, PressureStable
    <3>1. QED  BY <2>1, ConditionsStay, ReportsAre
  <2> HIDE DEF BaselineStable, PressureStable
  <2>4. QED  BY <2>1, <2>2, <2>3
<1>16. CASE PreparedReceived
  BY <1>16 DEF PreparedReceived
<1>17. CASE CloseAll
  BY <1>17 DEF CloseAll
<1>18. CASE Held
  BY <1>18 DEF Held
<1>19. CASE Released
  BY <1>19 DEF Released
<1>20. CASE FreshChecked
  BY <1>20 DEF FreshChecked
<1>21. CASE CloseClient
  BY <1>21 DEF CloseClient
<1>22. CASE UNCHANGED vars
  BY <1>22 DEF vars, planVars, mainVars
<1>23. QED  BY <1>1, <1>2, <1>3, <1>4, <1>5, <1>6, <1>7, <1>8, <1>9, <1>10, <1>11,
                <1>12, <1>13, <1>14, <1>15, <1>16, <1>17, <1>18, <1>19, <1>20, <1>21, <1>22 DEF Next

(* A fresh check has a role of its own. *)
LEMMA FreshNames ==
  ASSUME IInv, step = "fresh", NEW x \in DOMAIN work
  PROVE  x[2] = "fresh"
BY DEF IInv, StagesInv

(* Lost sessions show. *)
LEMMA LostStep ==
  ASSUME IInv, [Next]_vars
  PROVE  LostInv'
<1> USE DEF IInv, TypeOK, NamesInv, Used, Given, Roles, StagesInv, LostInv, Wanted, Shown, Reported, Opening, Measuring, mainVars, planVars, Goto, Leave, Again, Results, Finished
<1>1. CASE Discover
  BY <1>1 DEF Discover
<1>2. CASE Plan
  BY <1>2 DEF Plan
<1>3. CASE Enter
  BY <1>3, EnterPlans, EnterIsDue
<1>4. CASE Skip
  BY <1>4 DEF Skip
<1>5. CASE Recheck
  BY <1>5 DEF Recheck
<1>6. ASSUME NEW x \in DOMAIN work, Open(x)
       PROVE  LostInv'
  BY <1>6 DEF Open
<1>7. ASSUME NEW x \in DOMAIN work, Settle(x)
       PROVE  LostInv'
  <2>1. /\ step \in Opening /\ work[x] = "started" /\ x \in DOMAIN work
        /\ UNCHANGED <<section, mode, raised, trouble, step>>
        /\ \/ dropped' = dropped
           \/ dropped' = dropped \cup {x} /\ work' = [work EXCEPT ![x] = "raised"]
        /\ \E v : work' = [work EXCEPT ![x] = v]
    BY <1>7 DEF Settle
  <2>2. section \in 1..5 /\ x[1] = section /\ Wanted(section)
    BY <2>1
  <2>3. x[2] = "prepared" => section \in {3, 4, 5}
    <3>1. CASE step = "start"
      <4>1. x[2] \in Given
        BY <2>1
      <4>2. x[2] = "active"
        BY <3>1, <4>1
      <4>3. QED  BY <4>2
    <3>2. CASE step = "fresh"
      <4>1. x[2] = "fresh"
        BY <3>2, FreshNames
      <4>2. QED  BY <4>1
    <3>3. CASE step \in {"prepare", "hold"}
      BY <2>1, <3>3
    <3>4. QED  BY <2>1, <3>1, <3>2, <3>3
  <2>4. \A y \in DOMAIN work : y \in DOMAIN work' /\ (work[y] = "raised" => work'[y] = "raised")
    BY <2>1
  <2>5. ASSUME NEW y \in dropped'
        PROVE  /\ y[1] \in 1..5 /\ Wanted(y[1])'
               /\ y[2] = "prepared" => y[1] \in {3, 4, 5}
               /\ Shown(y)' \/ raised' \/ (step' \in Opening /\ y \in DOMAIN work' /\ work'[y] = "raised")
    <3>1. CASE y \in dropped
      BY <2>1, <2>4, <3>1
    <3>2. CASE y \notin dropped
      <4>1. y = x /\ work' = [work EXCEPT ![x] = "raised"]
        BY <2>1, <2>5, <3>2
      <4>2. x \in DOMAIN work' /\ work'[x] = "raised"
        BY <2>1, <4>1
      <4>3. QED  BY <2>1, <2>2, <2>3, <4>1, <4>2
    <3>3. QED  BY <3>1, <3>2
  <2>6. QED  BY <2>5
<1>8. ASSUME NEW x \in DOMAIN work, Measure(x)
       PROVE  LostInv'
  BY <1>8 DEF Measure
<1>9. CASE ActiveStarted
  <2>1. /\ UNCHANGED <<mode, dropped>> /\ step = "start" /\ Reports("start")
    BY <1>9 DEF ActiveStarted
  <2>2. \A x \in DOMAIN work : work[x] = "raised" => Errors
    BY DEF Errors
  <2>3. ASSUME NEW x \in dropped PROVE Shown(x)'
    <3>1. CASE Shown(x)
      BY <2>1, <3>1, ReportsAre
    <3>2. CASE x \in DOMAIN work /\ work[x] = "raised"
      <4>1. x[1] = section /\ x[2] = "active"
        BY <2>1, <3>2
      <4>2. <<section, "start">> \in trouble'
        BY <2>1, <2>2, <3>2, ReportsAre
      <4>3. QED  BY <4>1, <4>2
    <3>3. QED  BY <2>1, <3>1, <3>2
  <2>4. QED  BY <2>1, <2>3
<1>10. CASE ExistingReceived
  BY <1>10 DEF ExistingReceived
<1>11. CASE ActiveReceived
  <2>1. /\ UNCHANGED <<mode, dropped>> /\ step = "receive" /\ Reports("media")
    BY <1>11 DEF ActiveReceived
  <2>2. ASSUME NEW x \in dropped PROVE Shown(x)'
    BY <2>1, ReportsAre
  <2>3. QED  BY <2>1, <2>2
<1>12. CASE PressureStarted
  <2>1. /\ UNCHANGED <<mode, dropped>> /\ step = "start" /\ Reports("start")
    BY <1>12 DEF PressureStarted
  <2>2. \A x \in DOMAIN work : work[x] = "raised" => Errors
    BY DEF Errors
  <2>3. ASSUME NEW x \in dropped PROVE Shown(x)'
    <3>1. CASE Shown(x)
      BY <2>1, <3>1, ReportsAre
    <3>2. CASE x \in DOMAIN work /\ work[x] = "raised"
      <4>1. x[1] = section /\ x[2] = "active"
        BY <2>1, <3>2
      <4>2. <<section, "start">> \in trouble'
        BY <2>1, <2>2, <3>2, ReportsAre
      <4>3. QED  BY <4>1, <4>2
    <3>3. QED  BY <2>1, <3>1, <3>2
  <2>4. QED  BY <2>1, <2>3
<1>13. CASE Prepared
  <2>1. /\ UNCHANGED <<mode, dropped>> /\ step = "prepare" /\ Reports("prepared")
    BY <1>13 DEF Prepared
  <2>2. \A x \in DOMAIN work : work[x] = "raised" => Errors
    BY DEF Errors
  <2>3. ASSUME NEW x \in dropped PROVE Shown(x)'
    <3>1. CASE Shown(x)
      BY <2>1, <3>1, ReportsAre
    <3>2. CASE x \in DOMAIN work /\ work[x] = "raised"
      <4>1. x[1] = section /\ x[2] = "prepared"
        BY <2>1, <3>2
      <4>2. <<section, "prepared">> \in trouble'
        BY <2>1, <2>2, <3>2, ReportsAre
      <4>3. QED  BY <4>1, <4>2
    <3>3. QED  BY <2>1, <3>1, <3>2
  <2>4. QED  BY <2>1, <2>3
<1>14. CASE PressureReceived
  <2>1. /\ UNCHANGED <<mode, dropped>> /\ step = "receive" /\ Reports("media")
    BY <1>14 DEF PressureReceived
  <2>2. ASSUME NEW x \in dropped PROVE Shown(x)'
    BY <2>1, ReportsAre
  <2>3. QED  BY <2>1, <2>2
<1>15. CASE Resumed
  <2>1. /\ UNCHANGED <<mode, dropped>> /\ step = "resume" /\ Reports("resume")
    BY <1>15 DEF Resumed
  <2>2. ASSUME NEW x \in dropped PROVE Shown(x)'
    BY <2>1, ReportsAre
  <2>3. QED  BY <2>1, <2>2
<1>16. CASE PreparedReceived
  BY <1>16 DEF PreparedReceived
<1>17. CASE CloseAll
  BY <1>17 DEF CloseAll
<1>18. CASE Held
  <2>1. /\ UNCHANGED <<mode, dropped, trouble>> /\ ~raised
        /\ raised' = TRUE \/ ~Errors
    BY <1>18 DEF Held
  <2>2. \A x \in DOMAIN work : work[x] = "raised" => Errors
    BY DEF Errors
  <2>3. QED  BY <2>1, <2>2
<1>19. CASE Released
  BY <1>19 DEF Released
<1>20. CASE FreshChecked
  <2>1. /\ UNCHANGED <<mode, dropped, trouble>> /\ ~raised
        /\ raised' = TRUE \/ ~Errors
    BY <1>20 DEF FreshChecked
  <2>2. \A x \in DOMAIN work : work[x] = "raised" => Errors
    BY DEF Errors
  <2>3. QED  BY <2>1, <2>2
<1>21. CASE CloseClient
  BY <1>21 DEF CloseClient
<1>22. CASE UNCHANGED vars
  BY <1>22 DEF vars, planVars, mainVars
<1>23. QED  BY <1>1, <1>2, <1>3, <1>4, <1>5, <1>6, <1>7, <1>8, <1>9, <1>10, <1>11,
                <1>12, <1>13, <1>14, <1>15, <1>16, <1>17, <1>18, <1>19, <1>20, <1>21, <1>22 DEF Next

(* After any step, the invariant holds still. *)
THEOREM Inductive == Spec => []IInv
<1>1. Init => IInv
  <2> SUFFICES ASSUME Init  PROVE IInv
    OBVIOUS
  <2>1. section = 0 /\ step = "search" /\ checked = FALSE /\ reach = {} /\ open = {} /\ dropped = {}
    BY DEF Init
  <2>2. TypeOK
    <3>1. section \in 0..6
      BY <2>1, SMT
    <3> ~checked /\ checked \in BOOLEAN
      BY <2>1, Zenon
    <3>2. /\ step \notin Opening \cup Measuring \cup {"cleanup"}
          /\ step \in Opening \cup Measuring \cup {"search", "plan", "idle", "cleanup", "end"}
      BY <2>1 DEF Opening, Measuring
    <3>3. QED  BY <3>1, <3>2 DEF TypeOK
  <2>3. Used = {}
    BY <2>1 DEF Used
  <2>4. NamesInv
    BY <2>1, <2>3 DEF NamesInv, Opening
  <2>5. OpenInv
    BY <2>1 DEF OpenInv, Opening, Measuring
  <2>6. StagesInv /\ LostInv
    BY <2>1 DEF Init, StagesInv, LostInv, Opening, Measuring
  <2>7. QED  BY <2>2, <2>4, <2>5, <2>6 DEF IInv
<1>2. IInv /\ [Next]_vars => IInv'
  BY TypeStep, NamesStep, OpenStep, StagesStep, LostStep DEF IInv
<1>3. QED  BY <1>1, <1>2, PTL DEF Spec

(* While a stage measures, the sessions open at the recorder are the ones  *)
(* it holds and those lost with the exception of their worker; when it has *)
(* ended none but these is left, and after the client has closed none is:  *)
(* in main() of probe_playback_scaling.py, whatever its stages raise.      *)
THEOREM SessionsAreAccounted == Spec => []SessionsAreAccountedFor
<1>1. IInv => SessionsAreAccountedFor
  BY DEF IInv, OpenInv, SessionsAreAccountedFor, Measuring
<1>2. QED  BY <1>1, Inductive, PTL

(* While playbacks are measured, a session open beside them is one whose   *)
(* loss the report of its stage shows; and the conditions of main() keep   *)
(* the pressure stages away from the sessions that the baseline lost, and  *)
(* the second of them from those that the first lost in its preparation.   *)
THEOREM MeasuredWithoutOthers == Spec => []OtherSessionsAreExplained
<1>1. ASSUME IInv PROVE OtherSessionsAreExplained
  <2>1. SUFFICES ASSUME step \in Measuring, NEW x \in open, x \notin reach
                 PROVE  /\ Shown(x)
                        /\ section \in {3, 4} => x[1] = section \/ (x[1] = 3 /\ x[2] = "active")
    BY DEF OtherSessionsAreExplained, Measuring
  <2>2. x \in dropped
    BY <1>1, <2>1 DEF IInv, OpenInv
  <2>3. ~raised /\ step \notin Opening
    BY <1>1, <2>1 DEF IInv, StagesInv, Measuring, Opening
  <2>4. /\ x[1] \in 1..5 /\ Wanted(x[1]) /\ Shown(x)
        /\ x[2] = "prepared" => x[1] \in {3, 4, 5}
    BY <1>1, <2>2, <2>3 DEF IInv, LostInv
  <2>5. x[1] <= section /\ section \in 0..6
    BY <1>1, <2>1 DEF IInv, NamesInv, TypeOK, Used
  <2>6. ASSUME section \in {3, 4}
        PROVE  x[1] = section \/ (x[1] = 3 /\ x[2] = "active")
    <3>1. BaselineStable /\ (section = 4 => PressureStable) /\ Wanted(section)
      BY <1>1, <2>1, <2>6 DEF IInv, StagesInv, Measuring
    <3>2. CASE mode = "all"
      <4>1. x[1] # 1
        BY <2>4, <3>2 DEF Wanted, Stages
      <4>2. x[1] # 2
        BY <2>4, <3>1, <3>2 DEF Shown, Reported, BaselineStable
      <4>3. x[1] = 3 /\ section = 4 => x[2] = "active"
        BY <2>4, <3>1, <3>2 DEF Shown, Reported, PressureStable
      <4>4. QED  BY <2>4, <2>5, <2>6, <4>1, <4>2, <4>3
    <3>3. CASE mode # "all"
      BY <2>4, <2>6, <3>1, <3>3 DEF Wanted, Stages
    <3>4. QED  BY <3>2, <3>3
  <2>7. QED  BY <2>4, <2>6
<1>2. QED  BY <1>1, Inductive, PTL

(***************************************************************************)
(*                         The window and the plan                         *)
(*                                                                         *)
(* The sweep of Active is a recursive function.  That it is one, and what  *)
(* it yields at a time, follows by induction on the time; each  *)
(* induction looks at a least counterexample.                              *)
(***************************************************************************)

(* A set of numbers has a least one: what the inductions below rest on.    *)
LEMMA LeastNumber ==
  ASSUME NEW T \in SUBSET Nat, T # {}
  PROVE  \E n \in T : \A m \in T : n <= m
<1> DEFINE R == {p \in Nat \X Nat : p[1] < p[2]}
<1>1. R = OpToRel(<, Nat)
  BY DEF OpToRel
<1>2. IsWellFoundedOn(R, Nat)
  BY <1>1, NatLessThanWellFounded
<1>3. PICK n \in T : \A m \in T : ~ (<<m, n>> \in R)
  BY <1>2, WFMin
<1>4. ASSUME NEW m \in T, m < n
      PROVE  <<m, n>> \in R
  BY <1>4
<1> HIDE DEF R
<1>5. \A m \in T : ~ (m < n)
  BY <1>3, <1>4
<1> QED BY <1>5

(* And a greatest one, if there is a bound.                                *)
LEMMA GreatestNumber ==
  ASSUME NEW T \in SUBSET Nat, T # {}, NEW bound \in Nat, \A n \in T : n <= bound
  PROVE  \E n \in T : \A m \in T : m <= n
<1> DEFINE R == {bound - n : n \in T}
<1>1. R \in SUBSET Nat /\ R # {}
  <2>1. \A n \in T : bound - n \in Nat
    OBVIOUS
  <2> QED BY <2>1
<1>2. PICK r \in R : \A q \in R : r <= q
  BY <1>1, LeastNumber
<1>3. PICK n \in T : r = bound - n
  OBVIOUS
<1>4. \A m \in T : bound - m \in R
  OBVIOUS
<1> HIDE DEF R
<1>5. ASSUME NEW m \in T PROVE m <= n
  <2>1. r <= bound - m
    BY <1>2, <1>4
  <2>2. m \in Nat /\ n \in Nat /\ bound \in Nat
    OBVIOUS
  <2>3. QED  BY <1>3, <2>1, <2>2
<1> QED BY <1>5

(***************************************************************************)
(* The sweep over the events.  What the recursive function of Active is at *)
(* one time, given what it is at the time before.                          *)
(***************************************************************************)
Starts(items, t) == {i \in DOMAIN items : items[i].start = t}

Sweep(found, active, t) ==
  [c \in Channels |->
     CASE t = -1 -> None
       [] t # -1 /\ Starts(found[c], t) # {} -> found[c][Last(Starts(found[c], t))]
       [] OTHER -> IF active[t - 1][c].end = t THEN None ELSE active[t - 1][c]]

Sweeps(g, found, n) == g = [t \in -1..n |-> Sweep(found, g, t)]

(* A step of it looks only at the time before.                             *)
LEMMA SweepDependsOnBefore ==
  ASSUME NEW found, NEW g, NEW h, NEW t, t = -1 \/ g[t - 1] = h[t - 1]
  PROVE  Sweep(found, g, t) = Sweep(found, h, t)
<1>1. CASE t = -1
  BY <1>1, Zenon DEF Sweep
<1>2. CASE g[t - 1] = h[t - 1]
  BY <1>2, Zenon DEF Sweep
<1> QED BY <1>1, <1>2

(* There is such a function up to any time.                                *)
LEMMA SweepExists ==
  ASSUME NEW found, NEW n \in Nat
  PROVE  \E g : Sweeps(g, found, n - 1)
<1> DEFINE T == {k \in Nat : ~ \E g : Sweeps(g, found, k - 1)}
<1> SUFFICES ASSUME T # {} PROVE FALSE
  OBVIOUS
<1>1. PICK k \in T : \A m \in T : k <= m
  BY LeastNumber
<1>2. k # 0
  <2> DEFINE g == [t \in -1..(0 - 1) |-> [c \in Channels |-> None]]
  <2>1. \A t \in -1..(0 - 1) : t = -1
    OBVIOUS
  <2>2. \A t \in -1..(0 - 1) : Sweep(found, g, t) = [c \in Channels |-> None]
    BY <2>1 DEF Sweep
  <2>3. Sweeps(g, found, 0 - 1)
    BY <2>2 DEF Sweeps
  <2> QED BY <2>3
<1>3. k - 1 \in Nat /\ k - 1 \notin T
  BY <1>1, <1>2
<1>4. PICK g : Sweeps(g, found, (k - 1) - 1)
  BY <1>3
<1> DEFINE h == [t \in -1..(k - 1) |-> IF t < k - 1 THEN g[t] ELSE Sweep(found, g, t)]
<1>5. ASSUME NEW t \in -1..(k - 1)
      PROVE  h[t] = Sweep(found, h, t)
  <2>1. t = -1 \/ g[t - 1] = h[t - 1]
    <3>1. t # -1 => t - 1 \in -1..(k - 1) /\ t - 1 < k - 1
      BY <1>1, <1>5
    <3> QED BY <3>1
  <2>2. Sweep(found, g, t) = Sweep(found, h, t)
    <3> HIDE DEF h
    <3> QED BY <2>1, SweepDependsOnBefore
  <2>3. CASE t < k - 1
    <3>1. t \in -1..((k - 1) - 1)
      BY <1>1, <1>5, <2>3
    <3>2. g[t] = Sweep(found, g, t)
      BY <1>4, <3>1, Zenon DEF Sweeps
    <3>3. h[t] = g[t]
      BY <1>5, <2>3
    <3> QED BY <2>2, <3>2, <3>3
  <2>4. CASE ~(t < k - 1)
    <3>1. h[t] = Sweep(found, g, t)
      BY <1>5, <2>4, Zenon
    <3> QED BY <2>2, <3>1
  <2> QED BY <2>3, <2>4
<1>6. Sweeps(h, found, k - 1)
  BY <1>5, Zenon DEF Sweeps
<1> QED BY <1>1, <1>6

(* Active is one, up to MaxTime.                                           *)
LEMMA ActiveIs ==
  ASSUME NEW found, NEW t \in -1..MaxTime
  PROVE  Active(found)[t] = Sweep(found, Active(found), t)
<1>1. MaxTime \in Nat /\ MaxTime + 1 \in Nat /\ (MaxTime + 1) - 1 = MaxTime
  BY CamerasAssumption
<1>2. \E g : Sweeps(g, found, MaxTime)
  <2>1. \E g : Sweeps(g, found, (MaxTime + 1) - 1)
    BY <1>1, SweepExists, Zenon
  <2> QED BY <1>1, <2>1, Zenon
<1>3. Active(found) = CHOOSE g : Sweeps(g, found, MaxTime)
  BY Zenon DEF Active, Sweeps, Sweep, Starts
<1>4. Sweeps(Active(found), found, MaxTime)
  BY <1>2, <1>3, Zenon
<1> QED BY <1>4, Zenon DEF Sweeps

(***************************************************************************)
(* The recordings of a channel, and which of them the sweep has active.    *)
(***************************************************************************)
(* What _search_channel returns, recording by recording.                   *)
LEMMA FoundIs ==
  ASSUME NEW items \in Found
  PROVE  /\ \E n \in Nat : DOMAIN items = 1..n
         /\ \A i \in DOMAIN items :
              /\ i \in Nat /\ items[i].path = i /\ items[i] # None
              /\ items[i].start \in 0..MaxTime /\ items[i].end \in 0..MaxTime
              /\ items[i].start <= items[i].end
<1>1. \E n \in 0..MaxRecordings : \E f \in [1..n -> Interval] :
        items = [i \in DOMAIN f |-> [path |-> i, start |-> f[i][1], end |-> f[i][2]]]
  BY DEF Found
<1>2. PICK n \in 0..MaxRecordings : \E f \in [1..n -> Interval] :
        items = [i \in DOMAIN f |-> [path |-> i, start |-> f[i][1], end |-> f[i][2]]]
  BY <1>1
<1>3. PICK f \in [1..n -> Interval] :
        items = [i \in DOMAIN f |-> [path |-> i, start |-> f[i][1], end |-> f[i][2]]]
  BY <1>2
<1>4. n \in Nat /\ DOMAIN items = 1..n
  BY <1>3, CamerasAssumption
<1>5. ASSUME NEW i \in DOMAIN items
      PROVE  /\ i \in Nat /\ items[i].path = i /\ items[i] # None
             /\ items[i].start \in 0..MaxTime /\ items[i].end \in 0..MaxTime
             /\ items[i].start <= items[i].end
  <2>1. i \in 1..n /\ i # 0
    BY <1>4
  <2>2. f[i] \in Interval
    BY <1>3, <2>1
  <2>3. items[i] = [path |-> i, start |-> f[i][1], end |-> f[i][2]]
    BY <1>3, <2>1
  <2>4. f[i][1] \in 0..MaxTime /\ f[i][2] \in 0..MaxTime /\ f[i][1] <= f[i][2]
    BY <2>2 DEF Interval
  <2> QED BY <2>1, <2>3, <2>4 DEF None
<1> QED BY <1>4, <1>5

(* Of the recordings that start at a time there is a last one.             *)
LEMMA LastStart ==
  ASSUME NEW items \in Found, NEW t, Starts(items, t) # {}
  PROVE  Last(Starts(items, t)) \in Starts(items, t)
<1>1. PICK n \in Nat : DOMAIN items = 1..n
  BY FoundIs
<1>2. Starts(items, t) \in SUBSET Nat /\ \A i \in Starts(items, t) : i <= n
  BY <1>1 DEF Starts
<1>3. \E i \in Starts(items, t) : \A j \in Starts(items, t) : j <= i
  BY <1>2, GreatestNumber
<1> QED BY <1>3 DEF Last

(* The sweep in one channel begins with nothing active.                    *)
LEMMA ActiveFirst ==
  ASSUME NEW found, NEW c \in Channels
  PROVE  Active(found)[-1][c] = None
<1>1. -1 \in -1..MaxTime
  BY CamerasAssumption
<1>2. Active(found)[-1] = Sweep(found, Active(found), -1)
  BY <1>1, ActiveIs
<1> QED BY <1>2, Zenon DEF Sweep

(* What is active is what starts last, or else what was and has not ended. *)
LEMMA ActiveStep ==
  ASSUME NEW found \in [Channels -> Found], NEW c \in Channels, NEW t \in 0..MaxTime
  PROVE  \/ \E i \in Starts(found[c], t) : Active(found)[t][c] = found[c][i]
         \/ /\ Starts(found[c], t) = {}
            /\ Active(found)[t][c] = IF Active(found)[t - 1][c].end = t THEN None
                                      ELSE Active(found)[t - 1][c]
<1> DEFINE active == Active(found)
<1>1. t \in -1..MaxTime /\ t # -1
  BY CamerasAssumption
<1>2. active[t] = Sweep(found, active, t)
  BY <1>1, ActiveIs
<1> HIDE DEF active
<1>3. CASE Starts(found[c], t) # {}
  <2>1. active[t][c] = found[c][Last(Starts(found[c], t))]
    BY <1>1, <1>2, <1>3 DEF Sweep
  <2>2. found[c] \in Found
    OBVIOUS
  <2> QED BY <1>3, <2>1, <2>2, LastStart DEF active
<1>4. CASE Starts(found[c], t) = {}
  <2>1. active[t][c] = IF active[t - 1][c].end = t THEN None ELSE active[t - 1][c]
    BY <1>1, <1>2, <1>4 DEF Sweep
  <2> QED BY <1>4, <2>1 DEF active
<1> QED BY <1>3, <1>4

(* What is active at a time has begun, and has not ended if no recording   *)
(* of the channel is empty.                                                *)
ActiveWell(items, r, t) ==
  \/ r = None
  \/ \E i \in DOMAIN items :
       /\ r = items[i] /\ items[i].start <= t
       /\ (\A j \in DOMAIN items : items[j].start < items[j].end) => t < items[i].end

(* By induction on the time.                                               *)
LEMMA ActiveHasBegun ==
  ASSUME NEW found \in [Channels -> Found], NEW c \in Channels, NEW t \in -1..MaxTime
  PROVE  ActiveWell(found[c], Active(found)[t][c], t)
<1> DEFINE Well(n) == ActiveWell(found[c], Active(found)[n - 1][c], n - 1)
           T == {n \in 0..(MaxTime + 1) : ~Well(n)}
<1>0. found[c] \in Found /\ MaxTime \in Nat
  BY CamerasAssumption
<1> SUFFICES ASSUME T # {} PROVE FALSE
  <2>1. t + 1 \in 0..(MaxTime + 1) /\ (t + 1) - 1 = t
    BY <1>0
  <2>2. ~ (T # {}) => Well(t + 1)
    BY <2>1
  <2> QED BY <2>1, <2>2, Zenon
<1>1. PICK n \in T : \A m \in T : n <= m
  <2>1. T \in SUBSET Nat
    BY <1>0
  <2> QED BY <2>1, LeastNumber
<1>2. n \in 0..(MaxTime + 1) /\ ~Well(n)
  OBVIOUS
<1> HIDE DEF Well
<1>3. n # 0
  <2>1. 0 - 1 = -1
    OBVIOUS
  <2>2. Well(0)
    BY <2>1, ActiveFirst DEF Well, ActiveWell
  <2> QED BY <1>2, <2>2
<1> DEFINE s == n - 1
<1>4. s \in 0..MaxTime /\ Well(s)
  <2>1. s \in 0..MaxTime /\ s \in 0..(MaxTime + 1) /\ s < n
    BY <1>0, <1>2, <1>3
  <2>2. s \notin T
    BY <1>1, <1>2, <2>1
  <2> QED BY <2>1, <2>2
<1>5. CASE \E i \in Starts(found[c], s) : Active(found)[s][c] = found[c][i]
  <2>1. PICK i \in DOMAIN found[c] : found[c][i].start = s /\ Active(found)[s][c] = found[c][i]
    BY <1>5 DEF Starts
  <2>2. ActiveWell(found[c], Active(found)[s][c], s)
    BY <1>4, <2>1 DEF ActiveWell
  <2> QED BY <1>2, <2>2, Zenon DEF Well
<1>6. CASE Active(found)[s][c] = IF Active(found)[s - 1][c].end = s THEN None
                                 ELSE Active(found)[s - 1][c]
  <2>1. CASE Active(found)[s][c] = None
    BY <1>2, <2>1, Zenon DEF Well, ActiveWell
  <2>2. CASE Active(found)[s][c] # None
    <3>1. Active(found)[s][c] = Active(found)[s - 1][c] /\ Active(found)[s - 1][c].end # s
      BY <1>6, <2>2, Zenon
    <3>2. PICK i \in DOMAIN found[c] :
            /\ Active(found)[s - 1][c] = found[c][i] /\ found[c][i].start <= s - 1
            /\ (\A j \in DOMAIN found[c] : found[c][j].start < found[c][j].end)
                 => s - 1 < found[c][i].end
      BY <1>4, <2>2, <3>1, Zenon DEF Well, ActiveWell
    <3>3. found[c][i].end \in Nat /\ found[c][i].start \in Nat
      BY <1>0, FoundIs
    <3>4. found[c][i].end # s
      BY <3>1, <3>2, Zenon
    <3> HIDE DEF s
    <3>5. s \in Nat
      BY <1>4
    <3>6. /\ found[c][i].start <= s
          /\ s - 1 < found[c][i].end => s < found[c][i].end
      BY <3>2, <3>3, <3>4, <3>5
    <3>7. ActiveWell(found[c], Active(found)[s][c], s)
      BY <3>1, <3>2, <3>6, Zenon DEF ActiveWell
    <3> QED BY <1>2, <3>7, Zenon DEF Well, s
  <2> QED BY <2>1, <2>2
<1> QED BY <1>4, <1>5, <1>6, ActiveStep

(* A recording of an orderly channel is active from its start to its end.  *)
LEMMA ActiveWhileItLasts ==
  ASSUME NEW found \in [Channels -> Found], NEW c \in Channels, Orderly(found[c]),
         NEW i \in DOMAIN found[c], NEW t \in 0..MaxTime,
         found[c][i].start <= t, t < found[c][i].end
  PROVE  Active(found)[t][c] = found[c][i]
<1> DEFINE r == found[c][i]
           T == {s \in 0..MaxTime : r.start <= s /\ s < r.end /\ Active(found)[s][c] # r}
<1>0. /\ found[c] \in Found /\ MaxTime \in Nat
      /\ \A j \in DOMAIN found[c] :
           j \in Nat /\ found[c][j].start \in Nat /\ found[c][j].end \in Nat
  BY CamerasAssumption, FoundIs
<1> SUFFICES ASSUME T # {} PROVE FALSE
  OBVIOUS
<1>1. PICK s \in T : \A m \in T : s <= m
  <2>1. T \in SUBSET Nat
    BY <1>0
  <2> QED BY <2>1, LeastNumber
<1>2. /\ s \in 0..MaxTime /\ s \in Nat /\ r.start <= s /\ s < r.end /\ Active(found)[s][c] # r
  OBVIOUS
<1>3. \A j \in Starts(found[c], s) : j = i
  <2>1. SUFFICES ASSUME NEW j \in DOMAIN found[c], found[c][j].start = s, j # i
                 PROVE  FALSE
    BY DEF Starts
  <2>2. found[c][j].start < found[c][j].end
    BY DEF Orderly
  <2>3. CASE j < i
    <3>1. found[c][j].end <= r.start
      BY <2>3 DEF Orderly
    <3> QED BY <1>0, <1>2, <2>1, <2>2, <3>1
  <2>4. CASE i < j
    <3>1. r.end <= found[c][j].start
      BY <2>4 DEF Orderly
    <3> QED BY <1>0, <1>2, <2>1, <3>1
  <2> QED BY <1>0, <2>1, <2>3, <2>4
<1>4. CASE \E j \in Starts(found[c], s) : Active(found)[s][c] = found[c][j]
  BY <1>2, <1>3, <1>4
<1>5. CASE /\ Starts(found[c], s) = {}
           /\ Active(found)[s][c] = IF Active(found)[s - 1][c].end = s THEN None
                                     ELSE Active(found)[s - 1][c]
  <2>1. r.start # s
    BY <1>5 DEF Starts
  <2>2. s - 1 \in 0..MaxTime /\ r.start <= s - 1 /\ s - 1 < r.end /\ ~(s <= s - 1)
    BY <1>0, <1>2, <2>1
  <2>3. s - 1 \notin T
    BY <1>1, <2>2
  <2>4. Active(found)[s - 1][c] = r
    BY <2>2, <2>3
  <2>5. r.end # s
    BY <1>0, <1>2
  <2> QED BY <1>2, <1>5, <2>4, <2>5
<1>6. \/ \E j \in Starts(found[c], s) : Active(found)[s][c] = found[c][j]
      \/ /\ Starts(found[c], s) = {}
         /\ Active(found)[s][c] = IF Active(found)[s - 1][c].end = s THEN None
                                   ELSE Active(found)[s - 1][c]
  <2>1. s \in 0..MaxTime
    BY <1>2
  <2>2. found \in [Channels -> Found] /\ c \in Channels
    OBVIOUS
  <2> HIDE DEF r, T
  <2> QED BY <2>1, <2>2, ActiveStep, Z3
<1> QED BY <1>4, <1>5, <1>6

(***************************************************************************)
(* The windows between one event and the next, and the best of them.       *)
(***************************************************************************)
Times(found) ==
  UNION {UNION {{found[c][i].start, found[c][i].end} : i \in DOMAIN found[c]} : c \in Channels}

Neighbours(found, p, q) ==
  /\ p \in Times(found) /\ q \in Times(found) /\ p < q
  /\ ~ \E t \in Times(found) : p < t /\ t < q

WindowAt(found, p, q) == [selections |-> Active(found)[p], start |-> p, end |-> q]

(* Every time of an event is the start or the end of a recording.          *)
LEMMA TimesAre ==
  ASSUME NEW found \in [Channels -> Found]
  PROVE  /\ Times(found) \subseteq 0..MaxTime
         /\ \A c \in Channels : \A i \in DOMAIN found[c] :
              found[c][i].start \in Times(found) /\ found[c][i].end \in Times(found)
         /\ \A t \in Times(found) : \E c \in Channels : \E i \in DOMAIN found[c] :
              t = found[c][i].start \/ t = found[c][i].end
<1>1. \A c \in Channels : \A i \in DOMAIN found[c] :
        found[c][i].start \in 0..MaxTime /\ found[c][i].end \in 0..MaxTime
  BY FoundIs
<1>2. \A t \in Times(found) : \E c \in Channels : \E i \in DOMAIN found[c] :
        t = found[c][i].start \/ t = found[c][i].end
  BY DEF Times
<1>3. \A c \in Channels : \A i \in DOMAIN found[c] :
        found[c][i].start \in Times(found) /\ found[c][i].end \in Times(found)
  BY DEF Times
<1>4. Times(found) \subseteq 0..MaxTime
  BY <1>1, <1>2
<1> QED BY <1>2, <1>3, <1>4

(* Every window lies between two events, with a camera that records there. *)
LEMMA CandidatesAre ==
  ASSUME NEW found \in [Channels -> Found]
  PROVE  /\ \A v \in Candidates(found) : \E p, q \in Times(found) :
              /\ Neighbours(found, p, q) /\ v = WindowAt(found, p, q)
              /\ Selected(Active(found)[p]) # {}
         /\ \A p, q \in Times(found) :
              Neighbours(found, p, q) /\ Selected(Active(found)[p]) # {}
                => WindowAt(found, p, q) \in Candidates(found)
<1> DEFINE between == {p \in Times(found) \X Times(found) :
                         /\ p[1] < p[2] /\ Selected(Active(found)[p[1]]) # {}
                         /\ ~\E t \in Times(found) : p[1] < t /\ t < p[2]}
<1>1. Candidates(found) = {WindowAt(found, p[1], p[2]) : p \in between}
  BY Zenon DEF Candidates, WindowAt, Times
<1>2. \A p \in between : /\ p[1] \in Times(found) /\ p[2] \in Times(found)
                         /\ Neighbours(found, p[1], p[2]) /\ Selected(Active(found)[p[1]]) # {}
  BY DEF Neighbours
<1>3. \A p, q \in Times(found) :
        Neighbours(found, p, q) /\ Selected(Active(found)[p]) # {} =>
          <<p, q>> \in between /\ <<p, q>>[1] = p /\ <<p, q>>[2] = q
  BY DEF Neighbours
<1> HIDE DEF between
<1>4. ASSUME NEW v \in Candidates(found)
      PROVE  \E p, q \in Times(found) :
               /\ Neighbours(found, p, q) /\ v = WindowAt(found, p, q)
               /\ Selected(Active(found)[p]) # {}
  <2>1. PICK p \in between : v = WindowAt(found, p[1], p[2])
    BY <1>1
  <2> QED BY <1>2, <2>1
<1>5. ASSUME NEW p \in Times(found), NEW q \in Times(found),
             Neighbours(found, p, q), Selected(Active(found)[p]) # {}
      PROVE  WindowAt(found, p, q) \in Candidates(found)
  <2>1. <<p, q>> \in between /\ WindowAt(found, <<p, q>>[1], <<p, q>>[2]) = WindowAt(found, p, q)
    BY <1>3, <1>5
  <2> QED BY <1>1, <2>1
<1> QED BY <1>4, <1>5

Many(v) == Cardinality(Selected(v.selections))

(* No more cameras are selected than there are.                            *)
LEMMA SelectedAreFinite ==
  ASSUME NEW active
  PROVE  /\ IsFiniteSet(Selected(active))
         /\ Cardinality(Selected(active)) \in 0..Cameras
<1>1. IsFiniteSet(Channels) /\ Cardinality(Channels) = Cameras /\ Cameras \in Nat
  <2>1. Cameras \in Nat /\ 1 \in Int /\ Cameras \in Int
    BY CamerasAssumption
  <2>2. /\ IsFiniteSet(1..Cameras)
        /\ Cardinality(1..Cameras) = IF 1 > Cameras THEN 0 ELSE Cameras - 1 + 1
    BY <2>1, FS_Interval
  <2> QED BY <2>1, <2>2 DEF Channels
<1>2. Selected(active) \in SUBSET Channels
  BY DEF Selected
<1>3. IsFiniteSet(Selected(active)) /\ Cardinality(Selected(active)) <= Cardinality(Channels)
  BY <1>1, <1>2, FS_Subset
<1>4. Cardinality(Selected(active)) \in Nat
  BY <1>3, FS_CardinalityType
<1> QED BY <1>1, <1>3, <1>4

(* If there is any window, the one chosen is one of them, and better than  *)
(* any other.                                                              *)
LEMMA BestIs ==
  ASSUME NEW found \in [Channels -> Found], Candidates(found) # {}
  PROVE  /\ BestCommonWindow(found) \in Candidates(found)
         /\ \A w \in Candidates(found) : Better(BestCommonWindow(found), w)
<1> DEFINE all == Candidates(found)
<1>1. MaxTime \in Nat /\ Cameras \in Nat
  BY CamerasAssumption
<1>2. \A v \in all : /\ v.start \in 0..MaxTime /\ v.end \in 0..MaxTime /\ v.start < v.end
                     /\ Many(v) \in 0..Cameras
  <2>1. SUFFICES ASSUME NEW v \in all
                 PROVE  /\ v.start \in 0..MaxTime /\ v.end \in 0..MaxTime /\ v.start < v.end
                        /\ Many(v) \in 0..Cameras
    OBVIOUS
  <2>2. PICK p, q \in Times(found) : Neighbours(found, p, q) /\ v = WindowAt(found, p, q)
    BY CandidatesAre
  <2>3. v.start = p /\ v.end = q /\ p < q /\ p \in 0..MaxTime /\ q \in 0..MaxTime
    BY <2>2, TimesAre DEF Neighbours, WindowAt
  <2> QED BY <2>3, SelectedAreFinite DEF Many
<1> HIDE DEF all
<1>3. PICK v1 \in all : \A w \in all : Many(w) <= Many(v1)
  <2> DEFINE T == {Many(v) : v \in all}
  <2>1. T \in SUBSET Nat /\ T # {} /\ \A n \in T : n <= Cameras
    BY <1>1, <1>2 DEF all
  <2>2. PICK n \in T : \A m \in T : m <= n
    BY <1>1, <2>1, GreatestNumber
  <2> QED BY <2>2
<1> DEFINE most == {v \in all : Many(v) = Many(v1)}
<1>4. PICK v2 \in most : \A w \in most : w.end - w.start <= v2.end - v2.start
  <2> DEFINE T == {v.end - v.start : v \in most}
  <2>1. \A v \in most : v.end - v.start \in Nat /\ v.end - v.start <= MaxTime
    BY <1>1, <1>2
  <2>2. v1 \in most
    OBVIOUS
  <2>3. T \in SUBSET Nat /\ T # {} /\ \A n \in T : n <= MaxTime
    BY <2>1, <2>2
  <2>4. PICK n \in T : \A m \in T : m <= n
    BY <1>1, <2>3, GreatestNumber
  <2> QED BY <2>4
<1> DEFINE longest == {v \in most : v.end - v.start = v2.end - v2.start}
<1>5. PICK v3 \in longest : \A w \in longest : v3.start <= w.start
  <2> DEFINE T == {v.start : v \in longest}
  <2>1. v2 \in longest
    OBVIOUS
  <2>2. T \in SUBSET Nat /\ T # {}
    BY <1>2, <2>1
  <2>3. PICK n \in T : \A m \in T : n <= m
    BY <2>2, LeastNumber
  <2> QED BY <2>3
<1>6. v3 \in all /\ Many(v3) = Many(v1) /\ v3.end - v3.start = v2.end - v2.start
  OBVIOUS
<1>7. ASSUME NEW w \in all
      PROVE  Better(v3, w)
  <2>1. Many(w) <= Many(v3)
    BY <1>3, <1>6
  <2>2. Many(w) = Many(v3) => w.end - w.start <= v3.end - v3.start
    BY <1>4, <1>6
  <2>3. Many(w) = Many(v3) /\ w.end - w.start = v3.end - v3.start => v3.start <= w.start
    BY <1>5, <1>6
  <2>4. /\ Many(w) \in Nat /\ Many(v3) \in Nat
        /\ w.start \in Int /\ w.end \in Int /\ v3.start \in Int /\ v3.end \in Int
    BY <1>1, <1>2, <1>6
  <2>5. \/ Many(v3) > Many(w)
        \/ /\ Many(v3) = Many(w)
           /\ \/ (v3.end - v3.start) - (w.end - w.start) > 0
              \/ (v3.end - v3.start) - (w.end - w.start) = 0 /\ v3.start <= w.start
    BY <2>1, <2>2, <2>3, <2>4
  <2> QED BY <2>5 DEF Better, Many
<1>8. BestCommonWindow(found) = CHOOSE v \in all : \A w \in all : Better(v, w)
  BY DEF BestCommonWindow, all
<1>9. \E v \in all : \A w \in all : Better(v, w)
  BY <1>6, <1>7
<1>10. /\ BestCommonWindow(found) \in all
       /\ \A w \in all : Better(BestCommonWindow(found), w)
  BY <1>8, <1>9, Zenon
<1> QED BY <1>10 DEF all

(* A channel whose recordings are none of them empty is selected with one  *)
(* that covers the whole window.                                           *)
LEMMA SelectionCovers ==
  ASSUME NEW found \in [Channels -> Found],
         NEW c \in Selected(BestCommonWindow(found).selections),
         \A i \in DOMAIN found[c] : found[c][i].start < found[c][i].end
  PROVE  LET best == BestCommonWindow(found)
         IN  Covers(best.selections[c], best.start, best.end)
<1> DEFINE best == BestCommonWindow(found)
<1>1. Candidates(found) # {}
  <2>1. SUFFICES ASSUME Candidates(found) = {} PROVE FALSE
    OBVIOUS
  <2>2. best = NoWindow
    BY <2>1 DEF BestCommonWindow
  <2> QED BY <2>2 DEF NoWindow, Selected
<1>2. PICK p, q \in Times(found) : Neighbours(found, p, q) /\ best = WindowAt(found, p, q)
  BY <1>1, BestIs, CandidatesAre
<1>3. best.selections = Active(found)[p] /\ best.start = p /\ best.end = q
  BY <1>2 DEF WindowAt
<1>4. p \in -1..MaxTime /\ p \in Nat /\ q \in Nat /\ c \in Channels /\ Active(found)[p][c] # None
  <2>1. p \in 0..MaxTime /\ q \in 0..MaxTime /\ MaxTime \in Nat
    BY TimesAre, CamerasAssumption
  <2>2. c \in Channels /\ best.selections[c] # None
    BY DEF Selected
  <2> QED BY <1>3, <2>1, <2>2
<1>5. ActiveWell(found[c], Active(found)[p][c], p)
  BY <1>4, ActiveHasBegun
<1>6. PICK i \in DOMAIN found[c] :
        Active(found)[p][c] = found[c][i] /\ found[c][i].start <= p /\ p < found[c][i].end
  BY <1>4, <1>5, Zenon DEF ActiveWell
<1>7. found[c][i].end \in Times(found) /\ found[c][i].end \in Nat
  BY <1>4, TimesAre
<1>8. q <= found[c][i].end
  BY <1>2, <1>4, <1>6, <1>7 DEF Neighbours
<1> HIDE DEF best
<1>9. Covers(best.selections[c], best.start, best.end)
  BY <1>3, <1>6, <1>8 DEF Covers
<1> QED BY <1>9 DEF best

(* Around a time at which some recording lasts, two events are neighbours. *)
LEMMA EventsAround ==
  ASSUME NEW found \in [Channels -> Found], NEW s \in Nat,
         \E t \in Times(found) : t <= s, \E t \in Times(found) : s < t
  PROVE  \E p, q \in Times(found) :
           /\ Neighbours(found, p, q) /\ p <= s /\ s < q
           /\ \A t \in Times(found) : t <= s => t <= p
           /\ \A t \in Times(found) : t < q => t <= p
<1>0. Times(found) \subseteq Nat
  BY TimesAre, CamerasAssumption
<1> DEFINE L == {t \in Times(found) : t <= s}
           U == {t \in Times(found) : s < t}
<1>1. PICK p \in L : \A t \in L : t <= p
  <2>1. L \in SUBSET Nat /\ L # {} /\ \A t \in L : t <= s
    BY <1>0
  <2> QED BY <2>1, GreatestNumber
<1>2. PICK q \in U : \A t \in U : q <= t
  <2>1. U \in SUBSET Nat /\ U # {}
    BY <1>0
  <2> QED BY <2>1, LeastNumber
<1>3. p <= s /\ s < q
  BY <1>1, <1>2
<1>4. ASSUME NEW t \in Times(found), t < q
      PROVE  t <= p
  <2>1. t \notin U
    BY <1>0, <1>2, <1>4
  <2>2. t \in L
    BY <1>0, <2>1
  <2> QED BY <1>1, <2>2
<1>5. ~ \E t \in Times(found) : p < t /\ t < q
  BY <1>0, <1>4
<1>6. Neighbours(found, p, q)
  BY <1>0, <1>3, <1>5 DEF Neighbours
<1>7. \A t \in Times(found) : t <= s => t <= p
  BY <1>1
<1> QED BY <1>3, <1>4, <1>6, <1>7

Covering(found, s, e) ==
  {c \in Channels : \E i \in DOMAIN found[c] : Covers(found[c][i], s, e)}

(* Where recordings do not overlap, no part of the day has more cameras    *)
(* recording all of it than the window chosen, or as many for longer.      *)
LEMMA WindowIsBest ==
  ASSUME NEW found \in [Channels -> Found], \A c \in Channels : Orderly(found[c]),
         NEW s \in 0..MaxTime, NEW e \in 0..MaxTime, s < e
  PROVE  LET best   == BestCommonWindow(found)
             common == Cardinality(Covering(found, s, e))
         IN  \/ common = 0
             \/ Many(best) > common
             \/ Many(best) = common /\ e - s <= best.end - best.start
<1> DEFINE best == BestCommonWindow(found)
           C == Covering(found, s, e)
           active == Active(found)
<1>1. CASE C = {}
  BY <1>1, FS_EmptySet
<1>2. CASE C # {}
  <2>0. /\ s \in Nat /\ e \in Nat /\ MaxTime \in Nat /\ Times(found) \subseteq 0..MaxTime
        /\ \A c \in Channels : \A i \in DOMAIN found[c] :
             /\ found[c][i].start \in Times(found) /\ found[c][i].end \in Times(found)
             /\ found[c][i].start \in Nat /\ found[c][i].end \in Nat
             /\ found[c][i].start < found[c][i].end /\ found[c][i] # None
    <3>1. MaxTime \in Nat
      BY CamerasAssumption
    <3>2. Times(found) \subseteq 0..MaxTime /\ Times(found) \subseteq Nat
      BY <3>1, TimesAre
    <3>3. \A c \in Channels : \A i \in DOMAIN found[c] :
             found[c][i].start \in Times(found) /\ found[c][i].end \in Times(found)
      BY TimesAre
    <3>4. \A c \in Channels : \A i \in DOMAIN found[c] : found[c][i] # None
      BY FoundIs
    <3>5. \A c \in Channels : \A i \in DOMAIN found[c] : found[c][i].start < found[c][i].end
      BY DEF Orderly
    <3> QED BY <3>1, <3>2, <3>3, <3>4, <3>5
  <2>1. PICK c0 \in Channels : \E i \in DOMAIN found[c0] : Covers(found[c0][i], s, e)
    BY <1>2 DEF Covering
  <2>2. PICK i0 \in DOMAIN found[c0] : found[c0][i0].start <= s /\ e <= found[c0][i0].end
    BY <2>1 DEF Covers
  <2> DEFINE a == found[c0][i0].start
             b == found[c0][i0].end
  <2>3. a \in Times(found) /\ b \in Times(found) /\ a \in Nat /\ b \in Nat /\ a <= s /\ e <= b
    BY <2>0, <2>2
  <2> HIDE DEF a, b, C
  <2>4. PICK p, q \in Times(found) :
          /\ Neighbours(found, p, q) /\ p <= s /\ s < q
          /\ \A t \in Times(found) : t <= s => t <= p
          /\ \A t \in Times(found) : t < q => t <= p
    <3>1. s < b
      BY <2>0, <2>3
    <3>2. \E t \in Times(found) : t <= s
      BY <2>3, Zenon
    <3>3. \E t \in Times(found) : s < t
      BY <2>3, <3>1, Zenon
    <3> QED BY <2>0, <3>2, <3>3, EventsAround
  <2>5. p \in 0..MaxTime /\ q \in 0..MaxTime /\ p \in Nat /\ q \in Nat
    BY <2>0
  \* A recording that covers the part is active at p, and still at q if that is inside.
  <2>6. ASSUME NEW c \in C
        PROVE  /\ c \in Channels
               /\ \E i \in DOMAIN found[c] :
                    /\ found[c][i].start <= p /\ e <= found[c][i].end
                    /\ active[p][c] = found[c][i]
                    /\ q < e => active[q][c] = found[c][i]
    <3>1. PICK i \in DOMAIN found[c] : found[c][i].start <= s /\ e <= found[c][i].end
      BY <2>6 DEF C, Covering, Covers
    <3>2. c \in Channels
      BY <2>6 DEF C, Covering
    <3>3. /\ found[c][i].start \in Times(found) /\ found[c][i].start \in Nat
          /\ found[c][i].end \in Nat /\ Orderly(found[c])
      BY <2>0, <3>2
    <3>4. found[c][i].start <= p /\ p < found[c][i].end
      BY <2>0, <2>4, <2>5, <3>1, <3>3
    <3>5. active[p][c] = found[c][i]
      BY <2>5, <3>2, <3>3, <3>4, ActiveWhileItLasts
    <3>6. ASSUME q < e PROVE active[q][c] = found[c][i]
      <4>1. found[c][i].start <= q /\ q < found[c][i].end
        BY <2>0, <2>4, <2>5, <3>1, <3>3, <3>6
      <4> QED BY <2>5, <3>2, <3>3, <4>1, ActiveWhileItLasts
    <3> QED BY <3>1, <3>2, <3>4, <3>5, <3>6
  <2>7. C \subseteq Selected(active[p]) /\ (q < e => C \subseteq Selected(active[q]))
    BY <2>0, <2>6 DEF Selected
  <2> DEFINE v == WindowAt(found, p, q)
  <2>8. v \in Candidates(found)
    <3>1. Selected(active[p]) # {}
      BY <1>2, <2>7
    <3> QED BY <2>4, <3>1, CandidatesAre
  <2>9. v.selections = active[p] /\ v.start = p /\ v.end = q
    BY DEF WindowAt
  <2>10. /\ Better(best, v) /\ best.start \in Nat /\ best.end \in Nat
         /\ \A w \in Candidates(found) : Better(best, w)
    <3>1. best \in Candidates(found) /\ \A w \in Candidates(found) : Better(best, w)
      BY <2>8, BestIs
    <3>2. PICK x, y \in Times(found) : best = WindowAt(found, x, y)
      BY <3>1, CandidatesAre
    <3>3. best.start = x /\ best.end = y
      BY <3>2 DEF WindowAt
    <3> QED BY <2>0, <2>8, <3>1, <3>3
  <2> DEFINE n == Cardinality(C)
  <2>11. /\ Many(best) \in Nat /\ Many(v) \in Nat /\ n \in Nat /\ n <= Many(v)
         /\ IsFiniteSet(C)
         /\ n = Many(v) => Selected(active[p]) = C
    <3>1. IsFiniteSet(Selected(active[p])) /\ Cardinality(Selected(active[p])) \in Nat
      BY SelectedAreFinite, CamerasAssumption
    <3>2. Many(best) \in Nat
      BY SelectedAreFinite, CamerasAssumption DEF Many
    <3>3. /\ IsFiniteSet(C) /\ Cardinality(C) <= Cardinality(Selected(active[p]))
          /\ Cardinality(Selected(active[p])) = Cardinality(C) => Selected(active[p]) = C
      BY <2>7, <3>1, FS_Subset
    <3>4. Cardinality(C) \in Nat
      BY <3>3, FS_CardinalityType
    <3> QED BY <2>9, <3>1, <3>2, <3>3, <3>4 DEF Many
  <2> HIDE DEF v, best, n, active
  <2>12. \/ Many(best) > Many(v)
         \/ Many(best) = Many(v) /\ q - p <= best.end - best.start
    BY <2>5, <2>9, <2>10 DEF Better, Many
  <2>13. CASE Many(v) > n
    BY <2>11, <2>12, <2>13 DEF best, n, C
  <2>14. CASE e <= q
    BY <2>0, <2>4, <2>5, <2>10, <2>11, <2>12, <2>14 DEF best, n, C
  <2>15. CASE Many(v) = n /\ q < e
    \* Another camera begins at q, and is recorded with all of C from there.
    <3>1. Selected(active[p]) = C
      BY <2>11, <2>15
    <3>2. PICK d \in Channels : \E j \in DOMAIN found[d] :
             q = found[d][j].start \/ q = found[d][j].end
      BY TimesAre
    <3>3. PICK j \in DOMAIN found[d] : q = found[d][j].start \/ q = found[d][j].end
      BY <3>2
    <3>4. /\ found[d][j].start \in Times(found) /\ Orderly(found[d])
          /\ found[d][j].start \in Nat /\ found[d][j].end \in Nat
          /\ found[d][j].start < found[d][j].end /\ found[d][j] # None
      BY <2>0
    <3>5. q # found[d][j].end
      <4>1. SUFFICES ASSUME q = found[d][j].end PROVE FALSE
        OBVIOUS
      <4>2. found[d][j].start <= p /\ p < found[d][j].end
        BY <2>4, <2>5, <3>4, <4>1
      <4>3. active[p][d] = found[d][j]
        BY <2>5, <3>4, <4>2, ActiveWhileItLasts DEF active
      <4>4. d \in C
        BY <3>1, <3>4, <4>3 DEF Selected
      <4>5. PICK i \in DOMAIN found[d] : e <= found[d][i].end /\ active[p][d] = found[d][i]
        BY <2>6, <4>4
      <4>6. found[d][j] = found[d][i]
        BY <4>3, <4>5
      <4> QED BY <2>0, <2>15, <3>4, <4>1, <4>5, <4>6
    <3>6. q = found[d][j].start
      BY <3>3, <3>5
    <3>7. active[q][d] = found[d][j]
      BY <2>5, <3>4, <3>6, ActiveWhileItLasts DEF active
    <3>8. d \notin C
      <4>1. SUFFICES ASSUME d \in C PROVE FALSE
        OBVIOUS
      <4>2. PICK i \in DOMAIN found[d] : found[d][i].start <= p /\ active[q][d] = found[d][i]
        BY <2>6, <2>15, <4>1
      <4>3. found[d][j] = found[d][i]
        BY <3>7, <4>2
      <4> QED BY <2>0, <2>4, <2>5, <3>4, <3>6, <4>2, <4>3
    <3>9. C \cup {d} \subseteq Selected(active[q])
      BY <2>7, <2>15, <3>4, <3>7 DEF Selected
    <3>10. PICK r \in Times(found) : Neighbours(found, q, r)
      <4>1. q < b
        BY <2>0, <2>3, <2>5, <2>15
      <4>2. PICK x, y \in Times(found) :
              Neighbours(found, x, y) /\ x <= q /\ \A t \in Times(found) : t <= q => t <= x
        <5>1. \E t \in Times(found) : q < t
          BY <2>3, <4>1, Zenon
        <5>2. \E t \in Times(found) : t <= q
          BY <2>5
        <5> QED BY <2>5, <5>1, <5>2, EventsAround
      <4>3. x = q
        BY <2>0, <2>5, <4>2
      <4> QED BY <4>2, <4>3
    <3> DEFINE w == WindowAt(found, q, r)
    <3>11. w.selections = active[q] /\ w \in Candidates(found)
      <4>1. Selected(active[q]) # {}
        BY <3>9
      <4> QED BY <3>10, <4>1, CandidatesAre DEF WindowAt, active
    <3>12. n + 1 <= Many(w) /\ Many(w) \in Nat
      <4>1. IsFiniteSet(Selected(active[q])) /\ Cardinality(Selected(active[q])) \in Nat
        BY SelectedAreFinite, CamerasAssumption
      <4>2. Cardinality(C \cup {d}) <= Cardinality(Selected(active[q]))
        BY <3>9, <4>1, FS_Subset
      <4>3. Cardinality(C \cup {d}) = n + 1
        BY <2>11, <3>8, FS_AddElement DEF n
      <4> QED BY <3>11, <4>1, <4>2, <4>3 DEF Many
    <3> HIDE DEF w
    <3>13. Many(best) >= Many(w)
      <4>1. Better(best, w)
        BY <2>10, <3>11
      <4> QED BY <2>11, <3>12, <4>1 DEF Better, Many
    <3>14. Many(best) > n
      BY <2>11, <3>12, <3>13
    <3> QED BY <3>14 DEF best, n, C
  <2> QED BY <2>0, <2>5, <2>11, <2>13, <2>14, <2>15
<1> QED BY <1>1, <1>2

(* What is prepared is the first recording that starts when the current    *)
(* one has ended, or later.                                                *)
LEMMA NextIsNext ==
  ASSUME NEW items \in Found, Orderly(items), NEW k \in DOMAIN items,
         NEW i \in DOMAIN items, items[i].start >= items[k].end
  PROVE  LET next == NextRecording(items[k], items)
         IN  /\ next # None /\ items[k].end <= next.start
             /\ next.start <= items[i].start
<1> DEFINE later == {j \in DOMAIN items :
                       items[j].path # items[k].path /\ items[j].start >= items[k].start}
           after == {j \in later : items[j].start >= items[k].end}
           Before(m, j) ==
             \/ items[m].start < items[j].start
             \/ items[m].start = items[j].start /\ items[m].end < items[j].end
             \/ items[m].start = items[j].start /\ items[m].end = items[j].end /\ m <= j
           first == CHOOSE m \in after : \A j \in after : Before(m, j)
<1>1. /\ \A j \in DOMAIN items :
           /\ j \in Nat /\ items[j].path = j /\ items[j] # None
           /\ items[j].start \in Nat /\ items[j].end \in Nat /\ items[j].start < items[j].end
      /\ \A m, j \in DOMAIN items : m < j => items[m].end <= items[j].start
  <2>1. \A j \in DOMAIN items :
           /\ j \in Nat /\ items[j].path = j /\ items[j] # None
           /\ items[j].start \in 0..MaxTime /\ items[j].end \in 0..MaxTime
    BY FoundIs
  <2> QED BY <2>1 DEF Orderly
<1>2. i \in after
  BY <1>1
<1>3. PICK m \in after : \A j \in after : m <= j
  <2>1. after \in SUBSET Nat /\ after # {}
    BY <1>1, <1>2
  <2> HIDE DEF after
  <2> QED BY <2>1, LeastNumber
<1>4. \A j \in after : j \in DOMAIN items
  OBVIOUS
<1>5. \A j \in after : Before(m, j)
  <2>1. SUFFICES ASSUME NEW j \in after PROVE Before(m, j)
    OBVIOUS
  <2>2. m \in DOMAIN items /\ j \in DOMAIN items /\ m <= j
    BY <1>3, <1>4
  <2>3. CASE m = j
    BY <1>1, <2>2, <2>3
  <2>4. CASE m < j
    <3>1. items[m].start < items[j].start
      BY <1>1, <2>2, <2>4
    <3> QED BY <3>1
  <2> QED BY <1>1, <2>2, <2>3, <2>4
<1> HIDE DEF Before
<1>6. first \in after /\ \A j \in after : Before(first, j)
  <2> HIDE DEF after
  <2> QED BY <1>3, <1>5, Zenon
<1>7. NextRecording(items[k], items) = items[first]
  <2>1. after # {}
    BY <1>2
  <2> QED BY <2>1 DEF NextRecording, Before
<1>8. first \in DOMAIN items /\ items[k].end <= items[first].start
  <2> HIDE DEF first
  <2> QED BY <1>1, <1>6
<1>9. Before(first, i)
  BY <1>2, <1>6
<1> HIDE DEF first
<1>10. items[first].start <= items[i].start
  BY <1>1, <1>8, <1>9 DEF Before
<1> QED BY <1>1, <1>7, <1>8, <1>10

(***************************************************************************)
(* What WindowIsCommon says of a window and of the recordings to prepare.  *)
(***************************************************************************)
PlanIsRight(found, w, next) ==
  /\ \A c \in Selected(w.selections) :
       (\A i \in DOMAIN found[c] : found[c][i].start < found[c][i].end)
         => Covers(w.selections[c], w.start, w.end)
  /\ (\A c \in Channels : Orderly(found[c])) =>
       /\ \A s, e \in 0..MaxTime : s < e =>
            LET common == Cardinality({c \in Channels :
                            \E i \in DOMAIN found[c] : Covers(found[c][i], s, e)})
                many   == Cardinality(Selected(w.selections))
            IN  common = 0 \/ many > common \/ (many = common /\ e - s <= w.end - w.start)
       /\ \A c \in Chosen(w) :
            LET now == w.selections[c] IN
            \A i \in DOMAIN found[c] :
              found[c][i].start >= now.end =>
                next[c] # None /\ now.end <= next[c].start
                  /\ next[c].start <= found[c][i].start

(* The plan made by _best_common_window and _next_recording is right.      *)
LEMMA DiscoveryIsRight ==
  ASSUME NEW found \in [Channels -> Found],
         NEW best, best = BestCommonWindow(found),
         NEW next, next = [c \in Channels |->
           IF c \in Chosen(best) THEN NextRecording(best.selections[c], found[c]) ELSE None]
  PROVE  PlanIsRight(found, best, next)
<1>1. ASSUME NEW c \in Selected(best.selections),
             \A i \in DOMAIN found[c] : found[c][i].start < found[c][i].end
      PROVE  Covers(best.selections[c], best.start, best.end)
  BY <1>1, SelectionCovers
<1>2. ASSUME \A c \in Channels : Orderly(found[c]),
             NEW s \in 0..MaxTime, NEW e \in 0..MaxTime, s < e
      PROVE  LET common == Cardinality({c \in Channels :
                             \E i \in DOMAIN found[c] : Covers(found[c][i], s, e)})
                 many   == Cardinality(Selected(best.selections))
             IN  common = 0 \/ many > common \/ (many = common /\ e - s <= best.end - best.start)
  BY <1>2, WindowIsBest, Zenon DEF Covering, Many
<1>3. ASSUME \A c \in Channels : Orderly(found[c]),
             NEW c \in Chosen(best), NEW i \in DOMAIN found[c],
             found[c][i].start >= best.selections[c].end
      PROVE  /\ next[c] # None /\ best.selections[c].end <= next[c].start
             /\ next[c].start <= found[c][i].start
  <2>1. c \in Channels /\ best.selections[c] # None /\ c \in Selected(best.selections)
    BY DEF Chosen, Selected
  <2>2. Candidates(found) # {}
    <3>1. SUFFICES ASSUME Candidates(found) = {} PROVE FALSE
      OBVIOUS
    <3>2. best = NoWindow
      BY <3>1 DEF BestCommonWindow
    <3> QED BY <2>1, <3>2 DEF NoWindow
  <2>3. PICK p \in 0..MaxTime : best.selections = Active(found)[p]
    <3>1. PICK p, q \in Times(found) : best = WindowAt(found, p, q)
      BY <2>2, BestIs, CandidatesAre
    <3>2. best.selections = Active(found)[p] /\ p \in 0..MaxTime
      BY <3>1, TimesAre DEF WindowAt
    <3> QED BY <3>2
  <2>4. PICK k \in DOMAIN found[c] : best.selections[c] = found[c][k]
    <3>1. p \in -1..MaxTime
      BY CamerasAssumption
    <3>2. ActiveWell(found[c], Active(found)[p][c], p)
      BY <2>1, <3>1, ActiveHasBegun
    <3> QED BY <2>1, <2>3, <3>2, Zenon DEF ActiveWell
  <2>5. next[c] = NextRecording(found[c][k], found[c])
    BY <1>3, <2>1, <2>4
  <2>6. found[c] \in Found /\ Orderly(found[c]) /\ found[c][i].start >= found[c][k].end
    BY <1>3, <2>1, <2>4
  <2>7. LET after == NextRecording(found[c][k], found[c])
        IN  after # None /\ found[c][k].end <= after.start /\ after.start <= found[c][i].start
    BY <2>6, NextIsNext
  <2> QED BY <2>4, <2>5, <2>7, Zenon
<1> QED BY <1>1, <1>2, <1>3 DEF PlanIsRight

(* What is searched are the recordings of the channels.                    *)
SearchInv == step = "search" => recordings \in [Channels -> Found]

(* WindowIsCommon, for any number of cameras and any recordings: the sweep *)
(* of _best_common_window finds a window that every selected camera has    *)
(* recorded, no part of the day is better, and _next_recording prepares    *)
(* what follows it.                                                        *)
THEOREM WindowIsTheBest == Spec => []WindowIsCommon
<1> DEFINE Inv == SearchInv /\ WindowIsCommon
<1>1. WindowIsCommon <=> (step = "plan" => PlanIsRight(recordings, window, adjacent))
  BY DEF WindowIsCommon, PlanIsRight
<1>2. WindowIsCommon' <=> (step' = "plan" => PlanIsRight(recordings', window', adjacent'))
  BY DEF WindowIsCommon, PlanIsRight, Covers, Selected, Chosen
<1>3. Init => Inv
  BY DEF Init, SearchInv, WindowIsCommon
<1>4. Inv /\ [Next]_vars => Inv'
  <2>1. SUFFICES ASSUME Inv, [Next]_vars PROVE Inv'
    OBVIOUS
  <2>2. CASE Discover
    <3>1. /\ recordings \in [Channels -> Found] /\ recordings' = recordings /\ step' = "plan"
          /\ window' = BestCommonWindow(recordings)
          /\ adjacent' = [c \in Channels |->
               IF c \in Chosen(window') THEN NextRecording(window'.selections[c], recordings[c])
               ELSE None]
      BY <2>1, <2>2 DEF Discover, SearchInv
    <3>2. PlanIsRight(recordings', window', adjacent')
      BY <3>1, DiscoveryIsRight, Zenon
    <3> QED BY <1>2, <3>1, <3>2 DEF SearchInv
  <2>3. CASE step' \notin {"search", "plan"}
    BY <1>2, <2>3 DEF SearchInv
  <2>4. CASE UNCHANGED <<recordings, window, adjacent, step>>
    BY <1>1, <1>2, <2>1, <2>4, Zenon DEF SearchInv
  <2>5. CASE \E x \in DOMAIN work : Open(x) \/ Settle(x) \/ Measure(x)
    BY <2>4, <2>5 DEF Open, Settle, Measure, planVars
  <2>6. CASE Plan \/ Enter \/ Recheck \/ ActiveStarted
    <3>1. step' \notin {"search", "plan"}
      BY <2>6, EnterPlans, StartedGoes DEF Plan, Recheck
    <3> QED BY <2>3, <3>1
  <2>7. CASE Skip \/ UNCHANGED vars
    BY <2>4, <2>7 DEF Skip, vars, planVars
  <2>8. CASE \/ ExistingReceived \/ ActiveReceived \/ PressureStarted \/ Prepared
             \/ PressureReceived \/ Resumed \/ PreparedReceived
    <3>1. step' \notin {"search", "plan"}
      BY <2>8 DEF ExistingReceived, ActiveReceived, PressureStarted, Prepared, PressureReceived,
                  Resumed, PreparedReceived, Goto, Leave
    <3> QED BY <2>3, <3>1
  <2>9. CASE CloseAll \/ Held \/ Released \/ FreshChecked \/ CloseClient
    <3>1. step' \notin {"search", "plan"}
      BY <2>9 DEF CloseAll, Held, Released, FreshChecked, CloseClient, Goto, Leave
    <3> QED BY <2>3, <3>1
  <2> QED BY <2>1, <2>2, <2>5, <2>6, <2>7, <2>8, <2>9 DEF Next
<1>5. Inv => WindowIsCommon
  OBVIOUS
<1> QED BY <1>3, <1>4, <1>5, PTL DEF Spec
=============================================================================
