--------------------------- MODULE PromptLoopProofs ---------------------------
(* Theorems about PromptLoop, for any prompts, notes, agent messages, goals *)
(* and bounds.                                                             *)
EXTENDS PromptLoop, FiniteSetTheorems, TLAPS

USE PromptLoopAssumption

(***************************************************************************)
(* The types.                                                              *)
(***************************************************************************)
LEMMA RunEnters == ASSUME NEW k \in Nat PROVE Run(k) \in RunState /\ HoldsRows(Run(k))
  BY DEF Run, RunAt, RunState, HoldsRows

\* Every variable keeps its type, rows are held just while they are rendered
\* and deleted, and no message has an id that was not handed out.
THEOREM TypeCorrect == Spec => []TypeOK
<1>1. Init => TypeOK
  BY DEF Init, TypeOK, RunState, HoldsRows, NoRun, RunAt, NoActiveGoal
<1>2. TypeOK /\ [Next]_vars => TypeOK'
  <2> SUFFICES ASSUME TypeOK, [Next]_vars PROVE TypeOK'
    OBVIOUS
  <2> USE DEF TypeOK, RunState, HoldsRows, At, messages, callers, mailbox, gates, bounds
  <2>1. ASSUME NEW p \in Prompts, Prepare(p) PROVE TypeOK'
    BY <2>1 DEF Prepare, NextId
  <2>2. ASSUME NEW p \in Prompts, WritePrompt(p) PROVE TypeOK'
    BY <2>2 DEF WritePrompt
  <2>3. ASSUME NEW p \in Prompts, Loop(p) PROVE TypeOK'
    <3>1. run' \in RunState
      BY <2>3 DEF Loop, JoinOrStart, Run, NoRun, RunAt
    <3>2. HoldsRows(run')
      BY <2>3 DEF Loop, JoinOrStart, Run, NoRun, RunAt
    <3> QED
      BY <2>3, <3>1, <3>2 DEF Loop, JoinOrStart, Run, NoRun, RunAt
  <2>4. ASSUME NEW n \in Notes, InsertNote(n) PROVE TypeOK'
    BY <2>4 DEF InsertNote
  <2>5. ASSUME NEW n \in Notes, Wake(n) PROVE TypeOK'
    <3>1. run' \in RunState
      BY <2>5 DEF Wake, JoinOrStart, Run, NoRun, RunAt
    <3>2. HoldsRows(run')
      BY <2>5 DEF Wake, JoinOrStart, Run, NoRun, RunAt
    <3> QED
      BY <2>5, <3>1, <3>2 DEF Wake, JoinOrStart, Run, NoRun, RunAt
  <2>6. ASSUME NEW m \in Mail, SendMail(m) PROVE TypeOK'
    BY <2>6 DEF SendMail
  <2>7. ASSUME NEW g \in Goals, SetGoal(g) PROVE TypeOK'
    BY <2>7 DEF SetGoal
  <2>8. ASSUME ClearGoal PROVE TypeOK'
    BY <2>8 DEF ClearGoal, NoActiveGoal
  <2>9. ASSUME SelectRows PROVE TypeOK'
    <3>1. PICK rows \in SUBSET inbox :
            \/ run' = [run EXCEPT !.pc = "mail"]
            \/ rows # {} /\ run' = [run EXCEPT !.pc = "render", !.rows = rows]
      BY <2>9 DEF SelectRows, Deferred
    <3>2. rows \subseteq Notes
      OBVIOUS
    <3>0. run.rows = {}
      BY <2>9 DEF SelectRows
    <3>3. ASSUME run' = [run EXCEPT !.pc = "mail"] PROVE run' \in RunState /\ HoldsRows(run')
      BY <3>0, <3>3
    <3>4. ASSUME rows # {}, run' = [run EXCEPT !.pc = "render", !.rows = rows]
          PROVE  run' \in RunState /\ HoldsRows(run')
      BY <3>2, <3>4
    <3>5. run' \in RunState /\ HoldsRows(run')
      BY <3>1, <3>3, <3>4
    <3> QED
      BY <2>9, <3>5 DEF SelectRows
  <2>10. ASSUME RenderRows PROVE TypeOK'
    BY <2>10 DEF RenderRows, WriteUser, NextId
  <2>11. ASSUME DeleteRows PROVE TypeOK'
    <3>1. run' \in RunState
      BY <2>11 DEF DeleteRows, Drained
    <3>2. HoldsRows(run')
      BY <2>11 DEF DeleteRows, Drained
    <3> QED
      BY <2>11, <3>1, <3>2 DEF DeleteRows, Drained
  <2>12. ASSUME DrainUnread PROVE TypeOK'
    <3>1. run' \in RunState
      BY <2>12 DEF DrainUnread
    <3>2. HoldsRows(run')
      BY <2>12 DEF DrainUnread
    <3> QED
      BY <2>12, <3>1, <3>2 DEF DrainUnread
  <2>13. ASSUME ReadMessages PROVE TypeOK'
    <3>1. run' \in RunState
      BY <2>13 DEF ReadMessages
    <3>2. HoldsRows(run')
      BY <2>13 DEF ReadMessages
    <3>3. UNCHANGED <<messages, callers, mailbox, gates, shown, bounds>>
      BY <2>13 DEF ReadMessages
    <3> QED
      BY <3>1, <3>2, <3>3
  <2>14. ASSUME StartStep PROVE TypeOK'
    BY <2>14 DEF StartStep, NextId
  <2>15. ASSUME NEW end \in {"tool", "final", "failed"}, EndStep(end) PROVE TypeOK'
    <3>1. run' = Run(run.nudges) \/ run' = [run EXCEPT !.pc = "taskGate"]
      BY <2>15 DEF EndStep, After
    <3>2. run' \in RunState /\ HoldsRows(run')
      <4>1. ASSUME run' = Run(run.nudges) PROVE run' \in RunState /\ HoldsRows(run')
        BY <4>1, RunEnters
      <4>2. ASSUME run' = [run EXCEPT !.pc = "taskGate"] PROVE run' \in RunState /\ HoldsRows(run')
        BY <2>15, <4>2 DEF EndStep
      <4> QED
        BY <3>1, <4>1, <4>2
    <3> QED
      BY <2>15, <3>2 DEF EndStep
  <2>16. ASSUME TaskGate PROVE TypeOK'
    BY <2>16 DEF TaskGate
  <2>17. ASSUME GoalGate PROVE TypeOK'
    <3>1. run' \in RunState
      BY <2>17 DEF GoalGate
    <3>2. HoldsRows(run')
      BY <2>17 DEF GoalGate
    <3> QED
      BY <2>17, <3>1, <3>2 DEF GoalGate
  <2>18. ASSUME Satisfied PROVE TypeOK'
    BY <2>18 DEF Satisfied, NoActiveGoal
  <2>19. ASSUME NotSatisfied PROVE TypeOK'
    BY <2>19 DEF NotSatisfied, NoActiveGoal, BumpReact
  <2>20. ASSUME Nudge PROVE TypeOK'
    <3>3. run' \in RunState /\ HoldsRows(run')
      <4>1. run.nudges + 1 \in Nat
        OBVIOUS
      <4> QED
        BY <2>20, <4>1, RunEnters DEF Nudge
    <3> QED
      BY <2>20, <3>3 DEF Nudge, WriteUser, NextId
  <2>21. ASSUME EndRun PROVE TypeOK'
    BY <2>21 DEF EndRun, NoRun, RunAt, Answered
  <2>22. ASSUME Cancel PROVE TypeOK'
    BY <2>22 DEF Cancel, NoRun, RunAt, Answered
  <2>23. ASSUME Crash PROVE TypeOK'
    BY <2>23 DEF Crash, NoRun, RunAt, NoActiveGoal
  <2>24. ASSUME UNCHANGED vars PROVE TypeOK'
    BY <2>24 DEF vars, messages, callers, mailbox, gates, bounds
  <2> QED
    BY <2>1, <2>2, <2>3, <2>4, <2>5, <2>6, <2>7, <2>8, <2>9, <2>10, <2>11, <2>12, <2>13, <2>14, <2>15, <2>16, <2>17, <2>18, <2>19, <2>20, <2>21, <2>22, <2>23, <2>24 DEF Next, PromptStep, LoopStep
<1> QED
  BY <1>1, <1>2, PTL DEF Spec

(***************************************************************************)
(* The inbox.                                                              *)
(***************************************************************************)
\* The rows a drain holds are in the inbox until it deletes them, and by then a
\* message carries them; a row that was carried and is still there, other than
\* the ones about to be deleted, has an interruption behind it.
NotesInvariant ==
    /\ \A n \in Notes : note[n] = "new" => n \notin inbox /\ rendered[n] = 0
    /\ NotesAreKept
    /\ run.rows \subseteq inbox
    /\ run.pc = "delete" => \A n \in run.rows : rendered[n] > 0
    /\ RepeatsNeedInterruption
    /\ \A n \in inbox : (run.pc = "delete" /\ n \in run.rows) \/ rendered[n] <= interrupts

LEMMA NotesInduction == TypeOK /\ NotesInvariant /\ [Next]_vars => NotesInvariant'
<1> SUFFICES ASSUME TypeOK, NotesInvariant, [Next]_vars PROVE NotesInvariant'
  OBVIOUS
<1> USE DEF TypeOK, RunState, HoldsRows, NotesInvariant, NotesAreKept, RepeatsNeedInterruption,
            At, messages, callers, mailbox, gates, bounds
<1>1. ASSUME NEW p \in Prompts, Prepare(p) PROVE NotesInvariant'
  BY <1>1 DEF Prepare
<1>2. ASSUME NEW p \in Prompts, WritePrompt(p) PROVE NotesInvariant'
  BY <1>2 DEF WritePrompt
<1>3. ASSUME NEW p \in Prompts, Loop(p) PROVE NotesInvariant'
  BY <1>3 DEF Loop, JoinOrStart, Run, NoRun, RunAt
<1>4. ASSUME NEW n \in Notes, InsertNote(n) PROVE NotesInvariant'
  BY <1>4 DEF InsertNote
<1>5. ASSUME NEW n \in Notes, Wake(n) PROVE NotesInvariant'
  BY <1>5 DEF Wake, JoinOrStart, Run, NoRun, RunAt
<1>6. ASSUME NEW m \in Mail, SendMail(m) PROVE NotesInvariant'
  BY <1>6 DEF SendMail
<1>7. ASSUME NEW g \in Goals, SetGoal(g) PROVE NotesInvariant'
  BY <1>7 DEF SetGoal
<1>8. ASSUME ClearGoal PROVE NotesInvariant'
  BY <1>8 DEF ClearGoal
<1>9. ASSUME SelectRows PROVE NotesInvariant'
  BY <1>9 DEF SelectRows, Deferred, Batch
<1>10. ASSUME RenderRows PROVE NotesInvariant'
  BY <1>10 DEF RenderRows, WriteUser
<1>11. ASSUME DeleteRows PROVE NotesInvariant'
  BY <1>11 DEF DeleteRows, Drained
<1>12. ASSUME DrainUnread PROVE NotesInvariant'
  BY <1>12 DEF DrainUnread
<1>13. ASSUME ReadMessages PROVE NotesInvariant'
  BY <1>13 DEF ReadMessages
<1>14. ASSUME StartStep PROVE NotesInvariant'
  BY <1>14 DEF StartStep
<1>15. ASSUME NEW end \in {"tool", "final", "failed"}, EndStep(end) PROVE NotesInvariant'
  <2>1. run' = Run(run.nudges) \/ run' = [run EXCEPT !.pc = "taskGate"]
    BY <1>15 DEF EndStep, After
  <2>2. run'.pc # "delete" /\ run'.rows = {}
    BY <1>15, <2>1 DEF EndStep, Run, NoRun, RunAt
  <2> QED
    BY <1>15, <2>2 DEF EndStep
<1>16. ASSUME TaskGate PROVE NotesInvariant'
  BY <1>16 DEF TaskGate
<1>17. ASSUME GoalGate PROVE NotesInvariant'
  BY <1>17 DEF GoalGate
<1>18. ASSUME Satisfied PROVE NotesInvariant'
  BY <1>18 DEF Satisfied
<1>19. ASSUME NotSatisfied PROVE NotesInvariant'
  BY <1>19 DEF NotSatisfied
<1>20. ASSUME Nudge PROVE NotesInvariant'
  BY <1>20 DEF Nudge, Run, NoRun, RunAt, WriteUser
<1>21. ASSUME EndRun PROVE NotesInvariant'
  BY <1>21 DEF EndRun, NoRun, RunAt
<1>22. ASSUME Cancel PROVE NotesInvariant'
  BY <1>22 DEF Cancel, NoRun, RunAt
<1>23. ASSUME Crash PROVE NotesInvariant'
  BY <1>23 DEF Crash, NoRun, RunAt
<1>24. ASSUME UNCHANGED vars PROVE NotesInvariant'
  BY <1>24 DEF vars
<1> QED
  BY <1>1, <1>2, <1>3, <1>4, <1>5, <1>6, <1>7, <1>8, <1>9, <1>10, <1>11, <1>12, <1>13, <1>14, <1>15, <1>16, <1>17, <1>18, <1>19, <1>20, <1>21, <1>22, <1>23, <1>24 DEF Next, PromptStep, LoopStep

LEMMA NotesInvariantHolds == Spec => []NotesInvariant
<1>1. Init => NotesInvariant
  BY DEF Init, NotesInvariant, NotesAreKept, RepeatsNeedInterruption, NoRun, RunAt
<1> QED
  BY <1>1, TypeCorrect, NotesInduction, PTL DEF Spec

\* An accepted note is in the inbox until a message carries it, wherever runs
\* are cancelled or the process dies.
THEOREM NotesStayOrArrive == Spec => []NotesAreKept
<1>1. NotesInvariant => NotesAreKept
  BY DEF NotesInvariant
<1> QED
  BY <1>1, NotesInvariantHolds, PTL

\* A note is told again at most once for every interruption.
THEOREM RepeatsAreExplained == Spec => []RepeatsNeedInterruption
<1>1. NotesInvariant => RepeatsNeedInterruption
  BY DEF NotesInvariant
<1> QED
  BY <1>1, NotesInvariantHolds, PTL

(***************************************************************************)
(* The gates.                                                              *)
(***************************************************************************)
\* The nudges the goal gate may still give for the goal there is, one of them for a
\* goal that is cleared under the judge's hands.
Left == IF goal # NoActiveGoal THEN MaxGoalReact - goal.react + 1
        ELSE IF run.pc = "judge" THEN 1 ELSE 0

\* The nudges of the goal gate that goals set, replaced and cleared have used up.
Spent == (MaxGoalReact + 1) * Cardinality(goals) - Left

\* A nudge that was granted and is not written, and the nudges of the task gate since
\* the goal gate was passed last.
Granted == IF run.pc = "nudge" THEN 1 ELSE 0
SinceGoal == IF run.pc \in {"goalGate", "judge", "ending"} THEN MaxTaskReact ELSE nudged

NudgeInvariant ==
    /\ IsFiniteSet(goals)
    /\ nudged <= MaxTaskReact
    /\ goal.react <= MaxGoalReact
    /\ 0 <= Spent
    /\ run.nudges + Granted <= (MaxTaskReact + 1) * Spent + SinceGoal

\* The arithmetic: what one nudge of the goal gate allows the task gate.
LEMMA Allows ==
  ASSUME NEW t \in Nat, NEW s \in Nat, NEW d \in Nat
  PROVE  (t + 1) * (s + d) = (t + 1) * s + (t + 1) * d /\ (t + 1) * s \in Nat /\ (t + 1) * d \in Nat
OBVIOUS

LEMMA AllowsMore ==
  ASSUME NEW t \in Nat, NEW s \in Nat, NEW u \in Nat, NEW k \in {0, 1}, s + k <= u
  PROVE  (t + 1) * s + k * (t + 1) <= (t + 1) * u
<1>1. u - s \in Nat /\ u = s + (u - s)
  OBVIOUS
<1>2. (t + 1) * u = (t + 1) * s + (t + 1) * (u - s) /\ (t + 1) * s \in Nat
  BY <1>1, Allows
<1>3. CASE k = 0
  <2>1. (t + 1) * (u - s) \in Nat
    BY <1>1, Allows
  <2> QED
    BY <1>2, <1>3, <2>1
<1>4. CASE k = 1
  <2>1. (u - s) - 1 \in Nat /\ u - s = ((u - s) - 1) + 1
    BY <1>1, <1>4
  <2>2. (t + 1) * (u - s) = (t + 1) * ((u - s) - 1) + (t + 1) * 1 /\ (t + 1) * ((u - s) - 1) \in Nat
    BY <2>1, Allows
  <2> QED
    BY <1>2, <1>4, <2>2
<1> QED
  BY <1>3, <1>4

\* A step keeps the invariant if the nudges it adds come out of what is left.
LEMMA NudgesMove ==
  ASSUME TypeOK, TypeOK', NudgeInvariant, NEW k \in {0, 1},
         IsFiniteSet(goals'), nudged' <= MaxTaskReact, goal'.react <= MaxGoalReact,
         Spent + k <= Spent', Spent' \in Int,
         run'.nudges + Granted' - SinceGoal' <= run.nudges + Granted - SinceGoal + k * (MaxTaskReact + 1)
  PROVE  NudgeInvariant'
<1> DEFINE t == MaxTaskReact
           have == run.nudges + Granted - SinceGoal
           has == run'.nudges + Granted' - SinceGoal'
<1>1. t \in Nat /\ Spent \in Nat /\ have \in Int /\ has \in Int /\ have <= (t + 1) * Spent
  <2>1. Spent \in Int
    <3>1. Left \in Int
      BY DEF Left, TypeOK
    <3>2. Cardinality(goals) \in Nat
      BY FS_CardinalityType DEF NudgeInvariant
    <3> QED
      BY <3>1, <3>2 DEF Spent
  <2>2. {run.nudges, Granted, SinceGoal, run'.nudges, Granted', SinceGoal'} \subseteq Int
    BY DEF TypeOK, RunState, Granted, SinceGoal
  <2>3. t \in Nat /\ Spent \in Nat /\ run.nudges + Granted <= (t + 1) * Spent + SinceGoal
    BY <2>1 DEF NudgeInvariant
  <2>4. (t + 1) * Spent \in Nat
    BY <2>3, Allows
  <2> HIDE DEF t
  <2> QED
    BY <2>2, <2>3, <2>4
<1>2. Spent' \in Nat
  BY <1>1
<1>3. (t + 1) * Spent + k * (t + 1) <= (t + 1) * Spent' /\ (t + 1) * Spent' \in Nat /\ (t + 1) * Spent \in Nat
  BY <1>1, <1>2, Allows, AllowsMore
<1>4. has <= have + k * (t + 1)
  OBVIOUS
<1>5. has <= (t + 1) * Spent'
  <2> DEFINE more == k * (t + 1)
             allowed == (t + 1) * Spent
             allows == (t + 1) * Spent'
  <2>1. more \in Int
    BY <1>1
  <2>2. have \in Int /\ has \in Int /\ have <= allowed /\ has <= have + more
    BY <1>1, <1>4
  <2>3. allowed + more <= allows /\ allows \in Int /\ allowed \in Int
    BY <1>3
  <2> HIDE DEF has, have, more, allowed, allows
  <2>4. has <= allows
    BY <2>1, <2>2, <2>3
  <2> QED
    BY <2>4 DEF allows
<1>6. run'.nudges + Granted' <= (t + 1) * Spent' + SinceGoal'
  <2>1. {run'.nudges, Granted', SinceGoal'} \subseteq Int
    BY DEF TypeOK, RunState, Granted, SinceGoal
  <2> QED
    BY <1>3, <1>5, <2>1
<1> QED
  BY <1>2, <1>6 DEF NudgeInvariant

\* The goals stay, and what is left of them does not grow.
LEMMA NudgesStay ==
  ASSUME TypeOK, TypeOK', NudgeInvariant, NEW k \in {0, 1},
         goals' = goals, nudged' <= MaxTaskReact, goal'.react <= MaxGoalReact, Left' + k <= Left,
         run'.nudges + Granted' - SinceGoal' <= run.nudges + Granted - SinceGoal + k * (MaxTaskReact + 1)
  PROVE  NudgeInvariant'
<1>1. {Left, Left'} \subseteq Int
  BY DEF Left, TypeOK
<1>2. Cardinality(goals) \in Nat /\ IsFiniteSet(goals')
  BY FS_CardinalityType DEF NudgeInvariant
<1>3. Spent + k <= Spent' /\ Spent' \in Int
  <2>1. (MaxGoalReact + 1) * Cardinality(goals) \in Nat
    BY <1>2
  <2> QED
    BY <1>1, <2>1 DEF Spent
<1> QED
  BY <1>2, <1>3, NudgesMove

LEMMA NudgesStaySame ==
  ASSUME TypeOK, TypeOK', NudgeInvariant,
         goals' = goals, nudged' <= MaxTaskReact, goal'.react <= MaxGoalReact, Left' <= Left,
         run'.nudges + Granted' - SinceGoal' <= run.nudges + Granted - SinceGoal
  PROVE  NudgeInvariant'
<1>1. {Left, Left'} \subseteq Int
  BY DEF Left, TypeOK
<1>2. {run.nudges, Granted, SinceGoal} \subseteq Int
  BY DEF TypeOK, RunState, Granted, SinceGoal
<1>3. Left' + 0 <= Left
  BY <1>1
<1>4. run'.nudges + Granted' - SinceGoal' <= run.nudges + Granted - SinceGoal + 0 * (MaxTaskReact + 1)
  BY <1>2
<1> QED
  BY <1>3, <1>4, NudgesStay

\* A step that asks no gate, or ends the run.
LEMMA NudgesRest ==
  ASSUME TypeOK, TypeOK', NudgeInvariant, UNCHANGED <<goal, goals, nudged>>,
         \/ run' = run
         \/ run'.nudges = 0 /\ run'.pc \notin {"judge", "nudge"}
         \/ /\ run'.nudges = run.nudges
            /\ run.pc \notin {"goalGate", "judge", "nudge", "ending"}
            /\ run'.pc \notin {"judge", "nudge"}
  PROVE  NudgeInvariant'
<1>1. Left' <= Left /\ Left \in Int /\ Left' \in Int
  BY DEF Left, TypeOK, NudgeInvariant
<1>2. nudged \in Nat /\ nudged' <= MaxTaskReact /\ goal'.react <= MaxGoalReact
  BY DEF TypeOK, NudgeInvariant
<1>3. CASE run' = run
  <2>1. Granted' = Granted /\ SinceGoal' = SinceGoal /\ {run.nudges, Granted, SinceGoal} \subseteq Int
    BY <1>2, <1>3 DEF Granted, SinceGoal, TypeOK, RunState
  <2> QED
    BY <1>1, <1>2, <1>3, <2>1, NudgesStaySame
<1>4. CASE run'.nudges = 0 /\ run'.pc \notin {"judge", "nudge"}
  <2>1. Granted' = 0 /\ SinceGoal' \in Nat
    BY <1>2, <1>4 DEF Granted, SinceGoal
  <2>2. IsFiniteSet(goals) /\ Cardinality(goals) \in Nat
    BY FS_CardinalityType DEF NudgeInvariant
  <2>3. Spent' \in Nat
    <3>1. (MaxGoalReact + 1) * Cardinality(goals) \in Nat
      BY <2>2
    <3> QED
      BY <1>1, <3>1 DEF Spent, NudgeInvariant
  <2>4. (MaxTaskReact + 1) * Spent' \in Nat
    BY <2>3, Allows
  <2> QED
    BY <1>2, <1>4, <2>1, <2>2, <2>3, <2>4 DEF NudgeInvariant
<1>5. CASE /\ run'.nudges = run.nudges
           /\ run.pc \notin {"goalGate", "judge", "nudge", "ending"}
           /\ run'.pc \notin {"judge", "nudge"}
  <2>1. Granted' = 0 /\ Granted = 0 /\ SinceGoal' \in Nat /\ SinceGoal <= SinceGoal' /\ SinceGoal \in Nat /\ run.nudges \in Nat
    BY <1>2, <1>5 DEF Granted, SinceGoal, TypeOK, RunState
  <2>2. run'.nudges + Granted' - SinceGoal' <= run.nudges + Granted - SinceGoal
    BY <1>5, <2>1
  <2> QED
    BY <1>1, <1>2, <2>1, <2>2, NudgesStaySame
<1> QED
  BY <1>3, <1>4, <1>5

\* Passing the goal gate costs nothing, and a nudge of it pays for the task gate's next ones.
LEMMA NudgesOfGates ==
  ASSUME TypeOK, TypeOK', NudgeInvariant,
         TaskGate \/ GoalGate \/ Satisfied \/ NotSatisfied \/ Nudge \/ ClearGoal
  PROVE  NudgeInvariant'
<1>0. /\ {nudged, run.nudges, goal.react, MaxTaskReact, MaxGoalReact} \subseteq Nat
      /\ nudged <= MaxTaskReact /\ goal.react <= MaxGoalReact
      /\ run \in RunState
  BY DEF TypeOK, RunState, NudgeInvariant
<1> USE <1>0 DEF Left, Granted, SinceGoal, At, gates
<1>1. CASE TaskGate
  <2>1. goals' = goals /\ goal' = goal /\ run.pc = "taskGate" /\ run'.nudges = run.nudges
    BY <1>1 DEF TaskGate, RunState
  <2>2. \/ nudged' = nudged + 1 /\ nudged < MaxTaskReact /\ run'.pc = "nudge"
        \/ nudged' = 0 /\ run'.pc = "goalGate"
    BY <1>1 DEF TaskGate, TaskReactLeft, RunState
  <2>3. Left' = Left /\ nudged' <= MaxTaskReact
    BY <2>1, <2>2
  <2>4. run'.nudges + Granted' - SinceGoal' <= run.nudges + Granted - SinceGoal
    BY <2>1, <2>2
  <2> QED
    BY <2>1, <2>3, <2>4, NudgesStaySame
<1>2. CASE GoalGate
  <2>1. UNCHANGED <<goal, goals, nudged>> /\ run.pc = "goalGate" /\ run'.nudges = run.nudges
        /\ run'.pc = IF goal = NoActiveGoal THEN "ending" ELSE "judge"
    BY <1>2 DEF GoalGate, RunState
  <2>2. Left' = Left /\ run'.nudges + Granted' - SinceGoal' <= run.nudges + Granted - SinceGoal
    BY <2>1
  <2> QED
    BY <2>1, <2>2, NudgesStaySame
<1>3. CASE Satisfied
  <2>1. UNCHANGED <<goals, nudged>> /\ goal' = NoActiveGoal /\ run.pc = "judge" /\ run'.nudges = run.nudges
        /\ run'.pc = "ending"
    BY <1>3 DEF Satisfied, RunState
  <2>2. Left' <= Left /\ goal'.react <= MaxGoalReact
        /\ run'.nudges + Granted' - SinceGoal' <= run.nudges + Granted - SinceGoal
    BY <2>1 DEF NoActiveGoal
  <2> QED
    BY <2>1, <2>2, NudgesStaySame
<1>4. CASE NotSatisfied
  <2>1. UNCHANGED <<goals, nudged>> /\ run.pc = "judge" /\ run'.nudges = run.nudges
    BY <1>4 DEF NotSatisfied, RunState
  <2>2. \/ goal' = NoActiveGoal /\ run'.pc = "ending"
        \/ goal = NoActiveGoal /\ goal' = goal /\ run'.pc = "nudge"
        \/ /\ goal # NoActiveGoal /\ goal'.react = goal.react + 1 /\ goal'.react <= MaxGoalReact
           /\ goal' # NoActiveGoal /\ run'.pc = "nudge"
    BY <1>4 DEF NotSatisfied, BumpReact, RunState, TypeOK, NoActiveGoal
  <2>3. CASE goal' = NoActiveGoal /\ run'.pc = "ending"
    <3>1. Left' <= Left /\ goal'.react <= MaxGoalReact
          /\ run'.nudges + Granted' - SinceGoal' <= run.nudges + Granted - SinceGoal
      BY <2>1, <2>3 DEF NoActiveGoal
    <3>2. goals' = goals /\ nudged' <= MaxTaskReact
      BY <2>1
    <3> QED
      BY <3>1, <3>2, NudgesStaySame
  <2>4. CASE run'.pc = "nudge"
    <3>1. Left' + 1 <= Left /\ goal'.react <= MaxGoalReact
      BY <2>1, <2>2, <2>4
    <3>2. run'.nudges + Granted' - SinceGoal' <= run.nudges + Granted - SinceGoal + 1 * (MaxTaskReact + 1)
      BY <2>1, <2>4
    <3> QED
      BY <2>1, <3>1, <3>2, NudgesStay
  <2> QED
    BY <2>2, <2>3, <2>4
<1>5. CASE Nudge
  <2>1. UNCHANGED <<goal, goals, nudged>> /\ run.pc = "nudge" /\ run'.nudges = run.nudges + 1 /\ run'.pc = "head"
    BY <1>5 DEF Nudge, Run, RunAt
  <2>2. Left' = Left /\ run'.nudges + Granted' - SinceGoal' <= run.nudges + Granted - SinceGoal
    BY <2>1
  <2> QED
    BY <2>1, <2>2, NudgesStaySame
<1>6. CASE ClearGoal
  <2>1. UNCHANGED <<goals, nudged, run>> /\ goal # NoActiveGoal /\ goal' = NoActiveGoal
    BY <1>6 DEF ClearGoal
  <2>2. Left' <= Left /\ goal'.react <= MaxGoalReact
        /\ run'.nudges + Granted' - SinceGoal' <= run.nudges + Granted - SinceGoal
    BY <2>1 DEF NoActiveGoal
  <2> QED
    BY <2>1, <2>2, NudgesStaySame
<1> QED
  BY <1>1, <1>2, <1>3, <1>4, <1>5, <1>6

\* A new goal brings its own nudges.
LEMMA NudgesOfNewGoal ==
  ASSUME TypeOK, TypeOK', NudgeInvariant, NEW g \in Goals, SetGoal(g)
  PROVE  NudgeInvariant'
<1>1. /\ g \notin goals /\ goals' = goals \cup {g} /\ goal' = [condition |-> g, react |-> 0]
      /\ UNCHANGED <<nudged, run>>
  BY DEF SetGoal
<1>2. /\ IsFiniteSet(goals') /\ Cardinality(goals') = Cardinality(goals) + 1 /\ Cardinality(goals) \in Nat
  BY <1>1, FS_AddElement, FS_CardinalityType DEF NudgeInvariant
<1>3. (MaxGoalReact + 1) * Cardinality(goals') = (MaxGoalReact + 1) * Cardinality(goals) + (MaxGoalReact + 1) * 1
      /\ (MaxGoalReact + 1) * Cardinality(goals) \in Nat
  BY <1>2, Allows
<1>4. Left' = MaxGoalReact + 1
  BY <1>1 DEF Left, NoActiveGoal
<1>5. Left \in Nat
  BY DEF Left, TypeOK, NudgeInvariant
<1>6. Spent + 0 <= Spent' /\ Spent' \in Int
  BY <1>3, <1>4, <1>5 DEF Spent
<1>7. Granted' = Granted /\ SinceGoal' = SinceGoal /\ {run.nudges, Granted, SinceGoal} \subseteq Int
  BY <1>1 DEF Granted, SinceGoal, TypeOK, RunState
<1>8. run'.nudges + Granted' - SinceGoal' <= run.nudges + Granted - SinceGoal + 0 * (MaxTaskReact + 1)
  BY <1>1, <1>7
<1>9. nudged' <= MaxTaskReact /\ goal'.react <= MaxGoalReact
  BY <1>1 DEF NudgeInvariant
<1> QED
  BY <1>2, <1>6, <1>8, <1>9, NudgesMove

\* A crash forgets the goal, the counter and the run.
LEMMA NudgesOfCrash ==
  ASSUME TypeOK, TypeOK', NudgeInvariant, Crash
  PROVE  NudgeInvariant'
<1>1. goals' = goals /\ goal' = NoActiveGoal /\ nudged' = 0 /\ run' = NoRun
  BY DEF Crash
<1>2. run'.nudges = 0 /\ Granted' = 0 /\ SinceGoal' = 0 /\ Left' = 0
  BY <1>1 DEF NoRun, RunAt, Granted, SinceGoal, Left
<1>3. IsFiniteSet(goals) /\ Cardinality(goals) \in Nat
  BY FS_CardinalityType DEF NudgeInvariant
<1>4. Spent' \in Nat
  <2>1. (MaxGoalReact + 1) * Cardinality(goals) \in Nat
    BY <1>3
  <2> QED
    BY <1>1, <1>2, <2>1 DEF Spent
<1>5. (MaxTaskReact + 1) * Spent' \in Nat
  BY <1>4, Allows
<1> QED
  BY <1>1, <1>2, <1>3, <1>4, <1>5 DEF NudgeInvariant, NoActiveGoal

LEMMA Joins == JoinOrStart => run' = run \/ (run'.nudges = 0 /\ run'.pc = "head")
BY DEF JoinOrStart, Run, RunAt

LEMMA NudgeStep == TypeOK /\ TypeOK' /\ NudgeInvariant /\ [Next]_vars => NudgeInvariant'
<1> SUFFICES ASSUME TypeOK, TypeOK', NudgeInvariant, [Next]_vars PROVE NudgeInvariant'
  OBVIOUS
<1> USE DEF At, messages, callers, mailbox, gates, bounds
<1>1. ASSUME NEW p \in Prompts, Prepare(p) \/ PromptStep(p) PROVE NudgeInvariant'
  <2>1. ASSUME Prepare(p) \/ WritePrompt(p) PROVE UNCHANGED <<goal, goals, nudged, run>>
    BY <2>1 DEF Prepare, WritePrompt
  <2>2. ASSUME Loop(p) PROVE UNCHANGED <<goal, goals, nudged>> /\ (run' = run \/ (run'.nudges = 0 /\ run'.pc = "head"))
    BY <2>2, Joins DEF Loop
  <2>3. UNCHANGED <<goal, goals, nudged>> /\ (run' = run \/ (run'.nudges = 0 /\ run'.pc = "head"))
    BY <1>1, <2>1, <2>2 DEF PromptStep
  <2> QED
    BY <2>3, NudgesRest
<1>2. ASSUME NEW n \in Notes, InsertNote(n) \/ Wake(n) PROVE NudgeInvariant'
  <2>1. UNCHANGED <<goal, goals, nudged>> /\ (run' = run \/ (run'.nudges = 0 /\ run'.pc = "head"))
    BY <1>2, Joins DEF InsertNote, Wake
  <2> QED
    BY <2>1, NudgesRest
<1>3. ASSUME (\E m \in Mail : SendMail(m)) \/ UNCHANGED vars PROVE NudgeInvariant'
  <2>1. UNCHANGED <<goal, goals, nudged, run>>
    BY <1>3 DEF SendMail, vars
  <2> QED
    BY <2>1, NudgesRest
<1>4. ASSUME SelectRows \/ RenderRows \/ DeleteRows \/ DrainUnread \/ ReadMessages \/ StartStep PROVE NudgeInvariant'
  <2>1. run \in RunState
    BY DEF TypeOK
  <2>2. /\ UNCHANGED <<goal, goals, nudged>> /\ run'.nudges = run.nudges
        /\ run.pc \in {"head", "render", "delete", "mail", "read", "ready"}
        /\ run'.pc \notin {"judge", "nudge"}
    BY <1>4, <2>1 DEF SelectRows, RenderRows, WriteUser, DeleteRows, DrainUnread, ReadMessages, StartStep, RunState
  <2> QED
    BY <2>2, NudgesRest
<1>5. ASSUME NEW end \in {"tool", "final", "failed"}, EndStep(end) PROVE NudgeInvariant'
  <2>1. run \in RunState
    BY DEF TypeOK
  <2>2. run' = Run(run.nudges) \/ run' = [run EXCEPT !.pc = "taskGate"]
    BY <1>5 DEF EndStep, After
  <2>3. run'.nudges = run.nudges /\ run'.pc \in {"head", "taskGate"}
    BY <2>1, <2>2 DEF Run, RunAt, RunState
  <2>4. UNCHANGED <<goal, goals, nudged>> /\ run.pc = "step"
    BY <1>5 DEF EndStep
  <2> QED
    BY <2>3, <2>4, NudgesRest
<1>6. ASSUME EndRun \/ Cancel PROVE NudgeInvariant'
  <2>1. UNCHANGED <<goal, goals, nudged>> /\ run'.nudges = 0 /\ run'.pc = "none"
    BY <1>6 DEF EndRun, Cancel, NoRun, RunAt
  <2> QED
    BY <2>1, NudgesRest
<1> QED
  BY <1>1, <1>2, <1>3, <1>4, <1>5, <1>6, NudgesOfGates, NudgesOfNewGoal, NudgesOfCrash DEF Next, LoopStep

\* However the gates take turns, and whatever is done to the goal meanwhile, a run is sent
\* back a bounded number of times (session/prompt.ts:1989-2135).
THEOREM NudgesBounded == Spec => []NudgesAreBounded
<1>1. Init => NudgeInvariant
  <2> SUFFICES ASSUME Init PROVE NudgeInvariant
    OBVIOUS
  <2>1. goals = {} /\ IsFiniteSet({}) /\ Cardinality({}) = 0
    BY FS_EmptySet DEF Init
  <2>2. goal = NoActiveGoal /\ nudged = 0 /\ run = NoRun
    BY DEF Init
  <2>3. Left = 0 /\ Granted = 0 /\ SinceGoal = 0 /\ run.nudges = 0
    BY <2>2 DEF Left, Granted, SinceGoal, NoRun, RunAt
  <2>4. Spent = 0
    BY <2>1, <2>3 DEF Spent
  <2> QED
    BY <2>1, <2>2, <2>3, <2>4 DEF NudgeInvariant, NoActiveGoal
<1>2. TypeOK /\ NudgeInvariant => NudgesAreBounded
  <2> SUFFICES ASSUME TypeOK, NudgeInvariant PROVE NudgesAreBounded
    OBVIOUS
  <2> DEFINE all == (MaxGoalReact + 1) * Cardinality(goals)
  <2>1. all \in Nat
    <3>1. Cardinality(goals) \in Nat
      BY FS_CardinalityType DEF NudgeInvariant
    <3> QED
      BY <3>1, Allows
  <2>2. Left \in Nat /\ Granted \in Nat /\ SinceGoal \in Nat /\ SinceGoal <= MaxTaskReact /\ run.nudges \in Nat
    BY DEF Left, Granted, SinceGoal, TypeOK, RunState, NudgeInvariant
  <2>3. Spent = all - Left /\ Spent \in Nat
    BY <2>1, <2>2 DEF Spent, NudgeInvariant
  <2> HIDE DEF all
  <2>4. (MaxTaskReact + 1) * Spent + 1 * (MaxTaskReact + 1) <= (MaxTaskReact + 1) * (all + 1)
    BY <2>1, <2>2, <2>3, AllowsMore
  <2>5. (MaxTaskReact + 1) * Spent \in Nat /\ (MaxTaskReact + 1) * (all + 1) \in Nat
    BY <2>1, <2>3, Allows
  <2>6. run.nudges < (MaxTaskReact + 1) * (all + 1)
    <3>1. run.nudges + Granted <= (MaxTaskReact + 1) * Spent + SinceGoal
      BY DEF NudgeInvariant
    <3> QED
      BY <2>2, <2>4, <2>5, <3>1
  <2> QED
    BY <2>6 DEF NudgesAreBounded, all
<1> QED
  BY <1>1, <1>2, TypeCorrect, NudgeStep, PTL DEF Spec

=============================================================================
