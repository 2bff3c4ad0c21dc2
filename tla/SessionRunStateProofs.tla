------------------------ MODULE SessionRunStateProofs ------------------------
(* Theorems about SessionRunState, for any callers and cancellers and for   *)
(* either scheduler.                                                        *)
EXTENDS SessionRunState, TLAPS

USE SessionRunStateAssumption

(***************************************************************************)
(* The types.                                                              *)
(***************************************************************************)
\* Every variable keeps its type: among others, a cancel that is on its way
\* always knows its runner and the work it is to interrupt.
THEOREM TypeCorrect == Spec => []TypeOK
<1>1. Init => TypeOK
  BY DEF Init, TypeOK, FiberState, Idle, State, NotCalled, NotCancelling
<1>2. TypeOK /\ [Next]_vars => TypeOK'
  <2> SUFFICES ASSUME TypeOK, [Next]_vars PROVE TypeOK'
    OBVIOUS
  <2> USE DEF TypeOK
  <2>1. ASSUME NEW c \in Callers, NEW kind \in {"run", "shell"}, Lookup(c, kind) PROVE TypeOK'
    BY <2>1 DEF Lookup
  <2>2. ASSUME NEW c \in Callers, EnsureRunning(c) PROVE TypeOK'
    <3>1. RunnerOf(c) \in Callers
      BY <2>2 DEF EnsureRunning, RunnerOf
    <3> DEFINE work == IF st[RunnerOf(c)].run # NoOne THEN st[RunnerOf(c)].run ELSE c
    <3>2. work \in Callers /\ st[RunnerOf(c)] \in State
      BY <3>1 DEF State
    <3> HIDE DEF work
    <3>3. /\ st' = [st EXCEPT ![RunnerOf(c)].run = work]
          /\ fiber' = IF st[RunnerOf(c)] = Idle THEN [fiber EXCEPT ![c] = "forked"] ELSE fiber
          /\ caller' = [caller EXCEPT ![c] = [pc |-> "waiting", runner |-> RunnerOf(c), work |-> work]]
      BY <2>2 DEF EnsureRunning, work
    <3>4. st' \in [Callers -> State]
      BY <3>1, <3>2, <3>3 DEF State
    <3>5. fiber' \in [Callers -> FiberState]
      BY <3>3 DEF FiberState
    <3> QED
      BY <2>2, <3>1, <3>2, <3>3, <3>4, <3>5 DEF EnsureRunning
  <2>3. ASSUME NEW c \in Callers, StartShell(c) PROVE TypeOK'
    <3>1. RunnerOf(c) \in Callers
      BY <2>3 DEF StartShell, RunnerOf
    <3>2. st' \in [Callers -> State]
      BY <2>3, <3>1 DEF StartShell, State
    <3>3. fiber' \in [Callers -> FiberState]
      BY <2>3 DEF StartShell, FiberState
    <3> QED
      BY <2>3, <3>1, <3>2, <3>3 DEF StartShell
  <2>4. ASSUME NEW c \in Callers, ShellRefused(c) \/ Answer(c) PROVE TypeOK'
    <3>1. ASSUME ShellRefused(c) PROVE TypeOK'
      BY SMTT(30), <3>1 DEF ShellRefused
    <3>2. ASSUME Answer(c) PROVE TypeOK'
      BY <3>2 DEF Answer
    <3> QED
      BY <2>4, <3>1, <3>2
  <2>5. ASSUME NEW w \in Callers, Starts(w) \/ SetStatus(w) \/ WorkEnds(w) PROVE TypeOK'
    BY <2>5 DEF Starts, SetStatus, WorkEnds, FiberState
  <2>6. ASSUME NEW w \in Callers, FinishCurrent(w) PROVE TypeOK'
    BY <2>6 DEF FinishCurrent, State, Idle, FiberState
  <2>7. ASSUME NEW w \in Callers, FinishShellThenRun(w) PROVE TypeOK'
    <3>1. st' \in [Callers -> State]
      <4>1. ASSUME NEW r \in Callers PROVE [st[r] EXCEPT !.shell = NoOne] \in State
        BY DEF State
      <4> QED
        BY <2>7, <4>1 DEF FinishShellThenRun
    <3>2. fiber' \in [Callers -> FiberState]
      BY <2>7 DEF FinishShellThenRun, StartQueued, FiberState
    <3> QED
      BY <2>7, <3>1, <3>2 DEF FinishShellThenRun
  <2>8. ASSUME NEW w \in Callers, FinishStale(w) PROVE TypeOK'
    BY <2>8 DEF FinishStale, FiberState
  <2>9. ASSUME NEW w \in Callers, Deregister(w) \/ AnnounceIdle(w) \/ Complete(w) PROVE TypeOK'
    <3>1. ASSUME Deregister(w) \/ AnnounceIdle(w) PROVE TypeOK'
      BY <3>1 DEF Deregister, AnnounceIdle, FiberState
    <3>2. ASSUME Complete(w) PROVE TypeOK'
      <4>1. done' \in [Callers -> {"none", "done", "cancelled"}]
        BY <3>2 DEF Complete
      <4> QED
        BY <3>2, <4>1 DEF Complete, FiberState
    <3> QED
      BY <2>9, <3>1, <3>2
  <2>10. ASSUME NEW k \in Cancellers, LookForRunner(k) PROVE TypeOK'
    BY <2>10 DEF LookForRunner, SeenBusy
  <2>11. ASSUME NEW k \in Cancellers, Take(k) PROVE TypeOK'
    <3>1. cancel[k].runner \in Callers /\ st[cancel[k].runner] \in State
      BY <2>11 DEF Take
    <3> DEFINE s == st[cancel[k].runner]
               next == IF NothingToCancel(s) THEN NotCancelling
                       ELSE [pc     |-> IF NoOne \in {s.shell, s.run} THEN "interrupting" ELSE "failing",
                             runner |-> cancel[k].runner,
                             run    |-> s.run,
                             target |-> IF s.shell # NoOne THEN s.shell ELSE s.run]
    <3>2. cancel' = [cancel EXCEPT ![k] = next]
      BY <2>11 DEF Take
    <3>3. ~NothingToCancel(s) => s.shell # NoOne \/ s.run # NoOne
      BY <3>1 DEF NothingToCancel, Idle, State
    <3>4. st' \in [Callers -> State]
      BY <2>11, <3>1 DEF Take, StateAfterCancel, Idle, State
    <3>5. /\ next.pc \in {"idle", "interrupting", "failing"}
          /\ next \in [pc : {"idle", "looked", "failing", "interrupting", "awaiting",
                             "checking", "idling", "announcing"},
                       runner : Callers \cup {NoOne}, run : Callers \cup {NoOne},
                       target : Callers \cup {NoOne}]
          /\ next.pc # "idle" => next.runner \in Callers /\ next.target \in Callers
      BY <3>1, <3>3 DEF State, NotCancelling
    <3> HIDE DEF next
    <3> QED
      BY <2>11, <3>2, <3>4, <3>5 DEF Take
  <2>12. ASSUME NEW k \in Cancellers, FailPending(k) PROVE TypeOK'
    <3>1. done' \in [Callers -> {"none", "done", "cancelled"}]
      BY <2>12 DEF FailPending, PendingFailed
    <3>2. cancel[k].pc = "failing" /\ cancel' = [cancel EXCEPT ![k] = [cancel[k] EXCEPT !.pc = "interrupting"]]
      BY <2>12 DEF FailPending
    <3>3. [cancel[k] EXCEPT !.pc = "interrupting"] =
            [pc |-> "interrupting", runner |-> cancel[k].runner, run |-> cancel[k].run, target |-> cancel[k].target]
      OBVIOUS
    <3> QED
      BY <2>12, <3>1, <3>2, <3>3 DEF FailPending
  <2>13. ASSUME NEW k \in Cancellers, Interrupt(k) PROVE TypeOK'
    <3>1. fiber' \in [Callers -> FiberState]
      BY <2>13 DEF Interrupt, FiberState
    <3>2. done' \in [Callers -> {"none", "done", "cancelled"}]
      BY <2>13 DEF Interrupt
    <3> QED
      BY <2>13, <3>1, <3>2 DEF Interrupt
  <2>14. ASSUME NEW k \in Cancellers, AwaitExit(k) PROVE TypeOK'
    <3>1. cancel[k].pc = "awaiting" /\ cancel' = [cancel EXCEPT ![k] = [cancel[k] EXCEPT !.pc = "checking"]]
      BY <2>14 DEF AwaitExit
    <3>2. [cancel[k] EXCEPT !.pc = "checking"] =
            [pc |-> "checking", runner |-> cancel[k].runner, run |-> cancel[k].run, target |-> cancel[k].target]
      OBVIOUS
    <3> QED
      BY <2>14, <3>1, <3>2 DEF AwaitExit
  <2>15. ASSUME NEW k \in Cancellers, IdleIfCurrent(k) PROVE TypeOK'
    BY <2>15 DEF IdleIfCurrent, NotCancelling
  <2>16. ASSUME NEW k \in Cancellers, CancelDeregisters(k) \/ CancelAnnounces(k) PROVE TypeOK'
    <3>1. CASE CancelDeregisters(k)
      BY SMTT(30), <3>1 DEF CancelDeregisters
    <3>2. CASE CancelAnnounces(k)
      BY <3>2 DEF CancelAnnounces, NotCancelling
    <3> QED
      BY <2>16, <3>1, <3>2
  <2>17. CASE UNCHANGED vars
    BY <2>17 DEF vars
  <2> HIDE DEF TypeOK
  <2> QED
    BY <2>1, <2>2, <2>3, <2>4, <2>5, <2>6, <2>7, <2>8, <2>9, <2>10, <2>11, <2>12, <2>13, <2>14,
       <2>15, <2>16, <2>17
       DEF Next, Calls, CallerStep, Works, FiberStep, Cancels, CancelStep
<1> QED
  BY <1>1, <1>2, PTL DEF Spec

(***************************************************************************)
(* The inductive invariant behind the safety properties.                   *)
(***************************************************************************)
Started(c) == caller[c].pc \notin {"new", "run", "shell"}

\* A runner holds only work that was given to it.
HeldByItsRunner ==
    \A r, w \in Callers : w \in {st[r].run, st[r].shell} => RunnerOf(w) = r /\ Started(w)

\* The run queued behind a shell is another caller's.
ShellIsNotRun == \A r \in Callers : st[r].shell \in Callers => st[r].shell # st[r].run

\* What has not been handed to a runner has no fiber and no answer.
UnstartedIsFresh == \A w \in Callers : ~Started(w) => fiber[w] = "none" /\ done[w] = "none"

\* The queued run a cancel is about to fail is in no runner any more.
FailingIsGone ==
    \A k \in Cancellers : cancel[k].pc = "failing" =>
        \A w \in Callers : w = cancel[k].run => Started(w) /\ \A r \in Callers : st[r].run # w

\* A fiber exits after it has answered.
ExitedIsDone == \A w \in Callers : fiber[w] = "exited" => done[w] # "none"

\* The work a cancel is about to interrupt is in no runner any more.
TargetIsGone ==
    \A k \in Cancellers : cancel[k].pc \in {"failing", "interrupting"} =>
        \A w \in Callers : w = cancel[k].target => Started(w) /\ \A r \in Callers : w \notin {st[r].run, st[r].shell}

Ownership ==
    /\ HeldByItsRunner
    /\ TargetIsGone
    /\ ShellIsNotRun
    /\ UnstartedIsFresh
    /\ FailingIsGone
    /\ ExitedIsDone

IInv ==
    /\ Ownership
    /\ RunningWorkIsCurrent
    /\ BusyRunnerHasWork
    /\ QueuedRunIsFresh
    /\ WaiterIsOwed

\* What a step of one cancel leaves of the others': the works they have taken
\* and the queued runs they are about to fail.
LEMMA OtherCancels ==
  ASSUME NEW k \in Cancellers, NEW w \in Callers,
         \A j \in Cancellers : j # k => cancel'[j] = cancel[j]
  PROVE  /\ Failing(w) /\ cancel[k].pc # "failing" => Failing(w)'
         /\ Taken(w) /\ cancel[k].pc \notin {"failing", "interrupting"} => Taken(w)'
BY DEF Failing, Taken

\* Every step keeps the invariant.
LEMMA Inductive == TypeOK /\ TypeOK' /\ IInv /\ [Next]_vars => IInv'
<1> SUFFICES ASSUME TypeOK, TypeOK', IInv, [Next]_vars PROVE IInv'
  OBVIOUS
<1> USE DEF TypeOK, IInv, State, Idle, Unfinished, NeverRan, FiberState
<1>1. ASSUME NEW c \in Callers, NEW kind \in {"run", "shell"}, Lookup(c, kind) PROVE IInv'
  <2>1. Ownership' /\ BusyRunnerHasWork' /\ QueuedRunIsFresh'
    BY <1>1 DEF Lookup, Ownership, HeldByItsRunner, ShellIsNotRun, UnstartedIsFresh,
                   FailingIsGone, TargetIsGone, ExitedIsDone, BusyRunnerHasWork, QueuedRunIsFresh, RunnerOf, Started
  <2>2. RunningWorkIsCurrent'
    BY <1>1 DEF Lookup, RunningWorkIsCurrent, Attended, Current, Handover, Taken,
                   Ownership, UnstartedIsFresh, RunnerOf, Started
  <2>3. WaiterIsOwed'
    BY <1>1 DEF Lookup, WaiterIsOwed, Owed, Queued, Failing
  <2> QED
    BY <2>1, <2>2, <2>3
<1>2. ASSUME NEW c \in Callers, EnsureRunning(c) PROVE IInv'
  <2> DEFINE r == RunnerOf(c)
             work == IF st[r].run # NoOne THEN st[r].run ELSE c
  <2>1. r \in Callers /\ work \in Callers /\ ~Started(c) /\ st[r] \in State
    BY <1>2 DEF EnsureRunning, RunnerOf, Started
  <2>2. /\ st' = [st EXCEPT ![r].run = work]
        /\ caller' = [caller EXCEPT ![c] = [pc |-> "waiting", runner |-> r, work |-> work]]
        /\ fiber' = IF st[r] = Idle THEN [fiber EXCEPT ![c] = "forked"] ELSE fiber
        /\ UNCHANGED <<killed, done, cancel>>
    BY <1>2 DEF EnsureRunning
  <2>3. \A x \in Callers : RunnerOf(x)' = RunnerOf(x) /\ (Started(x)' <=> Started(x) \/ x = c)
    BY <1>2, <2>2 DEF EnsureRunning, RunnerOf, Started
  <2>4. /\ st[r].run # NoOne => st' = st
        /\ st[r].run = NoOne => work = c /\ st' = [st EXCEPT ![r] = [shell |-> st[r].shell, run |-> c]]
    <3>1. [st[r] EXCEPT !.run = st[r].run] = st[r]
      BY <2>1
    <3>2. [st[r] EXCEPT !.run = c] = [shell |-> st[r].shell, run |-> c]
      BY <2>1
    <3>3. st' = [st EXCEPT ![r] = [st[r] EXCEPT !.run = work]]
      BY <2>2
    <3>4. [st EXCEPT ![r] = st[r]] = st
      OBVIOUS
    <3> QED
      BY <3>1, <3>2, <3>3, <3>4
  <2>5. Ownership'
    <3>1. ASSUME NEW q \in Callers, NEW x \in Callers, x \in {st'[q].run, st'[q].shell}
          PROVE  x \in {st[q].run, st[q].shell} \/ (x = c /\ q = r)
      <4>1. CASE st[r].run # NoOne
        BY <2>4, <3>1, <4>1
      <4>2. CASE st[r].run = NoOne /\ q = r
        BY <2>1, <2>4, <3>1, <4>2
      <4>3. CASE st[r].run = NoOne /\ q # r
        BY <2>1, <2>4, <3>1, <4>3
      <4> QED
        BY <4>1, <4>2, <4>3
    <3>2. HeldByItsRunner'
      BY <2>1, <2>3, <3>1 DEF Ownership, HeldByItsRunner
    <3>3. ShellIsNotRun'
      BY <2>1, <2>4 DEF Ownership, HeldByItsRunner, ShellIsNotRun
    <3>4. UnstartedIsFresh' /\ ExitedIsDone'
      BY <2>2, <2>3 DEF Ownership, UnstartedIsFresh, ExitedIsDone
    <3>5. FailingIsGone'
      BY <2>1, <2>2, <2>3, <2>4 DEF Ownership, FailingIsGone
    <3>6. TargetIsGone'
      BY SMTT(30), <2>1, <2>2, <2>3, <3>1 DEF Ownership, TargetIsGone
    <3> QED
      BY <3>2, <3>3, <3>4, <3>5, <3>6 DEF Ownership
  <2>6. BusyRunnerHasWork' /\ QueuedRunIsFresh'
    BY <2>1, <2>2, <2>4 DEF Ownership, UnstartedIsFresh, HeldByItsRunner, BusyRunnerHasWork, QueuedRunIsFresh
  <2>7. RunningWorkIsCurrent'
    <3>1. ASSUME NEW x \in Callers, x # c, Attended(x) PROVE Attended(x)'
      BY <2>1, <2>2, <2>3, <2>4, <3>1 DEF Attended, Current, Handover, Taken
    <3>2. ASSUME fiber'[c] \in {"forked", "running"} PROVE Current(c)'
      BY <2>1, <2>2, <2>3, <2>4, <3>2 DEF Current, Ownership, UnstartedIsFresh
    <3> QED
      BY <2>2, <3>1, <3>2 DEF RunningWorkIsCurrent, Attended
  <2>8. WaiterIsOwed'
    <3>1. \A x \in Callers : Owed(x) => Owed(x)'
      BY <2>1, <2>2, <2>4 DEF Owed, Queued, Failing
    <3>2. ASSUME NEW x \in Callers, x = work PROVE Owed(x)'
      <4>1. CASE st[r].shell # NoOne
        BY <2>1, <2>2, <2>4, <3>2, <4>1 DEF Owed, Queued
      <4>2. CASE st[r].shell = NoOne /\ st[r].run # NoOne
        BY <2>1, <2>2, <3>2, <4>2 DEF Owed, BusyRunnerHasWork
      <4>3. CASE st[r] = Idle
        BY <2>1, <2>2, <3>2, <4>3 DEF Owed
      <4> QED
        BY <2>1, <4>1, <4>2, <4>3
    <3>5. \A x \in Callers : NeverRan(x) => NeverRan(x)'
      BY <2>1, <2>2 DEF Ownership, UnstartedIsFresh
    <3>3. ASSUME NEW d \in Callers, d # c, caller'[d].pc = "waiting"
          PROVE  (Owed(caller[d].work)' \/ NeverRan(caller[d].work)') /\ caller'[d] = caller[d]
      BY <2>2, <3>1, <3>3, <3>5 DEF WaiterIsOwed
    <3>4. caller'[c].work = work
      BY <2>2
    <3> QED
      BY <3>2, <3>3, <3>4 DEF WaiterIsOwed
  <2> QED
    BY <2>5, <2>6, <2>7, <2>8
<1>3. ASSUME NEW c \in Callers, StartShell(c) PROVE IInv'
  <2>1. Ownership' /\ BusyRunnerHasWork' /\ QueuedRunIsFresh'
    BY <1>3 DEF StartShell, Ownership, HeldByItsRunner, ShellIsNotRun, UnstartedIsFresh,
                   FailingIsGone, TargetIsGone, ExitedIsDone, BusyRunnerHasWork, QueuedRunIsFresh, RunnerOf, Started
  <2>2. RunningWorkIsCurrent'
    BY <1>3 DEF StartShell, RunningWorkIsCurrent, Attended, Current, Handover, Taken,
                   Ownership, UnstartedIsFresh, RunnerOf, Started
  <2>3. WaiterIsOwed'
    <3>1. \A x \in Callers : Owed(x) => Owed(x)'
      BY <1>3 DEF StartShell, Owed, Queued, Failing
    <3>2. Owed(c)'
      BY <1>3 DEF StartShell, Owed
    <3> QED
      BY <1>3, <3>1, <3>2 DEF StartShell, WaiterIsOwed
  <2> QED
    BY <2>1, <2>2, <2>3
<1>4. ASSUME NEW c \in Callers, ShellRefused(c) PROVE IInv'
  <2>1. Ownership' /\ BusyRunnerHasWork' /\ QueuedRunIsFresh'
    BY <1>4 DEF ShellRefused, Ownership, HeldByItsRunner, ShellIsNotRun, UnstartedIsFresh,
                   FailingIsGone, TargetIsGone, ExitedIsDone, BusyRunnerHasWork, QueuedRunIsFresh, RunnerOf, Started
  <2>2. RunningWorkIsCurrent'
    BY <1>4 DEF ShellRefused, RunningWorkIsCurrent, Attended, Current, Handover, Taken,
                   Ownership, UnstartedIsFresh, RunnerOf, Started
  <2>3. WaiterIsOwed'
    BY <1>4 DEF ShellRefused, WaiterIsOwed, Owed, Queued, Failing
  <2> QED
    BY <2>1, <2>2, <2>3
<1>5. ASSUME NEW c \in Callers, Answer(c) PROVE IInv'
  <2>1. Ownership' /\ BusyRunnerHasWork' /\ QueuedRunIsFresh'
    BY <1>5 DEF Answer, Ownership, HeldByItsRunner, ShellIsNotRun, UnstartedIsFresh,
                   FailingIsGone, TargetIsGone, ExitedIsDone, BusyRunnerHasWork, QueuedRunIsFresh, RunnerOf, Started
  <2>2. RunningWorkIsCurrent'
    BY <1>5 DEF Answer, RunningWorkIsCurrent, Attended, Current, Handover, Taken,
                   Ownership, UnstartedIsFresh, RunnerOf, Started
  <2>3. WaiterIsOwed'
    BY <1>5 DEF Answer, WaiterIsOwed, Owed, Queued, Failing
  <2> QED
    BY <2>1, <2>2, <2>3
<1>6. ASSUME NEW w \in Callers, SetStatus(w) PROVE IInv'
  <2>1. Ownership' /\ BusyRunnerHasWork' /\ QueuedRunIsFresh'
    BY <1>6 DEF SetStatus, Ownership, HeldByItsRunner, ShellIsNotRun, UnstartedIsFresh,
                   FailingIsGone, TargetIsGone, ExitedIsDone, BusyRunnerHasWork, QueuedRunIsFresh, RunnerOf, Started
  <2>2. RunningWorkIsCurrent'
    BY <1>6 DEF SetStatus, RunningWorkIsCurrent, Attended, Current, Handover, Taken,
                   Ownership, UnstartedIsFresh, RunnerOf, Started
  <2>3. WaiterIsOwed'
    BY <1>6 DEF SetStatus, WaiterIsOwed, Owed, Queued, Failing
  <2> QED
    BY <2>1, <2>2, <2>3
<1>7. ASSUME NEW w \in Callers, WorkEnds(w) PROVE IInv'
  <2>1. Ownership' /\ BusyRunnerHasWork' /\ QueuedRunIsFresh'
    BY <1>7 DEF WorkEnds, Ownership, HeldByItsRunner, ShellIsNotRun, UnstartedIsFresh,
                   FailingIsGone, TargetIsGone, ExitedIsDone, BusyRunnerHasWork, QueuedRunIsFresh, RunnerOf, Started
  <2>2. RunningWorkIsCurrent'
    BY <1>7 DEF WorkEnds, RunningWorkIsCurrent, Attended, Current, Handover, Taken,
                   Ownership, UnstartedIsFresh, RunnerOf, Started
  <2>3. WaiterIsOwed'
    BY <1>7 DEF WorkEnds, WaiterIsOwed, Owed, Queued, Failing
  <2> QED
    BY <2>1, <2>2, <2>3
<1>8. ASSUME NEW w \in Callers, FinishCurrent(w) PROVE IInv'
  <2>1. Ownership' /\ BusyRunnerHasWork' /\ QueuedRunIsFresh'
    BY <1>8 DEF FinishCurrent, Current, Ownership, HeldByItsRunner, ShellIsNotRun, UnstartedIsFresh,
                   FailingIsGone, TargetIsGone, ExitedIsDone, BusyRunnerHasWork, QueuedRunIsFresh, RunnerOf, Started
  <2>2. RunningWorkIsCurrent'
    BY <1>8 DEF FinishCurrent, Current, RunningWorkIsCurrent, Attended, Current, Handover, Taken,
                   Ownership, UnstartedIsFresh, RunnerOf, Started
  <2>3. WaiterIsOwed'
    <3>1. \A x \in Callers : Queued(x) => Queued(x)'
      BY <1>8 DEF FinishCurrent, Current, Queued
    <3>2. \A x \in Callers : Owed(x) => Owed(x)'
      BY <1>8, <3>1 DEF FinishCurrent, Owed, Failing
    <3> QED
      BY <1>8, <3>2 DEF FinishCurrent, WaiterIsOwed
  <2> QED
    BY <2>1, <2>2, <2>3
<1>9. ASSUME NEW w \in Callers, FinishShellThenRun(w) PROVE IInv'
  <2>1. Ownership' /\ BusyRunnerHasWork' /\ QueuedRunIsFresh'
    BY <1>9 DEF FinishShellThenRun, StartQueued, Handover, Ownership, HeldByItsRunner, ShellIsNotRun, UnstartedIsFresh,
                   FailingIsGone, TargetIsGone, ExitedIsDone, BusyRunnerHasWork, QueuedRunIsFresh, RunnerOf, Started
  <2>2. RunningWorkIsCurrent'
    <3>1. ASSUME NEW x \in Callers, fiber'[x] \in {"forked", "running"}, x # st[RunnerOf(w)].run PROVE Attended(x)'
      <4>1. fiber[x] \in {"forked", "running"} /\ x # w
        BY <1>9, <3>1 DEF FinishShellThenRun, StartQueued
      <4>2. Attended(x)
        BY <4>1 DEF RunningWorkIsCurrent
      <4>3. RunnerOf(x) # RunnerOf(w) \/ (~Current(x) /\ ~Handover(x))
        <5>1. st[RunnerOf(w)].shell = w /\ st[RunnerOf(w)].run # NoOne
          BY <1>9 DEF FinishShellThenRun, Handover
        <5>2. st[RunnerOf(w)].shell # NoOne /\ x # NoOne
          BY <5>1
        <5>3. ASSUME RunnerOf(x) = RunnerOf(w) PROVE ~Handover(x)
          BY <4>1, <5>1, <5>3 DEF Handover
        <5>4. ASSUME RunnerOf(x) = RunnerOf(w) PROVE ~Current(x)
          BY <5>1, <5>2, <5>4 DEF Current
        <5> QED
          BY <5>3, <5>4
      <4>4. RunnerOf(x) \in Callers /\ RunnerOf(x)' = RunnerOf(x)
        BY <1>9, <4>1 DEF FinishShellThenRun, Ownership, UnstartedIsFresh, Started, RunnerOf
      <4> QED
        BY <1>9, <4>2, <4>3, <4>4 DEF FinishShellThenRun, Attended, Current, Handover, Taken
    <3>2. ASSUME NEW x \in Callers, x = st[RunnerOf(w)].run PROVE Current(x)'
      <4>1. RunnerOf(x)' = RunnerOf(w) /\ RunnerOf(w) \in Callers
        BY <1>9, <3>2 DEF FinishShellThenRun, Ownership, UnstartedIsFresh, HeldByItsRunner, Started, RunnerOf
      <4>2. st'[RunnerOf(w)] = [shell |-> NoOne, run |-> x]
        BY <1>9, <3>2, <4>1 DEF FinishShellThenRun
      <4> QED
        BY <4>1, <4>2 DEF Current
    <3> QED
      BY <3>1, <3>2 DEF RunningWorkIsCurrent, Attended
  <2>3. WaiterIsOwed'
    <3>1. RunnerOf(w) \in Callers
      BY <1>9 DEF FinishShellThenRun, Ownership, UnstartedIsFresh, Started, RunnerOf
    <3>2. ASSUME NEW x \in Callers, Queued(x) PROVE Queued(x)' \/ fiber'[x] = "forked"
      BY <1>9, <3>1, <3>2 DEF FinishShellThenRun, StartQueued, Queued
    <3>3. \A x \in Callers : Owed(x) => Owed(x)'
      BY <1>9, <3>2 DEF FinishShellThenRun, StartQueued, Owed, Failing
    <3>4. st[RunnerOf(w)].run \in Callers /\ fiber[st[RunnerOf(w)].run] = "none"
      BY <1>9, <3>1 DEF FinishShellThenRun, Handover, QueuedRunIsFresh
    <3>5. \A x \in Callers : NeverRan(x) => NeverRan(x)'
      BY <1>9, <3>4 DEF FinishShellThenRun, StartQueued
    <3> QED
      BY <1>9, <3>3, <3>5 DEF FinishShellThenRun, WaiterIsOwed
  <2> QED
    BY <2>1, <2>2, <2>3
<1>10. ASSUME NEW w \in Callers, FinishStale(w) PROVE IInv'
  <2>1. Ownership' /\ BusyRunnerHasWork' /\ QueuedRunIsFresh'
    BY <1>10 DEF FinishStale, Current, Handover, Ownership, HeldByItsRunner, ShellIsNotRun, UnstartedIsFresh,
                   FailingIsGone, TargetIsGone, ExitedIsDone, BusyRunnerHasWork, QueuedRunIsFresh, RunnerOf, Started
  <2>2. RunningWorkIsCurrent'
    BY <1>10 DEF FinishStale, Current, Handover, RunningWorkIsCurrent, Attended, Current, Handover, Taken,
                   Ownership, UnstartedIsFresh, RunnerOf, Started
  <2>3. WaiterIsOwed'
    BY <1>10 DEF FinishStale, Current, Handover, WaiterIsOwed, Owed, Queued, Failing
  <2> QED
    BY <2>1, <2>2, <2>3
<1>11. ASSUME NEW w \in Callers, Deregister(w) PROVE IInv'
  <2>1. Ownership' /\ BusyRunnerHasWork' /\ QueuedRunIsFresh'
    BY <1>11 DEF Deregister, Ownership, HeldByItsRunner, ShellIsNotRun, UnstartedIsFresh,
                   FailingIsGone, TargetIsGone, ExitedIsDone, BusyRunnerHasWork, QueuedRunIsFresh, RunnerOf, Started
  <2>2. RunningWorkIsCurrent'
    BY <1>11 DEF Deregister, RunningWorkIsCurrent, Attended, Current, Handover, Taken,
                   Ownership, UnstartedIsFresh, RunnerOf, Started
  <2>3. WaiterIsOwed'
    BY <1>11 DEF Deregister, WaiterIsOwed, Owed, Queued, Failing
  <2> QED
    BY <2>1, <2>2, <2>3
<1>12. ASSUME NEW w \in Callers, AnnounceIdle(w) PROVE IInv'
  <2>1. Ownership' /\ BusyRunnerHasWork' /\ QueuedRunIsFresh'
    BY <1>12 DEF AnnounceIdle, Ownership, HeldByItsRunner, ShellIsNotRun, UnstartedIsFresh,
                   FailingIsGone, TargetIsGone, ExitedIsDone, BusyRunnerHasWork, QueuedRunIsFresh, RunnerOf, Started
  <2>2. RunningWorkIsCurrent'
    BY <1>12 DEF AnnounceIdle, RunningWorkIsCurrent, Attended, Current, Handover, Taken,
                   Ownership, UnstartedIsFresh, RunnerOf, Started
  <2>3. WaiterIsOwed'
    BY <1>12 DEF AnnounceIdle, WaiterIsOwed, Owed, Queued, Failing
  <2> QED
    BY <2>1, <2>2, <2>3
<1>13. ASSUME NEW w \in Callers, Complete(w) PROVE IInv'
  <2>1. Ownership' /\ BusyRunnerHasWork' /\ QueuedRunIsFresh'
    BY <1>13 DEF Complete, Ownership, HeldByItsRunner, ShellIsNotRun, UnstartedIsFresh,
                   FailingIsGone, TargetIsGone, ExitedIsDone, BusyRunnerHasWork, QueuedRunIsFresh, RunnerOf, Started
  <2>2. RunningWorkIsCurrent'
    BY <1>13 DEF Complete, RunningWorkIsCurrent, Attended, Current, Handover, Taken,
                   Ownership, UnstartedIsFresh, RunnerOf, Started
  <2>3. WaiterIsOwed'
    BY <1>13 DEF Complete, WaiterIsOwed, Owed, Queued, Failing
  <2> QED
    BY <2>1, <2>2, <2>3
<1>14. ASSUME NEW k \in Cancellers, LookForRunner(k) PROVE IInv'
  <2>1. Ownership' /\ BusyRunnerHasWork' /\ QueuedRunIsFresh'
    <3>1. \A i \in Cancellers : cancel'[i].pc \in {"failing", "interrupting"} => cancel'[i] = cancel[i]
      BY <1>14 DEF LookForRunner
    <3>2. UNCHANGED <<st, caller>>
      BY <1>14 DEF LookForRunner
    <3>3. FailingIsGone'
      BY <3>1, <3>2 DEF Ownership, FailingIsGone, Started
    <3>4. TargetIsGone'
      BY <3>1, <3>2 DEF Ownership, TargetIsGone, Started
    <3> QED
      BY <1>14, <3>3, <3>4 DEF LookForRunner, Ownership, HeldByItsRunner, ShellIsNotRun, UnstartedIsFresh,
                         ExitedIsDone, BusyRunnerHasWork, QueuedRunIsFresh, RunnerOf, Started
  <2>2. RunningWorkIsCurrent'
    <3>1. \A x \in Callers : Attended(x) => Attended(x)'
      BY <1>14, OtherCancels DEF LookForRunner, Attended, Current, Handover, RunnerOf
    <3> QED
      BY <1>14, <3>1 DEF LookForRunner, RunningWorkIsCurrent
  <2>3. WaiterIsOwed'
    <3>1. \A x \in Callers : Owed(x) => Owed(x)'
      BY <1>14, OtherCancels DEF LookForRunner, Owed, Queued
    <3> QED
      BY <1>14, <3>1 DEF LookForRunner, WaiterIsOwed
  <2> QED
    BY <2>1, <2>2, <2>3
<1>15. ASSUME NEW k \in Cancellers, Take(k) PROVE IInv'
  <2>1. Ownership' /\ BusyRunnerHasWork' /\ QueuedRunIsFresh'
    BY <1>15 DEF Take, NothingToCancel, StateAfterCancel, NotCancelling, Ownership, HeldByItsRunner, ShellIsNotRun, UnstartedIsFresh,
                   FailingIsGone, TargetIsGone, ExitedIsDone, BusyRunnerHasWork, QueuedRunIsFresh, RunnerOf, Started
  <2>2. RunningWorkIsCurrent'
    BY <1>15 DEF Take, NothingToCancel, StateAfterCancel, NotCancelling, RunningWorkIsCurrent, Attended, Current, Handover, Taken,
                   Ownership, UnstartedIsFresh, RunnerOf, Started
  <2>3. WaiterIsOwed'
    <3>1. ASSUME NEW x \in Callers, Queued(x) PROVE Queued(x)' \/ Failing(x)'
      BY <1>15, <3>1 DEF Take, NothingToCancel, StateAfterCancel, Queued, Failing
    <3>2. \A x \in Callers : Owed(x) => Owed(x)'
      BY <1>15, <3>1, OtherCancels DEF Take, Owed
    <3> QED
      BY <1>15, <3>2 DEF Take, WaiterIsOwed
  <2> QED
    BY <2>1, <2>2, <2>3
<1>16. ASSUME NEW k \in Cancellers, FailPending(k) PROVE IInv'
  <2>1. Ownership' /\ BusyRunnerHasWork' /\ QueuedRunIsFresh'
    BY SMTT(30), <1>16 DEF FailPending, PendingFailed, Ownership, HeldByItsRunner, ShellIsNotRun, UnstartedIsFresh,
                   FailingIsGone, TargetIsGone, ExitedIsDone, BusyRunnerHasWork, QueuedRunIsFresh, RunnerOf, Started
  <2>2. RunningWorkIsCurrent'
    BY <1>16 DEF FailPending, PendingFailed, RunningWorkIsCurrent, Attended, Current, Handover, Taken,
                   Ownership, UnstartedIsFresh, RunnerOf, Started
  <2>3. WaiterIsOwed'
    <3>1. \A x \in Callers : Failing(x) => Failing(x)' \/ done'[x] # "none"
      BY <1>16 DEF FailPending, PendingFailed, Failing
    <3>2. \A x \in Callers : Owed(x) => Owed(x)'
      BY <1>16, <3>1 DEF FailPending, PendingFailed, Owed, Queued
    <3> QED
      BY <1>16, <3>2 DEF FailPending, WaiterIsOwed
  <2> QED
    BY <2>1, <2>2, <2>3
<1>17. ASSUME NEW k \in Cancellers, Interrupt(k) PROVE IInv'
  <2> DEFINE t == cancel[k].target
  <2>1. /\ t \in Callers
        /\ cancel' = [cancel EXCEPT ![k].pc = "awaiting"] /\ cancel[k].pc = "interrupting"
        /\ UNCHANGED <<registered, st, caller, exit, status>>
        /\ killed' = killed \cup {t}
        /\ fiber' = IF fiber[t] = "forked" THEN [fiber EXCEPT ![t] = "unborn"] ELSE fiber
        /\ \A x \in Callers : done'[x] = done[x] \/ (x = t /\ fiber[t] = "forked" /\ done'[x] = "cancelled")
    BY <1>17 DEF Interrupt
  <2>2. fiber[t] = "forked" => Started(t) /\ \A r \in Callers : t \notin {st[r].run, st[r].shell}
    BY <2>1 DEF Ownership, UnstartedIsFresh, TargetIsGone
  <2> HIDE DEF t
  <2>3. Ownership'
    <3>1. HeldByItsRunner' /\ ShellIsNotRun' /\ FailingIsGone'
      BY <2>1 DEF Ownership, HeldByItsRunner, ShellIsNotRun, FailingIsGone, Started, RunnerOf
    <3>2. UnstartedIsFresh' /\ ExitedIsDone'
      BY <2>1, <2>2 DEF Ownership, UnstartedIsFresh, ExitedIsDone, Started
    <3>3. \A i \in Cancellers : cancel'[i].pc \in {"failing", "interrupting"} => cancel'[i] = cancel[i]
      BY <2>1
    <3>4. TargetIsGone'
      BY <2>1, <3>3 DEF Ownership, TargetIsGone, Started
    <3> QED
      BY <3>1, <3>2, <3>4 DEF Ownership
  <2>4. BusyRunnerHasWork' /\ QueuedRunIsFresh'
    BY <2>1, <2>2 DEF BusyRunnerHasWork, QueuedRunIsFresh
  <2>5. RunningWorkIsCurrent'
    <3>1. \A x \in Callers : Attended(x) => Attended(x)'
      BY <2>1 DEF t, Attended, Current, Handover, Taken, RunnerOf
    <3> QED
      BY <2>1, <3>1 DEF RunningWorkIsCurrent
  <2>6. WaiterIsOwed'
    <3>1. \A x \in Callers : Owed(x) => Owed(x)' \/ NeverRan(x)'
      BY <2>1, OtherCancels DEF Owed, Queued
    <3>2. \A x \in Callers : NeverRan(x) => NeverRan(x)'
      BY <2>1
    <3> QED
      BY <2>1, <3>1, <3>2 DEF WaiterIsOwed
  <2> QED
    BY <2>3, <2>4, <2>5, <2>6
<1>18. ASSUME NEW k \in Cancellers, AwaitExit(k) PROVE IInv'
  <2>1. Ownership' /\ BusyRunnerHasWork' /\ QueuedRunIsFresh'
    BY <1>18 DEF AwaitExit, Ownership, HeldByItsRunner, ShellIsNotRun, UnstartedIsFresh,
                   FailingIsGone, TargetIsGone, ExitedIsDone, BusyRunnerHasWork, QueuedRunIsFresh, RunnerOf, Started
  <2>2. RunningWorkIsCurrent'
    <3>1. \A x \in Callers : Attended(x) => Attended(x)'
      BY <1>18, OtherCancels DEF AwaitExit, Attended, Current, Handover, RunnerOf
    <3> QED
      BY <1>18, <3>1 DEF AwaitExit, RunningWorkIsCurrent
  <2>3. WaiterIsOwed'
    <3>1. \A x \in Callers : Owed(x) => Owed(x)'
      BY <1>18, OtherCancels DEF AwaitExit, Owed, Queued
    <3> QED
      BY <1>18, <3>1 DEF AwaitExit, WaiterIsOwed
  <2> QED
    BY <2>1, <2>2, <2>3
<1>19. ASSUME NEW k \in Cancellers, IdleIfCurrent(k) PROVE IInv'
  <2>1. Ownership' /\ BusyRunnerHasWork' /\ QueuedRunIsFresh'
    BY <1>19 DEF IdleIfCurrent, NotCancelling, Ownership, HeldByItsRunner, ShellIsNotRun, UnstartedIsFresh,
                   FailingIsGone, TargetIsGone, ExitedIsDone, BusyRunnerHasWork, QueuedRunIsFresh, RunnerOf, Started
  <2>2. RunningWorkIsCurrent'
    <3>1. \A x \in Callers : Attended(x) => Attended(x)'
      BY <1>19, OtherCancels DEF IdleIfCurrent, NotCancelling, Attended, Current, Handover, RunnerOf
    <3> QED
      BY <1>19, <3>1 DEF IdleIfCurrent, NotCancelling, RunningWorkIsCurrent
  <2>3. WaiterIsOwed'
    <3>1. \A x \in Callers : Owed(x) => Owed(x)'
      BY <1>19, OtherCancels DEF IdleIfCurrent, NotCancelling, Owed, Queued
    <3> QED
      BY <1>19, <3>1 DEF IdleIfCurrent, NotCancelling, WaiterIsOwed
  <2> QED
    BY <2>1, <2>2, <2>3
<1>20. ASSUME NEW k \in Cancellers, CancelDeregisters(k) PROVE IInv'
  <2>1. Ownership' /\ BusyRunnerHasWork' /\ QueuedRunIsFresh'
    BY <1>20 DEF CancelDeregisters, Ownership, HeldByItsRunner, ShellIsNotRun, UnstartedIsFresh,
                   FailingIsGone, TargetIsGone, ExitedIsDone, BusyRunnerHasWork, QueuedRunIsFresh, RunnerOf, Started
  <2>2. RunningWorkIsCurrent'
    <3>1. \A x \in Callers : Attended(x) => Attended(x)'
      BY <1>20, OtherCancels DEF CancelDeregisters, Attended, Current, Handover, RunnerOf
    <3> QED
      BY <1>20, <3>1 DEF CancelDeregisters, RunningWorkIsCurrent
  <2>3. WaiterIsOwed'
    <3>1. \A x \in Callers : Owed(x) => Owed(x)'
      BY <1>20, OtherCancels DEF CancelDeregisters, Owed, Queued
    <3> QED
      BY <1>20, <3>1 DEF CancelDeregisters, WaiterIsOwed
  <2> QED
    BY <2>1, <2>2, <2>3
<1>21. ASSUME NEW k \in Cancellers, CancelAnnounces(k) PROVE IInv'
  <2>1. Ownership' /\ BusyRunnerHasWork' /\ QueuedRunIsFresh'
    BY <1>21 DEF CancelAnnounces, NotCancelling, Ownership, HeldByItsRunner, ShellIsNotRun, UnstartedIsFresh,
                   FailingIsGone, TargetIsGone, ExitedIsDone, BusyRunnerHasWork, QueuedRunIsFresh, RunnerOf, Started
  <2>2. RunningWorkIsCurrent'
    <3>1. \A x \in Callers : Attended(x) => Attended(x)'
      BY <1>21, OtherCancels DEF CancelAnnounces, NotCancelling, Attended, Current, Handover, RunnerOf
    <3> QED
      BY <1>21, <3>1 DEF CancelAnnounces, NotCancelling, RunningWorkIsCurrent
  <2>3. WaiterIsOwed'
    <3>1. \A x \in Callers : Owed(x) => Owed(x)'
      BY <1>21, OtherCancels DEF CancelAnnounces, NotCancelling, Owed, Queued
    <3> QED
      BY <1>21, <3>1 DEF CancelAnnounces, NotCancelling, WaiterIsOwed
  <2> QED
    BY <2>1, <2>2, <2>3
<1>23. ASSUME NEW w \in Callers, Starts(w) PROVE IInv'
  <2>1. Ownership' /\ BusyRunnerHasWork' /\ QueuedRunIsFresh'
    BY <1>23 DEF Starts, Ownership, HeldByItsRunner, ShellIsNotRun, UnstartedIsFresh,
                   FailingIsGone, TargetIsGone, ExitedIsDone, BusyRunnerHasWork, QueuedRunIsFresh, RunnerOf, Started
  <2>2. RunningWorkIsCurrent'
    BY <1>23 DEF Starts, RunningWorkIsCurrent, Attended, Current, Handover, Taken,
                   Ownership, UnstartedIsFresh, RunnerOf, Started
  <2>3. WaiterIsOwed'
    BY <1>23 DEF Starts, WaiterIsOwed, Owed, Queued, Failing
  <2> QED
    BY <2>1, <2>2, <2>3
<1>22. CASE UNCHANGED vars
  BY <1>22 DEF vars, RunningWorkIsCurrent, Attended, Current, Handover, Taken, WaiterIsOwed, Owed, Queued, Failing,
               Ownership, HeldByItsRunner, ShellIsNotRun, UnstartedIsFresh, FailingIsGone, TargetIsGone, ExitedIsDone,
               BusyRunnerHasWork, QueuedRunIsFresh, RunnerOf, Started
<1> HIDE DEF TypeOK, IInv, State, Idle, Unfinished, NeverRan, FiberState
<1> QED
  BY <1>1, <1>2, <1>3, <1>4, <1>5, <1>6, <1>7, <1>8, <1>9, <1>10, <1>11, <1>12, <1>13, <1>14, <1>15, <1>16, <1>17, <1>18, <1>19, <1>20, <1>21, <1>22, <1>23
     DEF Next, Calls, CallerStep, Works, FiberStep, Cancels, CancelStep

\* The invariant holds of every behaviour.
LEMMA InvariantHolds == Spec => [](TypeOK /\ IInv)
<1>1. Init => IInv
  BY DEF Init, IInv, Ownership, HeldByItsRunner, ShellIsNotRun, UnstartedIsFresh, FailingIsGone, TargetIsGone, ExitedIsDone,
         RunningWorkIsCurrent, BusyRunnerHasWork, QueuedRunIsFresh, WaiterIsOwed, Started, Idle, NotCalled,
         NotCancelling
<1> QED
  BY <1>1, TypeCorrect, Inductive, PTL DEF Spec

\* No run or shell goes on behind the back of its runner, but for what a cancel
\* has taken and is about to interrupt.
THEOREM RunningWorkStaysCurrent == Spec => []RunningWorkIsCurrent
BY InvariantHolds, PTL DEF IInv

\* A runner is busy only while it has work that will free it.
THEOREM BusyRunnersHaveWork == Spec => []BusyRunnerHasWork
BY InvariantHolds, PTL DEF IInv

\* What is queued behind a shell has neither started nor been answered.
THEOREM QueuedRunsAreFresh == Spec => []QueuedRunIsFresh
BY InvariantHolds, PTL DEF IInv

\* Nobody waits for an answer that no fiber, shell or cancel owes.
THEOREM WaitersAreOwed == Spec => []WaiterIsOwed
BY InvariantHolds, PTL DEF IInv

(***************************************************************************)
(* The status of a session where nothing goes on.                          *)
(***************************************************************************)
\* A cancel has the work and waits, or will wait, for its fiber.
Awaited(w) == \E k \in Cancellers : /\ cancel[k].target = w
                                    /\ cancel[k].pc \in {"failing", "interrupting", "awaiting"}

\* Unfinished work that its runner has lost is waited for by a cancel.
LostWorkIsAwaited ==
    \A w \in Callers : fiber[w] \in Unfinished => Current(w) \/ Handover(w) \/ Awaited(w)

\* The status is busy only while somebody is left to set it back.
BusyStatusIsBacked ==
    status = "busy" =>
        \/ \E w \in Callers : fiber[w] \in Unfinished \cup {"idling", "announcing"}
        \/ \E k \in Cancellers : cancel[k].pc \notin {"idle", "looked"}

\* A runner's state without its shell is that of its run.
LEMMA ShellCleared ==
  ASSUME NEW s \in State
  PROVE  [s EXCEPT !.shell = NoOne] = [shell |-> NoOne, run |-> s.run]
BY DEF State

\* Unfinished work stays with its runner or with the cancel that waits for it.
LEMMA LostWorkStep ==
  TypeOK /\ TypeOK' /\ IInv /\ LostWorkIsAwaited /\ [Next]_vars => LostWorkIsAwaited'
<1> SUFFICES ASSUME TypeOK, TypeOK', IInv, LostWorkIsAwaited, [Next]_vars,
                    NEW x \in Callers, fiber'[x] \in Unfinished
             PROVE  (Current(x) \/ Handover(x) \/ Awaited(x))'
  BY DEF LostWorkIsAwaited
<1> USE DEF TypeOK, IInv, Ownership, UnstartedIsFresh, HeldByItsRunner, LostWorkIsAwaited, Current, Handover, Awaited, RunnerOf, Started, State, Idle, Unfinished
<1>1. ASSUME NEW c \in Callers, NEW kind \in {"run", "shell"}, Lookup(c, kind) PROVE (Current(x) \/ Handover(x) \/ Awaited(x))'
  <2>1. UNCHANGED <<st, fiber, cancel>> /\ caller[c].pc = "new"
    BY <1>1 DEF Lookup
  <2>2. fiber[c] = "none"
    BY <2>1
  <2>3. x # c
    BY <2>1, <2>2
  <2>4. caller'[x] = caller[x]
    BY <1>1, <2>3 DEF Lookup
  <2> QED
    BY <2>1, <2>4
<1>2. ASSUME NEW c \in Callers, EnsureRunning(c) PROVE (Current(x) \/ Handover(x) \/ Awaited(x))'
  <2> DEFINE r == RunnerOf(c)
             work == IF st[r].run # NoOne THEN st[r].run ELSE c
  <2>1. r \in Callers /\ st[r] \in State /\ fiber[c] = "none"
    BY <1>2 DEF EnsureRunning
  <2>2. /\ st' = [st EXCEPT ![r].run = work]
        /\ fiber' = IF st[r] = Idle THEN [fiber EXCEPT ![c] = "forked"] ELSE fiber
        /\ caller' = [caller EXCEPT ![c] = [pc |-> "waiting", runner |-> r, work |-> work]]
        /\ cancel' = cancel
    BY <1>2 DEF EnsureRunning
  <2>3. st'[r] = [shell |-> st[r].shell, run |-> work]
    BY <2>1, <2>2
  <2>4. RunnerOf(x)' = RunnerOf(x)
    BY <2>2
  <2>5. CASE x = c
    <3>1. st[r] = Idle
      BY <2>1, <2>2, <2>5
    <3>2. st'[r] = [shell |-> NoOne, run |-> c]
      BY <2>3, <3>1
    <3> QED
      BY <2>4, <2>5, <3>2
  <2>6. CASE x # c
    <3>1. fiber[x] = fiber'[x] /\ RunnerOf(x) \in Callers
      BY <2>2, <2>6
    <3>2. Current(x) \/ Handover(x) \/ Awaited(x)
      BY <3>1
    <3>3. CASE Awaited(x)
      BY <2>2, <3>3
    <3>4. CASE RunnerOf(x) # r /\ (Current(x) \/ Handover(x))
      <4>1. st'[RunnerOf(x)] = st[RunnerOf(x)]
        BY <2>2, <3>1, <3>4
      <4> QED
        BY <2>4, <3>4, <4>1
    <3>5. CASE RunnerOf(x) = r /\ Current(x) /\ st[r].run = x
      <4>1. st[r] = [shell |-> NoOne, run |-> x] /\ work = x
        BY <2>1, <3>5, SessionRunStateAssumption
      <4>2. st'[r] = [shell |-> NoOne, run |-> x]
        BY <2>3, <4>1
      <4> QED
        BY <2>4, <3>5, <4>2
    <3>6. CASE RunnerOf(x) = r /\ (Handover(x) \/ (Current(x) /\ st[r].run # x))
      <4>1. st[r].shell = x /\ work # NoOne
        BY <2>1, <3>6, SessionRunStateAssumption
      <4>2. st'[r].shell = x /\ st'[r].run # NoOne
        BY <2>3, <4>1
      <4> QED
        BY <2>4, <3>6, <4>2
    <3> QED
      BY <3>2, <3>3, <3>4, <3>5, <3>6
  <2> QED
    BY <2>5, <2>6
<1>3. ASSUME NEW c \in Callers, StartShell(c) PROVE (Current(x) \/ Handover(x) \/ Awaited(x))'
  <2> DEFINE r == RunnerOf(c)
  <2>1. r \in Callers /\ st[r] = [shell |-> NoOne, run |-> NoOne] /\ cancel' = cancel
    BY <1>3 DEF StartShell
  <2>2. st' = [st EXCEPT ![r] = [shell |-> c, run |-> NoOne]]
    <3>1. st' = [st EXCEPT ![r] = [st[r] EXCEPT !.shell = c]]
      BY <1>3 DEF StartShell
    <3>2. [st[r] EXCEPT !.shell = c] = [shell |-> c, run |-> NoOne]
      BY <2>1
    <3> QED
      BY <3>1, <3>2
  <2>3. RunnerOf(x)' = RunnerOf(x)
    BY <1>3 DEF StartShell
  <2>4. CASE x = c
    <3>1. st'[r] = [shell |-> x, run |-> NoOne]
      BY <2>1, <2>2, <2>4
    <3> QED
      BY <2>3, <2>4, <3>1
  <2>5. CASE x # c
    <3>1. fiber[x] = fiber'[x] /\ RunnerOf(x) \in Callers
      BY <1>3, <2>5 DEF StartShell
    <3>2. Current(x) \/ Handover(x) \/ Awaited(x)
      BY <3>1
    <3>3. CASE Awaited(x)
      BY <2>1, <3>3
    <3>4. CASE Current(x) \/ Handover(x)
      <4>1. RunnerOf(x) # r
        BY <2>1, <3>4, SessionRunStateAssumption
      <4>2. st'[RunnerOf(x)] = st[RunnerOf(x)]
        BY <2>2, <3>1, <4>1
      <4> QED
        BY <2>3, <3>4, <4>2
    <3> QED
      BY <3>2, <3>3, <3>4
  <2> QED
    BY <2>4, <2>5
<1>4. ASSUME NEW c \in Callers, ShellRefused(c) \/ Answer(c) PROVE (Current(x) \/ Handover(x) \/ Awaited(x))'
  <2>1. RunnerOf(x)' = RunnerOf(x)
    <3>1. CASE ShellRefused(c)
      BY <3>1 DEF ShellRefused
    <3>2. CASE Answer(c)
      BY <3>2 DEF Answer
    <3> QED
      BY <1>4, <3>1, <3>2
  <2>2. UNCHANGED <<st, fiber, cancel>>
    BY <1>4 DEF ShellRefused, Answer
  <2> QED
    BY <2>1, <2>2
<1>5. ASSUME NEW w \in Callers, Starts(w) \/ SetStatus(w) \/ WorkEnds(w) PROVE (Current(x) \/ Handover(x) \/ Awaited(x))'
  BY <1>5 DEF Starts, SetStatus, WorkEnds
<1>6. ASSUME NEW w \in Callers, FinishCurrent(w) PROVE (Current(x) \/ Handover(x) \/ Awaited(x))'
  BY <1>6 DEF FinishCurrent
<1>7. ASSUME NEW w \in Callers, FinishShellThenRun(w) PROVE (Current(x) \/ Handover(x) \/ Awaited(x))'
  <2> DEFINE r == RunnerOf(w)
             q == st[r].run
  <2>1. r \in Callers /\ st[r] \in State /\ st[r].shell = w /\ q \in Callers /\ q # NoOne
    BY <1>7 DEF FinishShellThenRun
  <2>2. /\ st' = [st EXCEPT ![r] = [shell |-> NoOne, run |-> q]]
        /\ fiber' = [[fiber EXCEPT ![w] = "completing"] EXCEPT ![q] = "forked"]
        /\ UNCHANGED <<caller, cancel>>
    <3>1. st' = [st EXCEPT ![r] = [st[r] EXCEPT !.shell = NoOne]]
      BY <1>7 DEF FinishShellThenRun
    <3>2. [st[r] EXCEPT !.shell = NoOne] = [shell |-> NoOne, run |-> q]
      BY <2>1, ShellCleared
    <3> QED
      BY <1>7, <3>1, <3>2 DEF FinishShellThenRun, StartQueued
  <2>3. CASE x = q
    <3>1. RunnerOf(x) = r
      BY <2>1, <2>3
    <3>2. st'[r] = [shell |-> NoOne, run |-> x]
      BY <2>1, <2>2, <2>3
    <3> QED
      BY <2>2, <3>1, <3>2
  <2>4. CASE x # q
    <3>1. x # w /\ fiber[x] = fiber'[x] /\ RunnerOf(x) \in Callers
      BY <2>2, <2>4
    <3>2. Current(x) \/ Handover(x) \/ Awaited(x)
      BY <3>1
    <3>3. CASE Awaited(x)
      BY <2>2, <3>3
    <3>4. CASE Current(x) \/ Handover(x)
      <4>1. RunnerOf(x) # r
        BY <2>1, <2>4, <3>1, <3>4, SessionRunStateAssumption
      <4>2. st'[RunnerOf(x)] = st[RunnerOf(x)]
        BY <2>2, <3>1, <4>1
      <4> QED
        BY <2>2, <3>4, <4>2
    <3> QED
      BY <3>2, <3>3, <3>4
  <2> QED
    BY <2>3, <2>4
<1>8. ASSUME NEW w \in Callers, FinishStale(w) PROVE (Current(x) \/ Handover(x) \/ Awaited(x))'
  BY <1>8 DEF FinishStale
<1>9. ASSUME NEW w \in Callers, Deregister(w) \/ AnnounceIdle(w) \/ Complete(w) PROVE (Current(x) \/ Handover(x) \/ Awaited(x))'
  <2>1. UNCHANGED <<st, caller, cancel>> /\ (fiber'[x] = fiber[x] \/ fiber'[x] \notin Unfinished)
    <3>1. CASE Deregister(w)
      BY <3>1 DEF Deregister
    <3>2. CASE AnnounceIdle(w)
      BY <3>2 DEF AnnounceIdle
    <3>3. CASE Complete(w)
      BY <3>3 DEF Complete
    <3> QED
      BY <1>9, <3>1, <3>2, <3>3
  <2> QED
    BY <2>1
<1>10. ASSUME NEW k \in Cancellers, LookForRunner(k) PROVE (Current(x) \/ Handover(x) \/ Awaited(x))'
  <2>1. fiber[x] = fiber'[x] /\ UNCHANGED <<st, caller>>
    BY <1>10 DEF LookForRunner
  <2>2. Awaited(x) => Awaited(x)'
    BY SMTT(30), <1>10 DEF LookForRunner
  <2> QED
    BY <2>1, <2>2
<1>11. ASSUME NEW k \in Cancellers, Take(k) PROVE (Current(x) \/ Handover(x) \/ Awaited(x))'
  <2>1. fiber[x] = fiber'[x] /\ RunnerOf(x)' = RunnerOf(x) /\ RunnerOf(x) \in Callers
    BY <1>11 DEF Take
  <2>2. Awaited(x) => Awaited(x)'
    BY <1>11 DEF Take
  <2>3. CASE RunnerOf(x) # cancel[k].runner
    <3>1. st'[RunnerOf(x)] = st[RunnerOf(x)]
      BY <1>11, <2>1, <2>3 DEF Take
    <3>2. Current(x) \/ Handover(x) \/ Awaited(x)
      BY <2>1
    <3> QED
      BY <2>1, <2>2, <3>1, <3>2
  <2>4. CASE RunnerOf(x) = cancel[k].runner /\ (Current(x) \/ Handover(x))
    BY <1>11, <2>1, <2>4 DEF Take, NothingToCancel
  <2> QED
    BY <2>1, <2>2, <2>3, <2>4
<1>12. ASSUME NEW k \in Cancellers, FailPending(k) \/ Interrupt(k) PROVE (Current(x) \/ Handover(x) \/ Awaited(x))'
  <2>1. fiber[x] = fiber'[x] /\ UNCHANGED <<st, caller>>
    BY <1>12 DEF FailPending, Interrupt
  <2>2. Awaited(x) => Awaited(x)'
    BY <1>12 DEF FailPending, Interrupt
  <2> QED
    BY <2>1, <2>2
<1>13. ASSUME NEW k \in Cancellers, AwaitExit(k) PROVE (Current(x) \/ Handover(x) \/ Awaited(x))'
  BY <1>13 DEF AwaitExit, TargetExited
<1>14. ASSUME NEW k \in Cancellers, IdleIfCurrent(k) \/ CancelDeregisters(k) \/ CancelAnnounces(k) PROVE (Current(x) \/ Handover(x) \/ Awaited(x))'
  <2>1. fiber[x] = fiber'[x] /\ RunnerOf(x)' = RunnerOf(x) /\ st' = st
    BY <1>14 DEF IdleIfCurrent, CancelDeregisters, CancelAnnounces
  <2>2. \A j \in Cancellers : j # k => cancel'[j] = cancel[j]
    BY <1>14 DEF IdleIfCurrent, CancelDeregisters, CancelAnnounces
  <2>3. cancel[k].pc \notin {"failing", "interrupting", "awaiting"}
    BY <1>14 DEF IdleIfCurrent, CancelDeregisters, CancelAnnounces
  <2>4. Awaited(x) => Awaited(x)'
    BY <2>2, <2>3
  <2>5. (Current(x) => Current(x)') /\ (Handover(x) => Handover(x)')
    BY <2>1
  <2> QED
    BY <2>1, <2>4, <2>5
<1>15. CASE UNCHANGED vars
  BY <1>15 DEF vars
<1> HIDE DEF TypeOK, IInv, Ownership, UnstartedIsFresh, HeldByItsRunner, LostWorkIsAwaited, Current, Handover, Awaited, RunnerOf, Started, State, Idle, Unfinished
<1> QED
  BY <1>1, <1>2, <1>3, <1>4, <1>5, <1>6, <1>7, <1>8, <1>9, <1>10, <1>11, <1>12, <1>13, <1>14, <1>15
     DEF Next, Calls, CallerStep, Works, FiberStep, Cancels, CancelStep

\* A busy status stays backed by work or by a cancel that will set it back.
LEMMA BusyStatusStep ==
  TypeOK /\ TypeOK' /\ IInv /\ LostWorkIsAwaited /\ BusyStatusIsBacked /\ [Next]_vars => BusyStatusIsBacked'
<1> SUFFICES ASSUME TypeOK, TypeOK', IInv, LostWorkIsAwaited, BusyStatusIsBacked, [Next]_vars
             PROVE  BusyStatusIsBacked'
  OBVIOUS
<1> USE DEF TypeOK, IInv, BusyStatusIsBacked, State, Idle, Unfinished
<1>1. ASSUME NEW c \in Callers, NEW kind \in {"run", "shell"}, Lookup(c, kind) PROVE BusyStatusIsBacked'
  BY <1>1 DEF Lookup
<1>2. ASSUME NEW c \in Callers, EnsureRunning(c) PROVE BusyStatusIsBacked'
  BY <1>2 DEF EnsureRunning
<1>3. ASSUME NEW c \in Callers, StartShell(c) PROVE BusyStatusIsBacked'
  BY <1>3 DEF StartShell
<1>4. ASSUME NEW c \in Callers, ShellRefused(c) \/ Answer(c) PROVE BusyStatusIsBacked'
  BY <1>4 DEF ShellRefused, Answer
<1>5. ASSUME NEW w \in Callers, Starts(w) \/ SetStatus(w) \/ WorkEnds(w) PROVE BusyStatusIsBacked'
  BY <1>5 DEF Starts, SetStatus, WorkEnds
<1>6. ASSUME NEW w \in Callers, FinishCurrent(w) PROVE BusyStatusIsBacked'
  BY <1>6 DEF FinishCurrent
<1>7. ASSUME NEW w \in Callers, FinishShellThenRun(w) PROVE BusyStatusIsBacked'
  BY <1>7 DEF FinishShellThenRun, StartQueued, Handover, Ownership, HeldByItsRunner
<1>8. ASSUME NEW w \in Callers, FinishStale(w) PROVE BusyStatusIsBacked'
  BY <1>8 DEF FinishStale, LostWorkIsAwaited, Awaited
<1>9. ASSUME NEW w \in Callers, Deregister(w) \/ AnnounceIdle(w) \/ Complete(w) PROVE BusyStatusIsBacked'
  BY <1>9 DEF Deregister, AnnounceIdle, Complete
<1>10. ASSUME NEW k \in Cancellers, LookForRunner(k) PROVE BusyStatusIsBacked'
  BY <1>10 DEF LookForRunner
<1>11. ASSUME NEW k \in Cancellers, Take(k) PROVE BusyStatusIsBacked'
  BY <1>11 DEF Take, NothingToCancel, StateAfterCancel, NotCancelling
<1>12. ASSUME NEW k \in Cancellers, FailPending(k) \/ Interrupt(k) PROVE BusyStatusIsBacked'
  BY <1>12 DEF FailPending, Interrupt
<1>13. ASSUME NEW k \in Cancellers, AwaitExit(k) PROVE BusyStatusIsBacked'
  BY <1>13 DEF AwaitExit, TargetExited
<1>14. ASSUME NEW k \in Cancellers, IdleIfCurrent(k) \/ CancelDeregisters(k) \/ CancelAnnounces(k) PROVE BusyStatusIsBacked'
  <2>1. CASE IdleIfCurrent(k)
    <3>1. UNCHANGED <<fiber, status>> /\ \A j \in Cancellers : j # k => cancel'[j] = cancel[j]
      BY <2>1 DEF IdleIfCurrent
    <3>2. CASE StillIdle(k)
      <4>1. cancel'[k].pc = "idling"
        BY <2>1, <3>2 DEF IdleIfCurrent
      <4> QED
        BY <4>1
    <3>3. CASE ~StillIdle(k)
      <4>1. cancel[k].runner \in Callers /\ st[cancel[k].runner] \in State /\ st[cancel[k].runner] # Idle
        BY <2>1, <3>3 DEF IdleIfCurrent, StillIdle
      <4>2. \E w \in Callers : fiber[w] \in Unfinished
        BY <4>1 DEF BusyRunnerHasWork
      <4> QED
        BY <3>1, <4>2
    <3> QED
      BY <3>2, <3>3
  <2>2. CASE CancelDeregisters(k)
    <3>1. cancel'[k].pc = "announcing"
      BY <2>2 DEF CancelDeregisters
    <3> QED
      BY <3>1
  <2>3. CASE CancelAnnounces(k)
    BY <2>3 DEF CancelAnnounces
  <2> QED
    BY <1>14, <2>1, <2>2, <2>3
<1>15. CASE UNCHANGED vars
  BY <1>15 DEF vars
<1> HIDE DEF TypeOK, IInv, BusyStatusIsBacked, State, Idle, Unfinished
<1> QED
  BY <1>1, <1>2, <1>3, <1>4, <1>5, <1>6, <1>7, <1>8, <1>9, <1>10, <1>11, <1>12, <1>13, <1>14, <1>15
     DEF Next, Calls, CallerStep, Works, FiberStep, Cancels, CancelStep

\* A session in which nothing goes on any more has been set idle.
THEOREM QuietSessionsAreIdle == Spec => []QuietSessionIsIdle
<1>1. Init => LostWorkIsAwaited /\ BusyStatusIsBacked
  BY DEF Init, LostWorkIsAwaited, BusyStatusIsBacked, Unfinished
<1>2. TypeOK /\ BusyStatusIsBacked => QuietSessionIsIdle
  BY DEF TypeOK, BusyStatusIsBacked, QuietSessionIsIdle, Unfinished, FiberState
<1> QED
  BY <1>1, <1>2, InvariantHolds, LostWorkStep, BusyStatusStep, PTL DEF Spec
=============================================================================
