--------------------------- MODULE SessionRunState ---------------------------
(***************************************************************************)
(* The runners of one session: SessionRunState keeps a runner for the main *)
(* agent in a map, a Runner serializes the work given to it (a run, or a   *)
(* shell with at most one run queued behind it), and any caller may cancel. *)
(* A work's fiber, the deferred its callers await, and the runner built     *)
(* for a caller that found none are all named by the caller that made them.*)
(*                                                                         *)
(* Starting work only schedules its fiber.  A fiber that is interrupted     *)
(* before its first step exits at once and runs none of its exit handlers:  *)
(* a run's deferred is then never completed.                                *)
(*                                                                         *)
(* With Preemptive, the scheduler may suspend a fiber between any two of   *)
(* its steps; without, only where it waits for another fiber, and it goes   *)
(* on as soon as that one has exited.                                      *)
(***************************************************************************)
EXTENDS Naturals, FiniteSets

CONSTANTS
    Callers,    \* calls of ensureRunning and startShell
    Cancellers, \* concurrent calls of cancel
    NoOne,      \* no caller
    Preemptive  \* may a fiber be suspended where it does not wait

ASSUME SessionRunStateAssumption ==
    /\ NoOne \notin Callers
    /\ Preemptive \in BOOLEAN

VARIABLES
    registered, \* the runner in the map, or NoOne
    st,         \* the state of each runner: its shell, its run
    caller,     \* what each caller is doing, on which runner, awaiting which work
    fiber,      \* the program counter of the fiber of each work
    exit,       \* how each work ended, as its exit handler is told
    killed,     \* the works whose fiber was interrupted
    done,       \* the deferred of each run, the exit of each shell
    cancel,     \* what each canceller is doing
    status      \* the session's status

vars == <<registered, st, caller, fiber, exit, killed, done, cancel, status>>

-----------------------------------------------------------------------------
\* A fiber is forked (scheduled), takes its first step, goes through its exit
\* handler and exits; one interrupted while it was only forked is unborn.
\* Running, Shell and ShellThenRun differ in which of the two fields are set.
FiberState == {"none", "forked", "running", "finishing", "idling", "announcing", "completing",
               "exited", "unborn"}
Idle      == [shell |-> NoOne, run |-> NoOne]
State     == [shell : Callers \cup {NoOne}, run : Callers \cup {NoOne}]
NotCalled == [pc |-> "new", runner |-> NoOne, work |-> NoOne]
NotCancelling == [pc |-> "idle", runner |-> NoOne, run |-> NoOne, target |-> NoOne]

TypeOK ==
    /\ registered \in Callers \cup {NoOne}
    /\ st \in [Callers -> State]
    /\ caller \in [Callers -> [pc : {"new", "run", "shell", "waiting", "answered", "refused"},
                               runner : Callers \cup {NoOne}, work : Callers \cup {NoOne}]]
    /\ fiber \in [Callers -> FiberState]
    /\ exit \in [Callers -> {"none", "done", "interrupted"}]
    /\ killed \subseteq Callers
    /\ done \in [Callers -> {"none", "done", "cancelled"}]
    /\ cancel \in [Cancellers -> [pc : {"idle", "looked", "failing", "interrupting", "awaiting",
                                        "checking", "idling", "announcing"},
                                  runner : Callers \cup {NoOne}, run : Callers \cup {NoOne},
                                  target : Callers \cup {NoOne}]]
    /\ \A k \in Cancellers :
         /\ cancel[k].pc # "idle" => cancel[k].runner \in Callers
         /\ cancel[k].pc \in {"failing", "interrupting", "awaiting"} => cancel[k].target \in Callers
    /\ \A c \in Callers :
         /\ caller[c].pc # "new" => caller[c].runner \in Callers
         /\ caller[c].pc = "waiting" => caller[c].work \in Callers
    /\ status \in {"idle", "busy"}

Init ==
    /\ registered = NoOne
    /\ st = [r \in Callers |-> Idle]
    /\ caller = [c \in Callers |-> NotCalled]
    /\ fiber = [c \in Callers |-> "none"]
    /\ exit = [c \in Callers |-> "none"]
    /\ killed = {}
    /\ done = [c \in Callers |-> "none"]
    /\ cancel = [k \in Cancellers |-> NotCancelling]
    /\ status = "idle"

\* What assertNotBusy looks at: the runner in the map and its state.
SeenBusy == registered # NoOne /\ st[registered] # Idle

RunnerOf(w) == caller[w].runner

-----------------------------------------------------------------------------
(* ensureRunning and startShell.                                           *)

\* runner: the runner in the map, or a new one put there.
Lookup(c, kind) ==
    /\ caller[c].pc = "new"
    /\ LET runner == IF registered # NoOne THEN registered ELSE c
       IN /\ registered' = runner
          /\ caller' = [caller EXCEPT ![c] = [pc |-> kind, runner |-> runner, work |-> NoOne]]
    /\ UNCHANGED <<st, fiber, exit, killed, done, cancel, status>>

\* A run there is joined and the work given is dropped; behind a shell the work
\* is queued; an idle runner forks it.
EnsureRunning(c) ==
    /\ caller[c].pc = "run"
    /\ LET r == RunnerOf(c)
           work == IF st[r].run # NoOne THEN st[r].run ELSE c
       IN /\ st' = [st EXCEPT ![r].run = work]
          /\ fiber' = IF st[r] = Idle THEN [fiber EXCEPT ![c] = "forked"] ELSE fiber
          /\ caller' = [caller EXCEPT ![c] = [pc |-> "waiting", runner |-> r, work |-> work]]
    /\ UNCHANGED <<registered, exit, killed, done, cancel, status>>

StartShell(c) ==
    /\ caller[c].pc = "shell"
    /\ st[RunnerOf(c)] = Idle
    /\ st' = [st EXCEPT ![RunnerOf(c)].shell = c]
    /\ fiber' = [fiber EXCEPT ![c] = "forked"]
    /\ caller' = [caller EXCEPT ![c] = [pc |-> "waiting", runner |-> RunnerOf(c), work |-> c]]
    /\ status' = "busy"
    /\ UNCHANGED <<registered, exit, killed, done, cancel>>

\* busy throws BusyError.
ShellRefused(c) ==
    /\ caller[c].pc = "shell"
    /\ st[RunnerOf(c)] # Idle
    /\ caller' = [caller EXCEPT ![c].pc = "refused"]
    /\ UNCHANGED <<registered, st, fiber, exit, killed, done, cancel, status>>

\* The deferred, or the exit of the shell, is there.  Cancelled work is
\* answered by onInterrupt.
Answer(c) ==
    /\ caller[c].pc = "waiting"
    /\ done[caller[c].work] # "none"
    /\ caller' = [caller EXCEPT ![c].pc = "answered"]
    /\ UNCHANGED <<registered, st, fiber, exit, killed, done, cancel, status>>

-----------------------------------------------------------------------------
(* The fiber of a work.                                                    *)

\* The first step of a forked fiber.
Starts(w) ==
    /\ fiber[w] = "forked"
    /\ fiber' = [fiber EXCEPT ![w] = "running"]
    /\ UNCHANGED <<registered, st, caller, exit, killed, done, cancel, status>>

\* The loop of a run reports "busy" at every step, and "idle" on an error.
SetStatus(w) ==
    /\ fiber[w] = "running"
    /\ \E s \in {"busy", "idle"} : status' = s
    /\ UNCHANGED <<registered, st, caller, fiber, exit, killed, done, cancel>>

\* An interrupted work ends as interrupted unless it was past caring.
WorkEnds(w) ==
    /\ fiber[w] = "running"
    /\ \E e \in {"done", "interrupted"} :
         /\ e = "interrupted" => w \in killed
         /\ exit' = [exit EXCEPT ![w] = e]
    /\ fiber' = [fiber EXCEPT ![w] = "finishing"]
    /\ UNCHANGED <<registered, st, caller, killed, done, cancel, status>>

\* Mutation: whatever the runner holds is taken to be this work.
Occupied(w) == st[RunnerOf(w)] # Idle

\* The runner holds this work and nothing else.
Current(w) == st[RunnerOf(w)] \in {[shell |-> NoOne, run |-> w], [shell |-> w, run |-> NoOne]}

\* A run is queued behind this shell.
Handover(w) == st[RunnerOf(w)].shell = w /\ st[RunnerOf(w)].run # NoOne

\* finishRun and finishShell of the runner's only work.
FinishCurrent(w) ==
    /\ fiber[w] = "finishing"
    /\ Current(w)
    /\ st' = [st EXCEPT ![RunnerOf(w)] = Idle]
    /\ fiber' = [fiber EXCEPT ![w] = "idling"]
    /\ UNCHANGED <<registered, caller, exit, killed, done, cancel, status>>

StartQueued(w, fibers) == [fibers EXCEPT ![st[RunnerOf(w)].run] = "forked"]

\* finishShell forks the run queued behind it.
FinishShellThenRun(w) ==
    /\ fiber[w] = "finishing"
    /\ Handover(w)
    /\ st' = [st EXCEPT ![RunnerOf(w)].shell = NoOne]
    /\ fiber' = StartQueued(w, [fiber EXCEPT ![w] = "completing"])
    /\ UNCHANGED <<registered, caller, exit, killed, done, cancel, status>>

\* A cancel took the runner's state meanwhile.
FinishStale(w) ==
    /\ fiber[w] = "finishing"
    /\ ~Current(w)
    /\ ~Handover(w)
    /\ fiber' = [fiber EXCEPT ![w] = "completing"]
    /\ UNCHANGED <<registered, st, caller, exit, killed, done, cancel, status>>

\* onIdle: runners.delete of the key, whichever runner is there.
Deregister(w) ==
    /\ fiber[w] = "idling"
    /\ registered' = NoOne
    /\ fiber' = [fiber EXCEPT ![w] = "announcing"]
    /\ UNCHANGED <<st, caller, exit, killed, done, cancel, status>>

\* onIdle: the session's status.
AnnounceIdle(w) ==
    /\ fiber[w] = "announcing"
    /\ status' = "idle"
    /\ fiber' = [fiber EXCEPT ![w] = "completing"]
    /\ UNCHANGED <<registered, st, caller, exit, killed, done, cancel>>

\* complete: a deferred is completed once.
Complete(w) ==
    /\ fiber[w] = "completing"
    /\ done' = [done EXCEPT ![w] = IF @ # "none" THEN @
                                   ELSE IF exit[w] = "interrupted" THEN "cancelled" ELSE "done"]
    /\ fiber' = [fiber EXCEPT ![w] = "exited"]
    /\ UNCHANGED <<registered, st, caller, exit, killed, cancel, status>>

-----------------------------------------------------------------------------
(* cancel.                                                                 *)

\* SessionRunState.cancel: with no busy runner in the map, only the status is set.
LookForRunner(k) ==
    /\ cancel[k].pc = "idle"
    /\ IF SeenBusy
       THEN /\ cancel' = [cancel EXCEPT ![k].pc = "looked", ![k].runner = registered]
            /\ UNCHANGED status
       ELSE /\ status' = "idle"
            /\ UNCHANGED cancel
    /\ UNCHANGED <<registered, st, caller, fiber, exit, killed, done>>

\* Mutation: cancel does not look whether there is anything to cancel.
AlwaysSomething(s) == FALSE

NothingToCancel(s) == s = Idle

StateAfterCancel(s) == Idle

\* Runner.cancel: the state becomes Idle before anything is interrupted.
Take(k) ==
    /\ cancel[k].pc = "looked"
    /\ LET s == st[cancel[k].runner]
       IN /\ st' = [st EXCEPT ![cancel[k].runner] = StateAfterCancel(s)]
          /\ cancel' = [cancel EXCEPT ![k] =
               IF NothingToCancel(s) THEN NotCancelling
               ELSE [pc     |-> IF NoOne \in {s.shell, s.run} THEN "interrupting" ELSE "failing",
                     runner |-> @.runner,
                     run    |-> s.run,
                     target |-> IF s.shell # NoOne THEN s.shell ELSE s.run]]
    /\ UNCHANGED <<registered, caller, fiber, exit, killed, done, status>>

\* Mutation: the queued run's callers are not told.
PendingForgotten(k) == done

PendingFailed(k) == [done EXCEPT ![cancel[k].run] = "cancelled"]

\* Deferred.fail of the run queued behind the shell.
FailPending(k) ==
    /\ cancel[k].pc = "failing"
    /\ done' = PendingFailed(k)
    /\ cancel' = [cancel EXCEPT ![k].pc = "interrupting"]
    /\ UNCHANGED <<registered, st, caller, fiber, exit, killed, status>>

\* Fiber.interrupt.  A fiber that has not started exits at once; the caller of
\* a shell awaits that exit, the callers of a run its deferred.
Interrupt(k) ==
    /\ cancel[k].pc = "interrupting"
    /\ LET w == cancel[k].target
           unborn == fiber[w] = "forked"
       IN /\ killed' = killed \cup {w}
          /\ fiber' = IF unborn THEN [fiber EXCEPT ![w] = "unborn"] ELSE fiber
          /\ done' = IF unborn /\ w # cancel[k].run THEN [done EXCEPT ![w] = "cancelled"] ELSE done
    /\ cancel' = [cancel EXCEPT ![k].pc = "awaiting"]
    /\ UNCHANGED <<registered, st, caller, exit, status>>

\* Mutation: cancel waits until the runner is idle.
RunnerIsIdle(k) == st[cancel[k].runner] = Idle /\ fiber[cancel[k].target] = "exited"

\* The fiber has exited and, of a run, the deferred is completed.
TargetExited(k) ==
    /\ fiber[cancel[k].target] \in {"exited", "unborn"}
    /\ done[cancel[k].target] # "none"

\* Fiber.interrupt has waited for the exit, then Deferred.await.
AwaitExit(k) ==
    /\ cancel[k].pc = "awaiting"
    /\ TargetExited(k)
    /\ cancel' = [cancel EXCEPT ![k].pc = "checking"]
    /\ UNCHANGED <<registered, st, caller, fiber, exit, killed, done, status>>

\* Mutation: nobody declares a cancelled runner idle.
NeverIdle(k) == FALSE

StillIdle(k) == st[cancel[k].runner] = Idle

\* idleIfCurrent: onIdle only if nobody started work meanwhile.
IdleIfCurrent(k) ==
    /\ cancel[k].pc = "checking"
    /\ cancel' = [cancel EXCEPT ![k] = IF StillIdle(k) THEN [@ EXCEPT !.pc = "idling"] ELSE NotCancelling]
    /\ UNCHANGED <<registered, st, caller, fiber, exit, killed, done, status>>

CancelDeregisters(k) ==
    /\ cancel[k].pc = "idling"
    /\ registered' = NoOne
    /\ cancel' = [cancel EXCEPT ![k].pc = "announcing"]
    /\ UNCHANGED <<st, caller, fiber, exit, killed, done, status>>

CancelAnnounces(k) ==
    /\ cancel[k].pc = "announcing"
    /\ status' = "idle"
    /\ cancel' = [cancel EXCEPT ![k] = NotCancelling]
    /\ UNCHANGED <<registered, st, caller, fiber, exit, killed, done>>

-----------------------------------------------------------------------------
\* The fibers that are between two steps with nothing to wait for.
MidTurn ==
    {<<"caller", c>> : c \in {c \in Callers : caller[c].pc \in {"run", "shell"}}}
    \cup {<<"fiber", w>> : w \in {w \in Callers : fiber[w] \in {"finishing", "idling", "announcing", "completing"}}}
    \cup {<<"cancel", k>> : k \in {k \in Cancellers :
              cancel[k].pc # "idle" /\ (cancel[k].pc = "awaiting" => TargetExited(k))}}

Turn(p) == Preemptive \/ MidTurn \subseteq {p}

Calls(c)      == Turn(<<"caller", c>>) /\ \E kind \in {"run", "shell"} : Lookup(c, kind)
CallerStep(c) == Turn(<<"caller", c>>) /\ (EnsureRunning(c) \/ StartShell(c) \/ ShellRefused(c) \/ Answer(c))
Works(w)      == Turn(<<"fiber", w>>) /\ (SetStatus(w) \/ WorkEnds(w))
FiberStep(w)  == Turn(<<"fiber", w>>) /\ (\/ FinishCurrent(w) \/ FinishShellThenRun(w) \/ FinishStale(w)
                                          \/ Starts(w) \/ Deregister(w) \/ AnnounceIdle(w) \/ Complete(w))
Cancels(k)    == Turn(<<"cancel", k>>) /\ LookForRunner(k)
CancelStep(k) == Turn(<<"cancel", k>>) /\ (\/ Take(k) \/ FailPending(k) \/ Interrupt(k) \/ AwaitExit(k)
                                           \/ IdleIfCurrent(k) \/ CancelDeregisters(k) \/ CancelAnnounces(k))

Next ==
    \/ \E c \in Callers : Calls(c) \/ CallerStep(c) \/ Works(c) \/ FiberStep(c)
    \/ \E k \in Cancellers : Cancels(k) \/ CancelStep(k)

Spec == Init /\ [][Next]_vars

\* A fiber that can go on does, a forked one starts; interrupted work ends.
\* Work that nobody interrupts may run forever.
Fairness ==
    /\ \A c \in Callers : WF_vars(CallerStep(c)) /\ WF_vars(FiberStep(c))
    /\ \A w \in Callers : WF_vars(w \in killed /\ Turn(<<"fiber", w>>) /\ WorkEnds(w))
    /\ \A k \in Cancellers : WF_vars(CancelStep(k))

FairSpec == Spec /\ Fairness

-----------------------------------------------------------------------------
(* Safety.                                                                 *)

\* The canceller that took the work and has still to interrupt it.
Taken(w) == \E k \in Cancellers : cancel[k].target = w /\ cancel[k].pc \in {"failing", "interrupting"}

\* The runner holds the work, or a cancel has it or has interrupted it.
Attended(w) == Current(w) \/ Handover(w) \/ Taken(w) \/ w \in killed

\* Work goes on only as the current work of its runner, or until the cancel
\* that took it gets to it: no run is left behind by a cancel, by the end of an
\* older run or by a hand-over, and so no runner runs two.
RunningWorkIsCurrent == \A w \in Callers : fiber[w] \in {"forked", "running"} => Attended(w)

Unfinished == {"forked", "running", "finishing"}

\* A runner that says busy has work that will end and free it: the state never
\* outlives its work, which would refuse every later prompt.
BusyRunnerHasWork ==
    \A r \in Callers :
        /\ st[r].shell # NoOne => fiber[st[r].shell] \in Unfinished
        /\ st[r].run # NoOne /\ st[r].shell = NoOne => fiber[st[r].run] \in Unfinished

\* The run queued behind a shell has not started and is nobody's cancelled run:
\* it starts once, or is failed by the cancel that took it.
QueuedRunIsFresh ==
    \A r \in Callers : st[r].shell # NoOne /\ st[r].run # NoOne =>
        fiber[st[r].run] = "none" /\ done[st[r].run] = "none"

Queued(w)  == \E r \in Callers : st[r].run = w /\ st[r].shell # NoOne
Failing(w) == \E k \in Cancellers : cancel[k].pc = "failing" /\ cancel[k].run = w

\* Something will answer the callers of the work: a live fiber, the end of the
\* shell it is queued behind, or a cancel about to fail it.
Owed(w) == done[w] # "none" \/ fiber[w] \notin {"none", "exited", "unborn"} \/ Queued(w) \/ Failing(w)

\* A cancel interrupted the run's fiber before its first step.
NeverRan(w) == fiber[w] = "unborn"

\* Whoever waits waits for something that will come, or for a run that was
\* cancelled before it started: its deferred is completed by nobody.
WaiterIsOwed ==
    \A c \in Callers : caller[c].pc = "waiting" => Owed(caller[c].work) \/ NeverRan(caller[c].work)

\* When nothing is going on the session says so, whatever order runs and
\* cancels ended in.
QuietSessionIsIdle ==
    /\ \A w \in Callers : fiber[w] \in {"none", "exited", "unborn"}
    /\ \A k \in Cancellers : cancel[k].pc = "idle"
    => status = "idle"

-----------------------------------------------------------------------------
(* Liveness, under FairSpec.                                               *)

\* cancel returns, though new work may have started and run forever since; only
\* the cancel of a run that had not started awaits its deferred for good.
CancelReturns ==
    \A k \in Cancellers :
        cancel[k].pc # "idle" ~>
            \/ cancel[k].pc = "idle"
            \/ cancel[k].pc = "awaiting" /\ cancel[k].target = cancel[k].run /\ NeverRan(cancel[k].run)

\* Everyone who waits for work a cancel has taken is answered, joined and
\* queued callers too, unless the work is a run that had not started.
CancelledCallersReturn ==
    \A c \in Callers :
        caller[c].pc = "waiting" /\ (Taken(caller[c].work) \/ Failing(caller[c].work))
            ~> \/ caller[c].pc = "answered"
               \/ caller[c].pc = "waiting" /\ NeverRan(caller[c].work) /\ done[caller[c].work] = "none"

-----------------------------------------------------------------------------
(* What the code says of itself.                                           *)

\* The prompt route: "bail with 409 Conflict if the session's main runner is
\* busy with another request" (assertNotBusy).  A main run that nobody cancels
\* must then be visible in the map.
RunningWorkIsSeen ==
    (\E w \in Callers : fiber[w] = "running" /\ w \notin killed /\ ~Taken(w)) => SeenBusy
=============================================================================
