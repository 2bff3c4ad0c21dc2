------------------------------- MODULE Actor -------------------------------
(***************************************************************************)
(* Spawned actors: the registry row, the thread bound to the actor, the    *)
(* work fiber with its turns, hooks and completion gate, the outcome and   *)
(* the notification its parent gets, cancellation with its cascade over    *)
(* the children, and the recovery of orphaned rows at the next boot        *)
(* (actor/spawn.ts, actor/turn.ts, actor/registry.ts, tool/actor.ts).      *)
(*                                                                         *)
(* Abstracted: what a turn says.  A turn of the model succeeds, fails or   *)
(* is interrupted; a hook or the gate asks for one more turn or does not.  *)
(* A turn awaits a run of the actor's loop, which a message may also start *)
(* and which outlives the turn: it has a fiber of its own in the runner    *)
(* (session/run-state.ts).  How a run reads and answers is PromptLoop.     *)
(* Whether the failure handlers of an interrupted fiber still run is left  *)
(* to the effect library, so both outcomes are allowed.                    *)
(***************************************************************************)
EXTENDS Naturals, Sequences, FiniteSets

CONSTANTS
  Actors,          \* actor ids
  Main,            \* the session's main agent: it has no row here
  Parent,          \* the agent in whose turn an actor is spawned
  Background,      \* actors the tool spawns in the background; the others block their parent
  Frozen,          \* actors with a frozen fork context
  GateEligible,    \* actors subject to the completion gate
  Callers,         \* concurrent callers of Actor.cancel
  MaxPreReact,     \* MAX_PRE_REACT
  MaxPostReact,    \* MAX_POST_REACT
  MaxGateReact,    \* MAX_TASK_GATE_SUBAGENT_REACT
  Hooked,          \* actors for which a hook may ask for another turn
  Messaged,        \* bound: actors that are sent messages
  MaxCrashes       \* bound: restarts of the process

ASSUME ActorAssumption ==
  /\ Main \notin Actors
  /\ Parent \in [Actors -> Actors \union {Main}]
  /\ Background \subseteq Actors
  /\ Frozen \subseteq Actors
  /\ GateEligible \subseteq Actors
  /\ Hooked \subseteq Actors
  /\ Messaged \subseteq Actors
  /\ {MaxPreReact, MaxPostReact, MaxGateReact, MaxCrashes} \subseteq Nat

\* A parent is there before it spawns, so nobody descends from himself.
ASSUME ParentAssumption ==
  \A S \in SUBSET Actors : S # {} => \E a \in S : Parent[a] \notin S

VARIABLES
  row,             \* the registry row: status and last outcome
  thread,          \* the thread bound to the actor
  named,           \* actors whose spawn named the parent, as workflows and delegations do
                   \* and the actor tool does not
  spawn,           \* where the call of Actor.spawn is
  at,              \* where the work fiber is
  turn,            \* the turn in progress, or how the last one ended
  run,             \* the run of the actor's loop, by a turn or by a message
  iter,            \* re-entries of the current loop
  interrupted,     \* the fiber has been interrupted
  outcome,         \* the outcome Deferred
  notes,           \* notifications of its end, to the parent it names or to main
  tracked,         \* actors with an entry in workFibers
  pendingCancels,  \* pendingCancels
  cancel,          \* where each caller's cancellation of each actor is
  listed,          \* the children a cancellation found
  crashes

vars == <<row, thread, named, spawn, at, turn, run, iter, interrupted, outcome, notes,
          tracked, pendingCancels, cancel, listed, crashes>>

Calling == {"threaded", "registered", "joining", "awaiting"}
Turns == {"preTurn", "gateTurn", "postTurn"}
Failing == {"failNotify", "failResolve", "failClose"}
Places == Turns \union Failing \union
          {"preHook", "gateCheck", "notify", "resolve", "postCheck", "close"}
Ends == {"success", "failure", "cancelled"}

Row == [status : {"absent", "pending", "running", "idle"}, outcome : Ends \union {"none"}]

TypeOK ==
  /\ row \in [Actors -> Row]
  /\ thread \in [Actors -> {"none", "active", "completed"}]
  /\ named \subseteq Actors
  /\ spawn \in [Actors -> Calling \union {"idle", "returned", "failed", "abandoned", "lost"}]
  /\ at \in [Actors -> Places \union {"none", "exited", "died", "lost"}]
  /\ turn \in [Actors -> Ends \union {"none", "work", "stuck"}]
  /\ run \in [Actors -> {"none", "going", "stopped"}]
  /\ iter \in [Actors -> Nat]
  /\ interrupted \in [Actors -> BOOLEAN]
  /\ outcome \in [Actors -> Ends \union {"none"}]
  /\ notes \in [Actors -> Seq({"completed", "failed", "cancelled"})]
  /\ tracked \subseteq Actors
  /\ pendingCancels \subseteq Actors
  /\ cancel \in [Callers -> [Actors -> {"idle", "asked", "listing", "children", "stopping", "interrupting",
                                        "waiting", "marking", "done", "hung", "missed", "refused"}]]
  /\ listed \in [Callers -> [Actors -> SUBSET Actors]]
  /\ crashes \in 0 .. MaxCrashes

Alive(a) == at[a] \in Places

\* Children that are registered under a (actorReg.listByParent): those whose
\* spawn named it.
ListByParent(a) == {c \in named : Parent[c] = a /\ row[c].status # "absent"}

\* A spawn that names the parent is in the background.
InBackground(a) == a \in Background \union named

Init ==
  /\ row = [a \in Actors |-> [status |-> "absent", outcome |-> "none"]]
  /\ thread = [a \in Actors |-> "none"]
  /\ named = {}
  /\ spawn = [a \in Actors |-> "idle"]
  /\ at = [a \in Actors |-> "none"]
  /\ turn = [a \in Actors |-> "none"]
  /\ run = [a \in Actors |-> "none"]
  /\ iter = [a \in Actors |-> 0]
  /\ interrupted = [a \in Actors |-> FALSE]
  /\ outcome = [a \in Actors |-> "none"]
  /\ notes = [a \in Actors |-> <<>>]
  /\ tracked = {}
  /\ pendingCancels = {}
  /\ cancel = [u \in Callers |-> [a \in Actors |-> "idle"]]
  /\ listed = [u \in Callers |-> [a \in Actors |-> {}]]
  /\ crashes = 0

SetRow(a, status, end) == row' = [row EXCEPT ![a] = [status |-> status, outcome |-> end]]
CompleteThread(a) ==
  thread' = IF thread[a] = "active" THEN [thread EXCEPT ![a] = "completed"] ELSE thread
Go(a, place) == at' = [at EXCEPT ![a] = place]

cancelVars == <<pendingCancels, cancel, listed>>
fiberVars == <<turn, run, iter, interrupted, outcome, notes>>

-----------------------------------------------------------------------------
\* Actor.spawn

\* A tool call of the parent's loop creates the actor's thread; or a delegation or
\* a workflow does, which names the parent and may outlive its runs.
SpawnThread(a) ==
  /\ spawn[a] = "idle"
  /\ \/ /\ Parent[a] # Main => run[Parent[a]] = "going"
        /\ UNCHANGED named
     \/ /\ Parent[a] # Main
        /\ row[Parent[a]].status # "absent"
        /\ named' = named \union {a}
  /\ spawn' = [spawn EXCEPT ![a] = "threaded"]
  /\ thread' = [thread EXCEPT ![a] = "active"]
  /\ UNCHANGED <<row, at, fiberVars, tracked, cancelVars, crashes>>

\* actorReg.register
SpawnRegister(a) ==
  /\ spawn[a] = "threaded"
  /\ spawn' = [spawn EXCEPT ![a] = "registered"]
  /\ SetRow(a, "pending", "none")
  /\ UNCHANGED <<named, thread, at, fiberVars, tracked, cancelVars, crashes>>

\* Mutation: the pending cancellations are not looked at.
ForkUnchecked(a) ==
  /\ spawn[a] = "registered"
  /\ spawn' = [spawn EXCEPT ![a] = IF InBackground(a) THEN "returned" ELSE "joining"]
  /\ tracked' = tracked \union {a}
  /\ Go(a, "preTurn")
  /\ UNCHANGED <<named, row, thread, turn, run, iter, interrupted, outcome, notes, cancelVars, crashes>>

\* The end of forkWork: the fiber is forked and tracked; if a cancellation came
\* first the fiber is interrupted before its first step, and runs nothing.
SpawnFork(a) ==
  /\ spawn[a] = "registered"
  /\ spawn' = [spawn EXCEPT ![a] = IF InBackground(a) THEN "returned" ELSE "joining"]
  /\ tracked' = tracked \union {a}
  /\ pendingCancels' = pendingCancels \ {a}
  /\ interrupted' = [interrupted EXCEPT ![a] = a \in pendingCancels]
  /\ Go(a, IF a \in pendingCancels THEN "died" ELSE "preTurn")
  /\ UNCHANGED <<named, row, thread, turn, run, iter, outcome, notes, cancel, listed, crashes>>

\* A foreground spawn joins the fiber; then the tool awaits the outcome.
SpawnJoined(a) ==
  /\ spawn[a] = "joining"
  /\ at[a] = "exited"
  /\ spawn' = [spawn EXCEPT ![a] = "awaiting"]
  /\ UNCHANGED <<named, row, thread, at, fiberVars, tracked, cancelVars, crashes>>

\* Effect.ignore swallows neither the interruption nor the defect of the fiber it
\* joins: the call fails at once, and never comes to the tool's timeout.
SpawnFails(a) ==
  /\ spawn[a] = "joining"
  /\ at[a] = "died"
  /\ spawn' = [spawn EXCEPT ![a] = "failed"]
  /\ UNCHANGED <<named, row, thread, at, fiberVars, tracked, cancelVars, crashes>>

RunReturns(a) ==
  /\ spawn[a] = "awaiting"
  /\ outcome[a] # "none"
  /\ spawn' = [spawn EXCEPT ![a] = "returned"]
  /\ UNCHANGED <<named, row, thread, at, fiberVars, tracked, cancelVars, crashes>>

\* The end of the parent's run may take the tool call down with it.
SpawnAbandoned(a) ==
  /\ spawn[a] \in Calling
  /\ Parent[a] # Main => run[Parent[a]] = "stopped"
  /\ spawn' = [spawn EXCEPT ![a] = "abandoned"]
  /\ UNCHANGED <<named, row, thread, at, fiberVars, tracked, cancelVars, crashes>>

-----------------------------------------------------------------------------
\* The work fiber: runTurn

\* A turn awaits a new run of the loop, or joins the one a message started.
TurnStart(a) ==
  /\ at[a] \in Turns
  /\ turn[a] \notin {"work", "stuck"}
  /\ ~interrupted[a]
  /\ turn' = [turn EXCEPT ![a] = "work"]
  /\ run' = [run EXCEPT ![a] = "going"]
  /\ SetRow(a, "running", row[a].outcome)
  /\ UNCHANGED <<named, thread, spawn, at, iter, interrupted, outcome, notes, tracked, cancelVars, crashes>>

\* The tool calls of the run are over: the model's step awaits them.
ToolsDone(a) == \A c \in Actors \ named : Parent[c] = a => spawn[c] \notin Calling

\* Where the fiber goes after a turn that ended with end.
AfterTurn(a, end) ==
  CASE at[a] = "preTurn" /\ end = "success" ->
         {IF iter[a] + 1 > MaxPreReact THEN "gateCheck" ELSE "preHook"}
    [] at[a] = "preTurn" /\ end # "success" ->
         IF end = "cancelled" THEN {"failNotify", "died"} ELSE {"failNotify"}
    [] at[a] = "gateTurn" /\ end = "success" -> {"gateCheck"}
    [] at[a] = "gateTurn" /\ end = "failure" -> {"gateCheck", "died"}
    [] at[a] = "gateTurn" /\ end = "cancelled" -> {"died"}
    [] at[a] = "postTurn" /\ end = "success" -> {"postCheck", "close"}
    [] at[a] = "postTurn" /\ end = "failure" -> {"close"}
    [] at[a] = "postTurn" /\ end = "cancelled" -> {"close", "died"}

\* What is left of a run that was stopped: the tool calls to be taken down.
Remains(a) == IF ToolsDone(a) THEN "none" ELSE "stopped"

\* The run after the turn that awaited it: a turn that was interrupted leaves a
\* run that nobody stopped, if there was one yet, at work.
Leaves(a, end) ==
  IF run[a] = "stopped" THEN {Remains(a)}
  ELSE IF end = "cancelled" /\ run[a] = "going" THEN {"going", "none"}
  ELSE {"none"}

\* The turn's work ends and the uninterruptible remainder writes the row.  A run
\* that was stopped answers with what there is; a stuck turn can only be
\* interrupted.
TurnEnd(a, end) ==
  /\ turn[a] \in {"work", "stuck"}
  /\ IF end = "cancelled" THEN interrupted[a]
     ELSE turn[a] = "work" /\ (run[a] = "stopped" \/ ToolsDone(a))
  /\ turn' = [turn EXCEPT ![a] = end]
  /\ \E left \in Leaves(a, end) : run' = [run EXCEPT ![a] = left]
  /\ SetRow(a, "idle", end)
  /\ \E place \in AfterTurn(a, end) : Go(a, place)
  /\ iter' = [iter EXCEPT ![a] =
                IF at[a] = "preTurn" /\ end = "success"
                THEN IF iter[a] + 1 > MaxPreReact THEN 0 ELSE iter[a] + 1
                ELSE iter[a]]
  /\ UNCHANGED <<named, thread, spawn, interrupted, outcome, notes, tracked, cancelVars, crashes>>

-----------------------------------------------------------------------------
\* The work fiber: between turns

\* The preStop hook asks for another turn, or the work is over.
PreHook(a) ==
  /\ at[a] = "preHook"
  /\ ~interrupted[a]
  /\ \/ a \in Hooked /\ Go(a, "preTurn") /\ UNCHANGED iter
     \/ Go(a, "gateCheck") /\ iter' = [iter EXCEPT ![a] = 0]
  /\ UNCHANGED <<named, row, thread, spawn, turn, run, interrupted, outcome, notes, tracked, cancelVars, crashes>>

\* Mutation: the turns the gate asks for are not counted.
GateUncounted(a) ==
  /\ at[a] = "gateCheck"
  /\ ~interrupted[a]
  /\ (a \in GateEligible /\ Go(a, "gateTurn")) \/ Go(a, "notify")
  /\ UNCHANGED <<named, row, thread, spawn, turn, run, iter, interrupted, outcome, notes, tracked, cancelVars, crashes>>

\* The completion gate finds unfinished tasks of the actor and re-enters, or does not.
GateCheck(a) ==
  /\ at[a] = "gateCheck"
  /\ ~interrupted[a]
  /\ \/ /\ a \in GateEligible
        /\ iter[a] < MaxGateReact
        /\ iter' = [iter EXCEPT ![a] = iter[a] + 1]
        /\ Go(a, "gateTurn")
     \/ /\ iter' = [iter EXCEPT ![a] = 0]
        /\ Go(a, "notify")
  /\ UNCHANGED <<named, row, thread, spawn, turn, run, interrupted, outcome, notes, tracked, cancelVars, crashes>>

\* Mutation: the parent is told the outcome of the turn.
TellTurn(a, status) == notes' = [notes EXCEPT ![a] = Append(notes[a], turn[a])]

\* Only background actors notify.
Tell(a, status) == notes' = IF InBackground(a) THEN [notes EXCEPT ![a] = Append(notes[a], status)] ELSE notes

Notify(a) ==
  /\ at[a] = "notify"
  /\ ~interrupted[a]
  /\ Tell(a, "completed")
  /\ Go(a, "resolve")
  /\ UNCHANGED <<named, row, thread, spawn, turn, run, iter, interrupted, outcome, tracked, cancelVars, crashes>>

Resolve(a) ==
  /\ at[a] = "resolve"
  /\ ~interrupted[a]
  /\ outcome' = [outcome EXCEPT ![a] = "success"]
  /\ Go(a, "postCheck")
  /\ UNCHANGED <<named, row, thread, spawn, turn, run, iter, interrupted, notes, tracked, cancelVars, crashes>>

\* Mutation: the turns the postStop hook asks for are not counted.
PostUncounted(a) ==
  /\ at[a] = "postCheck"
  /\ ~interrupted[a]
  /\ (a \in Hooked /\ Go(a, "postTurn")) \/ Go(a, "close")
  /\ UNCHANGED <<named, row, thread, spawn, turn, run, iter, interrupted, outcome, notes, tracked, cancelVars, crashes>>

\* The postStop hook asks for another turn, up to the cap.
PostCheck(a) ==
  /\ at[a] = "postCheck"
  /\ ~interrupted[a]
  /\ \/ /\ a \in Hooked
        /\ iter[a] < MaxPostReact
        /\ iter' = [iter EXCEPT ![a] = iter[a] + 1]
        /\ Go(a, "postTurn")
     \/ Go(a, "close") /\ UNCHANGED iter
  /\ UNCHANGED <<named, row, thread, spawn, turn, run, interrupted, outcome, notes, tracked, cancelVars, crashes>>

Close(a) ==
  /\ at[a] \in {"close", "failClose"}
  /\ CompleteThread(a)
  /\ Go(a, "exited") \/ (interrupted[a] /\ Go(a, "died"))
  /\ UNCHANGED <<named, row, spawn, fiberVars, tracked, cancelVars, crashes>>

\* onFailure of the work: notify, resolve, complete the thread.
FailNotify(a) ==
  /\ at[a] = "failNotify"
  /\ Tell(a, IF turn[a] = "cancelled" THEN "cancelled" ELSE "failed")
  /\ Go(a, "failResolve")
  /\ UNCHANGED <<named, row, thread, spawn, turn, run, iter, interrupted, outcome, tracked, cancelVars, crashes>>

FailResolve(a) ==
  /\ at[a] = "failResolve"
  /\ outcome' = [outcome EXCEPT ![a] = turn[a]]
  /\ Go(a, "failClose")
  /\ UNCHANGED <<named, row, thread, spawn, turn, run, iter, interrupted, notes, tracked, cancelVars, crashes>>

\* Mutation: one failure handler around the work and what follows it.
EveryInterruptFails(place) == {"failNotify", "died"}

\* Where an interrupted fiber that is not in a turn may go.
AfterInterrupt(place) ==
  CASE place \in {"preTurn", "preHook"} -> {"failNotify", "died"}
    [] place = "postTurn" -> {"close", "died"}
    [] OTHER -> {"died"}

Interrupted(a) ==
  /\ Alive(a)
  /\ interrupted[a]
  /\ turn[a] \notin {"work", "stuck"}
  /\ turn' = [turn EXCEPT ![a] = IF at[a] \in {"preTurn", "preHook"} THEN "cancelled" ELSE turn[a]]
  /\ \E place \in AfterInterrupt(at[a]) : Go(a, place)
  /\ UNCHANGED <<named, row, thread, spawn, run, iter, interrupted, outcome, notes, tracked, cancelVars, crashes>>

\* The fiber that awaits the work fiber forgets it, and what it kept is gone.
Untrack(a) ==
  /\ a \in tracked
  /\ at[a] \in {"exited", "died"}
  /\ tracked' = tracked \ {a}
  /\ turn' = [turn EXCEPT ![a] = "none"]
  /\ iter' = [iter EXCEPT ![a] = 0]
  /\ interrupted' = [interrupted EXCEPT ![a] = FALSE]
  /\ UNCHANGED <<row, thread, named, spawn, at, run, outcome, notes, cancelVars, crashes>>

-----------------------------------------------------------------------------
\* Runs of the loop that no turn awaits

\* A message for a registered actor runs its loop, also when the actor is idle,
\* or cancelled (Inbox.send).
Wake(a) ==
  /\ a \in Messaged
  /\ row[a].status # "absent"
  /\ turn[a] # "work"
  /\ run[a] # "going"
  /\ run' = [run EXCEPT ![a] = "going"]
  /\ UNCHANGED <<named, row, thread, spawn, at, turn, iter, interrupted, outcome, notes,
                 tracked, cancelVars, crashes>>

\* The fork context is deleted when the work ends, and when it was cancelled.
ContextGone(a) ==
  \/ at[a] \in {"exited", "lost"}
  \/ spawn[a] = "lost"
  \/ \E u \in Callers : cancel[u][a] = "done"

\* The run touches neither row nor thread, except that one without the context it
\* is to work in fails the actor.
RunEnds(a) ==
  /\ turn[a] # "work"
  /\ run[a] = "going"
  /\ ToolsDone(a)
  /\ run' = [run EXCEPT ![a] = "none"]
  /\ \/ UNCHANGED row
     \/ a \in Frozen /\ ContextGone(a) /\ SetRow(a, "idle", "failure")
  /\ UNCHANGED <<named, thread, spawn, at, turn, iter, interrupted, outcome, notes,
                 tracked, cancelVars, crashes>>

-----------------------------------------------------------------------------
\* Actor.cancel

SetCancel(u, a, place) == cancel' = [cancel EXCEPT ![u][a] = place]

Cancel(u, a) ==
  /\ \A b \in Actors : cancel[u][b] = "idle"
  /\ SetCancel(u, a, "asked")
  /\ UNCHANGED <<named, row, thread, spawn, at, fiberVars, tracked, pendingCancels, listed, crashes>>

\* The row is read and its thread completed; an unknown actor is not cancelled.
CancelRead(u, a) ==
  /\ cancel[u][a] = "asked"
  /\ IF row[a].status = "absent"
     THEN SetCancel(u, a, "missed") /\ UNCHANGED thread
     ELSE SetCancel(u, a, "listing") /\ CompleteThread(a)
  /\ UNCHANGED <<named, row, spawn, at, fiberVars, tracked, pendingCancels, listed, crashes>>

\* The children registered by now are cancelled first.
CancelList(u, a) ==
  /\ cancel[u][a] = "listing"
  /\ listed' = [listed EXCEPT ![u][a] = ListByParent(a)]
  /\ cancel' = [cancel EXCEPT ![u] = [b \in Actors |->
                  IF b = a THEN "children"
                  ELSE IF b \in ListByParent(a) THEN "asked" ELSE cancel[u][b]]]
  /\ UNCHANGED <<named, row, thread, spawn, at, fiberVars, tracked, pendingCancels, crashes>>

\* Mutation: the children are read again.
AllChildrenStopped(u, a) == \A b \in ListByParent(a) : cancel[u][b] \in {"done", "missed"}
ChildrenStopped(u, a) == \A b \in listed[u][a] : cancel[u][b] \in {"done", "missed"}

\* The children are done: the cancellation is announced.
CancelAnnounce(u, a) ==
  /\ cancel[u][a] = "children"
  /\ ChildrenStopped(u, a)
  /\ pendingCancels' = pendingCancels \union {a}
  /\ SetCancel(u, a, "stopping")
  /\ UNCHANGED <<named, row, thread, spawn, at, fiberVars, tracked, listed, crashes>>

\* The runner has nothing to stop: no run, or a turn that has not asked for one.
NothingToStop(u, a) ==
  /\ run[a] = "going" => turn[a] = "work" /\ ToolsDone(a)
  /\ SetCancel(u, a, "interrupting")
  /\ UNCHANGED <<turn, run>>

RunStopped(u, a) ==
  /\ run[a] = "going"
  /\ run' = [run EXCEPT ![a] = IF turn[a] = "work" THEN "stopped" ELSE Remains(a)]
  /\ SetCancel(u, a, "interrupting")
  /\ UNCHANGED turn

\* A run that was forked and has not started never answers: neither the turn that
\* awaits it nor this cancellation.
RunUnborn(u, a) ==
  /\ run[a] = "going"
  /\ ToolsDone(a)
  /\ run' = [run EXCEPT ![a] = "none"]
  /\ turn' = [turn EXCEPT ![a] = IF turn[a] = "work" THEN "stuck" ELSE turn[a]]
  /\ SetCancel(u, a, "hung")

\* state.cancelActor.
CancelStop(u, a) ==
  /\ cancel[u][a] = "stopping"
  /\ NothingToStop(u, a) \/ RunStopped(u, a) \/ RunUnborn(u, a)
  /\ UNCHANGED <<named, row, thread, spawn, at, iter, interrupted, outcome, notes, tracked,
                 pendingCancels, listed, crashes>>

\* A tracked fiber is interrupted; without one the announcement stays.
CancelInterrupt(u, a) ==
  /\ cancel[u][a] = "interrupting"
  /\ interrupted' = [interrupted EXCEPT ![a] = interrupted[a] \/ a \in tracked]
  /\ SetCancel(u, a, IF a \in tracked THEN "waiting" ELSE "marking")
  /\ UNCHANGED <<named, row, thread, spawn, at, turn, run, iter, outcome, notes, tracked,
                 pendingCancels, listed, crashes>>

CancelAwaited(u, a) ==
  /\ cancel[u][a] = "waiting"
  /\ at[a] \in {"exited", "died"}
  /\ pendingCancels' = pendingCancels \ {a}
  /\ SetCancel(u, a, "marking")
  /\ UNCHANGED <<named, row, thread, spawn, at, fiberVars, tracked, listed, crashes>>

\* Mutation: the row is left to the fiber.
LeaveRow(u, a) ==
  /\ cancel[u][a] = "marking"
  /\ SetCancel(u, a, "done")
  /\ UNCHANGED <<named, row, thread, spawn, at, fiberVars, tracked, pendingCancels, listed, crashes>>

CancelMark(u, a) ==
  /\ cancel[u][a] = "marking"
  /\ SetRow(a, "idle", "cancelled")
  /\ SetCancel(u, a, "done")
  /\ UNCHANGED <<named, thread, spawn, at, fiberVars, tracked, pendingCancels, listed, crashes>>

\* The actor tool takes an idle row for a terminal one and cancels nothing; any
\* other row goes to Actor.cancel.
ToolCancelRefused(u, a) ==
  /\ \A b \in Actors : cancel[u][b] = "idle"
  /\ row[a].status = "idle"
  /\ SetCancel(u, a, "refused")
  /\ UNCHANGED <<named, row, thread, spawn, at, fiberVars, tracked, pendingCancels, listed, crashes>>

-----------------------------------------------------------------------------
\* Mutation: only running rows are recovered.
Running(a) == row[a].status = "running"
Orphaned(a) == row[a].status \in {"pending", "running"}

\* The process dies; the registry's next start recovers the orphaned rows and
\* completes the threads of all rows.
Restart ==
  /\ crashes < MaxCrashes
  /\ crashes' = crashes + 1
  /\ row' = [a \in Actors |->
               IF Orphaned(a) THEN [status |-> "idle", outcome |-> "failure"] ELSE row[a]]
  /\ thread' = [a \in Actors |->
                  IF row[a].status # "absent" /\ thread[a] = "active" THEN "completed" ELSE thread[a]]
  /\ spawn' = [a \in Actors |-> IF spawn[a] \in Calling THEN "lost" ELSE spawn[a]]
  /\ at' = [a \in Actors |-> IF Alive(a) \/ at[a] = "died" THEN "lost" ELSE at[a]]
  /\ turn' = [a \in Actors |-> "none"]
  /\ run' = [a \in Actors |-> "none"]
  /\ iter' = [a \in Actors |-> 0]
  /\ interrupted' = [a \in Actors |-> FALSE]
  /\ tracked' = {}
  /\ pendingCancels' = {}
  /\ cancel' = [u \in Callers |-> [a \in Actors |-> "idle"]]
  /\ listed' = [u \in Callers |-> [a \in Actors |-> {}]]
  /\ UNCHANGED <<named, outcome, notes>>

SpawnStep(a) ==
  \/ SpawnRegister(a) \/ SpawnFork(a) \/ SpawnJoined(a) \/ SpawnFails(a) \/ RunReturns(a)

FiberStep(a) ==
  \/ TurnStart(a)
  \/ \E end \in Ends : TurnEnd(a, end)
  \/ PreHook(a) \/ GateCheck(a) \/ Notify(a) \/ Resolve(a) \/ PostCheck(a) \/ Close(a)
  \/ FailNotify(a) \/ FailResolve(a) \/ Interrupted(a)

CancelStep(u, a) ==
  \/ CancelRead(u, a) \/ CancelList(u, a) \/ CancelAnnounce(u, a)
  \/ CancelStop(u, a) \/ CancelInterrupt(u, a) \/ CancelAwaited(u, a) \/ CancelMark(u, a)

Next ==
  \/ \E a \in Actors :
       \/ SpawnThread(a) \/ SpawnStep(a) \/ SpawnAbandoned(a)
       \/ FiberStep(a) \/ Untrack(a)
       \/ Wake(a) \/ RunEnds(a)
       \/ \E u \in Callers : Cancel(u, a) \/ CancelStep(u, a) \/ ToolCancelRefused(u, a)
  \/ Restart

Spec == Init /\ [][Next]_vars

\* The scheduler runs every fiber that can go on, and runs of the loop end.
FairSpec ==
  /\ Spec
  /\ \A a \in Actors :
       WF_vars(SpawnStep(a)) /\ WF_vars(FiberStep(a)) /\ WF_vars(RunEnds(a))
  /\ \A u \in Callers, a \in Actors : WF_vars(CancelStep(u, a))

-----------------------------------------------------------------------------
\* Properties

\* A row that says running has a turn in progress, and a row that says pending
\* has somebody who will move it on: its spawn, its fiber, or a cancellation.
\* A spawn taken down with its parent's run leaves a pending row behind, and so
\* does a cancellation that hangs on a run a message started.
UnfinishedIsAttended ==
  \A a \in Actors :
    /\ row[a].status = "running" => turn[a] \in {"work", "stuck"}
    /\ row[a].status = "pending" =>
         \/ spawn[a] \in {"registered", "abandoned"}
         \/ at[a] = "preTurn" /\ turn[a] = "none"
         \/ \E u \in Callers : cancel[u][a] \in {"stopping", "interrupting", "waiting", "marking", "hung"}

\* Once a cancellation of an actor has returned, its work is over: not even a spawn
\* that forks the fiber afterwards takes it up.  The row says cancelled, unless a
\* later message found the fork context gone, and the thread is completed.  A later
\* message still runs the loop (inbox.ts:106-110).
CancelHolds ==
  \A u \in Callers, a \in Actors :
    cancel[u][a] = "done" =>
      /\ ~Alive(a)
      /\ row[a].status = "idle"
      /\ row[a].outcome \in {"cancelled"} \union (IF a \in Frozen THEN {"failure"} ELSE {})
      /\ thread[a] # "active"

\* What the parent is told of an actor: at most one notification, sent before the
\* outcome is resolved and saying the same.
NotesAgree ==
  \A a \in Actors :
    /\ Len(notes[a]) <= 1
    /\ (outcome[a] # "none" /\ InBackground(a)) =>
         notes[a] = << CASE outcome[a] = "success" -> "completed"
                         [] outcome[a] = "failure" -> "failed"
                         [] outcome[a] = "cancelled" -> "cancelled" >>

\* A turn awaits a run that was interrupted before it started.
SomeTurnIsStuck == \E b \in Actors : turn[b] = "stuck"

\* The work of an actor comes to an end however its hooks and gate answer, unless
\* its turn, or that of an actor it waits for, is stuck.
WorkEnds == \A a \in Actors : Alive(a) ~> (~Alive(a) \/ SomeTurnIsStuck)

\* A cancellation returns, with all its children's, unless it or a child's met a
\* run that had not started.
CancelsReturn == \A u \in Callers, a \in Actors :
  cancel[u][a] = "asked" ~>
    \/ cancel[u][a] \in {"done", "missed", "idle"}
    \/ \E b \in Actors : cancel[u][b] = "hung"

\* The call that spawns an actor returns to the agent that made it, or fails, and
\* a blocking call needs no timeout for that; unless some turn is stuck.
CallsReturn == \A a \in Actors : spawn[a] \in Calling ~> (spawn[a] \notin Calling \/ SomeTurnIsStuck)
=============================================================================
