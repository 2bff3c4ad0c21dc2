------------------------------ MODULE AgentRun ------------------------------
(***************************************************************************)
(* The execution kernel of the control plane: one agent run from the row   *)
(* that records it to the outcome that closes it.  Three parties touch a   *)
(* run concurrently: the fiber of `start`, the event chain and completion  *)
(* pipeline it leaves behind, and the callers of interrupt and stop.  A    *)
(* crash of the control plane loses everything but the database and the    *)
(* command-line child process; boot then runs `recover`.                   *)
(*                                                                         *)
(* Every database transaction is one step, and the fibers interleave       *)
(* between any two of their steps.                                         *)
(***************************************************************************)
EXTENDS Naturals, Sequences, FiniteSets

CONSTANTS
    Runs,               \* identifiers of agent runs
    CliRuns,            \* the runs resolved to a command-line runtime; the others run on Pi
    Callers,            \* concurrent callers of interrupt and stop
    Executors,          \* those of them that are project executors
    NoRun,              \* the absence of a run
    MaxRuns,            \* bound: runs created
    MaxSessions,        \* bound: session lines one child process prints
    MaxCrashes,         \* bound: crashes of the control plane
    MaxWriteFailures    \* bound: event writes the database rejects

ASSUME AgentRunAssumption ==
    /\ CliRuns \subseteq Runs
    /\ Executors \subseteq Callers
    /\ NoRun \notin Runs
    /\ MaxRuns \in Nat
    /\ MaxSessions \in Nat
    /\ MaxCrashes \in Nat
    /\ MaxWriteFailures \in Nat

VARIABLES
    \* the database and the operating system: they survive a crash
    row,        \* agent_run.state of each run, "none" before the row exists
    evidence,   \* the last runtime.completed or runtime.failed event in agent_run_event
    started,    \* the runs with a runtime.started event in agent_run_event
    usage,      \* agent_run_usage.source, "none" before that row exists
    home,       \* runtime_home: the state, and whether its disposition is "retain"
    child,      \* the runs whose command-line process is alive
    \* the control-plane process: lost in a crash
    phase,      \* "down", "recovering" or "up"
    toRecover,  \* the rows listRecoverable returned that are still to be handled
    releasing,  \* the run whose home recovery has still to release, or NoRun
    start,      \* the program counter of the fiber of start
    live,       \* the runs in AgentExecutionSupervisor.active
    engine,     \* the runtime behind the handle
    aborted,    \* the runs whose runtime was told to stop
    outbox,     \* runtime events handed to persist and not yet written
    attaching,  \* the runs whose chain has still to move the row to "running"
    poisoned,   \* the runs whose chain of writes rejected
    result,     \* the exit code the handle's completion resolved with, or NoExit
    fin,        \* the program counter of the completion pipeline
    interrupted,\* the supervisor's set of interrupted runs
    call,       \* what each caller of interrupt or stop is doing
    \* history and bounds
    requested,  \* the runs somebody asked to stop
    sessions, crashes, failures

durable  == <<row, evidence, started, usage, home>>
process  == <<start, live, engine, aborted, outbox, attaching, poisoned, result, fin, interrupted>>
recovery == <<phase, toRecover, releasing>>
bounds   == <<sessions, crashes, failures>>
vars     == <<durable, child, recovery, process, call, requested, bounds>>

-----------------------------------------------------------------------------
(* Types.                                                                  *)

Terminal    == {"completed", "failed", "stopped"}
Recoverable == {"starting", "running", "interrupting", "awaiting_recovery"}
State       == {"queued"} \cup Recoverable \cup Terminal
NoExit      == 999
ExitCode    == {0, 1, 130}
NoEvidence  == [type |-> "none", interrupted |-> FALSE]
Outcome     == [type : {"completed", "failed"}, interrupted : BOOLEAN]
Event       == [type : {"started", "session", "usage"}, interrupted : {FALSE}] \cup Outcome
NoHome      == [state |-> "none", retain |-> FALSE]
Home        == [state : {"none", "active", "orphaned"}, retain : BOOLEAN]
Idle        == [kind |-> "interrupt", run |-> NoRun, pc |-> "idle"]
Call        == [kind : {"interrupt", "force"}, run : Runs,
                pc : {"accepted", "marked", "reading", "forcing"}]

TypeOK ==
    /\ row \in [Runs -> State \cup {"none"}]
    /\ evidence \in [Runs -> Outcome \cup {NoEvidence}]
    /\ started \subseteq Runs
    /\ usage \in [Runs -> {"none", "unavailable", "runtime"}]
    /\ home \in [Runs -> Home]
    /\ child \subseteq CliRuns
    /\ phase \in {"down", "recovering", "up"}
    /\ toRecover \subseteq Runs
    /\ releasing \in Runs \cup {NoRun}
    /\ start \in [Runs -> {"idle", "created", "homed", "starting", "launched", "died"}]
    /\ live \subseteq Runs
    /\ engine \in [Runs -> {"none", "creating", "running", "exited0", "exited1", "signalled", "settled"}]
    /\ aborted \subseteq Runs
    /\ outbox \in [Runs -> Seq(Event)]
    /\ attaching \subseteq Runs
    /\ poisoned \subseteq Runs
    /\ result \in [Runs -> ExitCode \cup {NoExit}]
    /\ fin \in [Runs -> {"waiting", "deciding", "releasing", "done", "rejected"}]
    /\ interrupted \subseteq Runs
    /\ call \in [Callers -> Call \cup {Idle}]
    /\ requested \subseteq Runs
    /\ sessions \in [Runs -> Nat]
    /\ crashes \in Nat
    /\ failures \in Nat

-----------------------------------------------------------------------------
Init ==
    /\ row = [r \in Runs |-> "none"]
    /\ evidence = [r \in Runs |-> NoEvidence]
    /\ started = {}
    /\ usage = [r \in Runs |-> "none"]
    /\ home = [r \in Runs |-> NoHome]
    /\ child = {}
    /\ phase = "up"
    /\ toRecover = {}
    /\ releasing = NoRun
    /\ start = [r \in Runs |-> "idle"]
    /\ live = {}
    /\ engine = [r \in Runs |-> "none"]
    /\ aborted = {}
    /\ outbox = [r \in Runs |-> <<>>]
    /\ attaching = {}
    /\ poisoned = {}
    /\ result = [r \in Runs |-> NoExit]
    /\ fin = [r \in Runs |-> "waiting"]
    /\ interrupted = {}
    /\ call = [c \in Callers |-> Idle]
    /\ requested = {}
    /\ sessions = [r \in Runs |-> 0]
    /\ crashes = 0
    /\ failures = 0

Alive == phase # "down"

EventOf(type) == [type |-> type, interrupted |-> FALSE]

\* persist: the adapter hands an event to the chain of writes, synchronously.
Emit(r, es) == outbox' = [outbox EXCEPT ![r] = @ \o es]

-----------------------------------------------------------------------------
(* The fiber of start.                                                     *)

\* runs.create: the row is inserted as "queued".
Create(r) ==
    /\ Alive
    /\ row[r] = "none"
    /\ Cardinality({q \in Runs : row[q] # "none"}) < MaxRuns
    /\ row' = [row EXCEPT ![r] = "queued"]
    /\ start' = [start EXCEPT ![r] = "created"]
    /\ UNCHANGED <<evidence, started, usage, home, child, recovery, live, engine, aborted, outbox,
                   attaching, poisoned, result, fin, interrupted, call, requested, bounds>>

\* runs.recordRuntimeHome with state "active".
RecordHome(r) ==
    /\ start[r] = "created"
    /\ home' = [home EXCEPT ![r].state = "active"]
    /\ start' = [start EXCEPT ![r] = "homed"]
    /\ UNCHANGED <<row, evidence, started, usage, child, recovery, live, engine, aborted, outbox,
                   attaching, poisoned, result, fin, interrupted, call, requested, bounds>>

\* runs.transition to "starting", once the capability snapshots are on disk.
MoveToStarting(r) ==
    /\ start[r] = "homed"
    /\ row' = [row EXCEPT ![r] = "starting"]
    /\ start' = [start EXCEPT ![r] = "starting"]
    /\ UNCHANGED <<evidence, started, usage, home, child, recovery, live, engine, aborted, outbox,
                   attaching, poisoned, result, fin, interrupted, call, requested, bounds>>

\* The fiber dies: a snapshot cannot be written, or supervisor.start throws
\* (the binary is missing, the adapter refuses the input).  Nothing undoes
\* what was already recorded.
StartDies(r) ==
    /\ start[r] \in {"homed", "starting"}
    /\ start' = [start EXCEPT ![r] = "died"]
    /\ UNCHANGED <<durable, child, recovery, live, engine, aborted, outbox,
                   attaching, poisoned, result, fin, interrupted, call, requested, bounds>>

\* supervisor.start: the adapter emits "started" and the handle becomes active.
Launch(r) ==
    /\ start[r] = "starting"
    /\ r \notin live
    /\ start' = [start EXCEPT ![r] = "launched"]
    /\ live' = live \cup {r}
    /\ engine' = [engine EXCEPT ![r] = IF r \in CliRuns THEN "running" ELSE "creating"]
    /\ child' = child \cup ({r} \cap CliRuns)
    /\ Emit(r, <<EventOf("started")>>)
    /\ UNCHANGED <<durable, recovery, aborted, attaching, poisoned, result, fin, interrupted,
                   call, requested, bounds>>

-----------------------------------------------------------------------------
(* The runtimes.                                                           *)

\* The child process is over and its streams are still open.  A process killed
\* by a signal has no exit code.
Exited(r) == engine[r] \in {"exited0", "exited1", "signalled"}

\* A command-line process prints a line with a new session id.
SessionLine(r) ==
    /\ r \in CliRuns
    /\ engine[r] = "running" \/ Exited(r)
    /\ sessions[r] < MaxSessions
    /\ sessions' = [sessions EXCEPT ![r] = @ + 1]
    /\ Emit(r, <<EventOf("session")>>)
    /\ UNCHANGED <<durable, child, recovery, start, live, engine, aborted, attaching, poisoned,
                   result, fin, interrupted, call, requested, crashes, failures>>

\* A runtime reports token usage: at most once here, while the chain is empty.
UsageLine(r) ==
    /\ engine[r] = "running"
    /\ outbox[r] = <<>>
    /\ usage[r] = "none"
    /\ Emit(r, <<EventOf("usage")>>)
    /\ UNCHANGED <<durable, child, recovery, start, live, engine, aborted, attaching, poisoned,
                   result, fin, interrupted, call, requested, bounds>>

\* The child process ends: its streams are not closed yet.
ProcessExit(r) ==
    /\ r \in child
    /\ child' = child \ {r}
    /\ \/ /\ engine[r] = "running"
          /\ \E code \in {"exited0", "exited1", "signalled"} : engine' = [engine EXCEPT ![r] = code]
       \/ /\ engine[r] # "running"      \* an orphan of an earlier control plane
          /\ UNCHANGED engine
    /\ UNCHANGED <<durable, recovery, start, live, aborted, outbox, attaching, poisoned,
                   result, fin, interrupted, call, requested, bounds>>

\* Mutation: an interrupted process reports the code of its signal.
CompleteWithSignalCode(r, code, events) ==
    /\ engine' = [engine EXCEPT ![r] = "settled"]
    /\ result' = [result EXCEPT ![r] = IF r \in aborted THEN 143 ELSE code]
    /\ Emit(r, events \o <<[type |-> IF code = 0 THEN "completed" ELSE "failed",
                            interrupted |-> r \in aborted]>>)

\* complete: the exit code is normalized, the outcome emitted, completion resolved.
Complete(r, code, events) ==
    LET normalized == IF r \in aborted THEN 130 ELSE code
    IN /\ engine' = [engine EXCEPT ![r] = "settled"]
       /\ result' = [result EXCEPT ![r] = normalized]
       /\ Emit(r, events \o <<[type |-> IF normalized = 0 THEN "completed" ELSE "failed",
                               interrupted |-> r \in aborted]>>)

\* The child's streams are closed.
ProcessClose(r) ==
    /\ r \in CliRuns
    /\ Exited(r)
    /\ Complete(r, IF engine[r] = "exited0" THEN 0 ELSE 1, <<>>)
    /\ UNCHANGED <<durable, child, recovery, start, live, aborted, attaching, poisoned,
                   fin, interrupted, call, requested, bounds>>

\* The child never came to life: an extra "failed" event precedes the outcome.
SpawnError(r) ==
    /\ r \in CliRuns
    /\ engine[r] = "running"
    /\ sessions[r] = 0
    /\ child' = child \ {r}
    /\ Complete(r, 1, <<EventOf("failed")>>)
    /\ UNCHANGED <<durable, recovery, start, live, aborted, attaching, poisoned,
                   fin, interrupted, call, requested, bounds>>

\* createEngine resolves; only from now on can Pi be aborted.
EngineReady(r) ==
    /\ engine[r] = "creating"
    /\ engine' = [engine EXCEPT ![r] = "running"]
    /\ UNCHANGED <<durable, child, recovery, start, live, aborted, outbox, attaching, poisoned,
                   result, fin, interrupted, call, requested, bounds>>

\* The Pi engine returns or throws.  Its outcome never says "interrupted".
EngineEnds(r) ==
    /\ r \notin CliRuns
    /\ \E code \in {0, 1} :
         /\ engine[r] \in (IF code = 0 THEN {"running"} ELSE {"creating", "running"})
         /\ result' = [result EXCEPT ![r] = code]
         /\ Emit(r, <<EventOf(IF code = 0 THEN "completed" ELSE "failed")>>)
    /\ engine' = [engine EXCEPT ![r] = "settled"]
    /\ UNCHANGED <<durable, child, recovery, start, live, aborted, attaching, poisoned,
                   fin, interrupted, call, requested, bounds>>

-----------------------------------------------------------------------------
(* The chain of writes: persist.                                           *)

\* recordEvent, and recordUsage when the event carries usage.
PersistEvent(r) ==
    /\ outbox[r] # <<>>
    /\ r \notin poisoned \cup attaching
    /\ LET e == Head(outbox[r])
       IN /\ evidence' = [evidence EXCEPT ![r] = IF e \in Outcome THEN e ELSE @]
          /\ started' = IF e.type = "started" THEN started \cup {r} ELSE started
          /\ usage' = [usage EXCEPT ![r] = IF e.type = "usage" THEN "runtime" ELSE @]
          /\ attaching' = IF e.type \in {"started", "session"} THEN attaching \cup {r} ELSE attaching
    /\ outbox' = [outbox EXCEPT ![r] = Tail(@)]
    /\ UNCHANGED <<row, home, child, recovery, start, live, engine, aborted, poisoned,
                   result, fin, interrupted, call, requested, bounds>>

\* The transition to "running" that follows a "started" or "session" event.
PersistRunning(r) ==
    /\ r \in attaching
    /\ row' = [row EXCEPT ![r] = "running"]
    /\ attaching' = attaching \ {r}
    /\ UNCHANGED <<evidence, started, usage, home, child, recovery, start, live, engine, aborted,
                   outbox, poisoned, result, fin, interrupted, call, requested, bounds>>

\* A write rejects: the rest of the chain never runs.
WriteFails(r) ==
    /\ outbox[r] # <<>> \/ r \in attaching
    /\ r \notin poisoned
    /\ failures < MaxWriteFailures
    /\ failures' = failures + 1
    /\ poisoned' = poisoned \cup {r}
    /\ attaching' = attaching \ {r}
    /\ UNCHANGED <<durable, child, recovery, start, live, engine, aborted, outbox,
                   result, fin, interrupted, call, requested, sessions, crashes>>

-----------------------------------------------------------------------------
(* The completion pipeline.                                                *)

Resolved(r) == result[r] # NoExit

\* handle.completion.finally: the handle is no longer active.
DropActive(r) ==
    /\ Resolved(r)
    /\ r \in live
    /\ live' = live \ {r}
    /\ UNCHANGED <<durable, child, recovery, start, engine, aborted, outbox, attaching, poisoned,
                   result, fin, interrupted, call, requested, bounds>>

\* Mutation: the pipeline does not wait for events still in the chain.
WritesNotAwaited(r) == r \notin poisoned \cup attaching

\* await writes.
WritesDone(r) == r \notin poisoned \cup attaching /\ outbox[r] = <<>>

\* Once every write is through, the run gets a usage row if it has none.
RecordUsage(r) ==
    /\ Resolved(r)
    /\ fin[r] = "waiting"
    /\ WritesDone(r)
    /\ usage' = [usage EXCEPT ![r] = IF @ = "runtime" THEN @ ELSE "unavailable"]
    /\ fin' = [fin EXCEPT ![r] = "deciding"]
    /\ UNCHANGED <<row, evidence, started, home, child, recovery, start, live, engine, aborted,
                   outbox, attaching, poisoned, result, interrupted, call, requested, bounds>>

\* Mutation: the exit code alone decides.
VerdictByExitCode(r) == IF result[r] = 0 THEN "completed" ELSE "failed"

Verdict(r) == IF r \in interrupted THEN "stopped"
              ELSE IF result[r] = 0 THEN "completed" ELSE "failed"

\* interrupted.delete decides the state the row ends in.
Settle(r) ==
    /\ fin[r] = "deciding"
    /\ row' = [row EXCEPT ![r] = Verdict(r)]
    /\ interrupted' = interrupted \ {r}
    /\ fin' = [fin EXCEPT ![r] = "releasing"]
    /\ UNCHANGED <<evidence, started, usage, home, child, recovery, start, live, engine, aborted,
                   outbox, attaching, poisoned, result, call, requested, bounds>>

Retained == [state |-> "orphaned", retain |-> TRUE]

ReleaseHome(r) ==
    /\ fin[r] = "releasing"
    /\ home' = [home EXCEPT ![r] = Retained]
    /\ fin' = [fin EXCEPT ![r] = "done"]
    /\ UNCHANGED <<row, evidence, started, usage, child, recovery, start, live, engine, aborted,
                   outbox, attaching, poisoned, result, interrupted, call, requested, bounds>>

\* Awaiting a rejected chain rejects the completion: the row stays as it is.
Reject(r) ==
    /\ Resolved(r)
    /\ fin[r] = "waiting"
    /\ r \in poisoned
    /\ fin' = [fin EXCEPT ![r] = "rejected"]
    /\ UNCHANGED <<durable, child, recovery, start, live, engine, aborted, outbox, attaching,
                   poisoned, result, interrupted, call, requested, bounds>>

-----------------------------------------------------------------------------
(* Interrupt, stop, and the project executor's stop followed by a forced   *)
(* transition.                                                             *)

\* What handle.interrupt and the adapters' stop do to a runtime: a command-line
\* process is signalled unless its exit code is known, Pi is aborted if its
\* engine exists.
Signal(r) ==
    aborted' = IF engine[r] \in {"running", "signalled"} THEN aborted \cup {r} ELSE aborted

\* stop on Pi looks the engine up and refuses a run whose engine is not there;
\* interrupt accepts every active run.
Accepts(op, r) ==
    /\ r \in live
    /\ op = "interrupt" \/ r \in CliRuns \/ engine[r] = "running"

Ask(c, kind, op, r) ==
    /\ Alive
    /\ call[c].pc = "idle"
    /\ row[r] # "none"
    /\ Accepts(op, r)
    /\ Signal(r)
    /\ call' = [call EXCEPT ![c] = [kind |-> kind, run |-> r, pc |-> "accepted"]]
    /\ requested' = requested \cup {r}
    /\ UNCHANGED <<durable, child, recovery, start, live, engine, outbox, attaching, poisoned,
                   result, fin, interrupted, bounds>>

Interrupt(c, r)   == c \notin Executors /\ Ask(c, "interrupt", "interrupt", r)
Stop(c, r)        == c \notin Executors /\ Ask(c, "interrupt", "stop", r)
ProjectStop(c, r) == c \in Executors /\ Ask(c, "force", "stop", r)

\* AgentRunSupervisor.recover has returned; later boot steps may still run.
Recovered == phase # "down" /\ toRecover = {} /\ releasing = NoRun

\* The project executor goes on when stop returns false.
ProjectStopRefused(c, r) ==
    /\ c \in Executors
    /\ Recovered
    /\ call[c].pc = "idle"
    /\ row[r] # "none"
    /\ ~Accepts("stop", r)
    /\ call' = [call EXCEPT ![c] = [kind |-> "force", run |-> r, pc |-> "reading"]]
    /\ requested' = requested \cup {r}
    /\ UNCHANGED <<durable, child, recovery, process, bounds>>

\* The supervisor's promise resolved: interrupted.add.
Mark(c) ==
    /\ call[c].pc = "accepted"
    /\ interrupted' = interrupted \cup {call[c].run}
    /\ call' = [call EXCEPT ![c].pc = "marked"]
    /\ UNCHANGED <<durable, child, recovery, start, live, engine, aborted, outbox, attaching,
                   poisoned, result, fin, requested, bounds>>

\* runs.transition to "interrupting".
MoveToInterrupting(c) ==
    /\ call[c].pc = "marked"
    /\ row' = [row EXCEPT ![call[c].run] = "interrupting"]
    /\ call' = [call EXCEPT ![c] = IF @.kind = "force" THEN [@ EXCEPT !.pc = "reading"] ELSE Idle]
    /\ UNCHANGED <<evidence, started, usage, home, child, recovery, process, requested, bounds>>

\* agentRuns.get, after stop: a run that is already over is left alone.
ReadRow(c) ==
    /\ call[c].pc = "reading"
    /\ call' = [call EXCEPT ![c] = IF row[@.run] \in Terminal THEN Idle ELSE [@ EXCEPT !.pc = "forcing"]]
    /\ UNCHANGED <<durable, child, recovery, process, requested, bounds>>

\* agentRuns.transition to "stopped", with exit code 130.
ForceStopped(c) ==
    /\ call[c].pc = "forcing"
    /\ row' = [row EXCEPT ![call[c].run] = "stopped"]
    /\ call' = [call EXCEPT ![c] = Idle]
    /\ UNCHANGED <<evidence, started, usage, home, child, recovery, process, requested, bounds>>

-----------------------------------------------------------------------------
(* Crash, boot and recovery.                                               *)

Crash ==
    /\ Alive
    /\ crashes < MaxCrashes
    /\ crashes' = crashes + 1
    /\ phase' = "down"
    /\ toRecover' = {}
    /\ releasing' = NoRun
    /\ start' = [r \in Runs |-> "idle"]
    /\ live' = {}
    /\ engine' = [r \in Runs |-> "none"]
    /\ aborted' = {}
    /\ outbox' = [r \in Runs |-> <<>>]
    /\ attaching' = {}
    /\ poisoned' = {}
    /\ result' = [r \in Runs |-> NoExit]
    /\ fin' = [r \in Runs |-> "waiting"]
    /\ interrupted' = {}
    /\ call' = [c \in Callers |-> Idle]
    /\ UNCHANGED <<durable, child, requested, sessions, failures>>

\* Mutation: a run that had not reached "running" is not listed.
ListRunning == {r \in Runs : row[r] \in Recoverable \ {"starting"}}

ListRecoverable == {r \in Runs : row[r] \in Recoverable}

\* recover lists its rows once.
Boot ==
    /\ phase = "down"
    /\ phase' = "recovering"
    /\ toRecover' = ListRecoverable
    /\ UNCHANGED <<durable, child, releasing, process, call, requested, bounds>>

\* Mutation: the recorded outcome overrides the stop in the row.
RecoveredOutcomeOfRuntime(r) == IF evidence[r].interrupted THEN "stopped" ELSE evidence[r].type

\* What a run with a recorded outcome becomes.
RecoveredOutcome(r) ==
    IF evidence[r].interrupted \/ row[r] = "interrupting" THEN "stopped" ELSE evidence[r].type

\* Mutation: a run without an outcome is taken to have been stopped.
RecoveredAsStopped(r) == IF evidence[r] # NoEvidence THEN RecoveredOutcome(r) ELSE "stopped"

RecoveredState(r) ==
    IF evidence[r] # NoEvidence THEN RecoveredOutcome(r)
    ELSE IF row[r] = "interrupting" THEN "stopped" ELSE "awaiting_recovery"

RecoverRow(r) ==
    /\ r \in toRecover
    /\ releasing = NoRun
    /\ row' = [row EXCEPT ![r] = RecoveredState(r)]
    /\ toRecover' = toRecover \ {r}
    /\ releasing' = r
    /\ UNCHANGED <<evidence, started, usage, home, child, phase, process, call, requested, bounds>>

\* The home is retained for a run that is over; a parked run's home keeps the
\* disposition it had.
RecoverHome ==
    /\ releasing # NoRun
    /\ home' = [home EXCEPT ![releasing] =
                  IF row[releasing] = "awaiting_recovery" THEN [@ EXCEPT !.state = "orphaned"]
                  ELSE Retained]
    /\ releasing' = NoRun
    /\ UNCHANGED <<row, evidence, started, usage, child, phase, toRecover, process, call, requested, bounds>>

\* CompanyProjectRecovery reclaims a run whose dispatch was never bound: it
\* refuses (and boot fails) while the detached process is alive.
Reclaim(r) ==
    /\ phase = "recovering"
    /\ Recovered
    /\ row[r] \in {"queued"} \cup Recoverable
    /\ r \notin live
    /\ start[r] = "idle"
    /\ r \in started => r \notin child
    /\ row' = [row EXCEPT ![r] = "stopped"]
    /\ requested' = requested \cup {r}
    /\ UNCHANGED <<evidence, started, usage, home, child, recovery, process, call, bounds>>

Listen ==
    /\ phase = "recovering"
    /\ Recovered
    /\ phase' = "up"
    /\ UNCHANGED <<durable, child, toRecover, releasing, process, call, requested, bounds>>

-----------------------------------------------------------------------------
StartStep(r)    == Create(r) \/ RecordHome(r) \/ MoveToStarting(r) \/ StartDies(r) \/ Launch(r)
RuntimeStep(r)  == \/ SessionLine(r) \/ UsageLine(r) \/ ProcessExit(r) \/ ProcessClose(r)
                   \/ SpawnError(r) \/ EngineReady(r) \/ EngineEnds(r)
ChainStep(r)    == PersistEvent(r) \/ PersistRunning(r)
PipelineStep(r) == DropActive(r) \/ RecordUsage(r) \/ Settle(r) \/ ReleaseHome(r) \/ Reject(r)
Asks(c, r)      == \/ Interrupt(c, r) \/ Stop(c, r) \/ ProjectStop(c, r) \/ ProjectStopRefused(c, r)
CallStep(c)     == Mark(c) \/ MoveToInterrupting(c) \/ ReadRow(c) \/ ForceStopped(c)
RecoveryStep    == Boot \/ (\E r \in Runs : RecoverRow(r)) \/ RecoverHome \/ Listen

Next ==
    \/ \E r \in Runs : \/ StartStep(r) \/ RuntimeStep(r) \/ ChainStep(r) \/ WriteFails(r)
                       \/ PipelineStep(r) \/ Reclaim(r)
    \/ \E c \in Callers : CallStep(c) \/ \E r \in Runs : Asks(c, r)
    \/ RecoveryStep
    \/ Crash

Spec == Init /\ [][Next]_vars

\* The runtime system runs every step that is ready; an aborted runtime ends
\* (SIGKILL follows SIGTERM, an abort makes the engine return); streams of a
\* dead process close.  Nothing is assumed of callers, crashes and writes.
Fairness ==
    /\ \A r \in Runs :
         /\ WF_vars(ChainStep(r))
         /\ WF_vars(PipelineStep(r))
         /\ WF_vars(ProcessClose(r))
         /\ WF_vars(r \in aborted /\ (ProcessExit(r) \/ EngineEnds(r)))
    /\ \A c \in Callers : WF_vars(CallStep(c))
    /\ WF_vars(RecoveryStep)

FairSpec == Spec /\ Fairness

-----------------------------------------------------------------------------
(* Safety.                                                                 *)

\* Whatever order interrupts, completion, crashes and recovery fall in, a run is
\* "interrupting" or "stopped" only if somebody asked for it (or dispatch
\* recovery reclaimed it): no failure is ever reported as a stop.
StopWasRequested ==
    \A r \in Runs : row[r] \in {"interrupting", "stopped"} => r \in requested

\* A run is "completed" or "failed" only on the word of the last outcome its
\* runtime recorded, so the row and the event log agree after any crash.
OutcomeHasEvidence ==
    \A r \in Runs : row[r] \in {"completed", "failed"} => evidence[r].type = row[r]

\* The fiber of start or the pipeline of this process will still move the run.
Attended(r) == \/ start[r] \in {"created", "homed", "starting"}
               \/ (start[r] = "launched" /\ fin[r] \in {"waiting", "deciding"})

\* Recovery will.
Pending(r) == phase = "down" \/ r \in toRecover

\* The two failures this process has no answer to: start died, a write rejected.
Stranded(r) == start[r] = "died" \/ r \in poisoned

\* No row says "starting" or "running" with nobody left to move it, except
\* after a start that died or a rejected write.
BusyRunIsAttended ==
    \A r \in Runs : row[r] \in {"starting", "running"} => Attended(r) \/ Pending(r) \/ Stranded(r)

\* A run is parked for recovery only if no outcome of it was ever recorded,
\* nothing of this process executes it, and its home has been given up.
ParkedRunIsDetached ==
    \A r \in Runs : row[r] = "awaiting_recovery" =>
        /\ evidence[r] = NoEvidence
        /\ r \notin live
        /\ home[r].state = "orphaned" \/ releasing = r \/ Pending(r)

-----------------------------------------------------------------------------
(* Inductive strengthenings of the safety invariants.                      *)

\* The outcome the exit code stands for.
Expected(r) == IF result[r] = 0 THEN "completed" ELSE "failed"

\* Nothing of this process will write another event of the run.
Quiet(r) == outbox[r] = <<>> /\ engine[r] \in {"none", "settled"} /\ start[r] \in {"idle", "launched"}

\* Nothing of this process knows the run.
Untouched(r) == outbox[r] = <<>> /\ engine[r] = "none" /\ start[r] = "idle" /\ result[r] = NoExit

\* The outcome of a resolved run is the last thing the chain writes.
OutcomeInvFor(r) ==
    /\ row[r] \in {"completed", "failed"} => evidence[r].type = row[r] /\ Quiet(r)
    /\ Resolved(r) => engine[r] = "settled"
    /\ engine[r] # "none" => start[r] = "launched"
    /\ Resolved(r) /\ r \notin poisoned =>
          IF outbox[r] = <<>> THEN evidence[r].type = Expected(r)
          ELSE outbox[r][Len(outbox[r])].type = Expected(r)
    /\ fin[r] = "deciding" => Resolved(r) /\ WritesDone(r)
    /\ row[r] = "none" => start[r] = "idle"
    /\ r \in toRecover => row[r] # "none"
    /\ phase = "down" \/ r \in toRecover => Untouched(r)

OutcomeInv == \A r \in Runs : OutcomeInvFor(r)

\* Everything that can lead to "stopped" goes back to a request.
StopInvFor(r) ==
    \/ r \in requested
    \/ /\ row[r] \notin {"interrupting", "stopped"}
       /\ r \notin interrupted \cup aborted
       /\ ~evidence[r].interrupted
       /\ \A i \in 1 .. Len(outbox[r]) : ~outbox[r][i].interrupted
       /\ \A c \in Callers : call[c].run # r

StopInv == \A r \in Runs : StopInvFor(r)

\* What ties the row to the fibers: nothing of this process knows a run that is
\* still to be recovered or is parked, and once the pipeline has decided, the
\* chain is over.
LifeInvFor(r) ==
    /\ phase = "down" \/ r \in toRecover => r \notin live \cup attaching /\ \A c \in Callers : call[c].run # r
    /\ r \in toRecover => row[r] \in Recoverable
    /\ row[r] = "awaiting_recovery" => Untouched(r) /\ r \notin live \cup attaching
    /\ row[r] \in {"completed", "failed"} => r \notin attaching
    /\ outbox[r] # <<>> \/ r \in attaching => start[r] = "launched"
    /\ fin[r] # "waiting" => Resolved(r)
    /\ fin[r] \in {"deciding", "releasing", "done"} => WritesDone(r)
    /\ fin[r] = "rejected" => r \in poisoned

LifeInv == \A r \in Runs : LifeInvFor(r)

-----------------------------------------------------------------------------
(* Action properties.                                                      *)

\* A completed or failed run changes state only when a stop was requested.
OutcomeYieldsOnlyToStop ==
    [][\A r \in Runs : row[r] \in {"completed", "failed"} /\ row'[r] # row[r]
         => row'[r] \in {"interrupting", "stopped"} /\ r \in requested]_vars

\* A stop that reached the row survives a crash: recovery ends the run as stopped.
RecoveryKeepsStop ==
    [][\A r \in toRecover : row[r] = "interrupting" /\ r \notin toRecover' /\ phase' # "down"
         => row'[r] = "stopped"]_vars

-----------------------------------------------------------------------------
(* Liveness, under FairSpec.                                               *)

\* A stop marked before the pipeline decides ends the run as "stopped", unless
\* the control plane crashes first or a write of the run is rejected.
MarkedRunStops ==
    \A r \in Runs :
        r \in interrupted /\ r \in aborted /\ fin[r] \in {"waiting", "deciding"}
            ~> row[r] = "stopped" \/ phase = "down" \/ r \in poisoned

\* However often the control plane crashes, in recovery too, a run it had
\* started is in the end over or parked.
CrashedRunSettles ==
    \A r \in Runs : phase = "down" /\ row[r] \in Recoverable
        ~> phase = "up" /\ row[r] \in Terminal \cup {"awaiting_recovery"}

=============================================================================
