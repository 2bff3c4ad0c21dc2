------------------------------ MODULE Workflow ------------------------------
(***************************************************************************)
(* The workflow runtime.  A run is a script under a run ID; each launch of *)
(* it (start, resume, or workflow() of another script) has an entry, a     *)
(* work fiber and a guest script of its own.  The script asks for agents   *)
(* and for child runs; results it was given are journaled, so that a later *)
(* launch replays them.  Cancelling reclaims what the launch has asked for *)
(* and interrupts the fiber; nothing stops the guest script itself.        *)
(* The script of a run is the same in every launch; agents with a worktree *)
(* of their own, which are never journaled, are left out.                  *)
(***************************************************************************)
EXTENDS Naturals, FiniteSets

CONSTANTS
    Runs, Keys,     \* run IDs, and the calls a script may make
    Body,           \* Body[r]: the calls in the script of run r
    Asks,           \* Asks[k]: "agent", or the child run it launches
    Callers,        \* callers of cancel
    NoRun,
    MaxLaunches,    \* bound: launches
    MaxEvents       \* bound: resumes, cancels, failed launches and events

Launches == 1 .. MaxLaunches

ASSUME WorkflowAssumption ==
    /\ NoRun \notin Runs
    /\ "agent" \notin Runs
    /\ Body \in [Runs -> SUBSET Keys]
    /\ Asks \in [Keys -> {"agent"} \cup Runs]
    \* A child's run ID is a hash of its parent's and of the call.
    /\ \A j, k \in Keys : Asks[j] = Asks[k] /\ Asks[k] # "agent" => j = k
    /\ {MaxLaunches, MaxEvents} \subseteq Nat
    /\ Callers \cap Launches = {}

\* Who reclaims: a caller of cancel, or the work fiber of a failed launch.
Stoppers == Callers \cup Launches

VARIABLES
    current,    \* runs: the entry of each run, 0 if there is none
    row,        \* the status of its row
    journal,    \* the calls whose results are in its file
    reading,    \* runs whose resume has yet to launch
    holder,     \* the launch for which a resume holds the lock, 0 if none
    \* the entry of each launch
    of,         \* its run
    parent,     \* the launch whose script asked for it, 0 if none
    awaited,    \* the launch that script awaits
    lingering,  \* the calls whose actor works on after its outcome
    status, outcome, cancelling,
    fiber, script, replay, call,
    stops,      \* how far each stopper is with each launch
    events

table == <<current, row, journal>>
locks == <<reading, holder>>
made  == <<of, parent>>
ended == <<status, outcome>>
vars  == <<table, locks, made, awaited, lingering, ended, cancelling, fiber, script, replay, call, stops, events>>

-----------------------------------------------------------------------------
Status == {"running", "completed", "failed", "cancelled"}

\* evaluating: in evalScript.  reclaiming: after it failed.
Fiber == {"none", "launching", "broken", "evaluating", "reclaiming", "done", "dead"}

Script == {"none", "guest", "returned", "threw"}

\* An actor is registered, then working.  An agent run is detached until its ID
\* is known, then started, and forgotten when its ID was cleared.  null, given
\* and replayed: what the script got.
Call == {"idle", "asked", "registered", "working", "detached", "started", "forgotten", "stopped",
         "launching", "awaits", "null", "given", "replayed"}

Stop == {"idle", "agents", "clearing", "children", "settling"}

Event == events < MaxEvents /\ events' = events + 1

TypeOK ==
    /\ current \in [Runs -> Launches \cup {0}]
    /\ row \in [Runs -> Status \cup {"none"}]
    /\ journal \in [Runs -> SUBSET Keys]
    /\ reading \subseteq Runs
    /\ holder \in [Runs -> Nat]
    /\ of \in [Launches -> Runs \cup {NoRun}]
    /\ parent \in [Launches -> Nat]
    /\ awaited \in [Launches -> Nat]
    /\ lingering \in [Launches -> SUBSET Keys]
    /\ status \in [Launches -> Status]
    /\ outcome \in [Launches -> Status]
    /\ cancelling \in [Launches -> BOOLEAN]
    /\ fiber \in [Launches -> Fiber]
    /\ script \in [Launches -> Script]
    /\ replay \in [Launches -> SUBSET Keys]
    /\ call \in [Launches -> [Keys -> Call]]
    /\ stops \in [Stoppers -> [Launches -> Stop]]
    /\ events \in Nat

Init ==
    /\ current = [r \in Runs |-> 0]
    /\ row = [r \in Runs |-> "none"]
    /\ journal = [r \in Runs |-> {}]
    /\ reading = {}
    /\ holder = [r \in Runs |-> 0]
    /\ of = [l \in Launches |-> NoRun]
    /\ parent = [l \in Launches |-> 0]
    /\ awaited = [l \in Launches |-> 0]
    /\ lingering = [l \in Launches |-> {}]
    /\ status = [l \in Launches |-> "running"]
    /\ outcome = [l \in Launches |-> "running"]
    /\ cancelling = [l \in Launches |-> FALSE]
    /\ fiber = [l \in Launches |-> "none"]
    /\ script = [l \in Launches |-> "none"]
    /\ replay = [l \in Launches |-> {}]
    /\ call = [l \in Launches |-> [k \in Keys |-> "idle"]]
    /\ stops = [s \in Stoppers |-> [l \in Launches |-> "idle"]]
    /\ events = 0

-----------------------------------------------------------------------------
(* Launching.                                                              *)

\* Entries are numbered in the order in which they are made.
New(l) == of[l] = NoRun /\ \A m \in 1 .. l - 1 : of[m] # NoRun

\* launch, until it first waits: the entry and the row.
Launch(l, r, p) ==
    /\ New(l)
    /\ of' = [of EXCEPT ![l] = r]
    /\ parent' = [parent EXCEPT ![l] = p]
    /\ current' = [current EXCEPT ![r] = l]
    /\ row' = [row EXCEPT ![r] = "running"]
    /\ fiber' = [fiber EXCEPT ![l] = "launching"]

Roots == {r \in Runs : \A k \in Keys : Asks[k] # r}

Live(r) == current[r] # 0 /\ status[current[r]] = "running"

\* Its lock is held while nothing else can happen but what Launch does.
Start(l, r) ==
    /\ r \in Roots
    /\ current[r] = 0
    /\ row[r] = "none"
    /\ Launch(l, r, 0)
    /\ UNCHANGED <<journal, locks, awaited, lingering, ended, cancelling, script, replay, call, stops, events>>

Locked(r) == r \in reading \/ holder[r] # 0

\* Mutation: only an entry that has a fiber counts as live.
ResumeUnforked(r) ==
    /\ Event
    /\ ~ Locked(r)
    /\ Live(r) => fiber[current[r]] = "launching"
    /\ row[r] # "none"
    /\ reading' = reading \cup {r}
    /\ UNCHANGED <<table, holder, made, awaited, lingering, ended, cancelling, fiber, script, replay, call, stops>>

Resume(r) ==
    /\ Event
    /\ ~ Locked(r)
    /\ ~ Live(r)
    /\ row[r] # "none"
    /\ reading' = reading \cup {r}
    /\ UNCHANGED <<table, holder, made, awaited, lingering, ended, cancelling, fiber, script, replay, call, stops>>

\* The script was read.
ResumeLaunches(l, r) ==
    /\ r \in reading
    /\ reading' = reading \ {r}
    /\ holder' = [holder EXCEPT ![r] = l]
    /\ Launch(l, r, 0)
    /\ UNCHANGED <<journal, awaited, lingering, ended, cancelling, script, replay, call, stops, events>>

\* The script is missing or empty.
ResumeGivesUp(r) ==
    /\ r \in reading
    /\ reading' = reading \ {r}
    /\ UNCHANGED <<table, holder, made, awaited, lingering, ended, cancelling, fiber, script, replay, call, stops, events>>

Released(l) == [r \in Runs |-> IF holder[r] = l THEN 0 ELSE holder[r]]

\* The call that launched l goes on to a stage.
CallOf(l, stage) ==
    [m \in Launches |-> [k \in Keys |->
        IF m = parent[l] /\ Asks[k] = of[l] /\ call[m][k] = "launching" THEN stage ELSE call[m][k]]]

\* The journal is loaded and the work forked; a child run's caller looks up
\* the entry to await.
Forks(l) ==
    /\ fiber[l] = "launching"
    /\ fiber' = [fiber EXCEPT ![l] = "evaluating"]
    /\ script' = [script EXCEPT ![l] = "guest"]
    /\ replay' = [replay EXCEPT ![l] = journal[of[l]]]
    /\ awaited' = [awaited EXCEPT ![l] = current[of[l]]]
    /\ call' = CallOf(l, "awaits")
    /\ holder' = Released(l)
    /\ UNCHANGED <<table, reading, made, lingering, ended, cancelling, stops, events>>

\* The journal, the workspace or the configuration cannot be read.
LaunchFails(l) ==
    /\ Event
    /\ fiber[l] = "launching"
    /\ fiber' = [fiber EXCEPT ![l] = "broken"]
    /\ call' = CallOf(l, "null")
    /\ holder' = Released(l)
    /\ UNCHANGED <<table, reading, made, awaited, lingering, ended, cancelling, script, replay, stops>>

-----------------------------------------------------------------------------
(* The calls of a script.                                                  *)

Moves(l, k, from, to) ==
    /\ fiber[l] # "dead"
    /\ call[l][k] = from
    /\ call' = [call EXCEPT ![l][k] = to]

Elsewhere == UNCHANGED <<table, locks, made, awaited, lingering, ended, cancelling, fiber, script, replay, stops, events>>

Ask(l, k) ==
    /\ script[l] = "guest"
    /\ k \in Body[of[l]]
    /\ Moves(l, k, "idle", IF k \in replay[l] THEN "replayed" ELSE "asked")
    /\ Elsewhere

\* Above the cap, refused or rejected: without an actor, a run or a child.
Reject(l, k) == Moves(l, k, "asked", "null") /\ Elsewhere

Register(l, k) == Asks[k] = "agent" /\ Moves(l, k, "asked", "registered") /\ Elsewhere

\* Mutation: onReady does not look.
ForkRegardless(l, k) == Moves(l, k, "registered", "working") /\ Elsewhere

\* Its work is forked; onReady cancels it if the run is being cancelled.
ForkActor(l, k) ==
    Moves(l, k, "registered", IF cancelling[l] THEN "stopped" ELSE "working") /\ Elsewhere

\* agentRunSupervisor.start has made the agent run; then its ID is kept.
StartAgentRun(l, k) == Asks[k] = "agent" /\ Moves(l, k, "asked", "detached") /\ Elsewhere
KeepAgentRun(l, k) == Moves(l, k, "detached", "started") /\ Elsewhere

\* Mutation: the journal is left for the end of the run.
GiveOnly(l, k, from) ==
    /\ Moves(l, k, from, "given")
    /\ UNCHANGED <<table, locks, made, awaited, ended, cancelling, fiber, script, replay, stops, events>>

\* The journal is written, then the script gets the value if it is still there.
Give(l, k, from) ==
    /\ Moves(l, k, from, "given")
    /\ journal' = [journal EXCEPT ![of[l]] = @ \cup {k}]
    /\ UNCHANGED <<current, row, locks, made, awaited, ended, cancelling, fiber, script, replay, stops, events>>

GiveNull(l, k, from) ==
    /\ Moves(l, k, from, "null")
    /\ UNCHANGED <<table, locks, made, awaited, ended, cancelling, fiber, script, replay, stops, events>>

\* An outcome, which may be there before the actor or the run is stopped.  The
\* actor is no longer a child of the launch, but one that was not stopped may work
\* on: its postStop turns follow the outcome.
AgentEnds(l, k) ==
    \/ /\ \E from \in {"working", "started", "forgotten", "stopped"} : Give(l, k, from) \/ GiveNull(l, k, from)
       /\ UNCHANGED lingering
    \/ /\ Give(l, k, "working") \/ GiveNull(l, k, "working")
       /\ lingering' = [lingering EXCEPT ![l] = @ \cup {k}]

\* The postStop turns are over.
ActorEnds(l, k) ==
    /\ k \in lingering[l]
    /\ lingering' = [lingering EXCEPT ![l] = @ \ {k}]
    /\ UNCHANGED <<table, locks, made, awaited, ended, cancelling, fiber, script, replay, call, stops, events>>

\* workflow(): no lock is taken and a live entry of the child is not refused.
LaunchChild(l, k, c) ==
    /\ Asks[k] \in Runs
    /\ Moves(l, k, "asked", "launching")
    /\ Launch(c, Asks[k], l)
    /\ UNCHANGED <<journal, locks, awaited, lingering, ended, cancelling, script, replay, stops, events>>

ChildEnds(l, k) ==
    \E c \in Launches :
        /\ parent[c] = l
        /\ of[c] = Asks[k]
        /\ awaited[c] # 0
        /\ outcome[awaited[c]] # "running"
        /\ \/ outcome[awaited[c]] = "completed" /\ Give(l, k, "awaits")
           \/ GiveNull(l, k, "awaits")
        /\ UNCHANGED lingering

-----------------------------------------------------------------------------
(* Reclaiming.                                                             *)

\* reclaim, until it first waits, for the launches L: every actor that is
\* registered is cancelled; one that is not forked yet goes on to onReady.
Reclaims(L) ==
    /\ cancelling' = [l \in Launches |-> l \in L \/ cancelling[l]]
    /\ call' = [l \in Launches |-> [k \in Keys |->
                    IF l \in L /\ call[l][k] = "working" THEN "stopped" ELSE call[l][k]]]

Cancel(s, r) ==
    /\ Event
    /\ s \in Callers
    /\ \A l \in Launches : stops[s][l] = "idle"
    /\ Live(r)
    /\ Reclaims({current[r]})
    /\ stops' = [stops EXCEPT ![s][current[r]] = "agents"]
    /\ UNCHANGED <<table, locks, made, awaited, lingering, ended, fiber, script, replay>>

At(s, l, stage) == stops[s][l] = stage

\* The actors are cancelled and the worktrees removed: the agent runs follow.
Interrupts(s, l) ==
    /\ At(s, l, "agents")
    /\ call' = [call EXCEPT ![l] = [k \in Keys |-> IF @[k] = "started" THEN "stopped" ELSE @[k]]]
    /\ stops' = [stops EXCEPT ![s][l] = "clearing"]
    /\ UNCHANGED <<table, locks, made, awaited, lingering, ended, cancelling, fiber, script, replay, events>>

\* childRunIDs.
ChildRuns(l) == {of[c] : c \in {d \in Launches : parent[d] = l}}

ToCancel(l) == {current[r] : r \in {q \in ChildRuns(l) : Live(q)}}

\* childAgentRunIDs is cleared, and cancelEntry begins for the child runs.
Descends(s, l) ==
    /\ At(s, l, "clearing")
    /\ cancelling' = [m \in Launches |-> m \in ToCancel(l) \/ cancelling[m]]
    /\ call' = [m \in Launches |-> [k \in Keys |->
                    IF m = l /\ call[m][k] = "started" THEN "forgotten"
                    ELSE IF m \in ToCancel(l) /\ call[m][k] = "working" THEN "stopped"
                    ELSE call[m][k]]]
    /\ stops' = [stops EXCEPT ![s] = [m \in Launches |->
                    IF m = l THEN "children" ELSE IF m \in ToCancel(l) THEN "agents" ELSE @[m]]]
    /\ UNCHANGED <<table, locks, made, awaited, lingering, ended, fiber, script, replay, events>>

Reclaimed(s, l) ==
    /\ At(s, l, "children")
    /\ \A c \in Launches : of[c] \in ChildRuns(l) => At(s, c, "idle")

Forked(l) == fiber[l] \in {"evaluating", "reclaiming"}

Answered(l, answer) == [outcome EXCEPT ![l] = IF @ = "running" THEN answer ELSE @]

Terminal(l, answer) ==
    /\ status' = [status EXCEPT ![l] = answer]
    /\ outcome' = Answered(l, answer)

\* Mutation: recordTerminal is left out.
RecordsNothing(s, l) ==
    /\ s # l
    /\ Reclaimed(s, l)
    /\ Forked(l)
    /\ fiber' = [fiber EXCEPT ![l] = "done"]
    /\ stops' = [stops EXCEPT ![s][l] = "settling", ![l] = [m \in Launches |-> "idle"]]
    /\ UNCHANGED <<table, locks, made, awaited, lingering, ended, cancelling, script, replay, call, events>>

\* The row is written and the fiber interrupted, with the reclaiming it does.
\* The interruption is waited for.
Records(s, l) ==
    /\ s # l
    /\ Reclaimed(s, l)
    /\ Forked(l)
    /\ row' = [row EXCEPT ![of[l]] = "cancelled"]
    /\ fiber' = [fiber EXCEPT ![l] = "done"]
    /\ stops' = [stops EXCEPT ![s][l] = "settling", ![l] = [m \in Launches |-> "idle"]]
    /\ UNCHANGED <<current, journal, locks, made, awaited, lingering, ended, cancelling, script, replay, call, events>>


Settles(s, l) ==
    /\ At(s, l, "settling")
    /\ Terminal(l, "cancelled")
    /\ stops' = [stops EXCEPT ![s][l] = "idle"]
    /\ UNCHANGED <<table, locks, made, awaited, lingering, cancelling, fiber, script, replay, call, events>>

\* There is no fiber to interrupt: the launch has not forked it, or it is over.
RecordsAndSettles(s, l) ==
    /\ s # l
    /\ Reclaimed(s, l)
    /\ ~ Forked(l)
    /\ row' = [row EXCEPT ![of[l]] = "cancelled"]
    /\ Terminal(l, "cancelled")
    /\ stops' = [stops EXCEPT ![s][l] = "idle"]
    /\ UNCHANGED <<current, journal, locks, made, awaited, lingering, cancelling, fiber, script, replay, call, events>>

-----------------------------------------------------------------------------
(* The end of a script, and what its fiber makes of it.                    *)

\* It returns, or throws, or its deadline passes; its calls are not awaited.
ScriptEnds(l) ==
    /\ script[l] = "guest"
    /\ \E end \in {"returned", "threw"} : script' = [script EXCEPT ![l] = end]
    /\ UNCHANGED <<table, locks, made, awaited, lingering, ended, cancelling, fiber, replay, call, stops, events>>

Finishes(l, answer) ==
    /\ Terminal(l, answer)
    /\ row' = [row EXCEPT ![of[l]] = answer]
    /\ fiber' = [fiber EXCEPT ![l] = "done"]

Completes(l) ==
    /\ fiber[l] = "evaluating"
    /\ script[l] = "returned"
    /\ Finishes(l, "completed")
    /\ UNCHANGED <<current, journal, locks, made, awaited, lingering, cancelling, script, replay, call, stops, events>>

Throws(l) ==
    /\ fiber[l] = "evaluating"
    /\ script[l] = "threw"
    /\ fiber' = [fiber EXCEPT ![l] = "reclaiming"]
    /\ Reclaims({l})
    /\ stops' = [stops EXCEPT ![l][l] = "agents"]
    /\ UNCHANGED <<table, locks, made, awaited, lingering, ended, script, replay, events>>

Fails(l) ==
    /\ fiber[l] = "reclaiming"
    /\ Reclaimed(l, l)
    /\ Finishes(l, "failed")
    /\ stops' = [stops EXCEPT ![l][l] = "idle"]
    /\ UNCHANGED <<current, journal, locks, made, awaited, lingering, cancelling, script, replay, call, events>>

\* The process dies; rows and journals remain, and what the scripts had been
\* given.  All else is as it was, or is forgotten.
Crash ==
    /\ Event
    /\ current' = [r \in Runs |-> 0]
    /\ reading' = {}
    /\ holder' = [r \in Runs |-> 0]
    /\ parent' = [l \in Launches |-> 0]
    /\ awaited' = [l \in Launches |-> 0]
    /\ lingering' = [l \in Launches |-> {}]
    /\ status' = [l \in Launches |-> "running"]
    /\ outcome' = [l \in Launches |-> "running"]
    /\ cancelling' = [l \in Launches |-> FALSE]
    /\ fiber' = [l \in Launches |-> IF of[l] = NoRun THEN "none" ELSE "dead"]
    /\ script' = [l \in Launches |-> "none"]
    /\ replay' = [l \in Launches |-> {}]
    /\ call' = [l \in Launches |-> [k \in Keys |-> IF call[l][k] = "given" THEN "given" ELSE "idle"]]
    /\ stops' = [s \in Stoppers |-> [l \in Launches |-> "idle"]]
    /\ UNCHANGED <<row, journal, of>>

-----------------------------------------------------------------------------
Request ==
    \/ \E r \in Runs, l \in Launches : Start(l, r) \/ ResumeLaunches(l, r)
    \/ \E r \in Runs : Resume(r) \/ ResumeGivesUp(r)
    \/ \E s \in Callers, r \in Runs : Cancel(s, r)

Calling(l, k) ==
    \/ Ask(l, k) \/ Reject(l, k)
    \/ Register(l, k) \/ ForkActor(l, k)
    \/ StartAgentRun(l, k) \/ KeepAgentRun(l, k)
    \/ AgentEnds(l, k) \/ ActorEnds(l, k)
    \/ (\E c \in Launches : LaunchChild(l, k, c)) \/ ChildEnds(l, k)

Working(l) == ScriptEnds(l) \/ Completes(l) \/ Throws(l) \/ Fails(l)

Stopping(s, l) ==
    \/ Interrupts(s, l) \/ Descends(s, l)
    \/ Records(s, l) \/ Settles(s, l) \/ RecordsAndSettles(s, l)

Next ==
    \/ Request
    \/ \E l \in Launches : Forks(l) \/ LaunchFails(l) \/ Working(l)
    \/ \E l \in Launches, k \in Keys : Calling(l, k)
    \/ \E s \in Stoppers, l \in Launches : Stopping(s, l)
    \/ Crash

\* A script has a deadline, and reclaiming waits for nothing that may hang.
Fairness ==
    /\ \A l \in Launches : WF_vars(Working(l))
    /\ \A s \in Stoppers, l \in Launches : WF_vars(Stopping(s, l))

Spec == Init /\ [][Next]_vars /\ Fairness

-----------------------------------------------------------------------------
\* A root run that is at work is the one its run ID leads to, so that cancel
\* can stop it and its outcome is read.  It rests on the guards of start and
\* resume and on the lock that a resume holds until it has launched.
LiveRunIsReachable ==
    \A l \in Launches :
        of[l] \in Roots /\ Forked(l) /\ status[l] = "running" => current[of[l]] = l

\* The row of a run whose entry has ended does not read running: the fiber
\* that would have written it may be the one that was interrupted.
TerminalIsRecorded ==
    \A r \in Runs : current[r] # 0 /\ ~ Live(r) => row[r] # "running"

\* The actors at work for a launch.
AtWork(l) == lingering[l] \cup {k \in Keys : call[l][k] = "working"}

\* Nobody is put to work for a run that is being reclaimed, however late it was
\* spawned: it was cancelled with the others, or by its own onReady.  Whoever still
\* works had its outcome before and is in its postStop turns: reclaim no longer
\* knows of it (runtime.ts:382-389, 858-864, 893).
LateActorsAreStopped == [][\A l \in Launches : cancelling'[l] => AtWork(l)' \subseteq lingering[l]]_vars

\* What a script was given before the process died is replayed to every later
\* launch of the run, never asked for again.
NothingIsRedone ==
    \A l, m \in Launches, k \in Keys :
        /\ fiber[l] = "dead" /\ call[l][k] = "given"
        /\ of[m] = of[l] /\ fiber[m] # "dead"
        => call[m][k] \in {"idle", "replayed"}


\* Cancelling a run tears down the whole tree (reclaim): once its fiber was
\* interrupted and it is cancelled, every child run that its script launched and
\* that is at work is being cancelled.
TreeIsTornDown ==
    \A l, c \in Launches :
        /\ status[l] = "cancelled" /\ fiber[l] = "done"
        /\ parent[c] = l /\ fiber[c] = "evaluating"
        => \E s \in Stoppers : ~ At(s, c, "idle")
=============================================================================
