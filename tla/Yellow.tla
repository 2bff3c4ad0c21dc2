-------------------------------- MODULE Yellow --------------------------------
(***************************************************************************)
(* Yellow delegations of the Founder OS.  A run may change the direction   *)
(* of a project on the authority of a decision in the ledger.  Its rows    *)
(* and its checkpoint are written first; drain then claims the dispatch    *)
(* of the decision, applies the direction through the project's action     *)
(* executor, and closes the dispatch and the decision.  A run that fails   *)
(* ends the mode and has its checkpoint restored by the same executor.     *)
(* One company and one project.  A step ends where the program waits, for  *)
(* a lock or another service, or after a commit that a crash may follow;   *)
(* between two waits nothing else runs.                                    *)
(***************************************************************************)
EXTENDS Naturals

CONSTANTS
    Runs,           \* the delegations, each with a decision of its own
    MaxLeases,      \* bound: leases of one dispatch
    MaxEvents       \* bound: submits repeated, rollbacks asked for, changes of the
                    \* project or the mode, decisions overridden, crashes

ASSUME YellowAssumption == {MaxLeases, MaxEvents} \subseteq Nat

VARIABLES
    row,        \* founder_yellow_run: status
    outbox,     \* founder_yellow_dispatch_outbox: status, "none" if no row
    decision,   \* current status of the run's decision
    dispatch,   \* its dispatch in the ledger
    checkpoint, \* the direction and version kept by submit
    receipt,    \* what the graph supervisor made of the run's work receipt
    action,     \* the apply_founder_direction record
    undo,       \* rollback events and restore_direction_checkpoint records
    delegating, \* mode is yellow, the circuit closed and no fence up
    goal,       \* whose direction the project follows
    version,    \* of its brief and plan, which change together
    revision,   \* graph_revision
    \* memory
    at,         \* each activity on each run: its next step, reason and lease
    boot,       \* "up", or how far recovery is
    events      \* uses of the bound

ledger  == <<decision, dispatch>>
project == <<goal, version, revision>>
vars == <<row, outbox, ledger, checkpoint, receipt, action, undo, delegating,
          project, at, boot, events>>

-----------------------------------------------------------------------------
\* submit and its repetition by the caller drain; check is reconcile, human is
\* a rollback asked for.  recover drains as submit.
Drains     == {"submit", "retry"}
Activities == Drains \cup {"check", "human"}
Reasons    == {"entry", "again", "cost", "check", "human"}
Goals      == Runs \cup {"first", "adjusted"}

\* Where an activity rests or waits, and where it goes straight on.
Waits  == {"idle", "done", "thrown", "look", "process", "request", "claim", "ask", "restore", "reclaim", "judge"}
GoesOn == {"apply", "record", "complete", "execute", "fail", "open", "reapply", "result", "ledger", "conclude",
           "close"}

\* What becomes of a project action, and of a rollback before it is one.
Requested == {"none", "requested", "claimed", "applied", "rejected"}
Rollback == [st : Requested \cup {"asked"}, rev : Nat, ver : Nat, result : {"none", "completed", "failed"}]

TypeOK ==
    /\ row \in [Runs -> {"none", "blocked", "authorized", "failed", "outcome_pending", "completed", "rolled_back"}]
    /\ outbox \in [Runs -> {"none", "pending", "processed", "failed"}]
    /\ decision \in [Runs -> {"proposed", "accepted", "executed", "overridden", "failed", "rolled_back"}]
    /\ dispatch \in [Runs -> [st : {"none", "committed", "claimed", "completed"}, lease : Nat,
                              receipt : {"none", "mutation", "processed", "failed"}]]
    /\ checkpoint \in [Runs -> [goal : Goals, ver : Nat]]
    /\ receipt \in [Runs -> {"pending", "applied", "refused"}]
    /\ action \in [Runs -> [st : Requested, rev : Nat]]
    /\ undo \in [Runs -> [Reasons -> Rollback]]
    /\ delegating \in BOOLEAN
    /\ goal \in Goals
    /\ version \in Nat
    /\ revision \in Nat
    /\ at \in [Runs -> [Activities -> [step : Waits \cup GoesOn, why : Reasons, lease : Nat]]]
    /\ boot \in {"up", "actions", "drains"}
    /\ events \in Nat

Resting(a, step) == [step |-> step, why |-> IF a \in Drains THEN "entry" ELSE a, lease |-> 0]
AllIdle == [a \in Activities |-> Resting(a, "idle")]
NoRollback == [st |-> "none", rev |-> 0, ver |-> 0, result |-> "none"]

Init ==
    /\ row = [r \in Runs |-> "none"]
    /\ outbox = [r \in Runs |-> "none"]
    /\ decision = [r \in Runs |-> "proposed"]
    /\ dispatch = [r \in Runs |-> [st |-> "none", lease |-> 0, receipt |-> "none"]]
    /\ checkpoint = [r \in Runs |-> [goal |-> "first", ver |-> 0]]
    /\ receipt = [r \in Runs |-> "pending"]
    /\ action = [r \in Runs |-> [st |-> "none", rev |-> 0]]
    /\ undo = [r \in Runs |-> [k \in Reasons |-> NoRollback]]
    /\ delegating = TRUE
    /\ goal = "first"
    /\ version = 1
    /\ revision = 1
    /\ at = [r \in Runs |-> AllIdle]
    /\ boot = "up"
    /\ events = 0

Event == events < MaxEvents /\ events' = events + 1

Become(r, a, activity) == at' = [at EXCEPT ![r][a] = activity]
Goto(r, a, step) ==
    Become(r, a, IF step \in {"idle", "done", "thrown"} THEN Resting(a, step)
                 ELSE [at[r][a] EXCEPT !.step = step])
At(r, a, step) == at[r][a].step = step

\* Nobody else is between two waits.  The executor's lock is held between two waits.
Turn(r, a) == \A s \in Runs, b \in Activities : at[s][b].step \in Waits \/ <<s, b>> = <<r, a>>
Quiet == \A s \in Runs, b \in Activities : at[s][b].step \in Waits
Free == boot = "up" /\ Quiet

\* Mutation: versions are not compared.
NeverStale(rev, ver) == TRUE

\* The version checks of applyWithDatabase; the revision is compared by claimAction too.
UpToDate(rev, ver) == rev = revision /\ ver = version

-----------------------------------------------------------------------------
(* The ledger.                                                             *)

\* claimDispatch by the one consumer a run has: a lease that expired is replaced.
Leases(r) ==
    CASE dispatch[r].st = "committed" -> {dispatch[r].lease + 1}
      [] dispatch[r].st = "claimed"   -> {dispatch[r].lease} \cup {l \in {dispatch[r].lease + 1} : l <= MaxLeases}
      [] OTHER                        -> {}

\* resolve: the holder of the lease completes; a completion may be repeated.
MayResolve(r, lease, rec) ==
    \/ dispatch[r].st = "claimed" /\ dispatch[r].lease = lease
    \/ dispatch[r].st = "completed" /\ dispatch[r].receipt = rec
Resolved(r, lease, rec) == [dispatch EXCEPT ![r] = [st |-> "completed", lease |-> lease, receipt |-> rec]]

-----------------------------------------------------------------------------
(* Activities start.                                                       *)

\* The transaction of submit, or saveBlocked.
Submit(r) ==
    /\ Free /\ row[r] = "none"
    /\ \/ /\ delegating
          /\ decision[r] \in {"proposed", "accepted"}
          /\ row' = [row EXCEPT ![r] = "authorized"]
          /\ outbox' = [outbox EXCEPT ![r] = "pending"]
          /\ decision' = [decision EXCEPT ![r] = "accepted"]
          /\ dispatch' = [dispatch EXCEPT ![r].st = "committed"]
          /\ checkpoint' = [checkpoint EXCEPT ![r] = [goal |-> goal, ver |-> version]]
          /\ Goto(r, "submit", "look")
       \/ /\ row' = [row EXCEPT ![r] = "blocked"]
          /\ UNCHANGED <<outbox, ledger, checkpoint, at>>
    /\ UNCHANGED <<receipt, action, undo, delegating, project, boot, events>>

\* submit, repeated with the same key.
Retry(r) ==
    /\ Event
    /\ Free /\ outbox[r] = "pending" /\ At(r, "retry", "idle")
    /\ Goto(r, "retry", "look")
    /\ UNCHANGED <<row, outbox, ledger, checkpoint, receipt, action, undo, delegating, project, boot>>

\* reconcile lists the runs that wait for their outcome.
List(r) ==
    /\ Free /\ row[r] = "outcome_pending" /\ At(r, "check", "idle")
    /\ Goto(r, "check", "judge")
    /\ UNCHANGED <<row, outbox, ledger, checkpoint, receipt, action, undo, delegating, project, boot, events>>

\* It may find no outcome yet, a good one, a bad one, one too dear, or the deadline past.
Judge(r) ==
    /\ At(r, "check", "judge") /\ Turn(r, "check")
    /\ \/ Goto(r, "check", "idle") /\ row' \in {row, [row EXCEPT ![r] = "completed"]}
       \/ Goto(r, "check", "fail") /\ UNCHANGED row
    /\ UNCHANGED <<outbox, ledger, checkpoint, receipt, action, undo, delegating, project, boot, events>>

\* A person asks for the rollback of a run.
Ask(r) ==
    /\ Event
    /\ Free /\ row[r] \notin {"none", "blocked"} /\ undo[r]["human"].st = "none"
    /\ undo' = [undo EXCEPT ![r]["human"].st = "asked"]
    /\ Goto(r, "human", "restore")
    /\ UNCHANGED <<row, outbox, ledger, checkpoint, receipt, action, delegating, project, boot>>

-----------------------------------------------------------------------------
(* drain.                                                                  *)

\* Mutation: the decision is not looked at again.
ModeOnly(r) == delegating

\* The gates before the orchestrator.
MayEnter(r) == delegating /\ decision[r] = "accepted"

\* Mutation: whatever the receipt says counts as processed.
AnyReceipt(r) == FALSE

\* The receipt of the closed dispatch tells how it ended.
EndedBadly(r) == dispatch[r].receipt = "failed"

\* The dispatch is closed already, or claimed.
Begin(r, a) ==
    /\ At(r, a, "look")
    /\ \/ /\ dispatch[r].st = "completed"
          /\ outbox' = IF outbox[r] = "pending"
                       THEN [outbox EXCEPT ![r] = IF EndedBadly(r) THEN "failed" ELSE "processed"]
                       ELSE outbox
          /\ decision' = IF decision[r] = "accepted"
                         THEN [decision EXCEPT ![r] = IF EndedBadly(r) THEN "failed" ELSE "executed"]
                         ELSE decision
          /\ Goto(r, a, "done")
          /\ UNCHANGED dispatch
       \/ \E lease \in Leases(r) :
          /\ UNCHANGED <<outbox, decision>>
          /\ IF outbox[r] = "pending"
             THEN /\ dispatch' = [dispatch EXCEPT ![r].st = "claimed", ![r].lease = lease]
                  /\ Become(r, a, [at[r][a] EXCEPT !.lease = lease,
                                                   !.step = IF MayEnter(r) THEN "process" ELSE "fail"])
             ELSE dispatch' = Resolved(r, lease, outbox[r]) /\ Goto(r, a, "done")
    /\ UNCHANGED <<row, checkpoint, receipt, action, undo, delegating, project, boot, events>>

\* processReceipt: the mutation the supervisor decides on is made once.  It may fail,
\* or be off, whether or not it was made before.
Process(r, a) ==
    /\ At(r, a, "process")
    /\ \/ /\ receipt[r] = "pending"
          /\ \/ /\ receipt' = [receipt EXCEPT ![r] = "applied"]
                /\ revision' = revision + 1
                /\ Goto(r, a, "request")
             \/ /\ receipt' = [receipt EXCEPT ![r] = "refused"]
                /\ UNCHANGED revision
                /\ Goto(r, a, "fail")
       \/ /\ UNCHANGED <<receipt, revision>>
          /\ Goto(r, a, "fail") \/ (receipt[r] = "applied" /\ Goto(r, a, "request"))
    /\ UNCHANGED <<row, outbox, ledger, checkpoint, action, undo, delegating, goal, version, boot, events>>

\* requestAction with the revision of now: the same facts find the record there is,
\* and others are an error.
Request(r, a) ==
    /\ At(r, a, "request")
    /\ action' = IF action[r].st = "none"
                 THEN [action EXCEPT ![r] = [st |-> "requested", rev |-> revision]] ELSE action
    /\ Goto(r, a, IF action[r].st = "none" \/ action[r].rev = revision THEN "claim" ELSE "fail")
    /\ UNCHANGED <<row, outbox, ledger, checkpoint, receipt, undo, delegating, project, boot, events>>

\* runClaimed under the lock, with the record that requestAction found.  If another
\* drain has applied it or had it rejected since, this one fails.
Claim(r, a) ==
    /\ At(r, a, "claim")
    /\ LET ok == action[r].rev = revision IN
       \/ /\ action[r].st = "requested"
          /\ action' = [action EXCEPT ![r].st = IF ok THEN "claimed" ELSE "rejected"]
          /\ Goto(r, a, IF ok THEN "apply" ELSE "fail")
       \/ /\ action[r].st # "requested"
          /\ UNCHANGED action
          /\ Goto(r, a, IF action[r].st = "claimed" THEN "apply" ELSE "fail")
    /\ UNCHANGED <<row, outbox, ledger, checkpoint, receipt, undo, delegating, project, boot, events>>

\* applyWithDatabase for a founder direction; work still running or a plan that is
\* not active has it rejected too.
ApplyDirection(r) ==
    \/ /\ UpToDate(action[r].rev, checkpoint[r].ver)
       /\ action' = [action EXCEPT ![r].st = "applied"]
       /\ goal' = r
       /\ version' = version + 1
       /\ revision' = revision + 1
    \/ action' = [action EXCEPT ![r].st = "rejected"] /\ UNCHANGED project

Apply(r, a) ==
    /\ At(r, a, "apply")
    /\ ApplyDirection(r)
    /\ Goto(r, a, IF action'[r].st = "applied" THEN "record" ELSE "fail")
    /\ UNCHANGED <<row, outbox, ledger, checkpoint, receipt, undo, delegating, boot, events>>

\* The goal is read back, and the run waits for its outcome.
Record(r, a) ==
    /\ At(r, a, "record")
    /\ IF goal = r
       THEN /\ outbox' = [outbox EXCEPT ![r] = "processed"]
            /\ row' = [row EXCEPT ![r] = "outcome_pending"]
            /\ Goto(r, a, "complete")
       ELSE UNCHANGED <<outbox, row>> /\ Goto(r, a, "fail")
    /\ UNCHANGED <<ledger, checkpoint, receipt, action, undo, delegating, project, boot, events>>

\* completeDispatch.
Complete(r, a) ==
    /\ At(r, a, "complete")
    /\ IF MayResolve(r, at[r][a].lease, "mutation")
       THEN dispatch' = Resolved(r, at[r][a].lease, "mutation") /\ Goto(r, a, "execute")
       ELSE UNCHANGED dispatch /\ Goto(r, a, "thrown")
    /\ UNCHANGED <<row, outbox, decision, checkpoint, receipt, action, undo, delegating, project, boot, events>>

\* The decision is executed; repeated, the transition is found and nothing changes, but
\* in the words of Begin it is an error.  A cost above the limit fails the run.
Execute(r, a) ==
    /\ At(r, a, "execute")
    /\ decision' = IF decision[r] = "accepted" THEN [decision EXCEPT ![r] = "executed"] ELSE decision
    /\ \/ decision[r] \in {"accepted", "executed", "rolled_back"} /\ Goto(r, a, "done")
       \/ /\ decision[r] \in {"accepted", "executed", "rolled_back"}
          /\ Become(r, a, [at[r][a] EXCEPT !.step = "fail", !.why = "cost"])
       \/ decision[r] # "accepted" /\ Goto(r, a, "thrown")
    /\ UNCHANGED <<row, outbox, dispatch, checkpoint, receipt, action, undo, delegating, project, boot, events>>

-----------------------------------------------------------------------------
(* failRun and rollback.                                                   *)

\* The words of a failure, which make the key of its rollback.  The repeated drain may
\* fail for the reason of the first or for another, and reconcile finds the cost too
\* high in the words of the drain.
Words(a, why) ==
    {why} \cup (IF why = "entry" /\ a = "retry" THEN {"again"} ELSE {})
          \cup (IF why = "check" THEN {"cost"} ELSE {})

\* Where an activity goes once its rollback is over: completeFailure has more to do.
After(r, a) == IF at[r][a].why \in {"entry", "again"} THEN "conclude" ELSE IF a = "check" THEN "idle" ELSE "done"

Fail(r, a) ==
    /\ At(r, a, "fail")
    /\ outbox' = [outbox EXCEPT ![r] = "failed"]
    /\ row' = [row EXCEPT ![r] = "failed"]
    /\ \E why \in Words(a, at[r][a].why) : Become(r, a, [at[r][a] EXCEPT !.step = "open", !.why = why])
    /\ UNCHANGED <<ledger, checkpoint, receipt, action, undo, delegating, project, boot, events>>

\* openCircuit, and the rollback it prepares.
OpenCircuit(r, a) ==
    /\ At(r, a, "open")
    /\ delegating' = FALSE
    /\ Goto(r, a, "ask")
    /\ UNCHANGED <<row, outbox, ledger, checkpoint, receipt, action, undo, project, boot, events>>

\* The event rollback_requested; its key holds the reason, and found again ends the matter.
AskRollback(r, a) ==
    /\ At(r, a, "ask")
    /\ IF undo[r][at[r][a].why].st = "none"
       THEN undo' = [undo EXCEPT ![r][at[r][a].why].st = "asked"] /\ Goto(r, a, "restore")
       ELSE UNCHANGED undo /\ Goto(r, a, After(r, a))
    /\ UNCHANGED <<row, outbox, ledger, checkpoint, receipt, action, delegating, project, boot, events>>

\* The checkpoint is to be restored over whatever the project has now.
RequestRestore(r, a) ==
    /\ At(r, a, "restore")
    /\ undo' = [undo EXCEPT ![r][at[r][a].why] =
                  [st |-> "requested", rev |-> revision, ver |-> version, result |-> "none"]]
    /\ Goto(r, a, "reclaim")
    /\ UNCHANGED <<row, outbox, ledger, checkpoint, receipt, action, delegating, project, boot, events>>

ClaimRestore(r, a) ==
    /\ At(r, a, "reclaim")
    /\ LET k == at[r][a].why
           ok == undo[r][k].rev = revision IN
       /\ undo' = [undo EXCEPT ![r][k].st = IF ok THEN "claimed" ELSE "rejected"]
       /\ Goto(r, a, IF ok THEN "reapply" ELSE "result")
    /\ UNCHANGED <<row, outbox, ledger, checkpoint, receipt, action, delegating, project, boot, events>>

\* applyWithDatabase for a checkpoint: a direction that would not change is rejected.
RestoreDirection(r, k) ==
    \/ /\ UpToDate(undo[r][k].rev, undo[r][k].ver)
       /\ goal # checkpoint[r].goal
       /\ undo' = [undo EXCEPT ![r][k].st = "applied"]
       /\ goal' = checkpoint[r].goal
       /\ version' = version + 1
       /\ revision' = revision + 1
    \/ undo' = [undo EXCEPT ![r][k].st = "rejected"] /\ UNCHANGED project

Restore(r, a) ==
    /\ At(r, a, "reapply")
    /\ RestoreDirection(r, at[r][a].why)
    /\ Goto(r, a, "result")
    /\ UNCHANGED <<row, outbox, ledger, checkpoint, receipt, action, delegating, boot, events>>

\* rollback_completed or rollback_failed, after the direction was read back.
RollbackResult(r, a) ==
    /\ At(r, a, "result")
    /\ LET k == at[r][a].why
           ok == undo[r][k].st = "applied" /\ goal = checkpoint[r].goal IN
       /\ undo' = [undo EXCEPT ![r][k].result = IF ok THEN "completed" ELSE "failed"]
       /\ row' = IF ok THEN [row EXCEPT ![r] = "rolled_back"] ELSE row
       /\ Goto(r, a, IF ok THEN "ledger" ELSE After(r, a))
    /\ UNCHANGED <<outbox, ledger, checkpoint, receipt, action, delegating, project, boot, events>>

RollbackLedger(r, a) ==
    /\ At(r, a, "ledger")
    /\ decision' = IF decision[r] \in {"executed", "overridden"}
                   THEN [decision EXCEPT ![r] = "rolled_back"] ELSE decision
    /\ Goto(r, a, After(r, a))
    /\ UNCHANGED <<row, outbox, dispatch, checkpoint, receipt, action, undo, delegating, project, boot, events>>

\* The rest of completeFailure.
Conclude(r, a) ==
    /\ At(r, a, "conclude")
    /\ decision' = IF decision[r] = "accepted" THEN [decision EXCEPT ![r] = "failed"] ELSE decision
    /\ Goto(r, a, "close")
    /\ UNCHANGED <<row, outbox, dispatch, checkpoint, receipt, action, undo, delegating, project, boot, events>>

Close(r, a) ==
    /\ At(r, a, "close")
    /\ IF MayResolve(r, at[r][a].lease, "failed")
       THEN dispatch' = Resolved(r, at[r][a].lease, "failed") /\ Goto(r, a, "done")
       ELSE UNCHANGED dispatch /\ Goto(r, a, "thrown")
    /\ UNCHANGED <<row, outbox, decision, checkpoint, receipt, action, undo, delegating, project, boot, events>>

-----------------------------------------------------------------------------
(* People, crashes and recovery.                                           *)

\* The founder adjusts the brief, through the executor, which may do it at boot.
Adjust ==
    /\ Event
    /\ Quiet /\ boot # "drains"
    /\ goal # "adjusted"
    /\ goal' = "adjusted"
    /\ version' = version + 1
    /\ revision' = revision + 1
    /\ UNCHANGED <<row, outbox, ledger, checkpoint, receipt, action, undo, delegating, at, boot>>

\* A receipt of another work item changes the graph and not the direction.
Grow ==
    /\ Event
    /\ Quiet
    /\ revision' = revision + 1
    /\ UNCHANGED <<row, outbox, ledger, checkpoint, receipt, action, undo, delegating, goal, version, at, boot>>

\* The founder overrides the decision in the ledger.
Override(r) ==
    /\ Event
    /\ Free /\ decision[r] \in {"proposed", "accepted", "executed"}
    /\ decision' = [decision EXCEPT ![r] = "overridden"]
    /\ UNCHANGED <<row, outbox, dispatch, checkpoint, receipt, action, undo, delegating, project, at, boot>>

\* The mode is lowered or a fence put up, or readiness is recorded again.
Govern ==
    /\ Event
    /\ Free
    /\ delegating' = ~delegating
    /\ UNCHANGED <<row, outbox, ledger, checkpoint, receipt, action, undo, project, at, boot>>

Crash ==
    /\ Event
    /\ at' = [r \in Runs |-> AllIdle]
    /\ boot' = "actions"
    /\ UNCHANGED <<row, outbox, ledger, checkpoint, receipt, action, undo, delegating, project>>

Open == {"requested", "claimed"}

\* recover of the executor takes up the actions that are not closed.
ReplayApply(r) ==
    /\ boot = "actions"
    /\ \/ action[r].st = "requested" /\ action[r].rev = revision
          /\ action' = [action EXCEPT ![r].st = "claimed"] /\ UNCHANGED project
       \/ action[r].st = "requested" /\ action[r].rev # revision
          /\ action' = [action EXCEPT ![r].st = "rejected"] /\ UNCHANGED project
       \/ action[r].st = "claimed" /\ ApplyDirection(r)
    /\ UNCHANGED <<row, outbox, ledger, checkpoint, receipt, undo, delegating, at, boot, events>>

ReplayRestore(r, k) ==
    /\ boot = "actions"
    /\ \/ undo[r][k].st = "requested" /\ undo[r][k].rev = revision
          /\ undo' = [undo EXCEPT ![r][k].st = "claimed"] /\ UNCHANGED project
       \/ undo[r][k].st = "requested" /\ undo[r][k].rev # revision
          /\ undo' = [undo EXCEPT ![r][k].st = "rejected"] /\ UNCHANGED project
       \/ undo[r][k].st = "claimed" /\ RestoreDirection(r, k)
    /\ UNCHANGED <<row, outbox, ledger, checkpoint, receipt, action, delegating, at, boot, events>>

Replayed ==
    /\ boot = "actions"
    /\ \A r \in Runs : action[r].st \notin Open /\ \A k \in Reasons : undo[r][k].st \notin Open
    /\ boot' = "drains"
    /\ UNCHANGED <<row, outbox, ledger, checkpoint, receipt, action, undo, delegating, project, at, events>>

\* Mutation: recovery leaves out the outboxes that are not pending.
PendingToDrain == {r \in Runs : outbox[r] = "pending"}

\* recover of yellow drains every outbox there is, one after the other.
ToDrain == {r \in Runs : outbox[r] # "none"}

DrainNext(r) ==
    /\ boot = "drains" /\ r \in ToDrain /\ At(r, "submit", "idle")
    /\ \A s \in Runs : at[s]["submit"].step \in {"idle", "done"}
    /\ Goto(r, "submit", "look")
    /\ UNCHANGED <<row, outbox, ledger, checkpoint, receipt, action, undo, delegating, project, boot, events>>

\* Then the server listens.
Listen ==
    /\ boot = "drains"
    /\ \A r \in Runs : At(r, "submit", IF r \in ToDrain THEN "done" ELSE "idle")
    /\ boot' = "up"
    /\ UNCHANGED <<row, outbox, ledger, checkpoint, receipt, action, undo, delegating, project, at, events>>

-----------------------------------------------------------------------------
DrainStep(r, a) == Turn(r, a) /\
    (\/ Begin(r, a) \/ Process(r, a) \/ Request(r, a) \/ Claim(r, a) \/ Apply(r, a)
    \/ Record(r, a) \/ Complete(r, a) \/ Execute(r, a) \/ Conclude(r, a) \/ Close(r, a))

RollbackStep(r, a) == Turn(r, a) /\
    (\/ Fail(r, a) \/ OpenCircuit(r, a) \/ AskRollback(r, a) \/ RequestRestore(r, a) \/ ClaimRestore(r, a)
    \/ Restore(r, a) \/ RollbackResult(r, a) \/ RollbackLedger(r, a))

RecoveryStep ==
    \/ \E r \in Runs : ReplayApply(r) \/ DrainNext(r) \/ \E k \in Reasons : ReplayRestore(r, k)
    \/ Replayed
    \/ Listen

Next ==
    \/ \E r \in Runs :
         \/ Submit(r) \/ Retry(r) \/ List(r) \/ Judge(r) \/ Ask(r) \/ Override(r)
         \/ \E a \in Drains : DrainStep(r, a)
         \/ \E a \in Activities : RollbackStep(r, a)
    \/ Adjust \/ Grow \/ Govern \/ Crash \/ RecoveryStep

Spec == Init /\ [][Next]_vars

\* What a process has begun it goes on with, and recovery runs before requests are served.
LiveSpec ==
    /\ Spec
    /\ WF_vars(RecoveryStep)
    /\ \A r \in Runs : /\ \A a \in Drains : WF_vars(DrainStep(r, a))
                       /\ \A a \in Activities : WF_vars(RollbackStep(r, a))
                       /\ WF_vars(Judge(r))

-----------------------------------------------------------------------------
\* A decision that says executed was: its direction was applied to the project and
\* its dispatch is closed with the mutation, whichever of two drains, or of the
\* process and its successor, wrote what (yellow.ts:1173-1209, 1366-1379).
ExecutedWasApplied ==
    \A r \in Runs : decision[r] = "executed" =>
        action[r].st = "applied" /\ dispatch[r].st = "completed" /\ dispatch[r].receipt # "failed"

\* Recovery replays every outbox there is and none of the replays throws, from
\* whatever a crash left: a throw would keep the server from ever listening again
\* (server.ts:184, yellow.ts:1653-1662).
RecoveryNeverThrows ==
    boot # "up" => \A r \in Runs, a \in Activities : ~At(r, a, "thrown")

\* Once a checkpoint was restored the direction it undid is never applied again,
\* by a slower drain, a repeated one or a replay at boot: its versions are stale by
\* then (direction.ts:273-308, yellow.ts:876-911).
NotAppliedAfterRollback ==
    [][\A r \in Runs : action[r].st # "applied" /\ action'[r].st = "applied" =>
          \A k \in Reasons : undo[r][k].st # "applied"]_vars

\* A dispatch that submit put in the outbox is closed in the end, through crashes,
\* leases that expire and a second drain (yellow.ts:1105-1388, 1653-1662).
DispatchesComplete ==
    \A r \in Runs : outbox[r] # "none" ~> dispatch[r].st = "completed"
=============================================================================
