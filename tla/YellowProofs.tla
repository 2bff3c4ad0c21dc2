------------------------------ MODULE YellowProofs ------------------------------
(***************************************************************************)
(* Proofs about Yellow, for any delegations, leases and events: its types, *)
(* that a decision which says executed was applied, that recovery never    *)
(* throws, and that a direction which was undone is not applied again.     *)
(***************************************************************************)
EXTENDS Yellow, TLAPS

Steps == Waits \cup GoesOn
Over  == {"idle", "done", "thrown"}
Activity == [step : Steps, why : Reasons, lease : Nat]
AtType == [Runs -> [Activities -> Activity]]

Dispatch == [st : {"none", "committed", "claimed", "completed"}, lease : Nat,
             receipt : {"none", "mutation", "processed", "failed"}]
Action == [st : Requested, rev : Nat]

RunTypes ==
    /\ row \in [Runs -> {"none", "blocked", "authorized", "failed", "outcome_pending", "completed", "rolled_back"}]
    /\ outbox \in [Runs -> {"none", "pending", "processed", "failed"}]
    /\ decision \in [Runs -> {"proposed", "accepted", "executed", "overridden", "failed", "rolled_back"}]
    /\ dispatch \in [Runs -> Dispatch]
    /\ checkpoint \in [Runs -> [goal : Goals, ver : Nat]]
    /\ receipt \in [Runs -> {"pending", "applied", "refused"}]
    /\ action \in [Runs -> Action]

UndoType == undo \in [Runs -> [Reasons -> Rollback]]

ProjectTypes ==
    /\ delegating \in BOOLEAN
    /\ goal \in Goals
    /\ version \in Nat
    /\ revision \in Nat
    /\ boot \in {"up", "actions", "drains"}
    /\ events \in Nat

LEMMA TypeParts == TypeOK <=> RunTypes /\ UndoType /\ ProjectTypes /\ at \in AtType
  BY DEF TypeOK, RunTypes, Dispatch, Action, UndoType, ProjectTypes, AtType, Activity, Steps

LEMMA TypePartsNext == TypeOK' <=> RunTypes' /\ UndoType' /\ ProjectTypes' /\ at' \in AtType
  BY DEF TypeOK, RunTypes, Dispatch, Action, UndoType, ProjectTypes, AtType, Activity, Steps

-----------------------------------------------------------------------------
(* How at changes: one activity takes one step.                            *)

Others(r, a) == \A s \in Runs, b \in Activities : s # r \/ b # a => at'[s][b] = at[s][b]

\* The activity goes to one of the steps of S, and keeps why it is there and its lease.
Went(r, a, S) ==
    /\ at' \in AtType
    /\ Others(r, a)
    /\ at'[r][a].step \in S
    /\ IF at'[r][a].step \in Over THEN at'[r][a] = Resting(a, at'[r][a].step)
       ELSE at'[r][a].why = at[r][a].why /\ at'[r][a].lease = at[r][a].lease

LEMMA RestTyped ==
  ASSUME NEW a \in Activities, NEW step \in Over
  PROVE  /\ Resting(a, step) \in Activity
         /\ Resting(a, step).step = step
  BY DEF Resting, Activity, Activities, Drains, Reasons, Steps, Waits, GoesOn, Over

LEMMA SetAt ==
  ASSUME at \in AtType, NEW r \in Runs, NEW a \in Activities, NEW x \in Activity,
         Become(r, a, x)
  PROVE  at' \in AtType /\ at'[r][a] = x /\ Others(r, a)
  <1>1. at[r] \in [Activities -> Activity]
    BY DEF AtType
  <1>2. at' = [at EXCEPT ![r] = [at[r] EXCEPT ![a] = x]]
    BY DEF Become
  <1>3. [at[r] EXCEPT ![a] = x] \in [Activities -> Activity]
    BY <1>1
  <1> QED BY <1>1, <1>2, <1>3 DEF AtType, Others

LEMMA GotoWent ==
  ASSUME at \in AtType, NEW r \in Runs, NEW a \in Activities, NEW S, NEW step \in S, S \subseteq Steps,
         Goto(r, a, step)
  PROVE  Went(r, a, S) /\ at'[r][a].step = step
  <1> DEFINE x == IF step \in Over THEN Resting(a, step) ELSE [at[r][a] EXCEPT !.step = step]
  <1>1. at[r][a] \in Activity
    BY DEF AtType
  <1>2. x \in Activity /\ x.step = step
    BY <1>1, RestTyped DEF Activity
  <1>3. IF step \in Over THEN x = Resting(a, step) ELSE x.why = at[r][a].why /\ x.lease = at[r][a].lease
    BY <1>1 DEF Activity
  <1>4. Become(r, a, x)
    BY DEF Goto, Over
  <1> HIDE DEF x
  <1>5. at' \in AtType /\ at'[r][a] = x /\ Others(r, a)
    BY <1>2, <1>4, SetAt
  <1> QED BY <1>2, <1>3, <1>5 DEF Went

\* Execute sets the reason as well.
LEMMA CostAt ==
  ASSUME at \in AtType, NEW r \in Runs, NEW a \in Activities,
         Become(r, a, [at[r][a] EXCEPT !.step = "fail", !.why = "cost"])
  PROVE  /\ at' \in AtType /\ Others(r, a)
         /\ at'[r][a].step = "fail" /\ at'[r][a].why = "cost" /\ at'[r][a].lease = at[r][a].lease
  <1> DEFINE x == [at[r][a] EXCEPT !.step = "fail", !.why = "cost"]
  <1>1. at[r][a] \in Activity
    BY DEF AtType
  <1>2. x \in Activity /\ x.step = "fail" /\ x.why = "cost" /\ x.lease = at[r][a].lease
    BY <1>1 DEF Activity, Steps, GoesOn, Reasons
  <1>3. Become(r, a, x)
    OBVIOUS
  <1> HIDE DEF x
  <1> QED BY <1>2, <1>3, SetAt

\* Where a rollback ends.
LEMMA AfterStep ==
  ASSUME NEW r, NEW a
  PROVE  After(r, a) \in {"conclude", "idle", "done"}
  BY DEF After

LEMMA IdleTyped == [r \in Runs |-> AllIdle] \in AtType /\ \A r \in Runs, a \in Activities : AllIdle[a] = Resting(a, "idle")
  BY RestTyped DEF AllIdle, AtType, Over

-----------------------------------------------------------------------------
(* Where each action leaves its activity.                                  *)

LEMMA DrainWent ==
  ASSUME at \in AtType, RunTypes, NEW r \in Runs, NEW a \in Activities
  PROVE  /\ Process(r, a)  => Went(r, a, {"request", "fail"})
         /\ Request(r, a)  => Went(r, a, {"claim", "fail"})
         /\ Claim(r, a)    => Went(r, a, {"apply", "fail"})
         /\ Apply(r, a)    => Went(r, a, {"record", "fail"})
         /\ Record(r, a)   => Went(r, a, {"complete", "fail"})
         /\ Complete(r, a) => Went(r, a, {"execute", "thrown"})
         /\ Conclude(r, a) => Went(r, a, {"close"})
         /\ Close(r, a)    => Went(r, a, {"done", "thrown"})
  <1>0. {"request", "fail", "claim", "apply", "record", "complete", "execute", "thrown", "close", "done"} \subseteq Steps
    BY DEF Steps, Waits, GoesOn
  <1>1. Process(r, a) => Went(r, a, {"request", "fail"})
    BY <1>0, GotoWent DEF Process
  <1>2. Request(r, a) => Went(r, a, {"claim", "fail"})
    <2>1. Request(r, a) => Goto(r, a, "claim") \/ Goto(r, a, "fail")
      BY DEF Request
    <2> QED BY <1>0, <2>1, GotoWent
  <1>3. Claim(r, a) => Went(r, a, {"apply", "fail"})
    BY <1>0, GotoWent DEF Claim
  <1>4. Apply(r, a) => Went(r, a, {"record", "fail"})
    BY <1>0, GotoWent DEF Apply
  <1>5. Record(r, a) => Went(r, a, {"complete", "fail"})
    BY <1>0, GotoWent DEF Record
  <1>6. Complete(r, a) => Went(r, a, {"execute", "thrown"})
    BY <1>0, GotoWent DEF Complete
  <1>7. Conclude(r, a) => Went(r, a, {"close"})
    BY <1>0, GotoWent DEF Conclude
  <1>8. Close(r, a) => Went(r, a, {"done", "thrown"})
    BY <1>0, GotoWent DEF Close
  <1> QED BY <1>1, <1>2, <1>3, <1>4, <1>5, <1>6, <1>7, <1>8

\* Fail puts the failure in words.
LEMMA FailWent ==
  ASSUME at \in AtType, NEW r \in Runs, NEW a \in Activities, Fail(r, a)
  PROVE  /\ at' \in AtType /\ Others(r, a)
         /\ at'[r][a].step = "open"
         /\ at'[r][a].why \in Words(a, at[r][a].why)
         /\ at'[r][a].lease = at[r][a].lease
  <1>1. at[r][a] \in Activity
    BY DEF AtType
  <1>2. PICK why \in Words(a, at[r][a].why) : Become(r, a, [at[r][a] EXCEPT !.step = "open", !.why = why])
    BY DEF Fail
  <1> DEFINE x == [at[r][a] EXCEPT !.step = "open", !.why = why]
  <1>3. why \in Reasons
    BY <1>1, <1>2 DEF Words, Activity, Reasons
  <1>4. x \in Activity /\ x.step = "open" /\ x.why = why /\ x.lease = at[r][a].lease
    BY <1>1, <1>3 DEF Activity, Steps, GoesOn
  <1>5. Become(r, a, x)
    BY <1>2
  <1> HIDE DEF x
  <1> QED BY <1>2, <1>4, <1>5, SetAt

LEMMA RollbackWent ==
  ASSUME at \in AtType, NEW r \in Runs, NEW a \in Activities
  PROVE  /\ OpenCircuit(r, a)    => Went(r, a, {"ask"})
         /\ AskRollback(r, a)    => Went(r, a, {"restore", After(r, a)})
         /\ RequestRestore(r, a) => Went(r, a, {"reclaim"})
         /\ ClaimRestore(r, a)   => Went(r, a, {"reapply", "result"})
         /\ Restore(r, a)        => Went(r, a, {"result"})
         /\ RollbackResult(r, a) => Went(r, a, {"ledger", After(r, a)})
         /\ RollbackLedger(r, a) => Went(r, a, {After(r, a)})
  <1>0. {"ask", "restore", "reclaim", "reapply", "result", "ledger", After(r, a)} \subseteq Steps
    BY AfterStep DEF Steps, Waits, GoesOn
  <1>2. OpenCircuit(r, a) => Went(r, a, {"ask"})
    <2>1. OpenCircuit(r, a) => Goto(r, a, "ask")
      BY DEF OpenCircuit
    <2> QED BY <1>0, <2>1, GotoWent
  <1>3. AskRollback(r, a) => Went(r, a, {"restore", After(r, a)})
    BY <1>0, GotoWent DEF AskRollback
  <1>4. RequestRestore(r, a) => Went(r, a, {"reclaim"})
    <2>1. RequestRestore(r, a) => Goto(r, a, "reclaim")
      BY DEF RequestRestore
    <2> QED BY <1>0, <2>1, GotoWent
  <1>5. ClaimRestore(r, a) => Went(r, a, {"reapply", "result"})
    <2>1. ClaimRestore(r, a) => Goto(r, a, "reapply") \/ Goto(r, a, "result")
      BY DEF ClaimRestore
    <2> QED BY <1>0, <2>1, GotoWent
  <1>6. Restore(r, a) => Went(r, a, {"result"})
    <2>1. Restore(r, a) => Goto(r, a, "result")
      BY DEF Restore
    <2> QED BY <1>0, <2>1, GotoWent
  <1>7. RollbackResult(r, a) => Went(r, a, {"ledger", After(r, a)})
    BY <1>0, GotoWent DEF RollbackResult
  <1>8. RollbackLedger(r, a) => Went(r, a, {After(r, a)})
    BY <1>0, GotoWent DEF RollbackLedger
  <1> QED BY <1>2, <1>3, <1>4, <1>5, <1>6, <1>7, <1>8

LEMMA ExecuteWent ==
  ASSUME at \in AtType, NEW r \in Runs, NEW a \in Activities, Execute(r, a)
  PROVE  \/ Went(r, a, {"done"})
         \/ Went(r, a, {"thrown"}) /\ decision[r] # "accepted"
         \/ /\ at' \in AtType /\ Others(r, a)
            /\ at'[r][a].step = "fail" /\ at'[r][a].why = "cost" /\ at'[r][a].lease = at[r][a].lease
  <1>1. {"done"} \subseteq Steps /\ {"thrown"} \subseteq Steps
    BY DEF Steps, Waits
  <1>2. CASE Goto(r, a, "done")
    BY <1>1, <1>2, GotoWent
  <1>3. CASE Goto(r, a, "thrown") /\ decision[r] # "accepted"
    BY <1>1, <1>3, GotoWent
  <1>4. CASE Become(r, a, [at[r][a] EXCEPT !.step = "fail", !.why = "cost"])
    BY <1>4, CostAt
  <1> QED BY <1>2, <1>3, <1>4 DEF Execute

LEMMA BeginWent ==
  ASSUME at \in AtType, RunTypes, YellowAssumption, NEW r \in Runs, NEW a \in Activities, Begin(r, a)
  PROVE  \/ Went(r, a, {"done"}) /\ dispatch'[r].st = "completed"
         \/ /\ at' \in AtType /\ Others(r, a)
            /\ at'[r][a].step \in {"process", "fail"}
            /\ at'[r][a].step = "process" => MayEnter(r)
            /\ at'[r][a].why = at[r][a].why
            /\ dispatch'[r].st = "claimed" /\ dispatch'[r].lease = at'[r][a].lease
  <1>1. {"done", "process", "fail"} \subseteq Steps
    BY DEF Steps, Waits, GoesOn
  <1>2. \A lease \in Leases(r) : lease \in Nat
    BY DEF Leases, RunTypes, Dispatch, YellowAssumption
  <1>3. CASE dispatch[r].st = "completed" /\ Goto(r, a, "done") /\ UNCHANGED dispatch
    BY <1>1, <1>3, GotoWent
  <1>4. ASSUME NEW lease \in Leases(r), outbox[r] # "pending", dispatch' = Resolved(r, lease, outbox[r]), Goto(r, a, "done")
        PROVE  Went(r, a, {"done"}) /\ dispatch'[r].st = "completed"
    BY <1>1, <1>4, GotoWent DEF Resolved, RunTypes, Dispatch
  <1>5. ASSUME NEW lease \in Leases(r), dispatch' = [dispatch EXCEPT ![r].st = "claimed", ![r].lease = lease],
               Become(r, a, [at[r][a] EXCEPT !.lease = lease, !.step = IF MayEnter(r) THEN "process" ELSE "fail"])
        PROVE  /\ at' \in AtType /\ Others(r, a)
               /\ at'[r][a].step \in {"process", "fail"}
               /\ at'[r][a].step = "process" => MayEnter(r)
               /\ at'[r][a].why = at[r][a].why
               /\ dispatch'[r].st = "claimed" /\ dispatch'[r].lease = at'[r][a].lease
    <2> DEFINE x == [at[r][a] EXCEPT !.lease = lease, !.step = IF MayEnter(r) THEN "process" ELSE "fail"]
    <2>1. at[r][a] \in Activity /\ lease \in Nat
      BY <1>2 DEF AtType
    <2>2. /\ x \in Activity
          /\ x.step \in {"process", "fail"} /\ (x.step = "process" => MayEnter(r))
          /\ x.why = at[r][a].why /\ x.lease = lease
      BY <1>1, <2>1 DEF Activity
    <2>3. dispatch'[r].st = "claimed" /\ dispatch'[r].lease = lease
      BY <1>5 DEF RunTypes, Dispatch
    <2>4. Become(r, a, x)
      BY <1>5
    <2> HIDE DEF x
    <2>5. at' \in AtType /\ at'[r][a] = x /\ Others(r, a)
      BY <2>2, <2>4, SetAt
    <2> QED BY <2>2, <2>3, <2>5
  <1> QED BY <1>3, <1>4, <1>5 DEF Begin

LEMMA StartWent ==
  ASSUME at \in AtType, NEW r \in Runs
  PROVE  /\ Submit(r)    => Went(r, "submit", {"look"}) \/ UNCHANGED at
         /\ Retry(r)     => Went(r, "retry", {"look"})
         /\ List(r)      => Went(r, "check", {"judge"})
         /\ Judge(r)     => Went(r, "check", {"idle", "fail"})
         /\ Ask(r)       => Went(r, "human", {"restore"})
         /\ DrainNext(r) => Went(r, "submit", {"look"})
  <1>0. {"look", "judge", "idle", "fail", "restore"} \subseteq Steps /\ {"submit", "retry", "check", "human"} \subseteq Activities
    BY DEF Steps, Waits, GoesOn, Activities, Drains
  <1>1. Submit(r) => Went(r, "submit", {"look"}) \/ UNCHANGED at
    BY <1>0, GotoWent DEF Submit
  <1>2. Retry(r) => Went(r, "retry", {"look"})
    BY <1>0, GotoWent DEF Retry
  <1>3. List(r) => Went(r, "check", {"judge"})
    BY <1>0, GotoWent DEF List
  <1>4. Judge(r) => Went(r, "check", {"idle", "fail"})
    BY <1>0, GotoWent DEF Judge
  <1>5. Ask(r) => Went(r, "human", {"restore"})
    BY <1>0, GotoWent DEF Ask
  <1>6. DrainNext(r) => Went(r, "submit", {"look"})
    BY <1>0, GotoWent DEF DrainNext
  <1> QED BY <1>1, <1>2, <1>3, <1>4, <1>5, <1>6

-----------------------------------------------------------------------------
(* How undo changes.                                                       *)

OthersKept(r, k) == \A s \in Runs, l \in Reasons : s # r \/ l # k => undo'[s][l] = undo[s][l]

SetsUndo(r, k, x)   == undo' = [undo EXCEPT ![r][k] = x]
MovesUndo(r, k, st) == undo' = [undo EXCEPT ![r][k].st = st]
EndsUndo(r, k, result) == undo' = [undo EXCEPT ![r][k].result = result]

LEMMA SetUndo ==
  ASSUME UndoType, NEW r \in Runs, NEW k \in Reasons, NEW x \in Rollback, SetsUndo(r, k, x)
  PROVE  UndoType' /\ undo'[r][k] = x /\ OthersKept(r, k)
  <1>1. undo[r] \in [Reasons -> Rollback]
    BY DEF UndoType
  <1>2. undo' = [undo EXCEPT ![r] = [undo[r] EXCEPT ![k] = x]]
    BY DEF SetsUndo
  <1>3. [undo[r] EXCEPT ![k] = x] \in [Reasons -> Rollback]
    BY <1>1
  <1> QED BY <1>1, <1>2, <1>3 DEF UndoType, OthersKept

\* A rollback goes on, and the others stay.
UndoGoesOn(r, k, S) == UndoType' /\ OthersKept(r, k) /\ undo'[r][k].st \in S

LEMMA UndoMoves ==
  ASSUME UndoType, NEW r \in Runs, NEW k \in Reasons, NEW st \in Requested \cup {"asked"}, MovesUndo(r, k, st)
  PROVE  UndoGoesOn(r, k, {st})
  <1> DEFINE x == [undo[r][k] EXCEPT !.st = st]
  <1>1. undo[r][k] \in Rollback
    BY DEF UndoType
  <1>2. x \in Rollback /\ x.st = st
    BY <1>1 DEF Rollback
  <1>3. SetsUndo(r, k, x)
    BY DEF SetsUndo, MovesUndo
  <1> HIDE DEF x
  <1> QED BY <1>2, <1>3, SetUndo DEF UndoGoesOn

LEMMA UndoEnds ==
  ASSUME UndoType, NEW r \in Runs, NEW k \in Reasons, NEW result \in {"none", "completed", "failed"}, EndsUndo(r, k, result)
  PROVE  UndoGoesOn(r, k, {undo[r][k].st})
  <1> DEFINE x == [undo[r][k] EXCEPT !.result = result]
  <1>1. undo[r][k] \in Rollback
    BY DEF UndoType
  <1>2. x \in Rollback /\ x.st = undo[r][k].st
    BY <1>1 DEF Rollback
  <1>3. SetsUndo(r, k, x)
    BY DEF SetsUndo, EndsUndo
  <1> HIDE DEF x
  <1> QED BY <1>2, <1>3, SetUndo DEF UndoGoesOn

LEMMA UndoActions ==
  ASSUME UndoType, ProjectTypes, at \in AtType, NEW r \in Runs, NEW a \in Activities, NEW k \in Reasons
  PROVE  /\ Ask(r) => UndoGoesOn(r, "human", {"asked"})
         /\ AskRollback(r, a) => UNCHANGED undo \/ UndoGoesOn(r, at[r][a].why, {"asked"})
         /\ RequestRestore(r, a) => UndoGoesOn(r, at[r][a].why, {"requested"})
         /\ ClaimRestore(r, a) => UndoGoesOn(r, at[r][a].why, {"claimed", "rejected"})
         /\ RollbackResult(r, a) => UndoGoesOn(r, at[r][a].why, {undo[r][at[r][a].why].st})
         /\ RestoreDirection(r, k) => UndoGoesOn(r, k, {"applied", "rejected"})
         /\ ReplayRestore(r, k) => UndoGoesOn(r, k, {"claimed", "applied", "rejected"})
  <1> DEFINE w == at[r][a].why
  <1>0. w \in Reasons /\ "human" \in Reasons /\ {"asked", "requested", "claimed", "applied", "rejected"} \subseteq Requested \cup {"asked"}
    BY DEF AtType, Activity, Reasons, Requested
  <1>1. Ask(r) => UndoGoesOn(r, "human", {"asked"})
    <2>1. Ask(r) => MovesUndo(r, "human", "asked")
      BY DEF Ask, MovesUndo
    <2> QED BY <1>0, <2>1, UndoMoves
  <1>2. AskRollback(r, a) => UNCHANGED undo \/ UndoGoesOn(r, w, {"asked"})
    <2>1. AskRollback(r, a) => UNCHANGED undo \/ MovesUndo(r, w, "asked")
      BY DEF AskRollback, MovesUndo
    <2> HIDE DEF w
    <2> QED BY <1>0, <2>1, UndoMoves
  <1>3. ASSUME RequestRestore(r, a) PROVE UndoGoesOn(r, w, {"requested"})
    <2> DEFINE x == [st |-> "requested", rev |-> revision, ver |-> version, result |-> "none"]
    <2>1. x \in Rollback /\ x.st = "requested"
      BY DEF Rollback, Requested, ProjectTypes
    <2>2. SetsUndo(r, w, x)
      BY <1>3 DEF RequestRestore, SetsUndo
    <2> HIDE DEF x, w
    <2> QED BY <1>0, <2>1, <2>2, SetUndo DEF UndoGoesOn
  <1>4. ClaimRestore(r, a) => UndoGoesOn(r, w, {"claimed", "rejected"})
    <2>1. ClaimRestore(r, a) => MovesUndo(r, w, "claimed") \/ MovesUndo(r, w, "rejected")
      BY DEF ClaimRestore, MovesUndo
    <2> HIDE DEF w
    <2> QED BY <1>0, <2>1, UndoMoves DEF UndoGoesOn
  <1>5. RollbackResult(r, a) => UndoGoesOn(r, w, {undo[r][w].st})
    <2>1. RollbackResult(r, a) => EndsUndo(r, w, "completed") \/ EndsUndo(r, w, "failed")
      BY DEF RollbackResult, EndsUndo
    <2> HIDE DEF w
    <2> QED BY <1>0, <2>1, UndoEnds
  <1>6. RestoreDirection(r, k) => UndoGoesOn(r, k, {"applied", "rejected"})
    <2>1. RestoreDirection(r, k) => MovesUndo(r, k, "applied") \/ MovesUndo(r, k, "rejected")
      BY DEF RestoreDirection, MovesUndo
    <2> QED BY <1>0, <2>1, UndoMoves DEF UndoGoesOn
  <1>7. ReplayRestore(r, k) => UndoGoesOn(r, k, {"claimed", "applied", "rejected"})
    <2>1. ReplayRestore(r, k) => MovesUndo(r, k, "claimed") \/ MovesUndo(r, k, "rejected") \/ RestoreDirection(r, k)
      BY DEF ReplayRestore, MovesUndo
    <2> QED BY <1>0, <1>6, <2>1, UndoMoves DEF UndoGoesOn
  <1> QED BY <1>1, <1>2, <1>3, <1>4, <1>5, <1>6, <1>7

-----------------------------------------------------------------------------
(* The types.                                                              *)

LEMMA StartTypes ==
  ASSUME TypeOK, NEW r \in Runs, Submit(r) \/ Retry(r) \/ List(r) \/ Judge(r) \/ Ask(r) \/ Override(r) \/ DrainNext(r)
  PROVE  TypeOK'
  <1>0. RunTypes /\ UndoType /\ ProjectTypes /\ at \in AtType
    BY TypeParts
  <1>1. at' \in AtType
    BY <1>0, StartWent DEF Went, Override
  <1>2. UndoType'
    <2>1. CASE Ask(r)
      <3>1. "human" \in Reasons
        BY DEF Reasons
      <3> QED BY <1>0, <2>1, <3>1, UndoMoves DEF Ask, MovesUndo, UndoGoesOn
    <2> QED BY <1>0, <2>1 DEF Submit, Retry, List, Judge, Override, DrainNext, UndoType
  <1>3. ProjectTypes'
    BY <1>0 DEF Submit, Retry, List, Judge, Ask, Override, DrainNext, ProjectTypes, project, Event
  <1>4. RunTypes'
    <2>1. CASE Submit(r)
      <3>1. UNCHANGED <<receipt, action>>
        BY <2>1 DEF Submit
      <3>2. row' \in [Runs -> {"none", "blocked", "authorized", "failed", "outcome_pending", "completed", "rolled_back"}]
        BY <1>0, <2>1 DEF Submit, RunTypes
      <3>3. /\ outbox' \in [Runs -> {"none", "pending", "processed", "failed"}]
            /\ decision' \in [Runs -> {"proposed", "accepted", "executed", "overridden", "failed", "rolled_back"}]
        BY <1>0, <2>1 DEF Submit, RunTypes, ledger
      <3>4. dispatch' \in [Runs -> Dispatch]
        <4>1. dispatch \in [Runs -> Dispatch] /\ (UNCHANGED dispatch \/ dispatch' = [dispatch EXCEPT ![r].st = "committed"])
          BY <1>0, <2>1 DEF Submit, RunTypes, ledger
        <4> QED BY <4>1 DEF Dispatch
      <3>5. checkpoint' \in [Runs -> [goal : Goals, ver : Nat]]
        <4>1. /\ checkpoint \in [Runs -> [goal : Goals, ver : Nat]] /\ goal \in Goals /\ version \in Nat
              /\ UNCHANGED checkpoint \/ checkpoint' = [checkpoint EXCEPT ![r] = [goal |-> goal, ver |-> version]]
          BY <1>0, <2>1 DEF Submit, RunTypes, ProjectTypes
        <4> QED BY <4>1
      <3> QED BY <1>0, <3>1, <3>2, <3>3, <3>4, <3>5 DEF RunTypes
    <2>2. CASE Judge(r)
      <3>1. /\ UNCHANGED <<outbox, decision, dispatch, checkpoint, receipt, action>>
            /\ row' = row \/ row' = [row EXCEPT ![r] = "completed"]
        BY <2>2 DEF Judge, ledger
      <3> QED BY <1>0, <3>1 DEF RunTypes
    <2>3. CASE Override(r)
      <3>1. /\ UNCHANGED <<row, outbox, dispatch, checkpoint, receipt, action>>
            /\ decision' = [decision EXCEPT ![r] = "overridden"]
        BY <2>3 DEF Override
      <3> QED BY <1>0, <3>1 DEF RunTypes
    <2>4. CASE Retry(r) \/ List(r) \/ Ask(r) \/ DrainNext(r)
      <3>1. UNCHANGED <<row, outbox, decision, dispatch, checkpoint, receipt, action>>
        BY <2>4 DEF Retry, List, Ask, DrainNext, ledger
      <3> QED BY <1>0, <3>1 DEF RunTypes
    <2> QED BY <2>1, <2>2, <2>3, <2>4
  <1> QED BY <1>1, <1>2, <1>3, <1>4, TypePartsNext

LEMMA DrainTypes ==
  ASSUME TypeOK, YellowAssumption, NEW r \in Runs, NEW a \in Drains, DrainStep(r, a)
  PROVE  TypeOK'
  <1>0. RunTypes /\ UndoType /\ ProjectTypes /\ at \in AtType /\ a \in Activities
    BY TypeParts DEF Activities
  <1>1. at' \in AtType
    <2>1. CASE Begin(r, a)
      BY <1>0, <2>1, BeginWent DEF Went
    <2>2. CASE Execute(r, a)
      BY <1>0, <2>2, ExecuteWent DEF Went
    <2> QED BY <1>0, <2>1, <2>2, DrainWent DEF DrainStep, Went
  <1>2. UndoType'
    BY <1>0 DEF DrainStep, Begin, Process, Request, Claim, Apply, Record, Complete, Execute, Conclude, Close, UndoType
  <1>3. ProjectTypes'
    <2>1. CASE Process(r, a) \/ Apply(r, a)
      BY <1>0, <2>1 DEF Process, Apply, ApplyDirection, ProjectTypes, project, Goals
    <2> QED BY <1>0, <2>1 DEF DrainStep, Begin, Request, Claim, Record, Complete, Execute, Conclude, Close, ProjectTypes, project
  <1>4. RunTypes'
    <2>1. CASE Begin(r, a)
      <3>1. \A lease \in Leases(r) : lease \in Nat
        BY <1>0 DEF Leases, RunTypes, Dispatch, YellowAssumption
      <3>2. UNCHANGED <<row, checkpoint, receipt, action>>
        BY <2>1 DEF Begin
      <3>3. /\ outbox' \in [Runs -> {"none", "pending", "processed", "failed"}]
            /\ decision' \in [Runs -> {"proposed", "accepted", "executed", "overridden", "failed", "rolled_back"}]
        BY <1>0, <2>1 DEF Begin, RunTypes
      <3>4. \/ UNCHANGED dispatch
            \/ \E lease \in Leases(r) :
                 \/ dispatch' = [dispatch EXCEPT ![r].st = "claimed", ![r].lease = lease]
                 \/ dispatch' = Resolved(r, lease, outbox[r]) /\ outbox[r] # "pending"
        BY <2>1 DEF Begin
      <3>5. dispatch' \in [Runs -> Dispatch]
        <4>1. dispatch \in [Runs -> Dispatch] /\ outbox[r] \in {"none", "pending", "processed", "failed"}
          BY <1>0 DEF RunTypes
        <4> QED BY <3>1, <3>4, <4>1 DEF Dispatch, Resolved
      <3> QED BY <1>0, <3>2, <3>3, <3>5 DEF RunTypes
    <2>2. CASE Process(r, a)
      BY <1>0, <2>2 DEF Process, RunTypes, ledger
    <2>3. CASE Request(r, a) \/ Claim(r, a) \/ Apply(r, a)
      <3>1. action \in [Runs -> Action] /\ revision \in Nat
        BY <1>0 DEF RunTypes, ProjectTypes
      <3>2. \/ UNCHANGED action
            \/ action' = [action EXCEPT ![r] = [st |-> "requested", rev |-> revision]]
            \/ \E st \in Requested : action' = [action EXCEPT ![r].st = st]
        BY <2>3 DEF Request, Claim, Apply, ApplyDirection, Requested
      <3>3. action' \in [Runs -> Action]
        BY <3>1, <3>2 DEF Action, Requested
      <3> QED BY <1>0, <2>3, <3>3 DEF Request, Claim, Apply, RunTypes, ledger
    <2>4. CASE Record(r, a) \/ Execute(r, a) \/ Conclude(r, a)
      BY <1>0, <2>4 DEF Record, Execute, Conclude, RunTypes, ledger
    <2>5. CASE Complete(r, a) \/ Close(r, a)
      <3>1. at[r][a].lease \in Nat
        BY <1>0 DEF AtType, Activity
      <3> QED BY <1>0, <2>5, <3>1 DEF Complete, Close, Resolved, RunTypes, Dispatch
    <2> QED BY <2>1, <2>2, <2>3, <2>4, <2>5 DEF DrainStep
  <1> QED BY <1>1, <1>2, <1>3, <1>4, TypePartsNext

LEMMA RollbackTypes ==
  ASSUME TypeOK, NEW r \in Runs, NEW a \in Activities, RollbackStep(r, a)
  PROVE  TypeOK'
  <1>0. RunTypes /\ UndoType /\ ProjectTypes /\ at \in AtType
    BY TypeParts
  <1>1. at' \in AtType
    BY <1>0, RollbackWent, FailWent DEF RollbackStep, Went
  <1>2. at[r][a].why \in Reasons
    BY <1>0 DEF AtType, Activity
  <1>3. UndoType'
    <2>1. CASE Fail(r, a) \/ OpenCircuit(r, a) \/ RollbackLedger(r, a)
      BY <1>0, <2>1 DEF Fail, OpenCircuit, RollbackLedger, UndoType
    <2>2. CASE AskRollback(r, a) \/ RequestRestore(r, a) \/ ClaimRestore(r, a) \/ Restore(r, a) \/ RollbackResult(r, a)
      BY <1>0, <1>2, <2>2, UndoActions DEF Restore, UndoGoesOn, UndoType
    <2> QED BY <2>1, <2>2 DEF RollbackStep
  <1>4. ProjectTypes'
    <2>1. CASE Restore(r, a)
      BY <1>0, <2>1 DEF Restore, RestoreDirection, ProjectTypes, RunTypes, project
    <2> QED BY <1>0, <2>1 DEF RollbackStep, Fail, OpenCircuit, AskRollback, RequestRestore, ClaimRestore,
              RollbackResult, RollbackLedger, ProjectTypes, project
  <1>5. RunTypes'
    <2>1. CASE Fail(r, a) \/ RollbackResult(r, a) \/ RollbackLedger(r, a)
      BY <1>0, <2>1 DEF Fail, RollbackResult, RollbackLedger, RunTypes, ledger
    <2> QED BY <1>0, <2>1 DEF RollbackStep, OpenCircuit, AskRollback, RequestRestore, ClaimRestore, Restore, RunTypes, ledger
  <1> QED BY <1>1, <1>3, <1>4, <1>5, TypePartsNext

LEMMA ReplayTypes ==
  ASSUME TypeOK, NEW r \in Runs, ReplayApply(r) \/ \E k \in Reasons : ReplayRestore(r, k)
  PROVE  TypeOK'
  <1>0. RunTypes /\ UndoType /\ ProjectTypes /\ at \in AtType
    BY TypeParts
  <1>1. CASE ReplayApply(r)
    <2>1. at' \in AtType /\ UndoType'
      BY <1>0, <1>1 DEF ReplayApply, UndoType
    <2>2. ProjectTypes'
      BY <1>0, <1>1 DEF ReplayApply, ApplyDirection, ProjectTypes, project, Goals
    <2>3. RunTypes'
      <3>1. /\ UNCHANGED <<row, outbox, decision, dispatch, checkpoint, receipt>>
            /\ \E st \in Requested : action' = [action EXCEPT ![r].st = st]
        BY <1>1 DEF ReplayApply, ApplyDirection, Requested, ledger
      <3>2. action \in [Runs -> Action]
        BY <1>0 DEF RunTypes
      <3>3. action' \in [Runs -> Action]
        BY <3>1, <3>2 DEF Action
      <3> QED BY <1>0, <3>1, <3>3 DEF RunTypes
    <2> QED BY <2>1, <2>2, <2>3, TypePartsNext
  <1>2. ASSUME NEW k \in Reasons, ReplayRestore(r, k) PROVE TypeOK'
    <2>1. at' \in AtType
      BY <1>0, <1>2 DEF ReplayRestore
    <2>2. UndoType'
      <3>1. "submit" \in Activities
        BY DEF Activities, Drains
      <3> QED BY <1>0, <1>2, <3>1, UndoActions DEF UndoGoesOn
    <2>3. ProjectTypes'
      BY <1>0, <1>2 DEF ReplayRestore, RestoreDirection, ProjectTypes, RunTypes, project
    <2>4. RunTypes'
      BY <1>0, <1>2 DEF ReplayRestore, RunTypes, ledger
    <2> QED BY <2>1, <2>2, <2>3, <2>4, TypePartsNext
  <1> QED BY <1>1, <1>2

LEMMA PeopleTypes ==
  ASSUME TypeOK, Adjust \/ Grow \/ Govern \/ Crash \/ Replayed \/ Listen \/ UNCHANGED vars
  PROVE  TypeOK'
  <1>0. RunTypes /\ UndoType /\ ProjectTypes /\ at \in AtType
    BY TypeParts
  <1>1. at' \in AtType
    BY <1>0, IdleTyped DEF Adjust, Grow, Govern, Crash, Replayed, Listen, vars
  <1>2. UndoType'
    BY <1>0 DEF Adjust, Grow, Govern, Crash, Replayed, Listen, vars, UndoType
  <1>3. ProjectTypes'
    <2>1. CASE Adjust \/ Grow
      BY <1>0, <2>1 DEF Adjust, Grow, ProjectTypes, Goals, Event
    <2>2. CASE Govern \/ Crash
      <3>1. delegating' \in BOOLEAN
        BY <1>0, <2>2 DEF Govern, Crash, ProjectTypes
      <3>2. boot' \in {"up", "actions", "drains"}
        BY <1>0, <2>2 DEF Govern, Crash, ProjectTypes
      <3> QED BY <1>0, <2>2, <3>1, <3>2 DEF Govern, Crash, ProjectTypes, project, Event
    <2>3. CASE Replayed \/ Listen \/ UNCHANGED vars
      BY <1>0, <2>3 DEF Replayed, Listen, vars, ProjectTypes, project
    <2> QED BY <2>1, <2>2, <2>3
  <1>4. RunTypes'
    BY <1>0 DEF Adjust, Grow, Govern, Crash, Replayed, Listen, vars, RunTypes, ledger
  <1> QED BY <1>1, <1>2, <1>3, <1>4, TypePartsNext

LEMMA TypeInit == Init => TypeOK
  <1> SUFFICES ASSUME Init PROVE TypeOK
    OBVIOUS
  <1>1. NoRollback \in Rollback
    BY DEF NoRollback, Rollback, Requested
  <1>2. RunTypes /\ UndoType /\ ProjectTypes
    BY <1>1 DEF Init, RunTypes, Dispatch, Action, UndoType, ProjectTypes, Goals, Requested
  <1> QED BY <1>2, IdleTyped, TypeParts DEF Init

LEMMA TypeStep == ASSUME YellowAssumption, TypeOK, [Next]_vars PROVE TypeOK'
  <1>1. ASSUME NEW r \in Runs, Submit(r) \/ Retry(r) \/ List(r) \/ Judge(r) \/ Ask(r) \/ Override(r) PROVE TypeOK'
    BY <1>1, StartTypes
  <1>2. ASSUME NEW r \in Runs, NEW a \in Drains, DrainStep(r, a) PROVE TypeOK'
    BY <1>2, DrainTypes
  <1>3. ASSUME NEW r \in Runs, NEW a \in Activities, RollbackStep(r, a) PROVE TypeOK'
    BY <1>3, RollbackTypes
  <1>4. CASE RecoveryStep
    BY <1>4, StartTypes, ReplayTypes, PeopleTypes DEF RecoveryStep
  <1>5. CASE Adjust \/ Grow \/ Govern \/ Crash \/ UNCHANGED vars
    BY <1>5, PeopleTypes
  <1> QED BY <1>1, <1>2, <1>3, <1>4, <1>5 DEF Next

\* Whatever runs, leases, repetitions, crashes and changes there are, the rows of a
\* run, its decision, dispatch, actions and activities keep to their states.
THEOREM TypeCorrect == Spec => []TypeOK
  <1>1. [Next]_vars /\ TypeOK => TypeOK'
    BY TypeStep, YellowAssumption
  <1> QED BY <1>1, TypeInit, PTL DEF Spec

-----------------------------------------------------------------------------
(* A step of a run leaves the others alone.                                *)

OnlyRun(r) ==
    \A s \in Runs \ {r} :
        /\ row'[s] = row[s] /\ outbox'[s] = outbox[s]
        /\ decision'[s] = decision[s] /\ dispatch'[s] = dispatch[s]
        /\ checkpoint'[s] = checkpoint[s] /\ action'[s] = action[s]
        /\ \A a \in Activities : at'[s][a] = at[s][a]
        /\ \A k \in Reasons : undo'[s][k] = undo[s][k]

StartStep(r) == Submit(r) \/ Retry(r) \/ List(r) \/ Judge(r) \/ Ask(r) \/ Override(r) \/ DrainNext(r)

ReplayStep(r) == ReplayApply(r) \/ \E k \in Reasons : ReplayRestore(r, k)

RunStep(r) ==
    \/ StartStep(r)
    \/ ReplayStep(r)
    \/ \E a \in Drains : DrainStep(r, a)
    \/ \E a \in Activities : RollbackStep(r, a)

CompanyStep == Adjust \/ Grow \/ Govern \/ Crash \/ Replayed \/ Listen

LEMMA Steppings == [Next]_vars <=> (\E r \in Runs : RunStep(r)) \/ CompanyStep \/ UNCHANGED vars
  <1>1. [Next]_vars => (\E r \in Runs : RunStep(r)) \/ CompanyStep \/ UNCHANGED vars
    BY DEF Next, RecoveryStep, RunStep, StartStep, ReplayStep, CompanyStep
  <1>2. (\E r \in Runs : RunStep(r)) \/ CompanyStep \/ UNCHANGED vars => [Next]_vars
    BY DEF Next, RecoveryStep, RunStep, StartStep, ReplayStep, CompanyStep
  <1> QED BY <1>1, <1>2

LEMMA DrainIsOfOne ==
  ASSUME TypeOK, YellowAssumption, NEW r \in Runs, NEW a \in Drains, DrainStep(r, a)
  PROVE  Others(r, a)
  <1>0. RunTypes /\ at \in AtType /\ a \in Activities
    BY TypeParts DEF Activities
  <1>1. CASE Begin(r, a)
    BY <1>0, <1>1, BeginWent DEF Went
  <1>2. CASE Execute(r, a)
    BY <1>0, <1>2, ExecuteWent DEF Went
  <1> QED BY <1>0, <1>1, <1>2, DrainWent DEF DrainStep, Went

\* What a step does to at is about one activity of the run.
LEMMA AtOfRun ==
  ASSUME TypeOK, YellowAssumption, NEW r \in Runs, RunStep(r)
  PROVE  \A s \in Runs \ {r}, a \in Activities : at'[s][a] = at[s][a]
  <1>0. RunTypes /\ UndoType /\ ProjectTypes /\ at \in AtType /\ Drains \subseteq Activities
    BY TypeParts DEF Activities
  <1>1. ASSUME StartStep(r) PROVE UNCHANGED at \/ \E a \in Activities : Others(r, a)
    <2>1. {"submit", "retry", "check", "human"} \subseteq Activities
      BY DEF Activities, Drains
    <2> QED BY <1>0, <1>1, <2>1, StartWent DEF StartStep, Override, Went
  <1>2. ReplayStep(r) => UNCHANGED at
    BY DEF ReplayStep, ReplayApply, ReplayRestore
  <1>3. ASSUME NEW a \in Drains, DrainStep(r, a) PROVE Others(r, a)
    BY <1>3, DrainIsOfOne
  <1>4. ASSUME NEW a \in Activities, RollbackStep(r, a) PROVE Others(r, a)
    BY <1>0, <1>4, RollbackWent, FailWent DEF RollbackStep, Went
  <1> QED BY <1>0, <1>1, <1>2, <1>3, <1>4 DEF RunStep, Others

LEMMA RunStepIsItsOwn ==
  ASSUME TypeOK, YellowAssumption, NEW r \in Runs, RunStep(r)
  PROVE  OnlyRun(r)
  <1>0. RunTypes /\ UndoType /\ ProjectTypes /\ at \in AtType
    BY TypeParts
  <1>1. \A s \in Runs \ {r}, a \in Activities : at'[s][a] = at[s][a]
    BY AtOfRun
  <1>2. \A s \in Runs \ {r}, k \in Reasons : undo'[s][k] = undo[s][k]
    <2>1. {"submit", "human"} \subseteq Activities /\ {"human", "entry"} \subseteq Reasons
      BY DEF Activities, Drains, Reasons
    <2>2. \A a \in Activities : at[r][a].why \in Reasons
      BY <1>0 DEF AtType, Activity
    <2>3. ASSUME StartStep(r) PROVE UNCHANGED undo \/ OthersKept(r, "human")
      BY <1>0, <2>1, <2>3, UndoActions
         DEF StartStep, Submit, Retry, List, Judge, Override, DrainNext, UndoGoesOn
    <2>4. ASSUME ReplayStep(r) PROVE UNCHANGED undo \/ \E k \in Reasons : OthersKept(r, k)
      BY <1>0, <2>1, <2>4, UndoActions DEF ReplayStep, ReplayApply, UndoGoesOn
    <2>5. ASSUME NEW a \in Drains, DrainStep(r, a) PROVE UNCHANGED undo
      BY <2>5 DEF DrainStep, Begin, Process, Request, Claim, Apply, Record, Complete, Execute, Conclude, Close
    <2>6. ASSUME NEW a \in Activities, RollbackStep(r, a) PROVE UNCHANGED undo \/ OthersKept(r, at[r][a].why)
      <3>1. CASE Fail(r, a) \/ OpenCircuit(r, a) \/ RollbackLedger(r, a)
        BY <3>1 DEF Fail, OpenCircuit, RollbackLedger
      <3>2. CASE AskRollback(r, a) \/ RequestRestore(r, a) \/ ClaimRestore(r, a) \/ Restore(r, a) \/ RollbackResult(r, a)
        BY <1>0, <2>2, <3>2, UndoActions DEF Restore, UndoGoesOn
      <3> QED BY <2>6, <3>1, <3>2 DEF RollbackStep
    <2> QED BY <2>1, <2>2, <2>3, <2>4, <2>5, <2>6 DEF RunStep, OthersKept
  <1>3. \A s \in Runs \ {r} : row'[s] = row[s] /\ outbox'[s] = outbox[s] /\ decision'[s] = decision[s]
    <2>1. ASSUME StartStep(r) PROVE \A s \in Runs \ {r} : row'[s] = row[s] /\ outbox'[s] = outbox[s] /\ decision'[s] = decision[s]
      BY <1>0, <2>1 DEF StartStep, Submit, Retry, List, Judge, Ask, Override, DrainNext, ledger, RunTypes
    <2>2. ReplayStep(r) => UNCHANGED <<row, outbox, decision>>
      BY DEF ReplayStep, ReplayApply, ReplayRestore, ledger
    <2>3. ASSUME NEW a \in Drains, DrainStep(r, a)
          PROVE  \A s \in Runs \ {r} : row'[s] = row[s] /\ outbox'[s] = outbox[s] /\ decision'[s] = decision[s]
      BY <1>0, <2>3 DEF DrainStep, Begin, Process, Request, Claim, Apply, Record, Complete, Execute, Conclude, Close, ledger, RunTypes
    <2>4. ASSUME NEW a \in Activities, RollbackStep(r, a)
          PROVE  \A s \in Runs \ {r} : row'[s] = row[s] /\ outbox'[s] = outbox[s] /\ decision'[s] = decision[s]
      BY <1>0, <2>4 DEF RollbackStep, Fail, OpenCircuit, AskRollback, RequestRestore, ClaimRestore, Restore,
          RollbackResult, RollbackLedger, ledger, RunTypes
    <2> QED BY <2>1, <2>2, <2>3, <2>4 DEF RunStep
  <1>4. \A s \in Runs \ {r} : dispatch'[s] = dispatch[s] /\ checkpoint'[s] = checkpoint[s] /\ action'[s] = action[s]
    <2>1. ASSUME StartStep(r)
          PROVE  \A s \in Runs \ {r} : dispatch'[s] = dispatch[s] /\ checkpoint'[s] = checkpoint[s] /\ action'[s] = action[s]
      BY <1>0, <2>1 DEF StartStep, Submit, Retry, List, Judge, Ask, Override, DrainNext, ledger, RunTypes
    <2>2. ASSUME ReplayStep(r)
          PROVE  \A s \in Runs \ {r} : dispatch'[s] = dispatch[s] /\ checkpoint'[s] = checkpoint[s] /\ action'[s] = action[s]
      BY <1>0, <2>2 DEF ReplayStep, ReplayApply, ReplayRestore, ApplyDirection, ledger, RunTypes
    <2>3. ASSUME NEW a \in Drains, DrainStep(r, a)
          PROVE  \A s \in Runs \ {r} : dispatch'[s] = dispatch[s] /\ checkpoint'[s] = checkpoint[s] /\ action'[s] = action[s]
      <3>1. \A s \in Runs \ {r} : dispatch'[s] = dispatch[s]
        BY <1>0, <2>3 DEF DrainStep, Begin, Process, Request, Claim, Apply, Record, Complete, Execute, Conclude, Close,
            Resolved, ledger, RunTypes
      <3>2. \A s \in Runs \ {r} : checkpoint'[s] = checkpoint[s] /\ action'[s] = action[s]
        BY <1>0, <2>3 DEF DrainStep, Begin, Process, Request, Claim, Apply, ApplyDirection, Record, Complete, Execute,
            Conclude, Close, RunTypes
      <3> QED BY <3>1, <3>2
    <2>4. ASSUME NEW a \in Activities, RollbackStep(r, a) PROVE UNCHANGED <<dispatch, checkpoint, action>>
      BY <2>4 DEF RollbackStep, Fail, OpenCircuit, AskRollback, RequestRestore, ClaimRestore, Restore,
          RollbackResult, RollbackLedger, ledger
    <2> QED BY <2>1, <2>2, <2>3, <2>4 DEF RunStep
  <1> QED BY <1>1, <1>2, <1>3, <1>4 DEF OnlyRun

-----------------------------------------------------------------------------
(* What a run has comes from its submit, and its checkpoint is of a version *)
(* of the project; once it was restored, of an earlier one.                *)

EntryOf(r) ==
    /\ outbox[r] # "none" => row[r] # "none"
    /\ \A k \in Reasons : undo[r][k].st # "none" => row[r] # "none"
    /\ \A a \in Activities : at[r][a].step # "idle" => row[r] # "none"
    /\ checkpoint[r].ver <= version
    /\ \A k \in Reasons : undo[r][k].st = "applied" => checkpoint[r].ver < version

\* The project goes on, never back.
LEMMA VersionGrows ==
  ASSUME TypeOK, [Next]_vars
  PROVE  version' = version \/ version' = version + 1
  <1>1. ASSUME NEW r \in Runs, RunStep(r) PROVE version' = version \/ version' = version + 1
    <2>1. StartStep(r) => UNCHANGED version
      BY DEF StartStep, Submit, Retry, List, Judge, Ask, Override, DrainNext, project
    <2>2. ReplayStep(r) => version' = version \/ version' = version + 1
      BY DEF ReplayStep, ReplayApply, ReplayRestore, ApplyDirection, RestoreDirection, project
    <2>3. ASSUME NEW a \in Drains, DrainStep(r, a) PROVE version' = version \/ version' = version + 1
      BY <2>3 DEF DrainStep, Begin, Process, Request, Claim, Apply, ApplyDirection, Record, Complete, Execute,
          Conclude, Close, project
    <2>4. ASSUME NEW a \in Activities, RollbackStep(r, a) PROVE version' = version \/ version' = version + 1
      BY <2>4 DEF RollbackStep, Fail, OpenCircuit, AskRollback, RequestRestore, ClaimRestore, Restore, RestoreDirection,
          RollbackResult, RollbackLedger, project
    <2> QED BY <1>1, <2>1, <2>2, <2>3, <2>4 DEF RunStep
  <1>2. CompanyStep \/ UNCHANGED vars => version' = version \/ version' = version + 1
    BY DEF CompanyStep, Adjust, Grow, Govern, Crash, Replayed, Listen, vars, project
  <1> QED BY <1>1, <1>2, Steppings

\* A rollback is applied only with a new version of the project.
LEMMA RestoredMeansNew ==
  ASSUME TypeOK, NEW r \in Runs, RunStep(r), NEW k \in Reasons, undo'[r][k].st = "applied"
  PROVE  undo[r][k].st = "applied" \/ version' = version + 1
  <1>0. RunTypes /\ UndoType /\ ProjectTypes /\ at \in AtType
    BY TypeParts
  <1>1. {"submit", "human"} \subseteq Activities /\ "human" \in Reasons /\ \A a \in Activities : at[r][a].why \in Reasons
    BY <1>0 DEF Activities, Drains, Reasons, AtType, Activity
  <1>2. CASE StartStep(r)
    <2>1. CASE Ask(r)
      BY <1>0, <1>1, <2>1, UndoActions DEF UndoGoesOn, OthersKept
    <2> QED BY <1>2, <2>1 DEF StartStep, Submit, Retry, List, Judge, Override, DrainNext
  <1>3. CASE ReplayStep(r)
    <2>1. CASE ReplayApply(r)
      BY <2>1 DEF ReplayApply
    <2>2. ASSUME NEW l \in Reasons, ReplayRestore(r, l) PROVE undo[r][k].st = "applied" \/ version' = version + 1
      <3>1. RestoreDirection(r, l) => version' = version + 1 \/ MovesUndo(r, l, "rejected")
        BY DEF RestoreDirection, MovesUndo
      <3>2. version' = version + 1 \/ MovesUndo(r, l, "claimed") \/ MovesUndo(r, l, "rejected")
        BY <2>2, <3>1 DEF ReplayRestore, MovesUndo
      <3>3. {"claimed", "rejected"} \subseteq Requested \cup {"asked"}
        BY DEF Requested
      <3> QED BY <1>0, <3>2, <3>3, UndoMoves DEF UndoGoesOn, OthersKept
    <2> QED BY <1>3, <2>1, <2>2 DEF ReplayStep
  <1>4. ASSUME NEW a \in Drains, DrainStep(r, a) PROVE UNCHANGED undo
    BY <1>4 DEF DrainStep, Begin, Process, Request, Claim, Apply, Record, Complete, Execute, Conclude, Close
  <1>5. ASSUME NEW a \in Activities, RollbackStep(r, a) PROVE undo[r][k].st = "applied" \/ version' = version + 1
    <2>1. CASE Fail(r, a) \/ OpenCircuit(r, a) \/ RollbackLedger(r, a)
      BY <2>1 DEF Fail, OpenCircuit, RollbackLedger
    <2>2. CASE AskRollback(r, a) \/ RequestRestore(r, a) \/ ClaimRestore(r, a) \/ RollbackResult(r, a)
      BY <1>0, <1>1, <2>2, UndoActions DEF UndoGoesOn, OthersKept
    <2>3. CASE Restore(r, a)
      <3> DEFINE l == at[r][a].why
      <3>1. version' = version + 1 \/ MovesUndo(r, l, "rejected")
        BY <2>3 DEF Restore, RestoreDirection, MovesUndo
      <3>2. "rejected" \in Requested \cup {"asked"} /\ l \in Reasons
        BY <1>1 DEF Requested
      <3> HIDE DEF l
      <3> QED BY <1>0, <3>1, <3>2, UndoMoves DEF UndoGoesOn, OthersKept
    <2> QED BY <1>5, <2>1, <2>2, <2>3 DEF RollbackStep
  <1> QED BY <1>2, <1>3, <1>4, <1>5 DEF RunStep

LEMMA CheckpointIsOfSubmit ==
  ASSUME NEW r \in Runs, RunStep(r), ~ Submit(r)
  PROVE  UNCHANGED checkpoint
  BY DEF RunStep, StartStep, Retry, List, Judge, Ask, Override, DrainNext, ReplayStep, ReplayApply, ReplayRestore,
         DrainStep, Begin, Process, Request, Claim, Apply, Record, Complete, Execute, Conclude, Close,
         RollbackStep, Fail, OpenCircuit, AskRollback, RequestRestore, ClaimRestore, Restore, RollbackResult, RollbackLedger

\* What a run does, but to be overridden or replayed, it does with its row.
LEMMA RowIsThere ==
  ASSUME TypeOK, NEW r \in Runs, RunStep(r), EntryOf(r), ~ Override(r), ~ ReplayApply(r)
  PROVE  row'[r] # "none"
  <1>0. RunTypes /\ UndoType /\ ProjectTypes /\ at \in AtType
    BY TypeParts
  <1>1. CASE StartStep(r)
    <2>1. {"submit", "retry", "check", "human"} \subseteq Activities
      BY DEF Activities, Drains
    <2>2. CASE Submit(r)
      BY <1>0, <2>2 DEF Submit, RunTypes
    <2>3. CASE Judge(r)
      BY <1>0, <2>1, <2>3 DEF Judge, At, EntryOf, RunTypes
    <2>4. CASE Retry(r) \/ List(r) \/ Ask(r) \/ DrainNext(r)
      BY <2>4 DEF Retry, List, Ask, DrainNext, ToDrain, EntryOf
    <2> QED BY <1>1, <2>2, <2>3, <2>4 DEF StartStep
  <1>2. ASSUME NEW k \in Reasons, ReplayRestore(r, k) PROVE row'[r] # "none"
    BY <1>2 DEF ReplayRestore, EntryOf
  <1>3. ASSUME NEW a \in Drains, DrainStep(r, a) PROVE row'[r] # "none"
    <2>1. at[r][a].step # "idle" /\ (UNCHANGED row \/ row' = [row EXCEPT ![r] = "outcome_pending"])
      BY <1>3 DEF DrainStep, Begin, Process, Request, Claim, Apply, Record, Complete, Execute, Conclude, Close, At
    <2>2. a \in Activities
      BY DEF Activities
    <2> QED BY <1>0, <2>1, <2>2 DEF EntryOf, RunTypes
  <1>4. ASSUME NEW a \in Activities, RollbackStep(r, a) PROVE row'[r] # "none"
    <2>1. /\ at[r][a].step # "idle"
          /\ UNCHANGED row \/ row' = [row EXCEPT ![r] = "failed"] \/ row' = [row EXCEPT ![r] = "rolled_back"]
      BY <1>4 DEF RollbackStep, Fail, OpenCircuit, AskRollback, RequestRestore, ClaimRestore, Restore, RollbackResult,
                  RollbackLedger, At
    <2> QED BY <1>0, <2>1 DEF EntryOf, RunTypes
  <1> QED BY <1>1, <1>2, <1>3, <1>4 DEF RunStep, ReplayStep

LEMMA EntryStep ==
  ASSUME TypeOK, TypeOK', NEW r \in Runs, RunStep(r), EntryOf(r)
  PROVE  EntryOf(r)'
  <1>0. RunTypes /\ UndoType /\ ProjectTypes /\ RunTypes' /\ version' \in Nat
    BY TypeParts, TypePartsNext DEF ProjectTypes
  <1>1. version \in Nat /\ checkpoint[r].ver \in Nat /\ (version' = version \/ version' = version + 1)
    BY <1>0, VersionGrows, Steppings DEF RunTypes, ProjectTypes
  <1>2. CASE Submit(r)
    <2>1. /\ row[r] = "none" /\ UNCHANGED <<undo, version>>
          /\ checkpoint'[r] = checkpoint[r] \/ checkpoint'[r].ver = version
      BY <1>0, <1>2 DEF Submit, project, RunTypes
    <2>2. row'[r] # "none"
      BY <1>0, <1>2 DEF Submit, RunTypes
    <2> QED BY <1>1, <2>1, <2>2 DEF EntryOf
  <1>3. CASE Override(r) \/ ReplayApply(r)
    <2>1. UNCHANGED <<row, outbox, undo, checkpoint, at>>
      BY <1>3 DEF Override, ReplayApply
    <2> QED BY <1>1, <2>1 DEF EntryOf
  <1>4. CASE ~ Submit(r) /\ ~ Override(r) /\ ~ ReplayApply(r)
    <2>1. row'[r] # "none" /\ UNCHANGED checkpoint
      BY <1>4, RowIsThere, CheckpointIsOfSubmit
    <2>2. \A k \in Reasons : undo'[r][k].st = "applied" => undo[r][k].st = "applied" \/ version' = version + 1
      BY RestoredMeansNew
    <2> QED BY <1>1, <2>1, <2>2 DEF EntryOf
  <1> QED BY <1>2, <1>3, <1>4

-----------------------------------------------------------------------------
(* What says that a direction was applied is right: the steps that follow,  *)
(* the outbox, the dispatch and the decision.                              *)

ApplyAt(r, step) ==
    /\ step = "look" => outbox[r] # "none"
    /\ step = "apply" => action[r].st = "claimed"
    /\ step \in {"record", "complete", "execute"} => action[r].st = "applied"
    /\ step = "execute" => dispatch[r].st = "completed" /\ dispatch[r].receipt # "failed"

ApplyRow(r) ==
    /\ outbox[r] = "processed" => action[r].st = "applied"
    /\ dispatch[r].st = "completed" /\ dispatch[r].receipt # "failed" => action[r].st = "applied"
    /\ decision[r] = "executed" =>
         action[r].st = "applied" /\ dispatch[r].st = "completed" /\ dispatch[r].receipt # "failed"

ApplyOf(r) ==
    /\ boot = "actions" => \A a \in Activities : at[r][a].step = "idle"
    /\ \A a \in Activities : ApplyAt(r, at[r][a].step)
    /\ ApplyRow(r)

LEMMA OthersWait ==
  ASSUME NEW r \in Runs, NEW a \in Activities, Turn(r, a), NEW b \in Activities, b # a
  PROVE  at[r][b].step \notin {"apply", "record", "complete", "execute"}
  <1>1. at[r][b].step \in Waits
    BY DEF Turn
  <1> QED BY <1>1 DEF Waits

\* A step of one activity among those that wait.
LEMMA ApplyOfOne ==
  ASSUME NEW r \in Runs, NEW a \in Activities, Turn(r, a), ApplyOf(r), Others(r, a),
         at[r][a].step # "idle", boot' = boot,
         outbox[r] # "none" => outbox'[r] # "none",
         ApplyAt(r, at[r][a].step)', ApplyRow(r)'
  PROVE  ApplyOf(r)'
  <1>1. boot' # "actions"
    BY DEF ApplyOf
  <1>2. ASSUME NEW b \in Activities, b # a PROVE ApplyAt(r, at[r][b].step)'
    <2>1. at'[r][b].step = at[r][b].step
      BY <1>2 DEF Others
    <2>2. at[r][b].step \notin {"apply", "record", "complete", "execute"}
      BY <1>2, OthersWait
    <2>3. at[r][b].step = "look" => outbox[r] # "none"
      BY DEF ApplyOf, ApplyAt
    <2> QED BY <2>1, <2>2, <2>3 DEF ApplyAt
  <1> QED BY <1>1, <1>2 DEF ApplyOf

LEMMA ApplyDrain ==
  ASSUME TypeOK, TypeOK', YellowAssumption, NEW r \in Runs, NEW a \in Drains, DrainStep(r, a), ApplyOf(r)
  PROVE  ApplyOf(r)'
  <1>0. RunTypes /\ ProjectTypes /\ at \in AtType /\ a \in Activities /\ Turn(r, a)
    BY TypeParts DEF Activities, DrainStep
  <1>1. at[r][a].step # "idle" /\ boot' = boot
    BY DEF DrainStep, Begin, Process, Request, Claim, Apply, Record, Complete, Execute, Conclude, Close, At
  <1>2. ApplyAt(r, at[r][a].step) /\ ApplyRow(r)
    BY <1>0 DEF ApplyOf
  <1>3. outbox[r] \in {"none", "pending", "processed", "failed"}
    BY <1>0 DEF RunTypes
  <1>4. CASE Begin(r, a)
    <2>1. outbox[r] # "none" /\ UNCHANGED action
      BY <1>2, <1>4 DEF Begin, At, ApplyAt
    <2>2. CASE dispatch[r].st = "completed" /\ UNCHANGED dispatch
      <3>1. Went(r, a, {"done"})
        BY <1>0, <1>4, <2>2, BeginWent
      <3>2. /\ outbox'[r] = outbox[r] \/ outbox'[r] = IF EndedBadly(r) THEN "failed" ELSE "processed"
            /\ decision'[r] = decision[r] \/ decision'[r] = IF EndedBadly(r) THEN "failed" ELSE "executed"
        BY <1>0, <1>4, <2>2 DEF Begin, RunTypes, Leases
      <3>3. ApplyRow(r)'
        BY <1>2, <2>1, <2>2, <3>2 DEF ApplyRow, EndedBadly
      <3> QED BY <1>0, <1>1, <2>1, <3>1, <3>2, <3>3, ApplyOfOne DEF Went, ApplyAt
    <2>3. ASSUME NEW lease \in Leases(r), UNCHANGED <<outbox, decision>>,
                 dispatch' = [dispatch EXCEPT ![r].st = "claimed", ![r].lease = lease]
          PROVE  ApplyOf(r)'
      <3>1. dispatch[r].st # "completed" /\ dispatch'[r].st = "claimed"
        BY <1>0, <2>3 DEF Leases, RunTypes, Dispatch
      <3>2. Others(r, a) /\ at'[r][a].step \in {"process", "fail"}
        BY <1>0, <1>4, <3>1, BeginWent
      <3>3. ApplyRow(r)'
        BY <1>2, <2>1, <2>3, <3>1 DEF ApplyRow
      <3> QED BY <1>0, <1>1, <2>3, <3>2, <3>3, ApplyOfOne DEF ApplyAt
    <2>4. ASSUME NEW lease \in Leases(r), UNCHANGED <<outbox, decision>>, outbox[r] # "pending",
                 dispatch' = Resolved(r, lease, outbox[r])
          PROVE  ApplyOf(r)'
      <3>1. dispatch[r].st # "completed" /\ dispatch'[r].st = "completed" /\ dispatch'[r].receipt = outbox[r]
        BY <1>0, <2>4 DEF Leases, RunTypes, Dispatch, Resolved
      <3>2. Others(r, a) /\ at'[r][a].step = "done"
        BY <1>0, <1>4, <3>1, BeginWent DEF Went
      <3>3. ApplyRow(r)'
        BY <1>2, <1>3, <2>1, <2>4, <3>1 DEF ApplyRow
      <3> QED BY <1>0, <1>1, <2>4, <3>2, <3>3, ApplyOfOne DEF ApplyAt
    <2> QED BY <1>4, <2>2, <2>3, <2>4 DEF Begin
  <1>5. CASE Process(r, a)
    <2>1. Went(r, a, {"request", "fail"}) /\ UNCHANGED <<outbox, decision, dispatch, action>>
      BY <1>0, <1>5, DrainWent DEF Process, ledger
    <2> QED BY <1>0, <1>1, <1>2, <2>1, ApplyOfOne DEF Went, ApplyAt, ApplyRow
  <1>6. CASE Request(r, a)
    <2>1. Went(r, a, {"claim", "fail"}) /\ UNCHANGED <<outbox, decision, dispatch>>
      BY <1>0, <1>6, DrainWent DEF Request, ledger
    <2>2. UNCHANGED action \/ action[r].st = "none"
      BY <1>6 DEF Request
    <2> QED BY <1>0, <1>1, <1>2, <2>1, <2>2, ApplyOfOne DEF Went, ApplyAt, ApplyRow
  <1>7. CASE Claim(r, a)
    <2>1. Others(r, a) /\ UNCHANGED <<outbox, decision, dispatch>>
      BY <1>0, <1>7, DrainWent DEF Claim, Went, ledger
    <2>2. {"apply", "fail"} \subseteq Steps
      BY DEF Steps, GoesOn
    <2>3. \/ UNCHANGED action /\ Goto(r, a, "fail")
          \/ UNCHANGED action /\ action[r].st = "claimed" /\ Goto(r, a, "apply")
          \/ action[r].st = "requested" /\ action' = [action EXCEPT ![r].st = "claimed"] /\ Goto(r, a, "apply")
          \/ action[r].st = "requested" /\ action' = [action EXCEPT ![r].st = "rejected"] /\ Goto(r, a, "fail")
      BY <1>7 DEF Claim
    <2>4. \/ UNCHANGED action /\ at'[r][a].step = "fail"
          \/ UNCHANGED action /\ action[r].st = "claimed" /\ at'[r][a].step = "apply"
          \/ action[r].st = "requested" /\ action'[r].st = "claimed" /\ at'[r][a].step = "apply"
          \/ action[r].st = "requested" /\ at'[r][a].step = "fail"
      BY <1>0, <2>2, <2>3, GotoWent DEF RunTypes, Action
    <2> QED BY <1>0, <1>1, <1>2, <2>1, <2>4, ApplyOfOne DEF ApplyAt, ApplyRow
  <1>8. CASE Apply(r, a)
    <2>1. Others(r, a) /\ UNCHANGED <<outbox, decision, dispatch>> /\ action[r].st = "claimed"
      BY <1>0, <1>2, <1>8, DrainWent DEF Apply, At, ApplyAt, Went, ledger
    <2>2. {"record", "fail"} \subseteq Steps
      BY DEF Steps, GoesOn
    <2>3. IF action'[r].st = "applied" THEN Goto(r, a, "record") ELSE Goto(r, a, "fail")
      BY <1>8 DEF Apply
    <2>4. at'[r][a].step = IF action'[r].st = "applied" THEN "record" ELSE "fail"
      BY <1>0, <2>2, <2>3, GotoWent
    <2> QED BY <1>0, <1>1, <1>2, <2>1, <2>4, ApplyOfOne DEF ApplyAt, ApplyRow
  <1>9. CASE Record(r, a)
    <2>1. /\ Went(r, a, {"complete", "fail"}) /\ UNCHANGED <<decision, dispatch, action>> /\ action[r].st = "applied"
          /\ outbox' = outbox \/ outbox' = [outbox EXCEPT ![r] = "processed"]
      BY <1>0, <1>2, <1>9, DrainWent DEF Record, At, ApplyAt, ledger
    <2>2. outbox[r] # "none" => outbox'[r] # "none"
      BY <1>0, <2>1 DEF RunTypes
    <2> QED BY <1>0, <1>1, <1>2, <2>1, <2>2, ApplyOfOne DEF Went, ApplyAt, ApplyRow
  <1>10. CASE Complete(r, a)
    <2>1. Others(r, a) /\ UNCHANGED <<outbox, decision, action>> /\ action[r].st = "applied"
      BY <1>0, <1>2, <1>10, DrainWent DEF Complete, At, ApplyAt, Went
    <2>2. {"execute", "thrown"} \subseteq Steps
      BY DEF Steps, Waits, GoesOn
    <2>3. \/ dispatch' = Resolved(r, at[r][a].lease, "mutation") /\ Goto(r, a, "execute")
          \/ UNCHANGED dispatch /\ Goto(r, a, "thrown")
      BY <1>10 DEF Complete
    <2>4. \/ dispatch'[r].st = "completed" /\ dispatch'[r].receipt = "mutation" /\ at'[r][a].step = "execute"
          \/ UNCHANGED dispatch /\ at'[r][a].step = "thrown"
      BY <1>0, <2>2, <2>3, GotoWent DEF Resolved, RunTypes
    <2> QED BY <1>0, <1>1, <1>2, <2>1, <2>4, ApplyOfOne DEF ApplyAt, ApplyRow
  <1>11. CASE Execute(r, a)
    <2>1. /\ Others(r, a) /\ at'[r][a].step \in {"done", "thrown", "fail"}
      BY <1>0, <1>11, ExecuteWent DEF Went
    <2>2. UNCHANGED <<outbox, dispatch, action>>
      BY <1>11 DEF Execute
    <2>3. action[r].st = "applied" /\ dispatch[r].st = "completed" /\ dispatch[r].receipt # "failed"
      BY <1>2, <1>11 DEF Execute, At, ApplyAt
    <2> QED BY <1>0, <1>1, <1>2, <2>1, <2>2, <2>3, ApplyOfOne DEF ApplyAt, ApplyRow
  <1>12. CASE Conclude(r, a)
    <2>1. /\ Went(r, a, {"close"}) /\ UNCHANGED <<outbox, dispatch, action>>
          /\ decision'[r] = decision[r] \/ decision'[r] = "failed"
      BY <1>0, <1>12, DrainWent DEF Conclude, RunTypes
    <2> QED BY <1>0, <1>1, <1>2, <2>1, ApplyOfOne DEF Went, ApplyAt, ApplyRow
  <1>13. CASE Close(r, a)
    <2>1. Went(r, a, {"done", "thrown"}) /\ UNCHANGED <<outbox, decision, action>>
      BY <1>0, <1>13, DrainWent DEF Close
    <2>2. \/ UNCHANGED dispatch
          \/ /\ dispatch[r].st = "claimed" \/ dispatch[r].receipt = "failed"
             /\ dispatch'[r].st = "completed" /\ dispatch'[r].receipt = "failed"
      BY <1>0, <1>13 DEF Close, MayResolve, Resolved, RunTypes
    <2> QED BY <1>0, <1>1, <1>2, <2>1, <2>2, ApplyOfOne DEF Went, ApplyAt, ApplyRow
  <1> QED BY <1>4, <1>5, <1>6, <1>7, <1>8, <1>9, <1>10, <1>11, <1>12, <1>13 DEF DrainStep

LEMMA ApplyRollback ==
  ASSUME TypeOK, TypeOK', NEW r \in Runs, NEW a \in Activities, RollbackStep(r, a), ApplyOf(r)
  PROVE  ApplyOf(r)'
  <1>0. RunTypes /\ at \in AtType /\ Turn(r, a) /\ ApplyRow(r)
    BY TypeParts DEF RollbackStep, ApplyOf
  <1>1. /\ at[r][a].step # "idle"
        /\ UNCHANGED <<boot, dispatch, action>>
        /\ outbox' = outbox \/ outbox' = [outbox EXCEPT ![r] = "failed"]
        /\ decision' = decision \/ decision' = [decision EXCEPT ![r] = "rolled_back"]
    BY DEF RollbackStep, Fail, OpenCircuit, AskRollback, RequestRestore, ClaimRestore, Restore, RollbackResult,
           RollbackLedger, At, ledger
  <1>2. /\ outbox'[r] = outbox[r] \/ outbox'[r] = "failed"
        /\ decision'[r] = decision[r] \/ decision'[r] = "rolled_back"
    BY <1>0, <1>1 DEF RunTypes
  <1>3. Others(r, a) /\ at'[r][a].step \notin {"look", "apply", "record", "complete", "execute"}
    BY <1>0, RollbackWent, FailWent, AfterStep DEF RollbackStep, Went
  <1>4. ApplyAt(r, at[r][a].step)'
    BY <1>3 DEF ApplyAt
  <1>5. ApplyRow(r)'
    BY <1>0, <1>1, <1>2 DEF ApplyRow
  <1> QED BY <1>0, <1>1, <1>2, <1>3, <1>4, <1>5, ApplyOfOne

\* Submit finds a run that has nothing yet.
LEMMA ApplySubmit ==
  ASSUME TypeOK, TypeOK', NEW r \in Runs, Submit(r), EntryOf(r), ApplyOf(r)
  PROVE  ApplyOf(r)'
  <1>0. RunTypes /\ at \in AtType
    BY TypeParts
  <1>1. \A a \in Activities : at[r][a].step = "idle"
    BY DEF Submit, EntryOf
  <1>2. CASE UNCHANGED <<outbox, ledger, at>>
    BY <1>2 DEF Submit, ApplyOf, ApplyAt, ApplyRow, ledger
  <1>3. CASE ~ UNCHANGED <<outbox, ledger, at>>
    <2>1. /\ outbox' = [outbox EXCEPT ![r] = "pending"]
          /\ decision' = [decision EXCEPT ![r] = "accepted"]
          /\ dispatch' = [dispatch EXCEPT ![r].st = "committed"]
          /\ Goto(r, "submit", "look")
          /\ UNCHANGED <<action, boot>> /\ boot = "up"
      BY <1>3 DEF Submit, Free
    <2>2. outbox'[r] = "pending" /\ decision'[r] = "accepted" /\ dispatch'[r].st = "committed"
      BY <1>0, <2>1 DEF RunTypes, Dispatch
    <2>3. "submit" \in Activities /\ "look" \in Steps
      BY DEF Activities, Drains, Steps, Waits
    <2>4. Others(r, "submit") /\ at'[r]["submit"].step = "look"
      BY <1>0, <2>1, <2>3, GotoWent DEF Went
    <2>5. \A a \in Activities : at'[r][a].step \in {"idle", "look"}
      BY <1>1, <2>4 DEF Others
    <2> QED BY <2>1, <2>2, <2>5 DEF ApplyOf, ApplyAt, ApplyRow
  <1> QED BY <1>2, <1>3

LEMMA ApplyStart ==
  ASSUME TypeOK, TypeOK', NEW r \in Runs, StartStep(r), EntryOf(r), ApplyOf(r)
  PROVE  ApplyOf(r)'
  <1>0. RunTypes /\ at \in AtType
    BY TypeParts
  <1>1. CASE Submit(r)
    BY <1>1, ApplySubmit
  <1>2. CASE Override(r)
    <2>1. UNCHANGED <<outbox, dispatch, action, at, boot>> /\ decision'[r] = "overridden"
      BY <1>0, <1>2 DEF Override, RunTypes
    <2> QED BY <2>1 DEF ApplyOf, ApplyAt, ApplyRow
  <1>3. CASE Retry(r) \/ List(r) \/ Judge(r) \/ Ask(r) \/ DrainNext(r)
    <2>1. UNCHANGED <<outbox, decision, dispatch, action, boot>>
      BY <1>3 DEF Retry, List, Judge, Ask, DrainNext, ledger
    <2>2. {"submit", "retry", "check", "human"} \subseteq Activities
      BY DEF Activities, Drains
    <2>3. boot # "actions"
      BY <1>3, <2>2 DEF Retry, List, Judge, Ask, DrainNext, Free, At, ApplyOf
    <2>4. \E b \in Activities : /\ Others(r, b)
                                /\ at'[r][b].step \in {"look", "judge", "idle", "fail", "restore"}
                                /\ at'[r][b].step = "look" => outbox[r] # "none"
      <3>1. CASE Retry(r) \/ DrainNext(r)
        BY <1>0, <2>2, <3>1, StartWent DEF Went, Retry, DrainNext, ToDrain
      <3>2. CASE List(r) \/ Judge(r) \/ Ask(r)
        BY <1>0, <2>2, <3>2, StartWent DEF Went
      <3> QED BY <1>3, <3>1, <3>2
    <2>5. \A a \in Activities : ApplyAt(r, at[r][a].step)
      BY DEF ApplyOf
    <2>6. \A a \in Activities : ApplyAt(r, at[r][a].step)'
      BY <2>1, <2>4, <2>5 DEF ApplyAt, Others
    <2> QED BY <2>1, <2>3, <2>6 DEF ApplyOf, ApplyRow
  <1> QED BY <1>1, <1>2, <1>3 DEF StartStep

\* A replay takes up an action that is not closed, so nobody says it was applied.
LEMMA ApplyReplay ==
  ASSUME TypeOK, NEW r \in Runs, ReplayStep(r), ApplyOf(r)
  PROVE  ApplyOf(r)'
  <1>1. boot = "actions" /\ UNCHANGED <<outbox, decision, dispatch, at, boot>>
    BY DEF ReplayStep, ReplayApply, ReplayRestore, ledger
  <1>2. \A a \in Activities : at'[r][a].step = "idle"
    BY <1>1 DEF ApplyOf
  <1>3. UNCHANGED action \/ action[r].st # "applied"
    BY DEF ReplayStep, ReplayApply, ReplayRestore
  <1>4. ApplyRow(r)'
    BY <1>1, <1>3 DEF ApplyOf, ApplyRow
  <1> QED BY <1>2, <1>4 DEF ApplyOf, ApplyAt

LEMMA ApplyStep ==
  ASSUME TypeOK, TypeOK', YellowAssumption, NEW r \in Runs, RunStep(r), EntryOf(r), ApplyOf(r)
  PROVE  ApplyOf(r)'
  BY ApplyDrain, ApplyRollback, ApplyStart, ApplyReplay DEF RunStep

-----------------------------------------------------------------------------
(* At boot only the drains of recovery run, one activity for each run: it   *)
(* holds its lease as long as it may have to resolve with it.               *)

Holding == {"process", "request", "claim", "apply", "record", "complete"}
Failing == {"fail", "open", "ask", "restore", "reclaim", "reapply", "result", "ledger"}
Closing == {"conclude", "close"}

AtBoot(x, d, dec) ==
    /\ x.step # "thrown"
    /\ x.step \in Failing => x.why \in {"entry", "cost"}
    /\ x.step \in {"idle", "look", "done", "execute"} \cup Holding => x.why = "entry"
    /\ x.step \in Holding \cup Closing => d.st = "claimed" /\ d.lease = x.lease
    /\ x.step \in Failing /\ x.why = "entry" => d.st = "claimed" /\ d.lease = x.lease
    /\ x.step \in Holding \cup {"execute"} => dec = "accepted"

BootOf(r) ==
    boot # "up" =>
        /\ \A a \in Activities : a # "submit" => at[r][a].step = "idle"
        /\ AtBoot(at[r]["submit"], dispatch[r], decision[r])

LEMMA BootDrain ==
  ASSUME TypeOK, YellowAssumption, NEW r \in Runs, boot # "up", BootOf(r), DrainStep(r, "submit")
  PROVE  AtBoot(at[r]["submit"], dispatch[r], decision[r])'
  <1> DEFINE a == "submit"
  <1>0. RunTypes /\ ProjectTypes /\ at \in AtType /\ a \in Activities
    BY TypeParts DEF Activities, Drains
  <1>1. AtBoot(at[r][a], dispatch[r], decision[r])
    BY DEF BootOf
  <1>2. \A step \in {"done", "idle"} : Resting(a, step).step = step /\ Resting(a, step).why = "entry"
    BY DEF Resting, Drains
  <1>3. CASE Begin(r, a)
    <2>1. at[r][a].why = "entry"
      BY <1>1, <1>3 DEF Begin, At, AtBoot
    <2>2. CASE Went(r, a, {"done"})
      <3>1. at'[r][a].step = "done" /\ at'[r][a].why = "entry"
        BY <1>2, <2>2 DEF Went, Over
      <3> QED BY <3>1 DEF AtBoot, Holding, Failing, Closing
    <2>3. CASE /\ at'[r][a].step \in {"process", "fail"}
               /\ at'[r][a].step = "process" => MayEnter(r)
               /\ at'[r][a].why = at[r][a].why
               /\ dispatch'[r].st = "claimed" /\ dispatch'[r].lease = at'[r][a].lease
      <3>1. decision'[r] = decision[r]
        BY <1>3, <2>3 DEF Begin
      <3> QED BY <2>1, <2>3, <3>1 DEF AtBoot, Holding, Failing, Closing, MayEnter
    <2> QED BY <1>0, <1>3, <2>2, <2>3, BeginWent
  <1>4. CASE Process(r, a) \/ Request(r, a) \/ Claim(r, a) \/ Apply(r, a) \/ Record(r, a)
    <2>1. at[r][a].step \in Holding /\ UNCHANGED <<decision, dispatch>>
      BY <1>4 DEF Process, Request, Claim, Apply, Record, At, Holding, ledger
    <2>2. /\ at'[r][a].step \in {"request", "fail", "claim", "apply", "record", "complete"}
          /\ at'[r][a].why = at[r][a].why /\ at'[r][a].lease = at[r][a].lease
      BY <1>0, <1>4, DrainWent DEF Went, Over
    <2> QED BY <1>1, <2>1, <2>2 DEF AtBoot, Holding, Failing, Closing
  <1>5. CASE Complete(r, a)
    <2>1. at[r][a].step = "complete"
      BY <1>5 DEF Complete, At
    <2>2. dispatch[r].st = "claimed" /\ dispatch[r].lease = at[r][a].lease /\ decision[r] = "accepted" /\ at[r][a].why = "entry"
      BY <1>1, <2>1 DEF AtBoot, Holding
    <2>3. Goto(r, a, "execute") /\ UNCHANGED decision
      BY <1>5, <2>2 DEF Complete, MayResolve
    <2>4. at'[r][a].step = "execute" /\ at'[r][a].why = "entry"
      <3>1. "execute" \in Steps
        BY DEF Steps, GoesOn
      <3> QED BY <1>0, <2>2, <2>3, <3>1, GotoWent DEF Went, Over
    <2> QED BY <2>2, <2>3, <2>4 DEF AtBoot, Holding, Failing, Closing
  <1>6. CASE Execute(r, a)
    <2>1. decision[r] = "accepted"
      BY <1>1, <1>6 DEF Execute, At, AtBoot, Holding
    <2>2. Went(r, a, {"done"}) \/ (at'[r][a].step = "fail" /\ at'[r][a].why = "cost")
      BY <1>0, <1>6, <2>1, ExecuteWent
    <2>3. (at'[r][a].step = "done" /\ at'[r][a].why = "entry") \/ (at'[r][a].step = "fail" /\ at'[r][a].why = "cost")
      BY <1>2, <2>2 DEF Went, Over
    <2> QED BY <2>3 DEF AtBoot, Holding, Failing, Closing
  <1>7. CASE Conclude(r, a)
    <2>1. at[r][a].step = "conclude" /\ UNCHANGED dispatch
      BY <1>7 DEF Conclude, At
    <2>2. at'[r][a].step = "close" /\ at'[r][a].lease = at[r][a].lease
      BY <1>0, <1>7, DrainWent DEF Went, Over
    <2> QED BY <1>1, <2>1, <2>2 DEF AtBoot, Holding, Failing, Closing
  <1>8. CASE Close(r, a)
    <2>1. at[r][a].step = "close"
      BY <1>8 DEF Close, At
    <2>2. dispatch[r].st = "claimed" /\ dispatch[r].lease = at[r][a].lease
      BY <1>1, <2>1 DEF AtBoot, Closing
    <2>3. Goto(r, a, "done")
      BY <1>8, <2>2 DEF Close, MayResolve
    <2>4. at'[r][a].step = "done" /\ at'[r][a].why = "entry"
      <3>1. "done" \in Steps
        BY DEF Steps, Waits
      <3> QED BY <1>0, <1>2, <2>3, <3>1, GotoWent DEF Went, Over
    <2> QED BY <2>4 DEF AtBoot, Holding, Failing, Closing
  <1> QED BY <1>3, <1>4, <1>5, <1>6, <1>7, <1>8 DEF DrainStep

LEMMA BootRollback ==
  ASSUME TypeOK, NEW r \in Runs, boot # "up", BootOf(r), RollbackStep(r, "submit")
  PROVE  AtBoot(at[r]["submit"], dispatch[r], decision[r])'
  <1> DEFINE a == "submit"
  <1>0. at \in AtType /\ a \in Activities
    BY TypeParts DEF Activities, Drains
  <1>1. AtBoot(at[r][a], dispatch[r], decision[r])
    BY DEF BootOf
  <1>2. at[r][a].step \in Failing /\ UNCHANGED dispatch
    BY DEF RollbackStep, Fail, OpenCircuit, AskRollback, RequestRestore, ClaimRestore, Restore, RollbackResult,
           RollbackLedger, At, Failing, ledger
  <1>3. at[r][a].why \in {"entry", "cost"}
    BY <1>1, <1>2 DEF AtBoot
  <1>4. at[r][a].why = "entry" => dispatch[r].st = "claimed" /\ dispatch[r].lease = at[r][a].lease
    BY <1>1, <1>2 DEF AtBoot
  <1>5. After(r, a) = IF at[r][a].why = "entry" THEN "conclude" ELSE "done"
    BY <1>3 DEF After
  <1>6. \/ at'[r][a].step \in Failing \cup {"conclude"} /\ at'[r][a].why = at[r][a].why /\ at'[r][a].lease = at[r][a].lease
        \/ at[r][a].why = "cost" /\ at'[r][a].step = "done" /\ at'[r][a].why = "entry"
    <2>1. Resting(a, "done").why = "entry"
      BY DEF Resting, Drains
    <2>2. CASE Fail(r, a)
      <3>1. Words(a, at[r][a].why) = {at[r][a].why}
        BY <1>3 DEF Words
      <3> QED BY <1>0, <2>2, <3>1, FailWent DEF Failing
    <2>3. CASE ~ Fail(r, a)
      <3>1. at'[r][a].step \in {"ask", "restore", "reclaim", "reapply", "result", "ledger", After(r, a)}
        BY <1>0, <2>3, RollbackWent DEF RollbackStep, Went
      <3>2. IF at'[r][a].step \in Over THEN at'[r][a] = Resting(a, at'[r][a].step)
            ELSE at'[r][a].why = at[r][a].why /\ at'[r][a].lease = at[r][a].lease
        BY <1>0, <2>3, RollbackWent DEF RollbackStep, Went
      <3> QED BY <1>3, <1>5, <2>1, <3>1, <3>2 DEF Failing, Over
    <2> QED BY <2>2, <2>3
  <1>7. at'[r][a].step = "conclude" => at[r][a].why = "entry"
    <2>1. CASE Fail(r, a)
      BY <1>0, <2>1, FailWent
    <2>2. CASE ~ Fail(r, a)
      BY <1>0, <1>3, <1>5, <2>2, RollbackWent DEF RollbackStep, Went
    <2> QED BY <2>1, <2>2
  <1> QED BY <1>2, <1>3, <1>4, <1>6, <1>7 DEF AtBoot, Holding, Failing, Closing

LEMMA BootStep ==
  ASSUME TypeOK, YellowAssumption, NEW r \in Runs, RunStep(r), BootOf(r)
  PROVE  BootOf(r)'
  <1>0. RunTypes /\ at \in AtType /\ {"submit", "retry", "check", "human"} \subseteq Activities
    BY TypeParts DEF Activities, Drains
  <1>1. UNCHANGED boot
    BY DEF RunStep, StartStep, Submit, Retry, List, Judge, Ask, Override, DrainNext, ReplayStep, ReplayApply, ReplayRestore,
           DrainStep, Begin, Process, Request, Claim, Apply, Record, Complete, Execute, Conclude, Close,
           RollbackStep, Fail, OpenCircuit, AskRollback, RequestRestore, ClaimRestore, Restore, RollbackResult, RollbackLedger
  <1> SUFFICES ASSUME boot # "up" PROVE BootOf(r)'
    BY <1>1 DEF BootOf
  <1>2. /\ \A a \in Activities : a # "submit" => at[r][a].step = "idle"
        /\ AtBoot(at[r]["submit"], dispatch[r], decision[r])
    BY DEF BootOf
  <1>3. CASE StartStep(r)
    <2>1. DrainNext(r)
      BY <1>0, <1>2, <1>3 DEF StartStep, Submit, Retry, List, Judge, Ask, Override, Free, At
    <2>2. /\ Others(r, "submit") /\ at[r]["submit"].step = "idle" /\ UNCHANGED <<decision, dispatch>>
          /\ at'[r]["submit"].step = "look" /\ at'[r]["submit"].why = at[r]["submit"].why
      BY <1>0, <2>1, StartWent DEF DrainNext, At, ledger, Went, Over
    <2>3. at'[r]["submit"].why = "entry"
      BY <1>2, <2>2 DEF AtBoot
    <2>4. AtBoot(at[r]["submit"], dispatch[r], decision[r])'
      BY <2>2, <2>3 DEF AtBoot, Holding, Failing, Closing
    <2> QED BY <1>0, <1>2, <2>2, <2>4 DEF BootOf, Others
  <1>4. CASE ReplayStep(r)
    <2>1. UNCHANGED <<at, dispatch, decision>>
      BY <1>4 DEF ReplayStep, ReplayApply, ReplayRestore, ledger
    <2> QED BY <1>2, <2>1 DEF BootOf
  <1>5. ASSUME NEW a \in Activities, at[r][a].step # "idle", Others(r, a), AtBoot(at[r]["submit"], dispatch[r], decision[r])'
        PROVE  BootOf(r)'
    BY <1>0, <1>2, <1>5 DEF BootOf, Others
  <1>6. ASSUME NEW a \in Drains, DrainStep(r, a) PROVE BootOf(r)'
    <2>1. a \in Activities /\ at[r][a].step # "idle"
      BY <1>6 DEF Activities, DrainStep, Begin, Process, Request, Claim, Apply, Record, Complete, Execute, Conclude, Close, At
    <2>2. a = "submit"
      BY <1>2, <2>1
    <2>3. AtBoot(at[r]["submit"], dispatch[r], decision[r])'
      BY <1>6, <2>2, BootDrain
    <2>4. Others(r, a)
      BY <1>6, <2>1, DrainIsOfOne
    <2> QED BY <1>5, <2>1, <2>3, <2>4
  <1>7. ASSUME NEW a \in Activities, RollbackStep(r, a) PROVE BootOf(r)'
    <2>1. at[r][a].step # "idle"
      BY <1>7 DEF RollbackStep, Fail, OpenCircuit, AskRollback, RequestRestore, ClaimRestore, Restore, RollbackResult,
                  RollbackLedger, At
    <2>2. a = "submit"
      BY <1>2, <2>1
    <2>3. AtBoot(at[r]["submit"], dispatch[r], decision[r])'
      BY <1>7, <2>2, BootRollback
    <2>4. Others(r, a)
      BY <1>0, <1>7, RollbackWent, FailWent DEF RollbackStep, Went
    <2> QED BY <1>5, <2>1, <2>3, <2>4
  <1> QED BY <1>3, <1>4, <1>6, <1>7 DEF RunStep

-----------------------------------------------------------------------------
(* The invariant of every run, and what follows from it.                   *)

Inv == TypeOK /\ \A r \in Runs : EntryOf(r) /\ ApplyOf(r) /\ BootOf(r)

LEMMA IdleSteps == \A a \in Activities : Resting(a, "idle").step = "idle"
  BY DEF Resting

LEMMA IdleAtBoot ==
  ASSUME NEW d, NEW dec
  PROVE  AtBoot(Resting("submit", "idle"), d, dec)
  BY DEF AtBoot, Resting, Drains, Holding, Failing, Closing

LEMMA InvInit == Init => Inv
  <1> SUFFICES ASSUME Init, NEW r \in Runs PROVE EntryOf(r) /\ ApplyOf(r) /\ BootOf(r)
    BY TypeInit DEF Inv
  <1>1. \A a \in Activities : at[r][a] = Resting(a, "idle") /\ at[r][a].step = "idle"
    BY IdleTyped, IdleSteps DEF Init
  <1>2. EntryOf(r)
    BY <1>1 DEF Init, EntryOf, NoRollback
  <1>3. ApplyOf(r)
    BY <1>1 DEF Init, ApplyOf, ApplyAt, ApplyRow
  <1>4. BootOf(r)
    BY DEF Init, BootOf
  <1> QED BY <1>2, <1>3, <1>4

\* A step of another run: only the version may be another.
LEMMA OtherRunStep ==
  ASSUME TypeOK, TypeOK', YellowAssumption, NEW s \in Runs, RunStep(s), NEW r \in Runs, r # s,
         EntryOf(r), ApplyOf(r), BootOf(r)
  PROVE  EntryOf(r)' /\ ApplyOf(r)' /\ BootOf(r)'
  <1>1. /\ UNCHANGED <<row[r], outbox[r], decision[r], dispatch[r], checkpoint[r], action[r]>>
        /\ \A a \in Activities : at'[r][a] = at[r][a]
        /\ \A k \in Reasons : undo'[r][k] = undo[r][k]
    BY RunStepIsItsOwn DEF OnlyRun
  <1>2. UNCHANGED boot
    BY DEF RunStep, StartStep, Submit, Retry, List, Judge, Ask, Override, DrainNext, ReplayStep, ReplayApply, ReplayRestore,
           DrainStep, Begin, Process, Request, Claim, Apply, Record, Complete, Execute, Conclude, Close,
           RollbackStep, Fail, OpenCircuit, AskRollback, RequestRestore, ClaimRestore, Restore, RollbackResult, RollbackLedger
  <1>3. checkpoint[r].ver \in Nat /\ version \in Nat /\ (version' = version \/ version' = version + 1)
    BY VersionGrows, Steppings DEF TypeOK
  <1>4. EntryOf(r)'
    BY <1>1, <1>3 DEF EntryOf
  <1>5. ApplyOf(r)'
    BY <1>1, <1>2 DEF ApplyOf, ApplyAt, ApplyRow
  <1>6. BootOf(r)'
    <2>1. "submit" \in Activities
      BY DEF Activities, Drains
    <2> QED BY <1>1, <1>2, <2>1 DEF BootOf
  <1> QED BY <1>4, <1>5, <1>6

\* People, crashes and the turns of recovery.
LEMMA CompanyStepKeeps ==
  ASSUME TypeOK, CompanyStep \/ UNCHANGED vars, NEW r \in Runs, EntryOf(r), ApplyOf(r), BootOf(r)
  PROVE  EntryOf(r)' /\ ApplyOf(r)' /\ BootOf(r)'
  <1>1. UNCHANGED <<row, outbox, decision, dispatch, checkpoint, action, undo>>
    BY DEF CompanyStep, Adjust, Grow, Govern, Crash, Replayed, Listen, vars, ledger
  <1>2. checkpoint[r].ver \in Nat /\ version \in Nat /\ (version' = version \/ version' = version + 1)
    BY VersionGrows, Steppings DEF TypeOK
  <1>3. CASE Crash
    <2>1. \A a \in Activities : at'[r][a] = Resting(a, "idle") /\ at'[r][a].step = "idle"
      BY <1>3, IdleTyped, IdleSteps DEF Crash
    <2>2. EntryOf(r)'
      BY <1>1, <1>2, <2>1 DEF EntryOf
    <2>3. ApplyOf(r)'
      BY <1>1, <2>1 DEF ApplyOf, ApplyAt, ApplyRow
    <2>4. "submit" \in Activities
      BY DEF Activities, Drains
    <2>5. AtBoot(at[r]["submit"], dispatch[r], decision[r])'
      BY <2>1, <2>4, IdleAtBoot
    <2> QED BY <2>1, <2>2, <2>3, <2>5 DEF BootOf
  <1>4. CASE ~ Crash
    <2>1. UNCHANGED at /\ (UNCHANGED boot \/ boot' = "up" \/ (boot = "actions" /\ boot' = "drains"))
      BY <1>4 DEF CompanyStep, Adjust, Grow, Govern, Replayed, Listen, vars
    <2>2. EntryOf(r)'
      BY <1>1, <1>2, <2>1 DEF EntryOf
    <2>3. ApplyOf(r)'
      BY <1>1, <2>1 DEF ApplyOf, ApplyAt, ApplyRow
    <2>4. BootOf(r)'
      BY <1>1, <2>1 DEF BootOf
    <2> QED BY <2>2, <2>3, <2>4
  <1> QED BY <1>3, <1>4

LEMMA InvStep == ASSUME YellowAssumption, Inv, [Next]_vars PROVE Inv'
  <1>1. TypeOK /\ TypeOK'
    BY TypeStep DEF Inv
  <1> SUFFICES ASSUME NEW r \in Runs PROVE EntryOf(r)' /\ ApplyOf(r)' /\ BootOf(r)'
    BY <1>1 DEF Inv
  <1>2. EntryOf(r) /\ ApplyOf(r) /\ BootOf(r)
    BY DEF Inv
  <1>3. ASSUME NEW s \in Runs, RunStep(s) PROVE EntryOf(r)' /\ ApplyOf(r)' /\ BootOf(r)'
    <2>1. CASE r = s
      BY <1>1, <1>2, <1>3, <2>1, EntryStep, ApplyStep, BootStep
    <2>2. CASE r # s
      BY <1>1, <1>2, <1>3, <2>2, OtherRunStep
    <2> QED BY <2>1, <2>2
  <1>4. CASE CompanyStep \/ UNCHANGED vars
    BY <1>1, <1>2, <1>4, CompanyStepKeeps
  <1> QED BY <1>3, <1>4, Steppings

LEMMA Invariant == Spec => []Inv
  <1>1. Inv /\ [Next]_vars => Inv'
    BY InvStep, YellowAssumption
  <1> QED BY <1>1, InvInit, PTL DEF Spec

\* A decision says executed only of a direction that was applied, with its dispatch
\* closed by a mutation: for any number of delegations, repeated submits, expired
\* leases and crashes (yellow.ts:1173-1209, 1366-1379).
THEOREM ExecutionsWereApplied == Spec => []ExecutedWasApplied
  <1>1. Inv => ExecutedWasApplied
    BY DEF Inv, ApplyOf, ApplyRow, ExecutedWasApplied
  <1> QED BY <1>1, Invariant, PTL

\* Recovery drains all the outboxes there are, in any order, and none of the drains
\* throws: each holds the lease it resolves with and finds a decision that it may
\* execute, so the server comes to listen (server.ts:184, yellow.ts:1653-1662).
THEOREM RecoveryDoesNotThrow == Spec => []RecoveryNeverThrows
  <1>1. Inv => RecoveryNeverThrows
    <2> SUFFICES ASSUME Inv, boot # "up", NEW r \in Runs, NEW a \in Activities PROVE at[r][a].step # "thrown"
      BY DEF RecoveryNeverThrows, At
    <2>1. BootOf(r)
      BY DEF Inv
    <2> QED BY <2>1 DEF BootOf, AtBoot
  <1> QED BY <1>1, Invariant, PTL

\* An action becomes applied only where its versions are those of the project.
LEMMA AppliedIsUpToDate ==
  ASSUME TypeOK, YellowAssumption, [Next]_vars, NEW r \in Runs, action[r].st # "applied", action'[r].st = "applied"
  PROVE  checkpoint[r].ver = version
  <1>0. RunTypes
    BY TypeParts
  <1>1. RunStep(r)
    <2>1. ~ (CompanyStep \/ UNCHANGED vars)
      BY DEF CompanyStep, Adjust, Grow, Govern, Crash, Replayed, Listen, vars
    <2>2. PICK s \in Runs : RunStep(s)
      BY <2>1, Steppings
    <2>3. r = s
      BY <2>2, RunStepIsItsOwn DEF OnlyRun
    <2> QED BY <2>2, <2>3
  <1>2. ASSUME NEW a \in Drains, DrainStep(r, a) PROVE ApplyDirection(r)
    <2>1. CASE Request(r, a)
      BY <1>0, <2>1 DEF Request, RunTypes
    <2>2. CASE Claim(r, a)
      BY <1>0, <2>2 DEF Claim, RunTypes, Action
    <2>3. CASE Apply(r, a)
      BY <2>3 DEF Apply
    <2>4. CASE Begin(r, a) \/ Process(r, a) \/ Record(r, a) \/ Complete(r, a) \/ Execute(r, a) \/ Conclude(r, a) \/ Close(r, a)
      <3>1. UNCHANGED action
        BY <2>4 DEF Begin, Process, Record, Complete, Execute, Conclude, Close
      <3> QED BY <3>1
    <2> QED BY <1>2, <2>1, <2>2, <2>3, <2>4 DEF DrainStep
  <1>3. ReplayStep(r) => ApplyDirection(r)
    BY <1>0 DEF ReplayStep, ReplayApply, ReplayRestore, RunTypes, Action
  <1>4. ~ StartStep(r)
    BY DEF StartStep, Submit, Retry, List, Judge, Ask, Override, DrainNext
  <1>5. \A a \in Activities : ~ RollbackStep(r, a)
    BY DEF RollbackStep, Fail, OpenCircuit, AskRollback, RequestRestore, ClaimRestore, Restore, RollbackResult, RollbackLedger
  <1>6. ApplyDirection(r)
    BY <1>1, <1>2, <1>3, <1>4, <1>5 DEF RunStep
  <1>7. ~ (action' = [action EXCEPT ![r].st = "rejected"])
    BY <1>0 DEF RunTypes, Action
  <1> QED BY <1>6, <1>7 DEF ApplyDirection, UpToDate

\* A direction whose checkpoint was restored is never applied again, by a drain that
\* was overtaken, by one repeated or by a replay at boot: restoring makes a version
\* after the one the action names (direction.ts:273-308, yellow.ts:876-911).
THEOREM RollbacksStay == Spec => NotAppliedAfterRollback
  <1> DEFINE Stays == \A r \in Runs : action[r].st # "applied" /\ action'[r].st = "applied" =>
                         \A k \in Reasons : undo[r][k].st # "applied"
  <1>1. Inv /\ [Next]_vars => [Stays]_vars
    <2> SUFFICES ASSUME Inv, [Next]_vars, NEW r \in Runs, action[r].st # "applied", action'[r].st = "applied",
                        NEW k \in Reasons, undo[r][k].st = "applied"
                 PROVE  FALSE
      OBVIOUS
    <2>1. TypeOK /\ EntryOf(r)
      BY DEF Inv
    <2>2. checkpoint[r].ver = version /\ version \in Nat
      BY <2>1, AppliedIsUpToDate, YellowAssumption DEF TypeOK
    <2> QED BY <2>1, <2>2 DEF EntryOf
  <1> QED BY <1>1, Invariant, PTL DEF Spec, NotAppliedAfterRollback
=============================================================================
