----------------------------- MODULE ActorProofs -----------------------------
(* Theorems about Actor, for any actors, parents, callers, caps and number   *)
(* of restarts.                                                              *)
EXTENDS Actor, TLAPS

USE ActorAssumption

(***************************************************************************)
(* The types.                                                              *)
(***************************************************************************)
\* Before its fork an actor has no fiber; a turn works only where the fiber runs
\* turns, and the failure handlers know how the turn ended.
TurnsArePlaced ==
  \A a \in Actors :
    /\ spawn[a] \in {"idle", "threaded", "registered"} => at[a] = "none" /\ turn[a] = "none"
    /\ turn[a] \in {"work", "stuck"} => at[a] \in Turns
    /\ at[a] \in Failing => turn[a] \in {"failure", "cancelled"}

TInv == TypeOK /\ TurnsArePlaced

\* Where a fiber goes after a turn.
LEMMA AfterTurnPlaces ==
  ASSUME NEW a \in Actors, at[a] \in Turns, NEW end \in Ends
  PROVE  /\ AfterTurn(a, end) \subseteq {"preHook", "gateCheck", "postCheck", "close", "failNotify", "died"}
         /\ "failNotify" \in AfterTurn(a, end) => end \in {"failure", "cancelled"}
<1>1. CASE at[a] = "preTurn"
  BY <1>1 DEF AfterTurn, Ends
<1>2. CASE at[a] = "gateTurn"
  BY <1>2 DEF AfterTurn, Ends
<1>3. CASE at[a] = "postTurn"
  BY <1>3 DEF AfterTurn, Ends
<1> QED
  BY <1>1, <1>2, <1>3 DEF Turns

\* Where an interrupted fiber goes.
LEMMA AfterInterruptPlaces ==
  ASSUME NEW place \in Places
  PROVE  /\ AfterInterrupt(place) \subseteq {"failNotify", "died", "close"}
         /\ "failNotify" \in AfterInterrupt(place) => place \in {"preTurn", "preHook"}
BY DEF AfterInterrupt, Places, Turns, Failing

LEMMA TInit == Init => TInv
BY DEF Init, TInv, TypeOK, TurnsArePlaced, Row, Turns, Failing

LEMMA TSpawn ==
  ASSUME TInv, NEW a \in Actors, SpawnThread(a) \/ SpawnStep(a) \/ SpawnAbandoned(a)
  PROVE  TInv'
<1> USE DEF TInv, TypeOK, TurnsArePlaced, fiberVars, cancelVars, Calling, Turns, Places, Failing
<1>1. CASE SpawnThread(a)
  BY <1>1 DEF SpawnThread
<1>2. CASE SpawnRegister(a)
  BY <1>2 DEF SpawnRegister, SetRow, Row
<1>3. CASE SpawnFork(a)
  <2>1. PICK place \in {"died", "preTurn"} : at' = [at EXCEPT ![a] = place]
    BY <1>3 DEF SpawnFork, Go
  <2>2. interrupted' \in [Actors -> BOOLEAN]
    BY <1>3 DEF SpawnFork
  <2>3. spawn' \in [Actors -> Calling \union {"idle", "returned", "failed", "abandoned", "lost"}]
    BY <1>3 DEF SpawnFork
  <2>4. at' \in [Actors -> Places \union {"none", "exited", "died", "lost"}]
    BY <2>1
  <2>5. at[a] \notin Turns => turn[a] # "work"
    OBVIOUS
  <2> QED
    BY <1>3, <2>1, <2>2, <2>3, <2>4 DEF SpawnFork
<1>4. CASE SpawnJoined(a)
  BY <1>4 DEF SpawnJoined
<1>5. CASE RunReturns(a)
  BY <1>5 DEF RunReturns
<1>6. CASE SpawnFails(a)
  BY <1>6 DEF SpawnFails
<1>7. CASE SpawnAbandoned(a)
  BY <1>7 DEF SpawnAbandoned
<1> QED
  BY <1>1, <1>2, <1>3, <1>4, <1>5, <1>6, <1>7 DEF SpawnStep

LEMMA TFiber ==
  ASSUME TInv, NEW a \in Actors, FiberStep(a) \/ Untrack(a)
  PROVE  TInv'
<1> USE DEF TInv, TypeOK, TurnsArePlaced, fiberVars, cancelVars, Turns, Places, Failing, Go
<1>1. CASE TurnStart(a)
  BY <1>1 DEF TurnStart, SetRow, Row, Ends
<1>2. ASSUME NEW end \in Ends, TurnEnd(a, end) PROVE TInv'
  <2>1. PICK place \in AfterTurn(a, end) : Go(a, place)
    BY <1>2 DEF TurnEnd
  <2>2. at[a] \in Turns
    BY <1>2 DEF TurnEnd
  <2>3. /\ place \in {"preHook", "gateCheck", "postCheck", "close", "failNotify", "died"}
        /\ place = "failNotify" => end \in {"failure", "cancelled"}
    BY <2>1, <2>2, AfterTurnPlaces
  <2>4. PICK left \in {"going", "stopped", "none"} : run' = [run EXCEPT ![a] = left]
    BY <1>2 DEF TurnEnd, Leaves, Remains
  <2>5. PICK n \in Nat : iter' = [iter EXCEPT ![a] = n]
    <3>1. iter[a] \in Nat /\ iter[a] + 1 \in Nat /\ 0 \in Nat
      OBVIOUS
    <3>2. \/ iter' = [iter EXCEPT ![a] = 0]
          \/ iter' = [iter EXCEPT ![a] = iter[a] + 1]
          \/ iter' = [iter EXCEPT ![a] = iter[a]]
      BY <1>2 DEF TurnEnd
    <3> QED
      BY <3>1, <3>2
  <2> QED
    BY <1>2, <2>1, <2>3, <2>4, <2>5 DEF TurnEnd, SetRow, Row, Ends
<1>3. CASE PreHook(a)
  <2>1. PICK n \in Nat : iter' = [iter EXCEPT ![a] = n]
    BY <1>3 DEF PreHook
  <2>2. PICK place \in {"preTurn", "gateCheck"} : at' = [at EXCEPT ![a] = place]
    BY <1>3 DEF PreHook
  <2> QED
    BY <1>3, <2>1, <2>2 DEF PreHook
<1>12. CASE GateCheck(a)
  <2>1. PICK n \in Nat : iter' = [iter EXCEPT ![a] = n]
    BY <1>12 DEF GateCheck
  <2>2. PICK place \in {"gateTurn", "notify"} : at' = [at EXCEPT ![a] = place]
    BY <1>12 DEF GateCheck
  <2> QED
    BY <1>12, <2>1, <2>2 DEF GateCheck
<1>4. CASE Notify(a)
  <2>1. notes' \in [Actors -> Seq({"completed", "failed", "cancelled"})]
    BY <1>4 DEF Notify, Tell
  <2> QED
    BY <1>4, <2>1 DEF Notify
<1>5. CASE Resolve(a)
  BY <1>5 DEF Resolve, Ends
<1>6. CASE PostCheck(a)
  <2>1. PICK n \in Nat : iter' = [iter EXCEPT ![a] = n]
    BY <1>6 DEF PostCheck
  <2>2. PICK place \in {"postTurn", "close"} : at' = [at EXCEPT ![a] = place]
    BY <1>6 DEF PostCheck
  <2> QED
    BY <1>6, <2>1, <2>2 DEF PostCheck
<1>7. CASE Close(a)
  <2>1. PICK place \in {"exited", "died"} : at' = [at EXCEPT ![a] = place]
    BY <1>7 DEF Close
  <2> QED
    BY <1>7, <2>1 DEF Close, CompleteThread
<1>8. CASE FailNotify(a)
  BY <1>8 DEF FailNotify, Tell
<1>9. CASE FailResolve(a)
  BY <1>9 DEF FailResolve, Ends
<1>10. CASE Interrupted(a)
  <2>1. PICK place \in AfterInterrupt(at[a]) : Go(a, place)
    BY <1>10 DEF Interrupted
  <2>2. /\ place \in {"failNotify", "died", "close"}
        /\ place = "failNotify" => at[a] \in {"preTurn", "preHook"}
    BY <1>10, <2>1, AfterInterruptPlaces DEF Interrupted, Alive
  <2> QED
    BY <1>10, <2>1, <2>2 DEF Interrupted, Alive, Ends
<1>11. CASE Untrack(a)
  BY <1>11 DEF Untrack
<1> QED
  BY <1>1, <1>2, <1>3, <1>4, <1>5, <1>6, <1>7, <1>8, <1>9, <1>10, <1>11, <1>12 DEF FiberStep

LEMMA TRuns ==
  ASSUME TInv, NEW a \in Actors, Wake(a) \/ RunEnds(a)
  PROVE  TInv'
<1> USE DEF TInv, TypeOK, TurnsArePlaced, cancelVars
<1>1. CASE Wake(a)
  BY <1>1 DEF Wake
<1>2. CASE RunEnds(a)
  <2>1. row' \in [Actors -> Row]
    <3>1. [status |-> "idle", outcome |-> "failure"] \in Row
      BY DEF Row, Ends
    <3>2. row' = row \/ row' = [row EXCEPT ![a] = [status |-> "idle", outcome |-> "failure"]]
      BY <1>2 DEF RunEnds, SetRow
    <3> QED
      BY <3>1, <3>2
  <2> QED
    BY <1>2, <2>1 DEF RunEnds
<1> QED
  BY <1>1, <1>2

\* After state.cancelActor a cancellation goes on or hangs.
LEMMA CancelStopPlaces ==
  ASSUME NEW u \in Callers, NEW a \in Actors, CancelStop(u, a)
  PROVE  \E place \in {"interrupting", "hung"} : cancel' = [cancel EXCEPT ![u][a] = place]
<1>1. CASE SetCancel(u, a, "interrupting")
  BY <1>1 DEF SetCancel
<1>2. CASE SetCancel(u, a, "hung")
  BY <1>2 DEF SetCancel
<1> QED
  BY <1>1, <1>2 DEF CancelStop, NothingToStop, RunStopped, RunUnborn

LEMMA TCancel ==
  ASSUME TInv, NEW u \in Callers, NEW a \in Actors,
         Cancel(u, a) \/ CancelStep(u, a) \/ ToolCancelRefused(u, a)
  PROVE  TInv'
<1> USE DEF TInv, TypeOK, TurnsArePlaced, fiberVars, cancelVars, SetCancel
<1>1. CASE Cancel(u, a)
  BY <1>1 DEF Cancel
<1>2. CASE CancelRead(u, a)
  <2>1. thread' \in [Actors -> {"none", "active", "completed"}]
    <3>1. thread' = thread \/ thread' = [thread EXCEPT ![a] = "completed"]
      BY <1>2 DEF CancelRead, CompleteThread
    <3> QED
      BY <3>1
  <2>2. PICK place \in {"missed", "listing"} : cancel' = [cancel EXCEPT ![u][a] = place]
    BY <1>2 DEF CancelRead
  <2> QED
    BY <1>2, <2>1, <2>2 DEF CancelRead
<1>3. CASE CancelList(u, a)
  BY <1>3 DEF CancelList, ListByParent
<1>4. CASE CancelAnnounce(u, a)
  BY <1>4 DEF CancelAnnounce
<1>5. CASE CancelInterrupt(u, a)
  BY <1>5 DEF CancelInterrupt
<1>6. CASE CancelAwaited(u, a)
  BY <1>6 DEF CancelAwaited
<1>7. CASE CancelMark(u, a)
  BY <1>7 DEF CancelMark, SetRow, Row, Ends
<1>8. CASE ToolCancelRefused(u, a)
  BY <1>8 DEF ToolCancelRefused
<1>9. CASE CancelStop(u, a)
  <2>1. PICK place \in {"interrupting", "hung"} : cancel' = [cancel EXCEPT ![u][a] = place]
    BY <1>9, CancelStopPlaces
  <2>2. run' \in [Actors -> {"none", "going", "stopped"}]
    <3>1. run' = run \/ \E left \in {"none", "stopped"} : run' = [run EXCEPT ![a] = left]
      <4>1. CASE NothingToStop(u, a)
        BY <4>1 DEF NothingToStop
      <4>2. CASE RunStopped(u, a)
        BY <4>2 DEF RunStopped, Remains
      <4>3. CASE RunUnborn(u, a)
        BY <4>3 DEF RunUnborn
      <4> QED
        BY <1>9, <4>1, <4>2, <4>3 DEF CancelStop
    <3> QED
      BY <3>1
  <2>3. turn' = turn \/ (turn[a] = "work" /\ turn' = [turn EXCEPT ![a] = "stuck"])
    BY <1>9 DEF CancelStop, NothingToStop, RunStopped, RunUnborn
  <2>4. /\ UNCHANGED <<named, row, thread, spawn, at, iter, interrupted, outcome, notes, tracked>>
        /\ UNCHANGED <<pendingCancels, listed, crashes>>
    BY <1>9 DEF CancelStop
  <2>5. at[a] \in Turns => at[a] \notin Failing
    BY DEF Turns, Failing
  <2> QED
    BY <2>1, <2>2, <2>3, <2>4, <2>5
<1> QED
  BY <1>1, <1>2, <1>3, <1>4, <1>5, <1>6, <1>7, <1>8, <1>9 DEF CancelStep

LEMMA TRestart == ASSUME TInv, Restart PROVE TInv'
BY DEF TInv, TypeOK, TurnsArePlaced, Restart, Alive, Places, Turns, Failing, Row, Ends, Calling

LEMMA TStep == TInv /\ [Next]_vars => TInv'
<1> SUFFICES ASSUME TInv, [Next]_vars PROVE TInv'
  OBVIOUS
<1>1. CASE UNCHANGED vars
  BY <1>1 DEF vars, TInv, TypeOK, TurnsArePlaced
<1> QED
  BY <1>1, TSpawn, TFiber, TRuns, TCancel, TRestart DEF Next

\* Every variable keeps its type: among others, an outcome and a notification
\* are always those of a turn that has ended.
THEOREM TypeCorrect == Spec => []TypeOK
BY TInit, TStep, PTL DEF Spec, TInv

(***************************************************************************)
(* A cancellation holds.                                                   *)
(***************************************************************************)
\* The row comes after the thread and the fiber after the row; a fiber that is
\* alive is tracked.
SpawnedInOrder ==
  \A a \in Actors :
    /\ row[a].status # "absent" => spawn[a] \notin {"idle", "threaded"}
    /\ a \in tracked => spawn[a] \notin {"idle", "threaded", "registered"}
    /\ Alive(a) => a \in tracked

\* What caller u's cancellation of a has achieved where it is: a fiber that is
\* yet to be forked will find the cancellation announced.
Achieved(u, a) ==
  /\ cancel[u][a] \in {"listing", "children", "stopping", "interrupting", "waiting", "marking", "done"} =>
       row[a].status # "absent" /\ thread[a] # "active"
  /\ cancel[u][a] = "waiting" => spawn[a] # "registered"
  /\ cancel[u][a] \in {"stopping", "interrupting", "marking", "done"} /\ spawn[a] = "registered" => a \in pendingCancels
  /\ cancel[u][a] \in {"marking", "done"} => ~Alive(a)
  /\ cancel[u][a] = "done" =>
       row[a].status = "idle" /\ row[a].outcome \in {"cancelled"} \union (IF a \in Frozen THEN {"failure"} ELSE {})

CInv == TInv /\ SpawnedInOrder /\ \A u \in Callers, a \in Actors : Achieved(u, a)

LEMMA CInit == Init => CInv
BY TInit DEF Init, CInv, SpawnedInOrder, Achieved, Alive, Places, Turns, Failing

LEMMA CSpawn ==
  ASSUME CInv, TInv', NEW a \in Actors, SpawnThread(a) \/ SpawnStep(a) \/ SpawnAbandoned(a)
  PROVE  CInv'
<1> USE DEF CInv, TInv, TypeOK, SpawnedInOrder, Achieved, Alive, cancelVars, fiberVars, Calling
<1>1. CASE SpawnThread(a)
  BY <1>1 DEF SpawnThread
<1>2. CASE SpawnRegister(a)
  BY <1>2 DEF SpawnRegister, SetRow, Row
<1>3. CASE SpawnFork(a)
  <2>1. at[a] = "none" /\ a \notin tracked
    BY <1>3 DEF SpawnFork, TurnsArePlaced
  <2>2. a \in pendingCancels => at' = [at EXCEPT ![a] = "died"]
    BY <1>3 DEF SpawnFork, Go
  <2>3. a \notin pendingCancels => at' = [at EXCEPT ![a] = "preTurn"]
    BY <1>3 DEF SpawnFork, Go
  <2>4. "died" \notin Places
    BY DEF Places, Turns, Failing
  <2>5. spawn'[a] \in {"returned", "joining"} /\ \A b \in Actors \ {a} : spawn'[b] = spawn[b]
    BY <1>3 DEF SpawnFork
  <2>6. SpawnedInOrder'
    BY <1>3, <2>2, <2>3, <2>4, <2>5 DEF SpawnFork
  <2>7. ASSUME NEW u \in Callers, NEW b \in Actors PROVE Achieved(u, b)'
    BY <1>3, <2>1, <2>2, <2>3, <2>4, <2>5 DEF SpawnFork
  <2> QED
    BY <2>6, <2>7
<1>4. CASE SpawnJoined(a)
  BY <1>4 DEF SpawnJoined
<1>5. CASE RunReturns(a)
  BY <1>5 DEF RunReturns
<1>6. CASE SpawnFails(a)
  BY <1>6 DEF SpawnFails
<1>7. CASE SpawnAbandoned(a)
  BY <1>7 DEF SpawnAbandoned
<1> QED
  BY <1>1, <1>2, <1>3, <1>4, <1>5, <1>6, <1>7 DEF SpawnStep

\* A step of a living fiber: no cancellation of its actor is past the wait.
LEMMA CAlive ==
  ASSUME CInv, TInv', NEW a \in Actors, Alive(a),
         row[a].status # "absent" => row'[a].status # "absent",
         \A b \in Actors \ {a} : row'[b] = row[b],
         \A b \in Actors \ {a} : at'[b] = at[b],
         thread' = thread \/ thread' = [thread EXCEPT ![a] = "completed"],
         spawn' = spawn, tracked' = tracked, cancel' = cancel, pendingCancels' = pendingCancels
  PROVE  CInv'
<1> USE DEF CInv, TInv, TypeOK, Alive
<1>1. ASSUME NEW b \in Actors PROVE Alive(b)' => Alive(b)
  OBVIOUS
<1>2. a \in tracked /\ spawn[a] \notin {"idle", "threaded", "registered"}
  BY DEF SpawnedInOrder
<1>3. SpawnedInOrder'
  BY <1>1, <1>2 DEF SpawnedInOrder
<1>4. ASSUME NEW u \in Callers, NEW b \in Actors PROVE Achieved(u, b)'
  <2>1. cancel[u][a] \notin {"marking", "done"}
    BY DEF Achieved
  <2>2. thread'[b] = "active" => thread[b] = "active"
    OBVIOUS
  <2>3. CASE b = a
    BY <1>2, <2>1, <2>2, <2>3 DEF Achieved
  <2>4. CASE b # a
    <3>1. row'[b] = row[b] /\ (Alive(b)' => Alive(b))
      BY <1>1, <2>4
    <3> QED
      BY <2>2, <3>1 DEF Achieved
  <2> QED
    BY <2>3, <2>4
<1> QED
  BY <1>3, <1>4

LEMMA CFiber ==
  ASSUME CInv, TInv', NEW a \in Actors, FiberStep(a) \/ Untrack(a)
  PROVE  CInv'
<1> DEFINE Frame == /\ \A b \in Actors \ {a} : row'[b] = row[b]
                    /\ \A b \in Actors \ {a} : at'[b] = at[b]
                    /\ thread' = thread \/ thread' = [thread EXCEPT ![a] = "completed"]
                    /\ spawn' = spawn /\ tracked' = tracked /\ cancel' = cancel
                    /\ pendingCancels' = pendingCancels
                    /\ row[a].status # "absent" => row'[a].status # "absent"
                    /\ Alive(a)
<1> USE DEF CInv, TInv, TypeOK, cancelVars, fiberVars, Go
<1>1. CASE TurnStart(a)
  <2>1. Frame
    BY <1>1 DEF TurnStart, SetRow, Alive, Places
  <2> QED
    BY <2>1, CAlive
<1>2. ASSUME NEW end \in Ends, TurnEnd(a, end) PROVE CInv'
  <2>1. Frame
    BY <1>2 DEF TurnEnd, SetRow, TurnsArePlaced, Alive, Places
  <2> QED
    BY <2>1, CAlive
<1>3. CASE PreHook(a)
  <2>1. Frame
    BY <1>3 DEF PreHook, Alive, Places
  <2> QED
    BY <2>1, CAlive
<1>4. CASE GateCheck(a)
  <2>1. Frame
    BY <1>4 DEF GateCheck, Alive, Places
  <2> QED
    BY <2>1, CAlive
<1>5. CASE Notify(a)
  <2>1. Frame
    BY <1>5 DEF Notify, Alive, Places
  <2> QED
    BY <2>1, CAlive
<1>6. CASE Resolve(a)
  <2>1. Frame
    BY <1>6 DEF Resolve, Alive, Places
  <2> QED
    BY <2>1, CAlive
<1>7. CASE PostCheck(a)
  <2>1. Frame
    BY <1>7 DEF PostCheck, Alive, Places
  <2> QED
    BY <2>1, CAlive
<1>8. CASE Close(a)
  <2>1. Frame
    BY <1>8 DEF Close, Alive, Places, CompleteThread, Failing
  <2> QED
    BY <2>1, CAlive
<1>9. CASE FailNotify(a)
  <2>1. Frame
    BY <1>9 DEF FailNotify, Alive, Places, Failing
  <2> QED
    BY <2>1, CAlive
<1>10. CASE FailResolve(a)
  <2>1. Frame
    BY <1>10 DEF FailResolve, Alive, Places, Failing
  <2> QED
    BY <2>1, CAlive
<1>11. CASE Interrupted(a)
  <2>1. Frame
    BY <1>11 DEF Interrupted, Alive, Places
  <2> QED
    BY <2>1, CAlive
<1>12. CASE Untrack(a)
  <2>1. ~Alive(a)
    BY <1>12 DEF Untrack, Alive, Places, Turns, Failing
  <2>2. SpawnedInOrder'
    BY <1>12, <2>1 DEF Untrack, SpawnedInOrder, Alive
  <2>3. ASSUME NEW u \in Callers, NEW b \in Actors PROVE Achieved(u, b)'
    BY <1>12 DEF Untrack, Achieved, Alive
  <2> QED
    BY <2>2, <2>3
<1> QED
  BY <1>1, <1>2, <1>3, <1>4, <1>5, <1>6, <1>7, <1>8, <1>9, <1>10, <1>11, <1>12 DEF FiberStep

LEMMA CRuns ==
  ASSUME CInv, TInv', NEW a \in Actors, Wake(a) \/ RunEnds(a)
  PROVE  CInv'
<1> USE DEF CInv, TInv, TypeOK, cancelVars
<1>1. UNCHANGED <<thread, spawn, at, tracked, cancel, pendingCancels>>
  BY DEF Wake, RunEnds
<1>2. CASE row' = row
  BY <1>1, <1>2 DEF SpawnedInOrder, Achieved, Alive
<1>3. CASE a \in Frozen /\ ContextGone(a) /\ SetRow(a, "idle", "failure")
  <2>1. spawn[a] \notin {"idle", "threaded"}
    BY <1>3 DEF ContextGone, TurnsArePlaced, SpawnedInOrder, Achieved
  <2>2. /\ row'[a] = [status |-> "idle", outcome |-> "failure"]
        /\ \A b \in Actors \ {a} : row'[b] = row[b]
    BY <1>3 DEF SetRow
  <2>3. SpawnedInOrder'
    BY <1>1, <2>1, <2>2 DEF SpawnedInOrder, Alive
  <2>4. ASSUME NEW u \in Callers, NEW b \in Actors PROVE Achieved(u, b)'
    <3>1. CASE b = a
      <4>1. row'[b].status = "idle" /\ row'[b].outcome = "failure" /\ b \in Frozen
        BY <1>3, <2>2, <3>1
      <4>2. Achieved(u, b)
        OBVIOUS
      <4> QED
        BY <1>1, <4>1, <4>2 DEF Achieved, Alive
    <3>2. CASE b # a
      BY <1>1, <2>2, <3>2 DEF Achieved, Alive
    <3> QED
      BY <3>1, <3>2
  <2> QED
    BY <2>3, <2>4
<1> QED
  BY <1>2, <1>3 DEF Wake, RunEnds

LEMMA CCancel ==
  ASSUME CInv, TInv', NEW u \in Callers, NEW a \in Actors,
         Cancel(u, a) \/ CancelStep(u, a) \/ ToolCancelRefused(u, a)
  PROVE  CInv'
<1> USE DEF CInv, TInv, TypeOK, fiberVars, cancelVars, SetCancel, Alive
<1>1. CASE Cancel(u, a)
  BY <1>1 DEF Cancel, SpawnedInOrder, Achieved
<1>2. CASE CancelRead(u, a)
  <2>1. CASE row[a].status = "absent"
    <3>1. cancel' = [cancel EXCEPT ![u][a] = "missed"] /\ thread' = thread
      BY <1>2, <2>1 DEF CancelRead
    <3>2. \A v \in Callers, b \in Actors :
            cancel'[v][b] = cancel[v][b] \/ cancel'[v][b] = "missed"
      BY <3>1
    <3>3. SpawnedInOrder'
      BY <1>2, <3>1 DEF CancelRead, SpawnedInOrder
    <3>4. \A v \in Callers, b \in Actors : Achieved(v, b)'
      BY <1>2, <3>1, <3>2 DEF CancelRead, Achieved
    <3> QED
      BY <3>3, <3>4
  <2>2. CASE row[a].status # "absent"
    <3>1. thread'[a] # "active" /\ \A b \in Actors : thread'[b] = "active" => thread[b] = "active"
      BY <1>2, <2>2 DEF CancelRead, CompleteThread
    <3>2. cancel' = [cancel EXCEPT ![u][a] = "listing"]
      BY <1>2, <2>2 DEF CancelRead
    <3>3. \A v \in Callers, b \in Actors :
            cancel'[v][b] = cancel[v][b] \/ (b = a /\ cancel'[v][b] = "listing")
      BY <3>2
    <3>4. SpawnedInOrder'
      BY <1>2 DEF CancelRead, SpawnedInOrder
    <3>5. \A v \in Callers, b \in Actors : Achieved(v, b)'
      BY <1>2, <2>2, <3>1, <3>3 DEF CancelRead, Achieved
    <3> QED
      BY <3>4, <3>5
  <2> QED
    BY <2>1, <2>2
<1>3. CASE CancelList(u, a)
  <2>1. \A v \in Callers, b \in Actors :
          cancel'[v][b] = cancel[v][b] \/ cancel'[v][b] = "asked"
            \/ (v = u /\ b = a /\ cancel'[v][b] = "children")
    BY <1>3 DEF CancelList
  <2>2. cancel[u][a] = "listing"
    BY <1>3 DEF CancelList
  <2>3. SpawnedInOrder'
    BY <1>3 DEF CancelList, SpawnedInOrder
  <2>4. ASSUME NEW v \in Callers, NEW b \in Actors PROVE Achieved(v, b)'
    BY <1>3, <2>1, <2>2 DEF CancelList, Achieved
  <2> QED
    BY <2>3, <2>4
<1>4. CASE CancelAnnounce(u, a)
  BY <1>4 DEF CancelAnnounce, SpawnedInOrder, Achieved
<1>5. CASE CancelInterrupt(u, a)
  <2>1. SpawnedInOrder'
    BY <1>5 DEF CancelInterrupt, SpawnedInOrder
  <2>2. a \in tracked => spawn[a] # "registered"
    BY DEF SpawnedInOrder
  <2>3. a \notin tracked => ~(at[a] \in Places)
    BY DEF SpawnedInOrder
  <2>4. cancel' = [cancel EXCEPT ![u][a] = IF a \in tracked THEN "waiting" ELSE "marking"]
    BY <1>5 DEF CancelInterrupt
  <2>5. ASSUME NEW v \in Callers, NEW b \in Actors PROVE Achieved(v, b)'
    <3>1. CASE v = u /\ b = a
      BY <1>5, <2>2, <2>3, <2>4, <3>1 DEF CancelInterrupt, Achieved
    <3>2. CASE ~(v = u /\ b = a)
      <4>1. cancel'[v][b] = cancel[v][b]
        BY <2>4, <3>2
      <4> QED
        BY <1>5, <4>1 DEF CancelInterrupt, Achieved
    <3> QED
      BY <3>1, <3>2
  <2> QED
    BY <2>1, <2>5
<1>6. CASE CancelAwaited(u, a)
  <2>1. "exited" \notin Places /\ "died" \notin Places
    BY DEF Places, Turns, Failing
  <2>2. spawn[a] # "registered" /\ at[a] \in {"exited", "died"}
    BY <1>6 DEF CancelAwaited, Achieved
  <2> QED
    BY <1>6, <2>1, <2>2 DEF CancelAwaited, SpawnedInOrder, Achieved
<1>7. CASE CancelMark(u, a)
  BY <1>7 DEF CancelMark, SetRow, SpawnedInOrder, Achieved
<1>8. CASE ToolCancelRefused(u, a)
  BY <1>8 DEF ToolCancelRefused, SpawnedInOrder, Achieved
<1>9. CASE CancelStop(u, a)
  <2>1. PICK place \in {"interrupting", "hung"} : cancel' = [cancel EXCEPT ![u][a] = place]
    BY <1>9 DEF CancelStop, NothingToStop, RunStopped, RunUnborn
  <2>2. cancel[u][a] = "stopping" /\ UNCHANGED <<row, thread, spawn, at, tracked, pendingCancels>>
    BY <1>9 DEF CancelStop
  <2>3. SpawnedInOrder'
    BY <2>2 DEF SpawnedInOrder
  <2>4. ASSUME NEW v \in Callers, NEW b \in Actors PROVE Achieved(v, b)'
    <3>1. CASE v = u /\ b = a
      <4>1. cancel'[v][b] \in {"interrupting", "hung"}
        BY <2>1, <3>1
      <4> QED
        BY <2>2, <3>1, <4>1 DEF Achieved
    <3>2. CASE ~(v = u /\ b = a)
      <4>1. cancel'[v][b] = cancel[v][b]
        BY <2>1, <3>2
      <4> QED
        BY <2>2, <4>1 DEF Achieved
    <3> QED
      BY <3>1, <3>2
  <2> QED
    BY <2>3, <2>4
<1> QED
  BY <1>1, <1>2, <1>3, <1>4, <1>5, <1>6, <1>7, <1>8, <1>9 DEF CancelStep

LEMMA CRestart == ASSUME CInv, TInv', Restart PROVE CInv'
<1> USE DEF CInv, TInv, TypeOK, Restart, Alive
<1>1. \A a \in Actors : at'[a] \notin Places
  BY DEF Places, Turns, Failing
<1>2. \A a \in Actors : row'[a].status # "absent" => row[a].status # "absent"
  BY DEF Row, Orphaned
<1>3. \A a \in Actors : spawn[a] \notin {"idle", "threaded"} => spawn'[a] \notin {"idle", "threaded"}
  BY DEF Calling
<1>4. SpawnedInOrder'
  BY <1>1, <1>2, <1>3 DEF SpawnedInOrder
<1>5. \A u \in Callers, a \in Actors : Achieved(u, a)'
  BY DEF Achieved
<1> QED
  BY <1>4, <1>5

LEMMA CStep == CInv /\ [Next]_vars => CInv'
<1> SUFFICES ASSUME CInv, [Next]_vars PROVE CInv'
  OBVIOUS
<1>1. TInv'
  BY TStep DEF CInv
<1>2. CASE UNCHANGED vars
  BY <1>1, <1>2 DEF vars, CInv, TInv, TypeOK, SpawnedInOrder, Achieved, Alive
<1> QED
  BY <1>1, <1>2, CSpawn, CFiber, CRuns, CCancel, CRestart DEF Next

\* A cancellation holds, whatever it races: once it has returned the actor's work
\* is over, a fiber forked afterwards included, and row and thread say so; a later
\* message may run its loop and fail the row, but takes nothing up.
THEOREM CancellationsHold == Spec => []CancelHolds
<1>1. CInv => CancelHolds
  BY DEF CInv, Achieved, CancelHolds
<1> QED
  BY <1>1, CInit, CStep, PTL DEF Spec

(***************************************************************************)
(* The parent is told once, and the truth.                                 *)
(***************************************************************************)
Word(end) == CASE end = "success" -> "completed"
               [] end = "failure" -> "failed"
               [] end = "cancelled" -> "cancelled"

Silent == {"none", "preTurn", "preHook", "gateTurn", "gateCheck", "notify", "failNotify"}

\* What has been told and resolved of a where its fiber is.
Told(a) ==
  /\ at[a] \in Silent => notes[a] = <<>>
  /\ at[a] \in Silent \union {"resolve", "failResolve"} => outcome[a] = "none"
  /\ at[a] = "resolve" /\ InBackground(a) => notes[a] = <<"completed">>
  /\ at[a] = "failResolve" /\ InBackground(a) => notes[a] = <<Word(turn[a])>>
  /\ Len(notes[a]) <= 1
  /\ outcome[a] # "none" /\ InBackground(a) => notes[a] = <<Word(outcome[a])>>

NInv == TInv /\ \A a \in Actors : Told(a)

LEMMA NInit == Init => NInv
BY TInit DEF Init, NInv, Told, Silent

\* Nothing is told and nothing resolved, and the fiber does not go back.
LEMMA NSilent ==
  ASSUME NInv, TInv', NEW a \in Actors,
         notes' = notes, outcome' = outcome,
         at[a] \in Silent \/ at'[a] \notin Silent,
         at'[a] \notin {"resolve", "failResolve"},
         named' = named,
         \A b \in Actors \ {a} : at'[b] = at[b] /\ turn'[b] = turn[b]
  PROVE  NInv'
<1> USE DEF InBackground
<1>1. ASSUME NEW b \in Actors PROVE Told(b)'
  <2>1. CASE b = a
    BY <2>1 DEF NInv, Told
  <2>2. CASE b # a
    BY <2>2 DEF NInv, Told
  <2> QED
    BY <2>1, <2>2
<1> QED
  BY <1>1 DEF NInv

LEMMA NSpawn ==
  ASSUME NInv, TInv', NEW a \in Actors, SpawnThread(a) \/ SpawnStep(a) \/ SpawnAbandoned(a)
  PROVE  NInv'
<1> USE DEF NInv, TInv, TypeOK, fiberVars
<1>1. CASE SpawnFork(a)
  <2>1. at[a] \in Silent
    BY <1>1 DEF SpawnFork, TurnsArePlaced, Silent
  <2> QED
    BY <1>1, <2>1, NSilent DEF SpawnFork, Go
<1>2. ASSUME UNCHANGED <<named, at, turn, notes, outcome>> PROVE NInv'
  BY <1>2 DEF Told, InBackground
<1>3. CASE SpawnThread(a)
  <2>1. at[a] = "none" /\ UNCHANGED <<at, turn, notes, outcome>>
    BY <1>3 DEF SpawnThread, TurnsArePlaced
  <2>2. \A b \in Actors \ {a} : b \in named' <=> b \in named
    BY <1>3 DEF SpawnThread
  <2>3. ASSUME NEW b \in Actors PROVE Told(b)'
    <3>1. CASE b = a
      BY <2>1, <3>1 DEF Told, Silent
    <3>2. CASE b # a
      BY <2>1, <2>2, <3>2 DEF Told, InBackground
    <3> QED
      BY <3>1, <3>2
  <2> QED
    BY <2>3
<1>4. CASE SpawnRegister(a)
  BY <1>2, <1>4 DEF SpawnRegister
<1>5. CASE SpawnJoined(a)
  BY <1>2, <1>5 DEF SpawnJoined
<1>6. CASE RunReturns(a)
  BY <1>2, <1>6 DEF RunReturns
<1>7. CASE SpawnFails(a)
  BY <1>2, <1>7 DEF SpawnFails
<1>8. CASE SpawnAbandoned(a)
  BY <1>2, <1>8 DEF SpawnAbandoned
<1> QED
  BY <1>1, <1>3, <1>4, <1>5, <1>6, <1>7, <1>8 DEF SpawnStep

LEMMA NFiber ==
  ASSUME NInv, TInv', NEW a \in Actors, FiberStep(a) \/ Untrack(a)
  PROVE  NInv'
<1> DEFINE Quiet == /\ notes' = notes /\ outcome' = outcome
                    /\ at[a] \in Silent \/ at'[a] \notin Silent
                    /\ at'[a] \notin {"resolve", "failResolve"}
                    /\ named' = named
                    /\ \A b \in Actors \ {a} : at'[b] = at[b] /\ turn'[b] = turn[b]
<1> USE DEF NInv, TInv, TypeOK, fiberVars, Go
<1>1. CASE TurnStart(a)
  <2>1. Quiet
    BY <1>1 DEF TurnStart, Turns, Silent
  <2> QED
    BY <2>1, NSilent
<1>2. ASSUME NEW end \in Ends, TurnEnd(a, end) PROVE NInv'
  <2>1. PICK place \in AfterTurn(a, end) : Go(a, place)
    BY <1>2 DEF TurnEnd
  <2>2. at[a] \in Turns
    BY <1>2 DEF TurnEnd, TurnsArePlaced
  <2>3. CASE at[a] = "postTurn"
    <3>1. place \in {"postCheck", "close", "died"}
      BY <2>1, <2>3 DEF AfterTurn, Ends
    <3>2. Quiet
      BY <1>2, <2>1, <3>1 DEF TurnEnd, Silent
    <3> QED
      BY <3>2, NSilent
  <2>4. CASE at[a] # "postTurn"
    <3>1. at[a] \in Silent
      BY <2>2, <2>4 DEF Turns, Silent
    <3>2. place \notin {"resolve", "failResolve"}
      BY <2>1, <2>2, AfterTurnPlaces
    <3>3. Quiet
      BY <1>2, <2>1, <3>1, <3>2 DEF TurnEnd
    <3> QED
      BY <3>3, NSilent
  <2> QED
    BY <2>3, <2>4
<1>3. CASE PreHook(a)
  <2>1. Quiet
    BY <1>3 DEF PreHook, Silent
  <2> QED
    BY <2>1, NSilent
<1>4. CASE GateCheck(a)
  <2>1. Quiet
    BY <1>4 DEF GateCheck, Silent
  <2> QED
    BY <2>1, NSilent
<1>5. CASE Notify(a)
  <2>1. ASSUME NEW b \in Actors PROVE Told(b)'
    <3>1. CASE b = a
      <4>1. notes[a] = <<>> /\ outcome[a] = "none" /\ at'[a] = "resolve"
        BY <1>5 DEF Notify, Told, Silent
      <4>2. notes'[a] = IF InBackground(a) THEN <<"completed">> ELSE <<>>
        BY <1>5, <4>1 DEF Notify, Tell
      <4>3. outcome'[a] = "none"
        BY <1>5, <4>1 DEF Notify
      <4>4. Len(notes'[a]) <= 1
        BY <4>2
      <4>5. InBackground(a)' <=> InBackground(a)
        BY <1>5 DEF Notify, InBackground
      <4> QED
        BY <3>1, <4>1, <4>2, <4>3, <4>4, <4>5 DEF Told, Silent
    <3>2. CASE b # a
      BY <1>5, <3>2 DEF Notify, Tell, Told, InBackground
    <3> QED
      BY <3>1, <3>2
  <2> QED
    BY <2>1
<1>6. CASE Resolve(a)
  <2>1. ASSUME NEW b \in Actors PROVE Told(b)'
    <3>1. CASE b = a
      BY <1>6, <3>1 DEF Resolve, Told, Silent, Word, InBackground
    <3>2. CASE b # a
      BY <1>6, <3>2 DEF Resolve, Told, InBackground
    <3> QED
      BY <3>1, <3>2
  <2> QED
    BY <2>1
<1>7. CASE PostCheck(a)
  <2>1. Quiet
    BY <1>7 DEF PostCheck, Silent
  <2> QED
    BY <2>1, NSilent
<1>8. CASE Close(a)
  <2>1. PICK place \in {"exited", "died"} : at' = [at EXCEPT ![a] = place]
    BY <1>8 DEF Close
  <2>2. Quiet
    BY <1>8, <2>1 DEF Close, Silent
  <2> QED
    BY <2>2, NSilent
<1>9. CASE FailNotify(a)
  <2>1. ASSUME NEW b \in Actors PROVE Told(b)'
    <3>1. CASE b = a
      <4>1. turn[a] \in {"failure", "cancelled"}
        BY <1>9 DEF FailNotify, TurnsArePlaced, Failing
      <4>2. Word(turn[a]) = IF turn[a] = "cancelled" THEN "cancelled" ELSE "failed"
        BY <4>1 DEF Word
      <4>3. notes[a] = <<>> /\ outcome[a] = "none" /\ at'[a] = "failResolve"
        BY <1>9 DEF FailNotify, Told, Silent
      <4>4. notes'[a] = IF InBackground(a) THEN <<Word(turn[a])>> ELSE <<>>
        BY <1>9, <4>2, <4>3 DEF FailNotify, Tell
      <4>5. outcome'[a] = "none" /\ turn'[a] = turn[a]
        BY <1>9, <4>3 DEF FailNotify
      <4>6. Len(notes'[a]) <= 1
        BY <4>4
      <4>7. InBackground(a)' <=> InBackground(a)
        BY <1>9 DEF FailNotify, InBackground
      <4> QED
        BY <3>1, <4>3, <4>4, <4>5, <4>6, <4>7 DEF Told, Silent
    <3>2. CASE b # a
      BY <1>9, <3>2 DEF FailNotify, Tell, Told, InBackground
    <3> QED
      BY <3>1, <3>2
  <2> QED
    BY <2>1
<1>10. CASE FailResolve(a)
  <2>1. ASSUME NEW b \in Actors PROVE Told(b)'
    <3>1. CASE b = a
      BY <1>10, <3>1 DEF FailResolve, Told, Silent, InBackground
    <3>2. CASE b # a
      BY <1>10, <3>2 DEF FailResolve, Told, InBackground
    <3> QED
      BY <3>1, <3>2
  <2> QED
    BY <2>1
<1>11. CASE Interrupted(a)
  <2>1. PICK place \in AfterInterrupt(at[a]) : Go(a, place)
    BY <1>11 DEF Interrupted
  <2>2. at[a] \in Silent \/ place \notin Silent
    BY <1>11, <2>1, AfterInterruptPlaces DEF Interrupted, Alive, Silent
  <2>3. place \in {"failNotify", "died", "close"}
    BY <1>11, <2>1, AfterInterruptPlaces DEF Interrupted, Alive
  <2>4. Quiet
    BY <1>11, <2>1, <2>2, <2>3 DEF Interrupted
  <2> QED
    BY <2>4, NSilent
<1>12. CASE Untrack(a)
  <2>1. Quiet
    BY <1>12 DEF Untrack, Silent
  <2> QED
    BY <2>1, NSilent
<1> QED
  BY <1>1, <1>2, <1>3, <1>4, <1>5, <1>6, <1>7, <1>8, <1>9, <1>10, <1>11, <1>12 DEF FiberStep

LEMMA NCancel ==
  ASSUME NInv, TInv', NEW u \in Callers, NEW a \in Actors,
         Cancel(u, a) \/ CancelStep(u, a) \/ ToolCancelRefused(u, a)
  PROVE  NInv'
<1>1. UNCHANGED <<named, at, notes, outcome>>
  BY DEF Cancel, CancelStep, ToolCancelRefused, CancelRead, CancelList, CancelAnnounce, CancelStop,
         CancelInterrupt, CancelAwaited, CancelMark, fiberVars
<1>2. \A b \in Actors : turn'[b] # turn[b] => turn[b] = "work"
  <2>1. CASE CancelStop(u, a)
    BY <2>1 DEF CancelStop, NothingToStop, RunStopped, RunUnborn, NInv, TInv, TypeOK
  <2>2. CASE ~CancelStop(u, a)
    BY <2>2 DEF Cancel, CancelStep, ToolCancelRefused, CancelRead, CancelList, CancelAnnounce,
                CancelInterrupt, CancelAwaited, CancelMark, fiberVars
  <2> QED
    BY <2>1, <2>2
<1>3. \A b \in Actors : at[b] = "failResolve" => turn[b] # "work"
  BY DEF NInv, TInv, TurnsArePlaced, Failing
<1>4. ASSUME NEW b \in Actors PROVE Told(b)'
  BY <1>1, <1>2, <1>3 DEF NInv, Told, InBackground
<1> QED
  BY <1>4 DEF NInv

\* A run tells nobody anything.
LEMMA NRuns ==
  ASSUME NInv, TInv', NEW a \in Actors, Wake(a) \/ RunEnds(a)
  PROVE  NInv'
<1>1. UNCHANGED <<named, at, turn, notes, outcome>>
  BY DEF Wake, RunEnds
<1> QED
  BY <1>1 DEF NInv, Told, InBackground

LEMMA NRestart == ASSUME NInv, TInv', Restart PROVE NInv'
<1>1. ASSUME NEW a \in Actors PROVE Told(a)'
  <2>1. at'[a] = "lost" \/ (at'[a] = at[a] /\ at[a] \notin Places)
    BY DEF Restart, Alive, NInv, TInv, TypeOK
  <2>2. "failResolve" \in Places /\ "lost" \notin Silent
    BY DEF Places, Failing, Silent
  <2> QED
    BY <2>1, <2>2 DEF Restart, NInv, Told, InBackground
<1> QED
  BY <1>1 DEF NInv

LEMMA NStep == NInv /\ [Next]_vars => NInv'
<1> SUFFICES ASSUME NInv, [Next]_vars PROVE NInv'
  OBVIOUS
<1>1. TInv'
  BY TStep DEF NInv
<1>2. CASE UNCHANGED vars
  BY <1>1, <1>2 DEF vars, NInv, Told, InBackground
<1> QED
  BY <1>1, <1>2, NSpawn, NFiber, NRuns, NCancel, NRestart DEF Next

\* Whatever interrupts and failures fall where, the parent of a background actor
\* is told once, and of the end the outcome has.
THEOREM ParentsAreToldTheTruth == Spec => []NotesAgree
<1>1. NInv => NotesAgree
  BY DEF NInv, Told, NotesAgree, Word
<1> QED
  BY <1>1, NInit, NStep, PTL DEF Spec

(***************************************************************************)
(* Unfinished rows are attended.                                           *)
(***************************************************************************)
\* A caller's cancellation of a is past the announcement.
Attending(a) ==
  \E w \in Callers : cancel[w][a] \in {"stopping", "interrupting", "waiting", "marking", "hung"}

\* A fiber is interrupted for a caller who waits for it, and an announcement that
\* stays is for a row that is over.
AttendedFor(a) ==
  /\ row[a].status = "running" => turn[a] \in {"work", "stuck"}
  /\ row[a].status = "pending" =>
       spawn[a] \in {"registered", "abandoned"} \/ (at[a] = "preTurn" /\ turn[a] = "none") \/ Attending(a)
  /\ Alive(a) /\ interrupted[a] => \E w \in Callers : cancel[w][a] = "waiting"
  /\ a \in pendingCancels => row[a].status # "absent" /\ (row[a].status = "pending" => Attending(a))

\* The actors a caller's cancellation has reached from their parent, and the one it
\* began with: there is no second.
Reached(w) ==
  {b \in Actors : cancel[w][b] \in {"children", "stopping", "interrupting", "waiting", "marking", "done", "hung"}}
OneRoot(w) ==
  \A b, d \in Actors :
    cancel[w][b] # "idle" /\ cancel[w][d] # "idle" /\ Parent[b] \notin Reached(w) /\ Parent[d] \notin Reached(w)
      => b = d

UInv == CInv /\ (\A a \in Actors : AttendedFor(a)) /\ (\A u \in Callers : OneRoot(u))

LEMMA UInit == Init => UInv
BY CInit DEF Init, UInv, AttendedFor, OneRoot, Alive, Places, Turns, Failing

\* What a step leaves alone stays attended.
LEMMA AttendedStays ==
  ASSUME UInv, NEW b \in Actors,
         row'[b] = row[b], turn'[b] = turn[b], at'[b] = at[b], interrupted'[b] = interrupted[b],
         spawn[b] \in {"registered", "abandoned"} => spawn'[b] \in {"registered", "abandoned"},
         b \in pendingCancels' => b \in pendingCancels,
         \A w \in Callers : cancel'[w][b] = cancel[w][b]
  PROVE  AttendedFor(b)'
BY DEF UInv, AttendedFor, Attending, Alive

\* Before its children are cancelled none of them is: one that was would have been the
\* first, and its parent, which comes before it, would not be.
LEMMA ChildrenAreIdle ==
  ASSUME UInv, NEW u \in Callers, NEW a \in Actors, cancel[u][a] = "listing",
         NEW c \in Actors, Parent[c] = a
  PROVE  cancel[u][c] = "idle"
<1> SUFFICES ASSUME cancel[u][c] # "idle" PROVE FALSE
  OBVIOUS
<1> DEFINE busy == {b \in Actors : cancel[u][b] # "idle"}
<1>1. busy \in SUBSET Actors /\ busy # {}
  OBVIOUS
<1>2. PICK root \in busy : Parent[root] \notin busy
  BY <1>1, ParentAssumption
<1>3. Parent[root] \notin Reached(u) /\ a \notin Reached(u)
  BY <1>2 DEF Reached
<1>4. root = c
  BY <1>2, <1>3 DEF UInv, OneRoot
<1> QED
  BY <1>2, <1>4

\* A step of the spawn or of the fiber of a.
LEMMA USpawn ==
  ASSUME UInv, NEW a \in Actors, SpawnThread(a) \/ SpawnStep(a) \/ SpawnAbandoned(a), NEW b \in Actors
  PROVE  AttendedFor(b)'
<1> USE DEF UInv, CInv, TInv, TypeOK, cancelVars, fiberVars, Calling
<1>1. CASE SpawnThread(a)
  <2>1. spawn[b] \in {"registered", "abandoned"} => spawn'[b] = spawn[b]
    BY <1>1 DEF SpawnThread
  <2> QED
    BY <1>1, <2>1, AttendedStays DEF SpawnThread
<1>2. CASE SpawnRegister(a)
  <2>1. CASE b = a
    <3>1. row[a].status = "absent" /\ a \notin pendingCancels
      BY <1>2 DEF SpawnRegister, SpawnedInOrder, AttendedFor
    <3>2. row'[a].status = "pending" /\ spawn'[a] = "registered" /\ pendingCancels' = pendingCancels
      BY <1>2 DEF SpawnRegister, SetRow
    <3>3. ~Alive(a)'
      BY <1>2 DEF SpawnRegister, TurnsArePlaced, Alive, Places, Turns, Failing
    <3> QED
      BY <2>1, <3>1, <3>2, <3>3 DEF AttendedFor
  <2>2. CASE b # a
    <3>1. row'[b] = row[b] /\ spawn'[b] = spawn[b]
      BY <1>2, <2>2 DEF SpawnRegister, SetRow
    <3> QED
      BY <1>2, <3>1, AttendedStays DEF SpawnRegister
  <2> QED
    BY <2>1, <2>2
<1>3. CASE SpawnFork(a)
  <2>1. CASE b = a
    <3>1. turn'[a] = "none" /\ row' = row /\ cancel' = cancel /\ a \notin pendingCancels'
      BY <1>3 DEF SpawnFork, TurnsArePlaced
    <3>2. row[a].status # "running"
      BY <1>3, <3>1 DEF SpawnFork, AttendedFor
    <3>3. CASE a \in pendingCancels
      <4>1. ~Alive(a)'
        BY <1>3, <3>3 DEF SpawnFork, Go, Alive, Places, Turns, Failing
      <4>2. row[a].status = "pending" => Attending(a)
        BY <3>3 DEF AttendedFor
      <4>3. Attending(a)' <=> Attending(a)
        BY <3>1 DEF Attending
      <4> QED
        BY <2>1, <3>1, <3>2, <4>1, <4>2, <4>3 DEF AttendedFor
    <3>4. CASE a \notin pendingCancels
      <4>1. at'[a] = "preTurn" /\ ~interrupted'[a]
        BY <1>3, <3>4 DEF SpawnFork, Go
      <4> QED
        BY <2>1, <3>1, <3>2, <4>1 DEF AttendedFor
    <3> QED
      BY <3>3, <3>4
  <2>2. CASE b # a
    <3>1. spawn'[b] = spawn[b] /\ at'[b] = at[b] /\ interrupted'[b] = interrupted[b]
      BY <1>3, <2>2 DEF SpawnFork, Go
    <3>2. b \in pendingCancels' => b \in pendingCancels
      BY <1>3 DEF SpawnFork
    <3> QED
      BY <1>3, <3>1, <3>2, AttendedStays DEF SpawnFork
  <2> QED
    BY <2>1, <2>2
<1>4. CASE SpawnJoined(a) \/ RunReturns(a) \/ SpawnFails(a) \/ SpawnAbandoned(a)
  <2>1. spawn[b] \in {"registered", "abandoned"} => spawn'[b] \in {"registered", "abandoned"}
    BY <1>4 DEF SpawnJoined, RunReturns, SpawnFails, SpawnAbandoned
  <2>2. UNCHANGED <<row, turn, at, interrupted, pendingCancels, cancel>>
    BY <1>4 DEF SpawnJoined, RunReturns, SpawnFails, SpawnAbandoned
  <2> QED
    BY <2>1, <2>2, AttendedStays
<1> QED
  BY <1>1, <1>2, <1>3, <1>4 DEF SpawnStep

LEMMA UFiber ==
  ASSUME UInv, NEW a \in Actors, FiberStep(a) \/ Untrack(a), NEW b \in Actors
  PROVE  AttendedFor(b)'
<1> USE DEF UInv, CInv, TInv, TypeOK, cancelVars, fiberVars, Go
<1>1. UNCHANGED <<spawn, pendingCancels, cancel>> /\ (FiberStep(a) => interrupted' = interrupted)
  BY DEF FiberStep, Untrack, TurnStart, TurnEnd, PreHook, GateCheck, Notify, Resolve, PostCheck, Close,
         FailNotify, FailResolve, Interrupted
<1>2. CASE Untrack(a)
  <2>1. CASE b = a
    <3>1. at[a] \notin Places /\ at' = at /\ row' = row
      BY <1>2 DEF Untrack, Places, Turns, Failing
    <3>2. row[a].status # "running"
      BY <3>1 DEF AttendedFor, TurnsArePlaced, Places
    <3>3. at[a] # "preTurn"
      BY <3>1 DEF Places, Turns
    <3>4. Attending(a)' <=> Attending(a)
      BY <1>1 DEF Attending
    <3> QED
      BY <1>1, <2>1, <3>1, <3>2, <3>3, <3>4 DEF AttendedFor, Alive
  <2>2. CASE b # a
    <3>1. turn'[b] = turn[b] /\ interrupted'[b] = interrupted[b]
      BY <1>2, <2>2 DEF Untrack
    <3> QED
      BY <1>1, <1>2, <3>1, AttendedStays DEF Untrack
  <2> QED
    BY <2>1, <2>2
<1>3. ASSUME FiberStep(a) PROVE at[a] \in Places
  BY <1>3 DEF FiberStep, TurnStart, TurnEnd, PreHook, GateCheck, Notify, Resolve, PostCheck, Close,
         FailNotify, FailResolve, Interrupted, Alive, Places, Turns, Failing, TurnsArePlaced
<1>4. CASE b # a
  <2>1. row'[b] = row[b] /\ turn'[b] = turn[b] /\ at'[b] = at[b] /\ interrupted'[b] = interrupted[b]
    BY <1>4 DEF FiberStep, Untrack, TurnStart, TurnEnd, PreHook, GateCheck, Notify, Resolve, PostCheck, Close,
           FailNotify, FailResolve, Interrupted, SetRow
  <2> QED
    BY <1>1, <2>1, AttendedStays
<1>5. ASSUME b = a, FiberStep(a) PROVE AttendedFor(a)'
  <2>1. Attending(a)' <=> Attending(a)
    BY <1>1 DEF Attending
  <2>2. /\ Alive(a)' /\ interrupted'[a] => \E w \in Callers : cancel'[w][a] = "waiting"
    BY <1>1, <1>3, <1>5 DEF AttendedFor, Alive
  <2>3. CASE TurnStart(a) \/ \E end \in Ends : TurnEnd(a, end)
    <3>1. \/ row'[a].status = "running" /\ turn'[a] = "work"
          \/ row'[a].status = "idle"
      <4>1. CASE TurnStart(a)
        BY <4>1 DEF TurnStart, SetRow
      <4>2. ASSUME NEW end \in Ends, TurnEnd(a, end) PROVE row'[a].status = "idle"
        BY <4>2 DEF TurnEnd, SetRow
      <4> QED
        BY <2>3, <4>1, <4>2
    <3> QED
      BY <1>1, <2>1, <2>2, <3>1 DEF AttendedFor
  <2>4. CASE Interrupted(a)
    <3>1. row' = row /\ Attending(a) /\ turn[a] \notin {"work", "stuck"}
      BY <2>4 DEF Interrupted, AttendedFor, Attending
    <3> QED
      BY <1>1, <2>1, <2>2, <3>1 DEF AttendedFor
  <2>5. CASE PreHook(a) \/ GateCheck(a) \/ Notify(a) \/ Resolve(a) \/ PostCheck(a) \/ Close(a)
             \/ FailNotify(a) \/ FailResolve(a)
    <3>1. UNCHANGED <<row, turn>> /\ at[a] # "preTurn"
      BY <2>5 DEF PreHook, GateCheck, Notify, Resolve, PostCheck, Close, FailNotify, FailResolve
    <3> QED
      BY <1>1, <2>1, <2>2, <3>1 DEF AttendedFor
  <2> QED
    BY <1>5, <2>3, <2>4, <2>5 DEF FiberStep
<1> QED
  BY <1>2, <1>4, <1>5

LEMMA URuns ==
  ASSUME UInv, NEW a \in Actors, Wake(a) \/ RunEnds(a), NEW b \in Actors
  PROVE  AttendedFor(b)'
<1> USE DEF UInv, CInv, TInv, TypeOK, cancelVars
<1>1. UNCHANGED <<spawn, at, turn, interrupted, cancel, pendingCancels>>
  BY DEF Wake, RunEnds
<1>2. row'[b] = row[b] \/ row'[b].status = "idle"
  BY DEF Wake, RunEnds, SetRow
<1>3. CASE row'[b] = row[b]
  BY <1>1, <1>3, AttendedStays
<1>4. CASE row'[b].status = "idle"
  <2>1. Attending(b)' <=> Attending(b)
    BY <1>1 DEF Attending
  <2> QED
    BY <1>1, <1>4, <2>1 DEF AttendedFor, Alive
<1> QED
  BY <1>2, <1>3, <1>4

LEMMA UCancel ==
  ASSUME UInv, NEW u \in Callers, NEW a \in Actors,
         Cancel(u, a) \/ CancelStep(u, a) \/ ToolCancelRefused(u, a), NEW b \in Actors
  PROVE  AttendedFor(b)'
<1> USE DEF UInv, CInv, TInv, TypeOK, fiberVars, cancelVars, SetCancel
<1>1. CASE Cancel(u, a) \/ ToolCancelRefused(u, a) \/ CancelRead(u, a) \/ CancelList(u, a)
  <2>1. /\ \A v \in Callers : cancel[v][b] \in {"stopping", "interrupting", "waiting", "marking", "hung"} => cancel'[v][b] = cancel[v][b]
        /\ UNCHANGED <<row, spawn, at, turn, interrupted, pendingCancels>>
    <3>1. CASE Cancel(u, a) \/ ToolCancelRefused(u, a)
      <4>1. \/ cancel' = [cancel EXCEPT ![u][a] = "asked"]
            \/ cancel' = [cancel EXCEPT ![u][a] = "refused"]
        BY <3>1 DEF Cancel, ToolCancelRefused
      <4>2. cancel[u][a] = "idle"
        BY <3>1 DEF Cancel, ToolCancelRefused
      <4>3. UNCHANGED <<row, spawn, at, turn, interrupted, pendingCancels>>
        BY <3>1 DEF Cancel, ToolCancelRefused
      <4>4. \A v \in Callers : cancel'[v][b] = cancel[v][b] \/ (v = u /\ b = a)
        BY <4>1
      <4> QED
        BY <4>2, <4>3, <4>4
    <3>2. CASE CancelRead(u, a)
      <4>1. \/ cancel' = [cancel EXCEPT ![u][a] = "missed"]
            \/ cancel' = [cancel EXCEPT ![u][a] = "listing"]
        BY <3>2 DEF CancelRead
      <4>2. cancel[u][a] = "asked" /\ UNCHANGED <<row, spawn, at, turn, interrupted, pendingCancels>>
        BY <3>2 DEF CancelRead
      <4>3. \A v \in Callers : cancel'[v][b] = cancel[v][b] \/ (v = u /\ b = a)
        BY <4>1
      <4> QED
        BY <4>2, <4>3
    <3>3. CASE CancelList(u, a)
      <4>1. \A c \in ListByParent(a) : cancel[u][c] = "idle"
        BY <3>3, ChildrenAreIdle DEF CancelList, ListByParent
      <4>2. cancel[u][a] = "listing"
        BY <3>3 DEF CancelList
      <4> QED
        BY <3>3, <4>1, <4>2 DEF CancelList
    <3> QED
      BY <1>1, <3>1, <3>2, <3>3
  <2>2. Attending(b) => Attending(b)'
    BY <2>1 DEF Attending
  <2>3. (\E w \in Callers : cancel[w][b] = "waiting") => \E w \in Callers : cancel'[w][b] = "waiting"
    BY <2>1
  <2> QED
    BY <2>1, <2>2, <2>3 DEF AttendedFor, Alive
<1>7. CASE CancelStop(u, a)
  <2>1. PICK place \in {"interrupting", "hung"} : cancel' = [cancel EXCEPT ![u][a] = place]
    BY <1>7 DEF CancelStop, NothingToStop, RunStopped, RunUnborn
  <2>2. cancel[u][a] = "stopping" /\ UNCHANGED <<row, spawn, at, interrupted, pendingCancels>>
    BY <1>7 DEF CancelStop
  <2>3. turn'[b] = turn[b] \/ (turn[b] = "work" /\ turn'[b] = "stuck")
    BY <1>7 DEF CancelStop, NothingToStop, RunStopped, RunUnborn
  <2>4. \A v \in Callers : \/ cancel'[v][b] = cancel[v][b]
                           \/ cancel[v][b] = "stopping" /\ cancel'[v][b] \in {"interrupting", "hung"}
    BY <2>1, <2>2
  <2>5. Attending(b) => Attending(b)'
    BY <2>4 DEF Attending
  <2>6. (\E w \in Callers : cancel[w][b] = "waiting") => \E w \in Callers : cancel'[w][b] = "waiting"
    BY <2>4
  <2> QED
    BY <2>2, <2>3, <2>5, <2>6 DEF AttendedFor, Alive
<1>2. CASE b # a /\ (CancelAnnounce(u, a) \/ CancelInterrupt(u, a) \/ CancelAwaited(u, a) \/ CancelMark(u, a))
  <2>1. PICK place : cancel' = [cancel EXCEPT ![u][a] = place]
    BY <1>2 DEF CancelAnnounce, CancelInterrupt, CancelAwaited, CancelMark
  <2>2. /\ row'[b] = row[b] /\ interrupted'[b] = interrupted[b]
        /\ UNCHANGED <<spawn, at, turn>>
        /\ b \in pendingCancels' => b \in pendingCancels
    BY <1>2 DEF CancelAnnounce, CancelInterrupt, CancelAwaited, CancelMark, SetRow
  <2>3. \A v \in Callers : cancel'[v][b] = cancel[v][b]
    BY <1>2, <2>1
  <2> QED
    BY <2>2, <2>3, AttendedStays
<1>3. CASE CancelAnnounce(u, a) /\ b = a
  <2>1. cancel'[u][a] = "stopping" /\ UNCHANGED <<row, spawn, at, turn, interrupted>>
    BY <1>3 DEF CancelAnnounce
  <2>2. Attending(a)'
    BY <2>1 DEF Attending
  <2>3. \A v \in Callers : cancel[v][a] = "waiting" => cancel'[v][a] = "waiting"
    BY <1>3 DEF CancelAnnounce
  <2>4. row[a].status # "absent"
    BY <1>3 DEF CancelAnnounce, Achieved
  <2> QED
    BY <1>3, <2>1, <2>2, <2>3, <2>4 DEF AttendedFor, Alive
<1>4. CASE CancelInterrupt(u, a) /\ b = a
  <2>1. /\ cancel'[u][a] = IF a \in tracked THEN "waiting" ELSE "marking"
        /\ UNCHANGED <<row, spawn, at, turn, pendingCancels>>
        /\ interrupted'[a] = (interrupted[a] \/ a \in tracked)
    BY <1>4 DEF CancelInterrupt
  <2>2. Attending(a)'
    BY <2>1 DEF Attending
  <2>3. Alive(a)' => cancel'[u][a] = "waiting"
    BY <2>1 DEF SpawnedInOrder, Alive
  <2> QED
    BY <1>4, <2>1, <2>2, <2>3 DEF AttendedFor
<1>5. CASE CancelAwaited(u, a) /\ b = a
  <2>1. /\ cancel'[u][a] = "marking" /\ UNCHANGED <<row, spawn, at, turn>>
        /\ a \notin pendingCancels' /\ at[a] \in {"exited", "died"}
    BY <1>5 DEF CancelAwaited
  <2>2. Attending(a)'
    BY <2>1 DEF Attending
  <2>3. ~Alive(a)'
    BY <2>1 DEF Alive, Places, Turns, Failing
  <2> QED
    BY <1>5, <2>1, <2>2, <2>3 DEF AttendedFor
<1>6. CASE CancelMark(u, a) /\ b = a
  <2>1. row'[a].status = "idle" /\ UNCHANGED <<at, pendingCancels>>
    BY <1>6 DEF CancelMark, SetRow
  <2>2. ~Alive(a)'
    BY <1>6, <2>1 DEF CancelMark, Achieved, Alive
  <2> QED
    BY <1>6, <2>1, <2>2 DEF AttendedFor
<1> QED
  BY <1>1, <1>2, <1>3, <1>4, <1>5, <1>6, <1>7 DEF CancelStep

LEMMA URestart == ASSUME UInv, Restart, NEW b \in Actors PROVE AttendedFor(b)'
<1> USE DEF UInv, CInv, TInv, TypeOK
<1>1. row'[b].status \in {"absent", "idle"}
  BY DEF Restart, Orphaned, Row
<1>2. ~Alive(b)' /\ b \notin pendingCancels'
  BY DEF Restart, Alive, Places, Turns, Failing
<1> QED
  BY <1>1, <1>2 DEF AttendedFor

\* A cancellation begins once and reaches the others from their parents.
LEMMA RootStays ==
  ASSUME UInv, [Next]_vars, NEW v \in Callers
  PROVE  OneRoot(v)'
<1> USE DEF UInv, CInv, TInv, TypeOK, cancelVars, SetCancel
<1>1. CASE cancel' = cancel
  BY <1>1 DEF OneRoot, Reached
<1>2. ASSUME NEW u \in Callers, NEW a \in Actors, Cancel(u, a) \/ ToolCancelRefused(u, a) PROVE OneRoot(v)'
  <2>1. CASE u = v
    <3>1. \A b \in Actors : cancel'[v][b] # "idle" => b = a
      BY <1>2, <2>1 DEF Cancel, ToolCancelRefused
    <3> QED
      BY <3>1 DEF OneRoot
  <2>2. CASE u # v
    <3>1. \A b \in Actors : cancel'[v][b] = cancel[v][b]
      BY <1>2, <2>2 DEF Cancel, ToolCancelRefused
    <3> QED
      BY <3>1 DEF OneRoot, Reached
  <2> QED
    BY <2>1, <2>2
<1>3. ASSUME NEW u \in Callers, NEW a \in Actors, CancelList(u, a) PROVE OneRoot(v)'
  <2>1. CASE u = v
    <3>1. /\ a \in Reached(v)' /\ cancel[v][a] # "idle"
          /\ \A b \in ListByParent(a) : cancel[v][b] = "idle" /\ Parent[b] = a
      BY <1>3, <2>1, ChildrenAreIdle DEF CancelList, ListByParent, Reached
    <3>2. \A b \in Actors \ ListByParent(a) : b # a => cancel'[v][b] = cancel[v][b]
      BY <1>3, <2>1 DEF CancelList
    <3>3. Reached(v) \subseteq Reached(v)'
      BY <3>1, <3>2 DEF Reached
    <3>4. \A b \in Actors : cancel'[v][b] # "idle" /\ Parent[b] \notin Reached(v)' => cancel[v][b] # "idle"
      <4> TAKE b \in Actors
      <4>1. CASE b \in ListByParent(a)
        BY <3>1, <4>1
      <4>2. CASE b = a
        BY <3>1, <4>2
      <4>3. CASE b \notin ListByParent(a) /\ b # a
        BY <3>2, <4>3
      <4> QED
        BY <4>1, <4>2, <4>3
    <3> QED
      BY <3>3, <3>4 DEF OneRoot
  <2>2. CASE u # v
    <3>1. \A b \in Actors : cancel'[v][b] = cancel[v][b]
      BY <1>3, <2>2 DEF CancelList
    <3> QED
      BY <3>1 DEF OneRoot, Reached
  <2> QED
    BY <2>1, <2>2
<1>4. ASSUME NEW u \in Callers, NEW a \in Actors,
             CancelRead(u, a) \/ CancelAnnounce(u, a) \/ CancelStop(u, a) \/ CancelInterrupt(u, a) \/ CancelAwaited(u, a) \/ CancelMark(u, a)
      PROVE  OneRoot(v)'
  <2> DEFINE Moves(place) == cancel' = [cancel EXCEPT ![u][a] = place]
  <2>0. Moves("missed") \/ Moves("listing") \/ Moves("stopping") \/ Moves("interrupting") \/ Moves("hung") \/ Moves("waiting") \/ Moves("marking") \/ Moves("done")
    <3>1. CASE CancelRead(u, a)
      BY <3>1 DEF CancelRead
    <3>2. CASE CancelAnnounce(u, a)
      BY <3>2 DEF CancelAnnounce
    <3>3. CASE CancelInterrupt(u, a)
      BY <3>3 DEF CancelInterrupt
    <3>4. CASE CancelAwaited(u, a)
      BY <3>4 DEF CancelAwaited
    <3>5. CASE CancelMark(u, a)
      BY <3>5 DEF CancelMark
    <3>6. CASE CancelStop(u, a)
      BY <3>6 DEF CancelStop, NothingToStop, RunStopped, RunUnborn
    <3> QED
      BY <1>4, <3>1, <3>2, <3>3, <3>4, <3>5, <3>6
  <2> HIDE DEF Moves
  <2>1. PICK place \in {"missed", "listing", "stopping", "interrupting", "hung", "waiting", "marking", "done"} : Moves(place)
    BY <2>0
  <2> USE DEF Moves
  <2>2. cancel[u][a] # "idle" /\ (a \in Reached(u) => place \in {"stopping", "interrupting", "hung", "waiting", "marking", "done"})
    <3>1. CASE CancelRead(u, a)
      BY <3>1 DEF CancelRead, Reached
    <3>2. CASE CancelAnnounce(u, a)
      BY <2>1, <3>2 DEF CancelAnnounce
    <3>3. CASE CancelInterrupt(u, a)
      BY <2>1, <3>3 DEF CancelInterrupt
    <3>4. CASE CancelAwaited(u, a) \/ CancelMark(u, a)
      BY <2>1, <3>4 DEF CancelAwaited, CancelMark
    <3>5. CASE CancelStop(u, a)
      BY <2>1, <3>5 DEF CancelStop, NothingToStop, RunStopped, RunUnborn
    <3> QED
      BY <1>4, <3>1, <3>2, <3>3, <3>4, <3>5
  <2>3. \A b \in Actors : cancel'[v][b] = cancel[v][b] \/ (u = v /\ b = a /\ cancel'[v][b] = place)
    BY <2>1
  <2>4. \A b \in Actors : /\ cancel'[v][b] # "idle" => cancel[v][b] # "idle"
                          /\ b \in Reached(v) => b \in Reached(v)'
    BY <2>1, <2>2, <2>3 DEF Reached
  <2> QED
    BY <2>4 DEF OneRoot, Reached
<1>5. CASE Restart
  BY <1>5 DEF Restart, OneRoot
<1>6. ASSUME NEW a \in Actors, SpawnThread(a) \/ SpawnStep(a) \/ SpawnAbandoned(a) \/ FiberStep(a) \/ Untrack(a)
             \/ Wake(a) \/ RunEnds(a)
      PROVE  cancel' = cancel
  BY <1>6 DEF SpawnThread, SpawnStep, SpawnAbandoned, SpawnRegister, SpawnFork, SpawnJoined, RunReturns, SpawnFails,
              FiberStep, Untrack, TurnStart, TurnEnd, PreHook, GateCheck, Notify, Resolve, PostCheck, Close,
              FailNotify, FailResolve, Interrupted, Wake, RunEnds
<1> QED
  BY <1>1, <1>2, <1>3, <1>4, <1>5, <1>6 DEF Next, CancelStep, vars

LEMMA UStep == UInv /\ [Next]_vars => UInv'
<1> SUFFICES ASSUME UInv, [Next]_vars PROVE UInv'
  OBVIOUS
<1>1. CInv'
  BY CStep DEF UInv
<1>2. ASSUME NEW b \in Actors PROVE AttendedFor(b)'
  <2>1. CASE UNCHANGED vars
    BY <2>1, AttendedStays DEF vars
  <2> QED
    BY <2>1, USpawn, UFiber, URuns, UCancel, URestart DEF Next
<1> QED
  BY <1>1, <1>2, RootStays DEF UInv

\* No row is left behind: one that says running has a turn at work, and one that says
\* pending has its spawn, its fiber or a cancellation to move it on, except where the
\* spawn was taken down with its parent's run, or the cancellation hangs (spawn.ts, cancel
\* and forkWork).
THEOREM UnfinishedAreAttended == Spec => []UnfinishedIsAttended
<1>1. UInv => UnfinishedIsAttended
  BY DEF UInv, AttendedFor, Attending, UnfinishedIsAttended
<1> QED
  BY <1>1, UInit, UStep, PTL DEF Spec

=============================================================================
