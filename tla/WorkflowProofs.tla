--------------------------- MODULE WorkflowProofs ---------------------------
(* Theorems about Workflow, for any runs, scripts, callers and bounds.       *)
EXTENDS Workflow, TLAPS

USE WorkflowAssumption DEF Launches

(***************************************************************************)
(* The types; an entry that was not made yet is blank, and an ID leads to  *)
(* an entry of its own run.                                                *)
(***************************************************************************)
FreshIsBlank ==
  \A l \in Launches : of[l] = NoRun =>
      /\ parent[l] = 0
      /\ status[l] = "running" /\ fiber[l] = "none" /\ script[l] = "none"
      /\ \A k \in Keys : call[l][k] = "idle"
      /\ \A s \in Stoppers : stops[s][l] = "idle"
CurrentIsOfRun == \A r \in Runs : current[r] # 0 => of[current[r]] = r

TInv == TypeOK /\ FreshIsBlank /\ CurrentIsOfRun

LEMMA TInit == Init => TInv
BY DEF Init, TInv, TypeOK, FreshIsBlank, CurrentIsOfRun, Status, Fiber, Script, Call, Stop

\* An entry that shows any sign of life has a run.
LEMMA Made ==
  ASSUME TInv, NEW l \in Launches,
         \/ fiber[l] # "none" \/ parent[l] # 0
         \/ \E k \in Keys : call[l][k] # "idle"
         \/ \E s \in Stoppers : stops[s][l] # "idle"
  PROVE  of[l] \in Runs
<1>1. of[l] # NoRun
  BY DEF TInv, FreshIsBlank
<1>2. of[l] \in Runs \cup {NoRun}
  BY DEF TInv, TypeOK
<1> QED
  BY <1>1, <1>2

LEMMA TLaunching ==
  ASSUME TInv, NEW l \in Launches, NEW r \in Runs, Start(l, r) \/ ResumeLaunches(l, r)
  PROVE  TInv'
<1> USE DEF TInv, TypeOK, FreshIsBlank, CurrentIsOfRun, Event, table, locks, made, ended, Stoppers
<1>1. CASE Start(l, r)
  BY <1>1 DEF Start, Launch, New, Status, Fiber
<1>2. CASE ResumeLaunches(l, r)
  BY <1>2 DEF ResumeLaunches, Launch, New, Status, Fiber
<1> QED
  BY <1>1, <1>2

LEMMA TRequests ==
  ASSUME TInv, NEW r \in Runs, Resume(r) \/ ResumeGivesUp(r) \/ \E s \in Callers : Cancel(s, r)
  PROVE  TInv'
<1> USE DEF TInv, TypeOK, FreshIsBlank, CurrentIsOfRun, Event, table, locks, made, ended, Stoppers
<1>1. CASE Resume(r)
  BY <1>1 DEF Resume
<1>2. CASE ResumeGivesUp(r)
  BY <1>2 DEF ResumeGivesUp
<1>3. CASE \E s \in Callers : Cancel(s, r)
  BY <1>3 DEF Cancel, Reclaims, Live, Call, Stop
<1> QED
  BY <1>1, <1>2, <1>3

LEMMA CallTyped ==
  ASSUME NEW l \in Launches, NEW k \in Keys, NEW to \in Call,
         call \in [Launches -> [Keys -> Call]], call' = [call EXCEPT ![l][k] = to]
  PROVE  call' \in [Launches -> [Keys -> Call]]
OBVIOUS

\* A call that was asked for moves on to a stage; only the journal may change too.
LEMMA CallMoves ==
  ASSUME TInv, NEW l \in Launches, NEW k \in Keys, NEW from, NEW to \in Call,
         Moves(l, k, from, to),
         from # "idle" \/ script[l] = "guest",
         journal' \in [Runs -> SUBSET Keys],
         lingering' \in [Launches -> SUBSET Keys],
         UNCHANGED <<current, row, locks, made, awaited, ended, cancelling, fiber, script, replay, stops, events>>
  PROVE  TInv'
<1> USE DEF TInv, TypeOK, FreshIsBlank, CurrentIsOfRun, locks, made, ended
<1>1. of[l] # NoRun /\ call' = [call EXCEPT ![l][k] = to]
  BY DEF Moves
<1>2. call' \in [Launches -> [Keys -> Call]]
  <2>1. call \in [Launches -> [Keys -> Call]]
    OBVIOUS
  <2> QED
    BY <1>1, <2>1, CallTyped
<1>3. TypeOK'
  BY <1>2
<1>4. FreshIsBlank'
  BY <1>1
<1>5. CurrentIsOfRun'
  OBVIOUS
<1> QED
  BY <1>3, <1>4, <1>5

LEMMA TGive ==
  ASSUME TInv, NEW l \in Launches, NEW k \in Keys, NEW from, from # "idle",
         Give(l, k, from) \/ GiveNull(l, k, from),
         lingering' \in [Launches -> SUBSET Keys]
  PROVE  TInv'
<1>0. CASE GiveNull(l, k, from)
  <2>1. journal \in [Runs -> SUBSET Keys]
    BY DEF TInv, TypeOK
  <2> QED
    BY <1>0, <2>1, CallMoves DEF GiveNull, table, Call
<1> SUFFICES ASSUME Give(l, k, from) PROVE TInv'
  BY <1>0
<1>1. call[l][k] # "idle"
  BY DEF Give, Moves
<1>2. of[l] \in Runs
  BY <1>1, Made
<1>3. journal[of[l]] \cup {k} \in SUBSET Keys
  BY <1>2 DEF TInv, TypeOK
<1>4. journal' \in [Runs -> SUBSET Keys]
  BY <1>2, <1>3 DEF Give, TInv, TypeOK
<1> QED
  BY <1>4, CallMoves DEF Give, Call

LEMMA TCalling ==
  ASSUME TInv, NEW l \in Launches, NEW k \in Keys, Calling(l, k)
  PROVE  TInv'
<1>1. journal \in [Runs -> SUBSET Keys] /\ lingering \in [Launches -> SUBSET Keys]
  BY DEF TInv, TypeOK
<1>2. CASE Ask(l, k)
  BY <1>1, <1>2, CallMoves DEF Ask, Elsewhere, table, Call
<1>3. CASE Reject(l, k)
  BY <1>1, <1>3, CallMoves DEF Reject, Elsewhere, table, Call
<1>4. CASE Register(l, k)
  BY <1>1, <1>4, CallMoves DEF Register, Elsewhere, table, Call
<1>5. CASE ForkActor(l, k)
  BY <1>1, <1>5, CallMoves DEF ForkActor, Elsewhere, table, Call
<1>6. CASE StartAgentRun(l, k)
  BY <1>1, <1>6, CallMoves DEF StartAgentRun, Elsewhere, table, Call
<1>7. CASE KeepAgentRun(l, k)
  BY <1>1, <1>7, CallMoves DEF KeepAgentRun, Elsewhere, table, Call
<1>8. CASE AgentEnds(l, k)
  <2>1. CASE /\ \E from \in {"working", "started", "forgotten", "stopped"} : Give(l, k, from) \/ GiveNull(l, k, from)
             /\ UNCHANGED lingering
    BY <1>1, <2>1, TGive
  <2>2. CASE /\ Give(l, k, "working") \/ GiveNull(l, k, "working")
             /\ lingering' = [lingering EXCEPT ![l] = @ \cup {k}]
    <3>1. lingering' \in [Launches -> SUBSET Keys]
      BY <1>1, <2>2
    <3> QED
      BY <2>2, <3>1, TGive
  <2> QED
    BY <1>8, <2>1, <2>2 DEF AgentEnds
<1>11. CASE ActorEnds(l, k)
  <2>1. lingering' \in [Launches -> SUBSET Keys]
    BY <1>1, <1>11 DEF ActorEnds
  <2>2. UNCHANGED <<current, row, journal, reading, holder, of, parent, awaited, status, outcome,
                    cancelling, fiber, script, replay, call, stops, events>>
    BY <1>11 DEF ActorEnds, table, locks, made, ended
  <2>3. TypeOK'
    BY <2>1, <2>2 DEF TInv, TypeOK
  <2> QED
    BY <2>2, <2>3 DEF TInv, FreshIsBlank, CurrentIsOfRun
<1>9. CASE \E c \in Launches : LaunchChild(l, k, c)
  <2> USE DEF TInv, TypeOK, FreshIsBlank, CurrentIsOfRun, LaunchChild, Launch, New, locks, ended
  <2>1. PICK c \in Launches : LaunchChild(l, k, c)
    BY <1>9
  <2>2. "launching" \in Call /\ "running" \in Status /\ "launching" \in Fiber
    BY DEF Call, Status, Fiber
  <2>3. call' = [call EXCEPT ![l][k] = "launching"] /\ call[l][k] # "idle"
    BY <2>1 DEF Moves
  <2>4. TypeOK'
    <3>1. call' \in [Launches -> [Keys -> Call]]
      BY <2>2, <2>3, CallTyped
    <3>2. row' \in [Runs -> Status \cup {"none"}] /\ fiber' \in [Launches -> Fiber]
      BY <2>1, <2>2
    <3>3. of' \in [Launches -> Runs \cup {NoRun}] /\ parent' \in [Launches -> Nat]
      BY <2>1
    <3>4. current' \in [Runs -> Launches \cup {0}]
      BY <2>1
    <3> QED
      BY <2>1, <3>1, <3>2, <3>3, <3>4
  <2>5. FreshIsBlank'
    <3> SUFFICES ASSUME NEW m \in Launches, of'[m] = NoRun
                 PROVE  m # c /\ m # l
      BY <2>1, <2>3
    <3> QED
      BY <2>1, <2>3
  <2>6. CurrentIsOfRun'
    BY <2>1
  <2> QED
    BY <2>4, <2>5, <2>6
<1>10. CASE ChildEnds(l, k)
  BY <1>1, <1>10, TGive DEF ChildEnds
<1> QED
  BY <1>2, <1>3, <1>4, <1>5, <1>6, <1>7, <1>8, <1>9, <1>10, <1>11 DEF Calling

LEMMA TTerminal ==
  ASSUME TInv, NEW l \in Launches, NEW answer \in Status, Terminal(l, answer)
  PROVE  status' \in [Launches -> Status] /\ outcome' \in [Launches -> Status]
<1>1. status' \in [Launches -> Status]
  BY DEF TInv, TypeOK, Terminal
<1>2. (IF outcome[l] = "running" THEN answer ELSE outcome[l]) \in Status
  BY DEF TInv, TypeOK
<1>3. outcome' = [outcome EXCEPT ![l] = IF outcome[l] = "running" THEN answer ELSE outcome[l]]
  BY DEF Terminal, Answered
<1> QED
  BY <1>1, <1>2, <1>3 DEF TInv, TypeOK

\* What Records does to the stoppers.
LEMMA Settling ==
  ASSUME TInv, NEW s \in Stoppers, NEW l \in Launches, Records(s, l)
  PROVE  \A z \in Stoppers, m \in Launches : m # l => stops'[z][m] \in {stops[z][m], "idle"}
<1>1. l \in Stoppers /\ stops \in [Stoppers -> [Launches -> Stop]]
  BY DEF Stoppers, TInv, TypeOK
<1> DEFINE once == [stops EXCEPT ![s][l] = "settling"]
<1>2. once \in [Stoppers -> [Launches -> Stop]] /\ \A z \in Stoppers, m \in Launches : m # l => once[z][m] = stops[z][m]
  BY <1>1 DEF Stop
<1>3. stops' = [once EXCEPT ![l] = [m \in Launches |-> "idle"]]
  BY DEF Records
<1> HIDE DEF once
<1> QED
  BY <1>1, <1>2, <1>3

LEMMA TStopping ==
  ASSUME TInv, NEW s \in Stoppers, NEW l \in Launches, Stopping(s, l)
  PROVE  TInv'
<1>0. Records(s, l) => \A z \in Stoppers, m \in Launches : m # l => stops'[z][m] \in {stops[z][m], "idle"}
  BY Settling
<1> USE DEF TInv, TypeOK, FreshIsBlank, CurrentIsOfRun, table, locks, made, ended, At
<1>1. stops[s][l] # "idle" /\ of[l] # NoRun
  BY DEF Stopping, Interrupts, Descends, Records, Settles, RecordsAndSettles, Reclaimed
<1>2. CASE Interrupts(s, l)
  <2>1. stops' \in [Stoppers -> [Launches -> Stop]]
    BY <1>2 DEF Interrupts, Stop
  <2>2. [k \in Keys |-> IF call[l][k] = "started" THEN "stopped" ELSE call[l][k]] \in [Keys -> Call]
    <3>1. "stopped" \in Call /\ call[l] \in [Keys -> Call]
      BY DEF Call
    <3> QED
      BY <3>1
  <2>3. call' = [call EXCEPT ![l] = [k \in Keys |-> IF call[l][k] = "started" THEN "stopped" ELSE call[l][k]]]
    BY <1>2 DEF Interrupts
  <2>4. call' \in [Launches -> [Keys -> Call]]
    BY <2>2, <2>3
  <2>5. TypeOK'
    BY <1>2, <2>1, <2>4 DEF Interrupts
  <2>6. FreshIsBlank'
    BY <1>1, <1>2, <2>3 DEF Interrupts
  <2> QED
    BY <1>2, <2>5, <2>6 DEF Interrupts
<1>3. CASE Descends(s, l)
  <2>1. call' \in [Launches -> [Keys -> Call]]
    BY <1>3 DEF Descends, Call
  <2>2. stops' \in [Stoppers -> [Launches -> Stop]]
    BY <1>3 DEF Descends, Stop
  <2>3. \A m \in ToCancel(l) : m \in Launches /\ of[m] # NoRun
    <3>1. ASSUME NEW d \in Launches, parent[d] = l PROVE of[d] \in Runs
      BY <3>1, Made
    <3>2. ChildRuns(l) \subseteq Runs
      BY <3>1 DEF ChildRuns
    <3>3. ASSUME NEW r \in Runs, Live(r) PROVE current[r] \in Launches /\ of[current[r]] # NoRun
      BY <3>3 DEF Live
    <3> QED
      BY <3>2, <3>3 DEF ToCancel
  <2>4. FreshIsBlank'
    BY <1>1, <1>3, <2>3 DEF Descends
  <2>5. TypeOK'
    BY <1>3, <2>1, <2>2 DEF Descends
  <2> QED
    BY <1>3, <2>4, <2>5 DEF Descends
<1>4. CASE Records(s, l)
  <2>1. stops' \in [Stoppers -> [Launches -> Stop]]
    BY <1>4 DEF Records, Stop
  <2>2. fiber' \in [Launches -> Fiber]
    BY <1>4 DEF Records, Fiber
  <2>3. row' \in [Runs -> Status \cup {"none"}]
    BY <1>4 DEF Records, Status
  <2>4. TypeOK'
    BY <1>4, <2>1, <2>2, <2>3 DEF Records
  <2>5. FreshIsBlank'
    <3>3. \A m \in Launches : m # l => fiber'[m] = fiber[m]
      BY <1>4 DEF Records
    <3>4. UNCHANGED <<of, parent, status, script, call>>
      BY <1>4 DEF Records
    <3>5. ASSUME NEW m \in Launches, of[m] = NoRun
          PROVE  fiber'[m] = fiber[m] /\ \A z \in Stoppers : stops'[z][m] \in {stops[z][m], "idle"}
      <4>1. m # l
        BY <1>1, <3>5
      <4> QED
        BY <1>0, <1>4, <3>3, <4>1
    <3> HIDE DEF TypeOK, CurrentIsOfRun
    <3> QED
      BY <3>4, <3>5
  <2>6. CurrentIsOfRun'
    BY <1>4 DEF Records
  <2> QED
    BY <2>4, <2>5, <2>6
<1>5. CASE Settles(s, l)
  <2>1. stops' \in [Stoppers -> [Launches -> Stop]]
    BY <1>5 DEF Settles, Stop
  <2>2. "cancelled" \in Status /\ Terminal(l, "cancelled")
    BY <1>5 DEF Settles, Status
  <2>3. status' \in [Launches -> Status] /\ outcome' \in [Launches -> Status]
    BY <2>2, TTerminal
  <2>4. TypeOK'
    BY <1>5, <2>1, <2>3 DEF Settles
  <2>5. FreshIsBlank'
    BY <1>1, <1>5 DEF Settles, Terminal
  <2> QED
    BY <1>5, <2>4, <2>5 DEF Settles
<1>6. CASE RecordsAndSettles(s, l)
  <2>1. stops' \in [Stoppers -> [Launches -> Stop]]
    BY <1>6 DEF RecordsAndSettles, Stop
  <2>2. "cancelled" \in Status /\ Terminal(l, "cancelled")
    BY <1>6 DEF RecordsAndSettles, Status
  <2>3. status' \in [Launches -> Status] /\ outcome' \in [Launches -> Status]
    BY <2>2, TTerminal
  <2>4. row' \in [Runs -> Status \cup {"none"}]
    BY <1>6, <2>2 DEF RecordsAndSettles
  <2>5. TypeOK'
    BY <1>6, <2>1, <2>3, <2>4 DEF RecordsAndSettles
  <2>6. FreshIsBlank'
    BY <1>1, <1>6 DEF RecordsAndSettles, Terminal
  <2> QED
    BY <1>6, <2>5, <2>6 DEF RecordsAndSettles
<1> QED
  BY <1>2, <1>3, <1>4, <1>5, <1>6 DEF Stopping

LEMMA TFinishes ==
  ASSUME TInv, NEW l \in Launches, NEW answer \in Status, Finishes(l, answer), fiber[l] # "none",
         stops' \in [Stoppers -> [Launches -> Stop]],
         \A s \in Stoppers, m \in Launches : m # l => stops'[s][m] = stops[s][m],
         UNCHANGED <<current, journal, locks, made, awaited, lingering, cancelling, script, replay, call, events>>
  PROVE  TInv'
<1> USE DEF TInv, TypeOK, FreshIsBlank, CurrentIsOfRun, Finishes, locks, made
<1>1. status' \in [Launches -> Status] /\ outcome' \in [Launches -> Status]
  BY TTerminal
<1>2. row' \in [Runs -> Status \cup {"none"}]
  OBVIOUS
<1>3. fiber' \in [Launches -> Fiber]
  BY DEF Fiber
<1>4. TypeOK'
  BY <1>1, <1>2, <1>3
<1>5. FreshIsBlank'
  BY DEF Terminal
<1> QED
  BY <1>4, <1>5

LEMMA TWorking ==
  ASSUME TInv, NEW l \in Launches, Forks(l) \/ LaunchFails(l) \/ Working(l)
  PROVE  TInv'
<1> USE DEF TInv, TypeOK, FreshIsBlank, CurrentIsOfRun, Event, table, locks, made, ended, Stoppers
<1>1. CASE Forks(l)
  <2>1. call' \in [Launches -> [Keys -> Call]] /\ holder' \in [Runs -> Nat]
    BY <1>1 DEF Forks, CallOf, Released, Call
  <2>2. awaited' \in [Launches -> Nat] /\ replay' \in [Launches -> SUBSET Keys] /\ script' \in [Launches -> Script]
    <3>1. of[l] \in Runs
      <4>1. fiber[l] # "none"
        BY <1>1 DEF Forks
      <4> QED
        BY <4>1, Made
    <3>2. current[of[l]] \in Nat /\ journal[of[l]] \in SUBSET Keys
      BY <3>1
    <3> QED
      BY <1>1, <3>2 DEF Forks, Script
  <2>3. fiber' \in [Launches -> Fiber] /\ of[l] # NoRun
    BY <1>1 DEF Forks, Fiber
  <2>4. FreshIsBlank'
    <3>1. \A m \in Launches, k \in Keys : call[m][k] = "idle" => call'[m][k] = "idle"
      BY <1>1 DEF Forks, CallOf
    <3>2. \A m \in Launches : m # l => fiber'[m] = fiber[m] /\ script'[m] = script[m]
      BY <1>1 DEF Forks
    <3>3. UNCHANGED <<of, parent, status, stops>>
      BY <1>1 DEF Forks
    <3> QED
      BY <2>3, <3>1, <3>2, <3>3
  <2> QED
    BY <1>1, <2>1, <2>2, <2>3, <2>4 DEF Forks
<1>2. CASE LaunchFails(l)
  BY <1>2 DEF LaunchFails, CallOf, Released, Fiber, Call
<1>3. CASE ScriptEnds(l)
  BY <1>3 DEF ScriptEnds, Script
<1>4. CASE Completes(l)
  <2>1. Finishes(l, "completed") /\ fiber[l] # "none" /\ "completed" \in Status
    BY <1>4 DEF Completes, Status
  <2> QED
    BY <1>4, <2>1, TFinishes DEF Completes
<1>5. CASE Throws(l)
  <2>1. fiber' \in [Launches -> Fiber]
    BY <1>5 DEF Throws, Fiber
  <2>2. stops' \in [Stoppers -> [Launches -> Stop]]
    BY <1>5 DEF Throws, Stop
  <2>3. cancelling' \in [Launches -> BOOLEAN] /\ call' \in [Launches -> [Keys -> Call]]
    BY <1>5 DEF Throws, Reclaims, Call
  <2>4. TypeOK'
    BY <1>5, <2>1, <2>2, <2>3 DEF Throws
  <2>5. FreshIsBlank'
    BY <1>5 DEF Throws, Reclaims
  <2> QED
    BY <1>5, <2>4, <2>5 DEF Throws
<1>6. CASE Fails(l)
  <2>1. Finishes(l, "failed") /\ fiber[l] # "none" /\ "failed" \in Status
    BY <1>6 DEF Fails, Status
  <2>2. stops' \in [Stoppers -> [Launches -> Stop]]
    BY <1>6 DEF Fails, Stop
  <2>3. \A s \in Stoppers, m \in Launches : m # l => stops'[s][m] = stops[s][m]
    BY <1>6 DEF Fails
  <2> QED
    BY <1>6, <2>1, <2>2, <2>3, TFinishes DEF Fails
<1> QED
  BY <1>1, <1>2, <1>3, <1>4, <1>5, <1>6 DEF Working

LEMMA TCrash == TInv /\ Crash => TInv'
BY DEF Crash, TInv, TypeOK, FreshIsBlank, CurrentIsOfRun, Event, table, locks, made, ended, Stoppers, Status, Fiber, Script, Call, Stop

LEMMA TStep == TInv /\ [Next]_vars => TInv'
<1> SUFFICES ASSUME TInv, [Next]_vars PROVE TInv'
  OBVIOUS
<1>1. CASE Next
  <2>1. CASE \E r \in Runs, l \in Launches : Start(l, r) \/ ResumeLaunches(l, r)
    BY <2>1, TLaunching
  <2>2. CASE \E r \in Runs : Resume(r) \/ ResumeGivesUp(r)
    BY <2>2, TRequests
  <2>3. CASE \E s \in Callers, r \in Runs : Cancel(s, r)
    BY <2>3, TRequests
  <2>4. CASE \E l \in Launches : Forks(l) \/ LaunchFails(l) \/ Working(l)
    BY <2>4, TWorking
  <2>5. CASE \E l \in Launches, k \in Keys : Calling(l, k)
    BY <2>5, TCalling
  <2>6. CASE \E s \in Stoppers, l \in Launches : Stopping(s, l)
    BY <2>6, TStopping
  <2> QED
    BY <1>1, <2>1, <2>2, <2>3, <2>4, <2>5, <2>6, TCrash DEF Next, Request
<1>2. CASE UNCHANGED vars
  BY <1>2 DEF vars, TInv, TypeOK, FreshIsBlank, CurrentIsOfRun, Event, table, locks, made, ended, Stoppers
<1> QED
  BY <1>1, <1>2

THEOREM TypeCorrect == Spec => []TInv
BY TInit, TStep, PTL DEF Spec

(***************************************************************************)
(* An actor is cancelled with the others or, if it is not forked yet, by   *)
(* its own onReady: cancelling is set first, and never reset.              *)
(***************************************************************************)
NoneIsPutToWork ==
  \A l \in Launches : cancelling[l] => \A k \in Keys : call[l][k] # "working"

LEMMA LateMoves ==
  ASSUME TInv, NoneIsPutToWork, NEW l \in Launches, NEW k \in Keys, NEW from, NEW to,
         to # "working" \/ ~ cancelling[l],
         Moves(l, k, from, to), UNCHANGED cancelling
  PROVE  NoneIsPutToWork'
BY DEF TInv, TypeOK, NoneIsPutToWork, Moves

LEMMA LateReclaims ==
  ASSUME TInv, NoneIsPutToWork, NEW L, Reclaims(L)
  PROVE  NoneIsPutToWork'
BY DEF TInv, TypeOK, NoneIsPutToWork, Reclaims

LEMMA LateCallOf ==
  ASSUME TInv, NoneIsPutToWork, NEW l \in Launches, NEW stage, stage # "working",
         call' = CallOf(l, stage), UNCHANGED cancelling
  PROVE  NoneIsPutToWork'
BY DEF TInv, TypeOK, NoneIsPutToWork, CallOf

LEMMA LateCalling ==
  ASSUME TInv, NoneIsPutToWork, NEW l \in Launches, NEW k \in Keys, Calling(l, k)
  PROVE  NoneIsPutToWork'
<1>1. CASE Ask(l, k) \/ Reject(l, k) \/ Register(l, k) \/ StartAgentRun(l, k) \/ KeepAgentRun(l, k)
  BY <1>1, LateMoves DEF Ask, Reject, Register, StartAgentRun, KeepAgentRun, Elsewhere
<1>2. CASE ForkActor(l, k)
  BY <1>2, LateMoves DEF ForkActor, Elsewhere, TInv, TypeOK
<1>3. CASE AgentEnds(l, k)
  BY <1>3, LateMoves DEF AgentEnds, Give, GiveNull
<1>4. CASE \E c \in Launches : LaunchChild(l, k, c)
  BY <1>4, LateMoves DEF LaunchChild
<1>5. CASE ChildEnds(l, k)
  BY <1>5, LateMoves DEF ChildEnds, Give, GiveNull
<1>6. CASE ActorEnds(l, k)
  BY <1>6 DEF ActorEnds, NoneIsPutToWork
<1> QED
  BY <1>1, <1>2, <1>3, <1>4, <1>5, <1>6 DEF Calling

LEMMA LateStopping ==
  ASSUME TInv, NoneIsPutToWork, NEW s \in Stoppers, NEW l \in Launches, Stopping(s, l)
  PROVE  NoneIsPutToWork'
<1> USE DEF TInv, TypeOK, NoneIsPutToWork
<1>1. CASE Interrupts(s, l)
  BY <1>1 DEF Interrupts
<1>2. CASE Descends(s, l)
  BY <1>2 DEF Descends
<1>3. CASE Records(s, l) \/ Settles(s, l) \/ RecordsAndSettles(s, l)
  BY <1>3 DEF Records, Settles, RecordsAndSettles
<1> QED
  BY <1>1, <1>2, <1>3 DEF Stopping

LEMMA LateStep == TInv /\ NoneIsPutToWork /\ [Next]_vars => NoneIsPutToWork'
<1> SUFFICES ASSUME TInv, NoneIsPutToWork, [Next]_vars PROVE NoneIsPutToWork'
  OBVIOUS
<1>1. CASE Request
  <2>1. CASE UNCHANGED <<cancelling, call>>
    BY <2>1 DEF NoneIsPutToWork
  <2>2. CASE \E s \in Callers, r \in Runs : Cancel(s, r)
    BY <2>2, LateReclaims DEF Cancel
  <2> QED
    BY <1>1, <2>1, <2>2 DEF Request, Start, Resume, ResumeLaunches, ResumeGivesUp
<1>2. ASSUME NEW l \in Launches, Forks(l) \/ LaunchFails(l) \/ Working(l) PROVE NoneIsPutToWork'
  <2>1. CASE Forks(l) \/ LaunchFails(l)
    BY <2>1, LateCallOf DEF Forks, LaunchFails
  <2>2. CASE Throws(l)
    BY <2>2, LateReclaims DEF Throws
  <2>3. CASE ScriptEnds(l) \/ Completes(l) \/ Fails(l)
    BY <2>3 DEF ScriptEnds, Completes, Fails, NoneIsPutToWork
  <2> QED
    BY <1>2, <2>1, <2>2, <2>3 DEF Working
<1>3. CASE Crash
  BY <1>3 DEF Crash, NoneIsPutToWork
<1>4. CASE UNCHANGED vars
  BY <1>4 DEF vars, NoneIsPutToWork
<1> QED
  BY <1>1, <1>2, <1>3, <1>4, LateCalling, LateStopping DEF Next

\* An actor lingers only if its run was not being reclaimed when it had its outcome.
LEMMA LingeringStays ==
  ASSUME TInv, NoneIsPutToWork, Next, NEW l \in Launches, cancelling'[l]
  PROVE  lingering'[l] \subseteq lingering[l]
<1> USE DEF TInv, TypeOK
<1>1. CASE Request
  BY <1>1 DEF Request, Start, Resume, ResumeLaunches, ResumeGivesUp, Cancel
<1>2. ASSUME NEW m \in Launches, Forks(m) \/ LaunchFails(m) \/ Working(m) PROVE lingering' = lingering
  BY <1>2 DEF Forks, LaunchFails, Working, ScriptEnds, Completes, Throws, Fails
<1>3. ASSUME NEW m \in Launches, NEW k \in Keys, Calling(m, k) PROVE lingering'[l] \subseteq lingering[l]
  <2>1. CASE Ask(m, k) \/ Reject(m, k) \/ Register(m, k) \/ ForkActor(m, k) \/ StartAgentRun(m, k) \/ KeepAgentRun(m, k)
    BY <2>1 DEF Ask, Reject, Register, ForkActor, StartAgentRun, KeepAgentRun, Elsewhere
  <2>2. CASE AgentEnds(m, k)
    <3>1. CASE UNCHANGED lingering
      BY <3>1
    <3>2. CASE /\ Give(m, k, "working") \/ GiveNull(m, k, "working")
               /\ lingering' = [lingering EXCEPT ![m] = @ \cup {k}]
      <4>1. call[m][k] = "working" /\ UNCHANGED cancelling
        BY <3>2 DEF Give, GiveNull, Moves
      <4>2. m # l
        BY <4>1 DEF NoneIsPutToWork
      <4> QED
        BY <3>2, <4>2
    <3> QED
      BY <2>2, <3>1, <3>2 DEF AgentEnds
  <2>3. CASE ActorEnds(m, k)
    BY <2>3 DEF ActorEnds
  <2>4. CASE (\E c \in Launches : LaunchChild(m, k, c)) \/ ChildEnds(m, k)
    BY <2>4 DEF LaunchChild, ChildEnds
  <2> QED
    BY <1>3, <2>1, <2>2, <2>3, <2>4 DEF Calling
<1>4. ASSUME NEW s \in Stoppers, NEW m \in Launches, Stopping(s, m) PROVE lingering' = lingering
  BY <1>4 DEF Stopping, Interrupts, Descends, Records, Settles, RecordsAndSettles
<1>5. CASE Crash
  BY <1>5 DEF Crash
<1> QED
  BY <1>1, <1>2, <1>3, <1>4, <1>5 DEF Next

\* Nobody is put to work for a run that is being reclaimed; whoever still works had its
\* outcome before, and is in the postStop turns that reclaim does not know of.
THEOREM LateActorsStopped == Spec => LateActorsAreStopped
<1>1. Init => NoneIsPutToWork
  BY DEF Init, NoneIsPutToWork
<1>2. ASSUME TInv, NoneIsPutToWork, NoneIsPutToWork', Next
      PROVE  \A l \in Launches : cancelling'[l] => AtWork(l)' \subseteq lingering[l]
  <2> SUFFICES ASSUME NEW l \in Launches, cancelling'[l] PROVE AtWork(l)' \subseteq lingering[l]
    OBVIOUS
  <2>1. lingering'[l] \subseteq lingering[l]
    BY <1>2, LingeringStays
  <2>2. {k \in Keys : call'[l][k] = "working"} = {}
    BY <1>2 DEF NoneIsPutToWork
  <2> QED
    BY <2>1, <2>2 DEF AtWork
<1>3. TInv /\ NoneIsPutToWork /\ NoneIsPutToWork' /\ [Next]_vars
      => [\A l \in Launches : cancelling'[l] => AtWork(l)' \subseteq lingering[l]]_vars
  BY <1>2
<1> QED
  BY <1>1, <1>3, TInit, TStep, LateStep, PTL DEF Spec, LateActorsAreStopped

(***************************************************************************)
(* The row is written before the entry ends.                               *)
(***************************************************************************)
SettlingIsRecorded ==
  \A s \in Stoppers, l \in Launches :
      stops[s][l] = "settling" /\ current[of[l]] = l => row[of[l]] # "running"

RInv == TerminalIsRecorded /\ SettlingIsRecorded

\* A launch takes over its run: nobody settles it, and its row reads running.
LEMMA RLaunch ==
  ASSUME TInv, RInv, NEW l \in Launches, NEW r \in Runs, NEW p, Launch(l, r, p),
         UNCHANGED <<status, stops>>
  PROVE  RInv'
<1> USE DEF TInv, TypeOK, RInv
<1>1. of[l] = NoRun /\ status[l] = "running" /\ \A s \in Stoppers : stops[s][l] = "idle"
  BY DEF Launch, New, FreshIsBlank
<1>2. of' = [of EXCEPT ![l] = r] /\ current' = [current EXCEPT ![r] = l] /\ row' = [row EXCEPT ![r] = "running"]
  BY DEF Launch
<1>3. TerminalIsRecorded'
  BY <1>1, <1>2 DEF TerminalIsRecorded, Live
<1>4. ASSUME NEW s \in Stoppers, NEW m \in Launches, stops[s][m] = "settling", current'[of'[m]] = m
      PROVE  row'[of'[m]] # "running"
  <2>1. m # l /\ of'[m] = of[m]
    BY <1>1, <1>2, <1>4
  <2>2. of[m] # r
    BY <1>2, <1>4, <2>1
  <2>3. of[m] \in Runs
    BY <1>4, Made
  <2> QED
    BY <1>2, <1>4, <2>1, <2>2, <2>3 DEF SettlingIsRecorded
<1> QED
  BY <1>3, <1>4 DEF SettlingIsRecorded

\* Nothing that the rows and the ends of the entries depend on changes.
LEMMA RIdle ==
  ASSUME TInv, RInv, UNCHANGED <<current, row, of, status>>,
         \A s \in Stoppers, l \in Launches : stops'[s][l] = "settling" => stops[s][l] = "settling"
  PROVE  RInv'
BY DEF RInv, TerminalIsRecorded, SettlingIsRecorded, Live

\* An entry whose row does not read running, or is written with it, may end.
LEMMA REnds ==
  ASSUME TInv, RInv, NEW l \in Launches, of[l] \in Runs, UNCHANGED <<current, of>>,
         \A r \in Runs : row'[r] = row[r] \/ (r = of[l] /\ row'[r] # "running"),
         current[of[l]] = l => row'[of[l]] # "running",
         \A m \in Launches : m # l => status'[m] = status[m],
         \A s \in Stoppers, m \in Launches : m # l /\ stops'[s][m] = "settling" => stops[s][m] = "settling"
  PROVE  RInv'
<1> USE DEF TInv, TypeOK, RInv
<1>1. ASSUME NEW r \in Runs, current[r] # 0, status'[current[r]] # "running" PROVE row'[r] # "running"
  <2>1. CASE current[r] = l
    BY <2>1, <1>1 DEF CurrentIsOfRun
  <2>2. CASE current[r] # l
    BY <1>1, <2>2 DEF TerminalIsRecorded, Live
  <2> QED
    BY <2>1, <2>2
<1>2. ASSUME NEW s \in Stoppers, NEW m \in Launches, stops'[s][m] = "settling", current[of[m]] = m
      PROVE  row'[of[m]] # "running"
  <2>1. CASE m = l
    BY <1>2, <2>1
  <2>2. CASE m # l
    <3>1. stops[s][m] = "settling"
      BY <1>2, <2>2
    <3>2. of[m] \in Runs
      BY <3>1, Made
    <3> QED
      BY <1>2, <3>1, <3>2 DEF SettlingIsRecorded
  <2> QED
    BY <2>1, <2>2
<1> QED
  BY <1>1, <1>2 DEF TerminalIsRecorded, SettlingIsRecorded, Live

LEMMA RStopping ==
  ASSUME TInv, RInv, NEW s \in Stoppers, NEW l \in Launches, Stopping(s, l)
  PROVE  RInv'
<1> USE DEF At
<1>1. stops \in [Stoppers -> [Launches -> Stop]] /\ status \in [Launches -> Status] /\ row \in [Runs -> Status \cup {"none"}]
  BY DEF TInv, TypeOK
<1>2. of[l] \in Runs
  <2>1. stops[s][l] # "idle"
    BY DEF Stopping, Interrupts, Descends, Records, Settles, RecordsAndSettles, Reclaimed
  <2> QED
    BY <2>1, Made
<1>4. CASE Interrupts(s, l)
  BY <1>1, <1>4, RIdle DEF Interrupts, table, made, ended
<1>5. CASE Descends(s, l)
  BY <1>1, <1>5, RIdle DEF Descends, table, made, ended
<1>6. CASE Records(s, l)
  <2>1. stops' = [stops EXCEPT ![s][l] = "settling", ![l] = [m \in Launches |-> "idle"]]
    BY <1>6 DEF Records
  <2>2. row' = [row EXCEPT ![of[l]] = "cancelled"] /\ UNCHANGED <<current, of, status>>
    BY <1>6 DEF Records, made, ended
  <2>3. \A z \in Stoppers, m \in Launches : m # l /\ stops'[z][m] = "settling" => stops[z][m] = "settling"
    <3>1. \A z \in Stoppers, m \in Launches : m # l => stops'[z][m] \in {stops[z][m], "idle"}
      BY <1>6, Settling
    <3> QED
      BY <3>1
  <2>4. row'[of[l]] # "running"
    BY <1>1, <1>2, <2>2
  <2>5. \A r \in Runs : row'[r] = row[r] \/ (r = of[l] /\ row'[r] # "running")
    BY <1>1, <2>2, <2>4
  <2> QED
    BY <1>2, <2>2, <2>3, <2>4, <2>5, REnds
<1>7. CASE Settles(s, l)
  <2>1. UNCHANGED <<current, row, of>> /\ \A m \in Launches : m # l => status'[m] = status[m]
    BY <1>1, <1>7 DEF Settles, Terminal, table, made
  <2>2. \A z \in Stoppers, m \in Launches : stops'[z][m] = "settling" => stops[z][m] = "settling"
    BY <1>1, <1>7 DEF Settles
  <2>3. current[of[l]] = l => row[of[l]] # "running"
    BY <1>7 DEF Settles, RInv, SettlingIsRecorded
  <2> QED
    BY <1>2, <2>1, <2>2, <2>3, REnds
<1>8. CASE RecordsAndSettles(s, l)
  <2>1. row' = [row EXCEPT ![of[l]] = "cancelled"] /\ UNCHANGED <<current, of>>
    BY <1>8 DEF RecordsAndSettles, made
  <2>2. \A m \in Launches : m # l => status'[m] = status[m]
    BY <1>1, <1>8 DEF RecordsAndSettles, Terminal
  <2>3. \A z \in Stoppers, m \in Launches : stops'[z][m] = "settling" => stops[z][m] = "settling"
    BY <1>1, <1>8 DEF RecordsAndSettles
  <2>4. row'[of[l]] # "running"
    BY <1>1, <1>2, <2>1
  <2>5. \A r \in Runs : row'[r] = row[r] \/ (r = of[l] /\ row'[r] # "running")
    BY <1>1, <2>1, <2>4
  <2> QED
    BY <1>2, <2>1, <2>2, <2>3, <2>4, <2>5, REnds
<1> QED
  BY <1>4, <1>5, <1>6, <1>7, <1>8 DEF Stopping

LEMMA RWorking ==
  ASSUME TInv, RInv, NEW l \in Launches, Forks(l) \/ LaunchFails(l) \/ Working(l)
  PROVE  RInv'
<1>1. stops \in [Stoppers -> [Launches -> Stop]] /\ status \in [Launches -> Status] /\ row \in [Runs -> Status \cup {"none"}]
  BY DEF TInv, TypeOK
<1>2. CASE Forks(l) \/ LaunchFails(l) \/ ScriptEnds(l)
  BY <1>2, RIdle DEF Forks, LaunchFails, ScriptEnds, table, made, ended
<1>3. CASE Throws(l)
  BY <1>1, <1>3, RIdle DEF Throws, table, made, ended
<1>4. ASSUME NEW answer \in Status \ {"running"}, Finishes(l, answer), fiber[l] # "none", UNCHANGED <<current, of>>,
             \A s \in Stoppers, m \in Launches : stops'[s][m] = "settling" => stops[s][m] = "settling"
      PROVE  RInv'
  <2>1. of[l] \in Runs
    BY <1>4, Made
  <2>2. row' = [row EXCEPT ![of[l]] = answer] /\ row'[of[l]] # "running"
    BY <1>1, <1>4, <2>1 DEF Finishes
  <2>3. \A m \in Launches : m # l => status'[m] = status[m]
    BY <1>1, <1>4 DEF Finishes, Terminal
  <2>4. \A r \in Runs : row'[r] = row[r] \/ (r = of[l] /\ row'[r] # "running")
    BY <1>1, <2>2
  <2> QED
    BY <1>4, <2>1, <2>2, <2>3, <2>4, REnds
<1>5. CASE Completes(l)
  <2>1. "completed" \in Status \ {"running"} /\ Finishes(l, "completed") /\ fiber[l] # "none" /\ UNCHANGED <<current, of, stops>>
    BY <1>5 DEF Completes, Status, made
  <2> QED
    BY <1>4, <2>1
<1>6. CASE Fails(l)
  <2>1. "failed" \in Status \ {"running"} /\ Finishes(l, "failed") /\ fiber[l] # "none" /\ UNCHANGED <<current, of>>
    BY <1>6 DEF Fails, Status, made
  <2>2. \A s \in Stoppers, m \in Launches : stops'[s][m] = "settling" => stops[s][m] = "settling"
    BY <1>1, <1>6 DEF Fails
  <2> QED
    BY <1>4, <2>1, <2>2
<1> QED
  BY <1>2, <1>3, <1>5, <1>6 DEF Working

LEMMA RCalling ==
  ASSUME TInv, RInv, NEW l \in Launches, NEW k \in Keys, Calling(l, k)
  PROVE  RInv'
<1>1. CASE UNCHANGED <<current, row, of, status, stops>>
  BY <1>1, RIdle
<1>2. CASE \E c \in Launches : LaunchChild(l, k, c)
  BY <1>2, RLaunch DEF LaunchChild, ended
<1> QED
  BY <1>1, <1>2 DEF Calling, Ask, Reject, Register, ForkActor, StartAgentRun, KeepAgentRun, AgentEnds,
                    ActorEnds, ChildEnds, Give, GiveNull, Elsewhere, table, made, ended

LEMMA RStep == TInv /\ RInv /\ [Next]_vars => RInv'
<1> SUFFICES ASSUME TInv, RInv, [Next]_vars PROVE RInv'
  OBVIOUS
<1>1. CASE \E r \in Runs, l \in Launches : Start(l, r) \/ ResumeLaunches(l, r)
  BY <1>1, RLaunch DEF Start, ResumeLaunches, ended
<1>2. CASE \E r \in Runs : Resume(r) \/ ResumeGivesUp(r)
  BY <1>2, RIdle DEF Resume, ResumeGivesUp, table, made, ended
<1>3. CASE \E s \in Callers, r \in Runs : Cancel(s, r)
  <2>1. stops \in [Stoppers -> [Launches -> Stop]]
    BY DEF TInv, TypeOK
  <2> QED
    BY <1>3, <2>1, RIdle DEF Cancel, table, made, ended
<1>4. CASE Crash
  BY <1>4 DEF Crash, RInv, TerminalIsRecorded, SettlingIsRecorded
<1>5. CASE UNCHANGED vars
  BY <1>5, RIdle DEF vars, table, made, ended
<1> QED
  BY <1>1, <1>2, <1>3, <1>4, <1>5, RCalling, RStopping, RWorking DEF Next, Request

\* The row of a run whose entry has ended does not read running.
THEOREM TerminalRecorded == Spec => []TerminalIsRecorded
<1>1. Init => RInv
  BY DEF Init, RInv, TerminalIsRecorded, SettlingIsRecorded
<1>2. RInv => TerminalIsRecorded
  BY DEF RInv
<1> QED
  BY <1>1, <1>2, TInit, TStep, RStep, PTL DEF Spec

(***************************************************************************)
(* A root run is launched only where no live entry of it is.               *)
(***************************************************************************)
UnderWay == {"launching", "evaluating", "reclaiming"}
LiveIsCurrent ==
  \A l \in Launches :
      of[l] \in Roots /\ fiber[l] \in UnderWay /\ status[l] = "running" => current[of[l]] = l
ReadingIsOver == \A r \in reading : row[r] # "none" /\ (r \in Roots => ~ Live(r))

LInv == LiveIsCurrent /\ ReadingIsOver

\* No entry of a root run is replaced while it is at work.
LEMMA LLaunch ==
  ASSUME TInv, LInv, NEW l \in Launches, NEW r \in Runs, NEW p, Launch(l, r, p),
         r \in Roots => ~ Live(r), reading' \subseteq reading, r \notin Roots \/ r \notin reading', UNCHANGED status
  PROVE  LInv'
<1> USE DEF TInv, TypeOK, LInv
<1>1. of[l] = NoRun /\ of' = [of EXCEPT ![l] = r] /\ current' = [current EXCEPT ![r] = l]
      /\ row' = [row EXCEPT ![r] = "running"] /\ fiber' = [fiber EXCEPT ![l] = "launching"]
  BY DEF Launch, New
<1>2. ASSUME NEW m \in Launches, of'[m] \in Roots, fiber'[m] \in UnderWay, status[m] = "running"
      PROVE  current'[of'[m]] = m
  <2>1. CASE m = l
    BY <1>1, <2>1
  <2>2. CASE m # l
    <3>1. current[of[m]] = m /\ of'[m] = of[m] /\ of[m] \in Runs
      BY <1>1, <1>2, <2>2 DEF LiveIsCurrent, Roots
    <3>2. of[m] # r
      <4>1. m # 0
        OBVIOUS
      <4> QED
        BY <1>2, <3>1, <4>1 DEF Live
    <3> QED
      BY <1>1, <3>1, <3>2
  <2> QED
    BY <2>1, <2>2
<1>3. ASSUME NEW q \in reading' PROVE row'[q] # "none" /\ (q \in Roots => ~ Live(q)')
  <2>1. q \in reading /\ q \in Runs
    BY <1>3
  <2>2. row'[q] # "none"
    BY <1>1, <2>1 DEF ReadingIsOver
  <2>3. ASSUME q \in Roots PROVE ~ Live(q)'
    BY <1>1, <1>3, <2>1, <2>3 DEF ReadingIsOver, Live
  <2> QED
    BY <2>2, <2>3
<1> QED
  BY <1>2, <1>3 DEF LiveIsCurrent, ReadingIsOver

\* No entry goes to work or comes to life again, and no row is removed.
LEMMA LIdle ==
  ASSUME TInv, LInv, UNCHANGED <<current, of>>, reading' \subseteq reading,
         \A l \in Launches : /\ fiber'[l] \in UnderWay => fiber[l] \in UnderWay
                             /\ status'[l] = "running" => status[l] = "running",
         \A r \in Runs : row'[r] = "none" => row[r] = "none"
  PROVE  LInv'
<1> USE DEF TInv, TypeOK, LInv
<1>1. LiveIsCurrent'
  BY DEF LiveIsCurrent
<1>2. ReadingIsOver'
  BY DEF ReadingIsOver, Live
<1> QED
  BY <1>1, <1>2

LEMMA LStopping ==
  ASSUME TInv, LInv, NEW s \in Stoppers, NEW l \in Launches, Stopping(s, l)
  PROVE  LInv'
<1>1. status \in [Launches -> Status] /\ row \in [Runs -> Status \cup {"none"}] /\ fiber \in [Launches -> Fiber]
  BY DEF TInv, TypeOK
<1>2. \A m \in Launches : fiber'[m] \in UnderWay => fiber[m] \in UnderWay
  BY <1>1 DEF Stopping, Interrupts, Descends, Records, Settles, RecordsAndSettles, UnderWay
<1>3. \A m \in Launches : status'[m] = "running" => status[m] = "running"
  BY <1>1 DEF Stopping, Interrupts, Descends, Records, Settles, RecordsAndSettles, Terminal, ended
<1>4. \A r \in Runs : row'[r] = "none" => row[r] = "none"
  BY <1>1 DEF Stopping, Interrupts, Descends, Records, Settles, RecordsAndSettles, table
<1>5. UNCHANGED <<current, of, reading>>
  BY DEF Stopping, Interrupts, Descends, Records, Settles, RecordsAndSettles, table, made, locks
<1> QED
  BY <1>2, <1>3, <1>4, <1>5, LIdle

LEMMA LWorking ==
  ASSUME TInv, LInv, NEW l \in Launches, Forks(l) \/ LaunchFails(l) \/ Working(l)
  PROVE  LInv'
<1>1. status \in [Launches -> Status] /\ row \in [Runs -> Status \cup {"none"}] /\ fiber \in [Launches -> Fiber]
  BY DEF TInv, TypeOK
<1>2. \A m \in Launches : fiber'[m] \in UnderWay => fiber[m] \in UnderWay
  BY <1>1 DEF Forks, LaunchFails, Working, ScriptEnds, Completes, Throws, Fails, Finishes, UnderWay
<1>3. \A m \in Launches : status'[m] = "running" => status[m] = "running"
  BY <1>1 DEF Forks, LaunchFails, Working, ScriptEnds, Completes, Throws, Fails, Finishes, Terminal, ended
<1>4. \A r \in Runs : row'[r] = "none" => row[r] = "none"
  BY <1>1 DEF Forks, LaunchFails, Working, ScriptEnds, Completes, Throws, Fails, Finishes, table
<1>5. UNCHANGED <<current, of, reading>>
  BY DEF Forks, LaunchFails, Working, ScriptEnds, Completes, Throws, Fails, table, made, locks
<1> QED
  BY <1>2, <1>3, <1>4, <1>5, LIdle

LEMMA LCalling ==
  ASSUME TInv, LInv, NEW l \in Launches, NEW k \in Keys, Calling(l, k)
  PROVE  LInv'
<1>1. CASE UNCHANGED <<current, row, of, status, fiber, reading>>
  BY <1>1, LIdle
<1>2. ASSUME NEW c \in Launches, LaunchChild(l, k, c) PROVE LInv'
  <2>1. Asks[k] \in Runs /\ Asks[k] \notin Roots
    BY <1>2 DEF LaunchChild, Roots
  <2>2. Launch(c, Asks[k], l) /\ UNCHANGED <<reading, status>>
    BY <1>2 DEF LaunchChild, locks, ended
  <2> QED
    BY <2>1, <2>2, LLaunch
<1> QED
  BY <1>1, <1>2 DEF Calling, Ask, Reject, Register, ForkActor, StartAgentRun, KeepAgentRun, AgentEnds,
                    ActorEnds, ChildEnds, Give, GiveNull, Elsewhere, table, made, ended, locks

LEMMA LRequests ==
  ASSUME TInv, LInv, NEW r \in Runs,
         \/ \E l \in Launches : Start(l, r) \/ ResumeLaunches(l, r)
         \/ Resume(r) \/ ResumeGivesUp(r)
  PROVE  LInv'
<1>1. ASSUME NEW l \in Launches, Start(l, r) PROVE LInv'
  <2>1. r \notin reading /\ ~ Live(r)
    BY <1>1 DEF Start, LInv, ReadingIsOver, Live
  <2>2. Launch(l, r, 0) /\ UNCHANGED <<reading, status>>
    BY <1>1 DEF Start, locks, ended
  <2> QED
    BY <2>1, <2>2, LLaunch
<1>2. ASSUME NEW l \in Launches, ResumeLaunches(l, r) PROVE LInv'
  <2>1. r \in Roots => ~ Live(r)
    BY <1>2 DEF ResumeLaunches, LInv, ReadingIsOver
  <2>2. Launch(l, r, 0) /\ reading' = reading \ {r} /\ UNCHANGED status
    BY <1>2 DEF ResumeLaunches, ended
  <2> QED
    BY <2>1, <2>2, LLaunch
<1>3. CASE Resume(r)
  <2>1. UNCHANGED <<current, row, of, status, fiber>> /\ reading' = reading \cup {r} /\ ~ Live(r) /\ row[r] # "none"
    BY <1>3 DEF Resume, table, made, ended
  <2> QED
    BY <2>1 DEF LInv, LiveIsCurrent, ReadingIsOver, Live
<1>4. CASE ResumeGivesUp(r)
  BY <1>4, LIdle DEF ResumeGivesUp, table, made, ended
<1> QED
  BY <1>1, <1>2, <1>3, <1>4

LEMMA LStep == TInv /\ LInv /\ [Next]_vars => LInv'
<1> SUFFICES ASSUME TInv, LInv, [Next]_vars PROVE LInv'
  OBVIOUS
<1>1. CASE \E s \in Callers, r \in Runs : Cancel(s, r)
  BY <1>1, LIdle DEF Cancel, table, made, ended, locks
<1>2. CASE Crash
  <2>1. \A l \in Launches : fiber'[l] \notin UnderWay
    BY <1>2 DEF Crash, UnderWay
  <2> QED
    BY <1>2, <2>1 DEF Crash, LInv, LiveIsCurrent, ReadingIsOver
<1>3. CASE UNCHANGED vars
  BY <1>3, LIdle DEF vars, table, made, ended, locks
<1>4. CASE \E r \in Runs, l \in Launches : Start(l, r) \/ ResumeLaunches(l, r)
  BY <1>4, LRequests
<1>5. CASE \E r \in Runs : Resume(r) \/ ResumeGivesUp(r)
  BY <1>5, LRequests
<1>6. CASE \E l \in Launches : Forks(l) \/ LaunchFails(l) \/ Working(l)
  BY <1>6, LWorking
<1>7. CASE \E l \in Launches, k \in Keys : Calling(l, k)
  BY <1>7, LCalling
<1>8. CASE \E s \in Stoppers, l \in Launches : Stopping(s, l)
  BY <1>8, LStopping
<1> QED
  BY <1>1, <1>2, <1>3, <1>4, <1>5, <1>6, <1>7, <1>8 DEF Next, Request

\* A root run that is at work is the one its run ID leads to.
THEOREM LiveIsReachable == Spec => []LiveRunIsReachable
<1>1. Init => LInv
  BY DEF Init, LInv, LiveIsCurrent, ReadingIsOver, UnderWay
<1>2. LInv => LiveRunIsReachable
  BY DEF LInv, LiveIsCurrent, LiveRunIsReachable, Forked, UnderWay
<1> QED
  BY <1>1, <1>2, TInit, TStep, LStep, PTL DEF Spec

(***************************************************************************)
(* What a script was given is in the journal, and a launch asks only for   *)
(* what the journal did not have.                                          *)
(***************************************************************************)
Unforked == {"none", "launching", "broken"}
GivenIsJournaled ==
  \A l \in Launches, k \in Keys : call[l][k] = "given" => k \in journal[of[l]]
UnforkedIsBlank ==
  \A l \in Launches : fiber[l] \in Unforked =>
      script[l] = "none" /\ \A k \in Keys : call[l][k] = "idle"
AskedIsNew ==
  \A l \in Launches, k \in Keys : call[l][k] \notin {"idle", "replayed"} => k \notin replay[l]
DeadIsReplayed ==
  \A l, m \in Launches, k \in Keys :
      fiber[l] = "dead" /\ call[l][k] = "given" /\ of[m] = of[l] /\ fiber[m] \notin Unforked \cup {"dead"}
      => k \in replay[m]

JInv == GivenIsJournaled /\ UnforkedIsBlank /\ AskedIsNew /\ DeadIsReplayed

\* No launch is made or forked, and no script starts.
NothingForks ==
  \A l \in Launches : /\ fiber'[l] \in Unforked <=> fiber[l] \in Unforked
                      /\ fiber'[l] = "dead" <=> fiber[l] = "dead"
                      /\ script[l] = "none" => script'[l] = "none"
CallsStop ==
  \A l \in Launches, k \in Keys :
      \/ call'[l][k] = call[l][k]
      \/ call[l][k] \in {"launching", "started", "working"} /\ call'[l][k] \in {"stopped", "forgotten", "null"}

\* No launch is made or forked, no script starts, and calls only go on: one that
\* is answered was not, its answer is journaled, and one that is asked is new.
LEMMA JGoesOn ==
  ASSUME TInv, JInv, UNCHANGED <<of, replay>>,
         NothingForks,
         \A r \in Runs : journal[r] \subseteq journal'[r],
         \A l \in Launches, k \in Keys :
             \/ call'[l][k] = call[l][k]
             \/ /\ call[l][k] # "idle" \/ script[l] = "guest"
                /\ call[l][k] = "idle" => (k \in replay[l] => call'[l][k] = "replayed")
                /\ call[l][k] # "replayed"
                /\ call'[l][k] = "given" => fiber[l] # "dead" /\ k \in journal'[of[l]]
  PROVE  JInv'
<1> USE DEF JInv, NothingForks
<1>1. ASSUME NEW l \in Launches, NEW k \in Keys, call'[l][k] = "given" PROVE k \in journal'[of[l]]
  <2>1. CASE call'[l][k] = call[l][k]
    <3>1. of[l] \in Runs
      BY <1>1, <2>1, Made
    <3> QED
      BY <1>1, <2>1, <3>1 DEF GivenIsJournaled
  <2> QED
    BY <1>1, <2>1
<1>2. ASSUME NEW l \in Launches, fiber'[l] \in Unforked
      PROVE  script'[l] = "none" /\ \A k \in Keys : call'[l][k] = "idle"
  <2>1. script[l] = "none" /\ \A k \in Keys : call[l][k] = "idle"
    BY <1>2 DEF UnforkedIsBlank
  <2> QED
    BY <2>1
<1>3. AskedIsNew'
  BY DEF AskedIsNew
<1>4. DeadIsReplayed'
  BY DEF DeadIsReplayed
<1> QED
  BY <1>1, <1>2, <1>3, <1>4 DEF GivenIsJournaled, UnforkedIsBlank

\* Calls under way are stopped or answered with null.
LEMMA JStops ==
  ASSUME TInv, JInv, UNCHANGED <<of, replay, journal>>,
         NothingForks,
         CallsStop
  PROVE  JInv'
<1>1. ASSUME NEW l \in Launches, NEW k \in Keys, call'[l][k] # call[l][k]
      PROVE  call[l][k] \notin {"idle", "replayed"} /\ call'[l][k] # "given"
  BY <1>1 DEF CallsStop
<1> QED
  BY <1>1, JGoesOn

\* An entry is made: it has no calls, and it is not forked.
LEMMA JLaunch ==
  ASSUME TInv, JInv, NEW l \in Launches, NEW r, NEW p, Launch(l, r, p), UNCHANGED <<journal, script, replay>>,
         UNCHANGED call \/ \E m \in Launches, k \in Keys : Moves(m, k, "asked", "launching")
  PROVE  JInv'
<1> USE DEF JInv
<1>0. of \in [Launches -> Runs \cup {NoRun}] /\ fiber \in [Launches -> Fiber] /\ call \in [Launches -> [Keys -> Call]]
  BY DEF TInv, TypeOK
<1>1. of[l] = NoRun /\ of' = [of EXCEPT ![l] = r] /\ fiber' = [fiber EXCEPT ![l] = "launching"]
  BY DEF Launch, New
<1>2. fiber[l] = "none" /\ script[l] = "none" /\ \A k \in Keys : call[l][k] = "idle"
  BY <1>0, <1>1 DEF TInv, FreshIsBlank
<1>3. fiber'[l] = "launching" /\ \A m \in Launches : m # l => of'[m] = of[m] /\ fiber'[m] = fiber[m]
  BY <1>0, <1>1
<1>4. \A m \in Launches, k \in Keys :
          call'[m][k] = call[m][k] \/ (call[m][k] = "asked" /\ call'[m][k] = "launching")
  <2>1. CASE UNCHANGED call
    BY <2>1
  <2>2. ASSUME NEW m \in Launches, NEW k \in Keys, Moves(m, k, "asked", "launching")
        PROVE  \A n \in Launches, j \in Keys :
                   call'[n][j] = call[n][j] \/ (call[n][j] = "asked" /\ call'[n][j] = "launching")
    BY <1>0, <2>2 DEF Moves
  <2> QED
    BY <2>1, <2>2
<1>5. ASSUME NEW m \in Launches, NEW k \in Keys, call'[m][k] = "given" PROVE k \in journal[of'[m]]
  <2>1. call[m][k] = "given" /\ m # l
    BY <1>2, <1>4, <1>5
  <2> QED
    BY <1>3, <2>1 DEF GivenIsJournaled
<1>6. ASSUME NEW m \in Launches, fiber'[m] \in Unforked
      PROVE  script'[m] = "none" /\ \A k \in Keys : call'[m][k] = "idle"
  <2>1. script[m] = "none" /\ \A k \in Keys : call[m][k] = "idle"
    BY <1>2, <1>6, <1>3 DEF UnforkedIsBlank
  <2> QED
    BY <1>4, <2>1
<1>7. AskedIsNew'
  BY <1>4 DEF AskedIsNew
<1>8. ASSUME NEW d \in Launches, NEW m \in Launches, NEW k \in Keys,
             fiber'[d] = "dead", call'[d][k] = "given", of'[m] = of'[d], fiber'[m] \notin Unforked \cup {"dead"}
      PROVE  k \in replay[m]
  <2>1. d # l /\ m # l
    BY <1>3, <1>8 DEF Unforked
  <2>2. call[d][k] = "given" /\ of[m] = of[d] /\ fiber[d] = "dead" /\ fiber[m] \notin Unforked \cup {"dead"}
    BY <1>4, <1>8, <1>3, <2>1
  <2> QED
    BY <2>2 DEF DeadIsReplayed
<1> QED
  BY <1>5, <1>6, <1>7, <1>8 DEF GivenIsJournaled, UnforkedIsBlank, DeadIsReplayed

\* The journal is read when the work is forked, before the script asks.
LEMMA JForks ==
  ASSUME TInv, JInv, NEW l \in Launches, Forks(l)
  PROVE  JInv'
<1> USE DEF JInv
<1>0. /\ of \in [Launches -> Runs \cup {NoRun}] /\ fiber \in [Launches -> Fiber] /\ script \in [Launches -> Script]
      /\ call \in [Launches -> [Keys -> Call]] /\ replay \in [Launches -> SUBSET Keys]
  BY DEF TInv, TypeOK
<1>1. /\ fiber[l] = "launching" /\ fiber' = [fiber EXCEPT ![l] = "evaluating"]
      /\ script' = [script EXCEPT ![l] = "guest"] /\ replay' = [replay EXCEPT ![l] = journal[of[l]]]
      /\ UNCHANGED <<journal, of>>
  BY DEF Forks, table, made
<1>2. \A m \in Launches, k \in Keys :
          call'[m][k] = call[m][k] \/ (call[m][k] = "launching" /\ call'[m][k] = "awaits")
  BY <1>0 DEF Forks, CallOf
<1>3. \A k \in Keys : call[l][k] = "idle" /\ call'[l][k] = "idle"
  <2>1. \A k \in Keys : call[l][k] = "idle"
    BY <1>0, <1>1 DEF UnforkedIsBlank, Unforked
  <2> QED
    BY <1>0, <1>2, <2>1
<1>4. GivenIsJournaled'
  BY <1>0, <1>1, <1>2 DEF GivenIsJournaled
<1>5. ASSUME NEW m \in Launches, fiber'[m] \in Unforked
      PROVE  script'[m] = "none" /\ \A k \in Keys : call'[m][k] = "idle"
  <2>1. m # l
    BY <1>0, <1>1, <1>5 DEF Unforked
  <2>2. script[m] = "none" /\ \A k \in Keys : call[m][k] = "idle"
    BY <1>0, <1>1, <1>5, <2>1 DEF UnforkedIsBlank
  <2> QED
    BY <1>0, <1>1, <1>2, <2>1, <2>2
<1>6. AskedIsNew'
  BY <1>0, <1>1, <1>2, <1>3 DEF AskedIsNew
<1>7. ASSUME NEW d \in Launches, NEW m \in Launches, NEW k \in Keys,
             fiber'[d] = "dead", call'[d][k] = "given", of[m] = of[d], fiber'[m] \notin Unforked \cup {"dead"}
      PROVE  k \in replay'[m]
  <2>1. fiber[d] = "dead" /\ call[d][k] = "given"
    BY <1>0, <1>1, <1>2, <1>7
  <2>2. CASE m = l
    BY <1>0, <1>1, <1>7, <2>1, <2>2 DEF GivenIsJournaled
  <2>3. CASE m # l
    BY <1>0, <1>1, <1>7, <2>1, <2>3 DEF DeadIsReplayed
  <2> QED
    BY <2>2, <2>3
<1>8. UnforkedIsBlank'
  BY <1>5 DEF UnforkedIsBlank
<1>9. DeadIsReplayed'
  BY <1>1, <1>7 DEF DeadIsReplayed
<1> QED
  BY <1>4, <1>6, <1>8, <1>9

LEMMA JCalling ==
  ASSUME TInv, JInv, NEW l \in Launches, NEW k \in Keys, Calling(l, k)
  PROVE  JInv'
<1>1. call \in [Launches -> [Keys -> Call]] /\ journal \in [Runs -> SUBSET Keys]
  BY DEF TInv, TypeOK
<1>2. CASE \E c \in Launches : LaunchChild(l, k, c)
  BY <1>2, JLaunch DEF LaunchChild
<1>3. CASE Ask(l, k)
  BY <1>1, <1>3, JGoesOn DEF NothingForks, Ask, Moves, Elsewhere, table, made
<1>4. ASSUME NEW from, NEW to, from \notin {"idle", "replayed"}, to # "given", Moves(l, k, from, to),
             UNCHANGED <<table, locks, made, awaited, ended, cancelling, fiber, script, replay, stops, events>>
      PROVE  JInv'
  BY <1>1, <1>4, JGoesOn DEF NothingForks, Moves, table, made
<1>5. ASSUME NEW from, from \notin {"idle", "replayed"}, Give(l, k, from)
      PROVE  JInv'
  <2>1. of[l] \in Runs
    BY <1>5, Made DEF Give, Moves
  <2>2. \A r \in Runs : journal[r] \subseteq journal'[r]
    BY <1>1, <1>5 DEF Give
  <2>3. k \in journal'[of[l]]
    BY <1>1, <1>5, <2>1 DEF Give
  <2> QED
    BY <1>1, <1>5, <2>2, <2>3, JGoesOn DEF NothingForks, Give, Moves, made
<1>6. CASE Reject(l, k) \/ Register(l, k) \/ StartAgentRun(l, k) \/ KeepAgentRun(l, k)
  BY <1>4, <1>6 DEF Reject, Register, StartAgentRun, KeepAgentRun, Elsewhere
<1>7. CASE ForkActor(l, k)
  BY <1>4, <1>7 DEF ForkActor, Elsewhere
<1>8. CASE AgentEnds(l, k) \/ ChildEnds(l, k)
  BY <1>4, <1>5, <1>8 DEF AgentEnds, ChildEnds, GiveNull
<1>9. CASE ActorEnds(l, k)
  <2>1. UNCHANGED <<of, journal, fiber, script, replay, call>>
    BY <1>9 DEF ActorEnds, table, made
  <2> QED
    BY <1>1, <2>1, JGoesOn DEF NothingForks
<1> QED
  BY <1>2, <1>3, <1>6, <1>7, <1>8, <1>9 DEF Calling

LEMMA JStopping ==
  ASSUME TInv, JInv, NEW s \in Stoppers, NEW l \in Launches, Stopping(s, l)
  PROVE  JInv'
<1>1. call \in [Launches -> [Keys -> Call]] /\ fiber \in [Launches -> Fiber]
  BY DEF TInv, TypeOK
<1>2. CallsStop
  <2>1. CASE Interrupts(s, l)
    BY <1>1, <2>1 DEF Interrupts, CallsStop
  <2>2. CASE Descends(s, l)
    BY <1>1, <2>2 DEF Descends, CallsStop
  <2>3. CASE UNCHANGED call
    BY <2>3 DEF CallsStop
  <2> QED
    BY <2>1, <2>2, <2>3 DEF Stopping, Records, Settles, RecordsAndSettles
<1>3. \A m \in Launches : /\ fiber'[m] \in Unforked <=> fiber[m] \in Unforked
                          /\ fiber'[m] = "dead" <=> fiber[m] = "dead"
  BY <1>1 DEF Stopping, Interrupts, Descends, Records, Settles, RecordsAndSettles, Forked, Unforked
<1>4. UNCHANGED <<of, replay, journal>> /\ \A m \in Launches : script[m] = "none" => script'[m] = "none"
  BY DEF Stopping, Interrupts, Descends, Records, Settles, RecordsAndSettles, table, made
<1>5. NothingForks
  BY <1>3, <1>4 DEF NothingForks
<1> QED
  BY <1>2, <1>4, <1>5, JStops

LEMMA JWorking ==
  ASSUME TInv, JInv, NEW l \in Launches, LaunchFails(l) \/ Working(l)
  PROVE  JInv'
<1>1. call \in [Launches -> [Keys -> Call]] /\ fiber \in [Launches -> Fiber] /\ script \in [Launches -> Script]
  BY DEF TInv, TypeOK
<1>2. CallsStop
  BY <1>1 DEF LaunchFails, CallOf, Working, ScriptEnds, Completes, Throws, Reclaims, Fails, CallsStop
<1>3. \A m \in Launches : /\ fiber'[m] \in Unforked <=> fiber[m] \in Unforked
                          /\ fiber'[m] = "dead" <=> fiber[m] = "dead"
  BY <1>1 DEF LaunchFails, Working, ScriptEnds, Completes, Throws, Fails, Finishes, Unforked
<1>4. \A m \in Launches : script[m] = "none" => script'[m] = "none"
  BY <1>1 DEF LaunchFails, Working, ScriptEnds, Completes, Throws, Fails
<1>5. UNCHANGED <<of, replay, journal>>
  BY DEF LaunchFails, Working, ScriptEnds, Completes, Throws, Fails, table, made
<1>6. NothingForks
  BY <1>3, <1>4 DEF NothingForks
<1> QED
  BY <1>2, <1>5, <1>6, JStops

LEMMA JStep == TInv /\ JInv /\ [Next]_vars => JInv'
<1> SUFFICES ASSUME TInv, JInv, [Next]_vars PROVE JInv'
  OBVIOUS
<1>1. CASE \E r \in Runs, l \in Launches : Start(l, r) \/ ResumeLaunches(l, r)
  BY <1>1, JLaunch DEF Start, ResumeLaunches
<1>2. CASE (\E r \in Runs : Resume(r) \/ ResumeGivesUp(r)) \/ UNCHANGED vars
  BY <1>2, JGoesOn DEF NothingForks, Resume, ResumeGivesUp, vars, table, made
<1>3. CASE \E s \in Callers, r \in Runs : Cancel(s, r)
  <2>1. call \in [Launches -> [Keys -> Call]]
    BY DEF TInv, TypeOK
  <2>2. CallsStop
    BY <1>3, <2>1 DEF Cancel, Reclaims, CallsStop
  <2>3. UNCHANGED <<of, replay, script, journal, fiber>>
    BY <1>3 DEF Cancel, table, made
  <2> QED
    BY <2>2, <2>3, JStops DEF NothingForks
<1>4. CASE Crash
  <2>1. \A l \in Launches, k \in Keys : call'[l][k] = "idle" \/ (call'[l][k] = "given" /\ call[l][k] = "given")
    BY <1>4 DEF Crash
  <2>2. \A l \in Launches : fiber'[l] = "dead" \/ (fiber'[l] = "none" /\ of[l] = NoRun)
    BY <1>4 DEF Crash
  <2>3. \A l \in Launches : script'[l] = "none" /\ replay'[l] = {}
    BY <1>4 DEF Crash
  <2>4. UNCHANGED <<journal, of>>
    BY <1>4 DEF Crash
  <2>5. GivenIsJournaled'
    BY <2>1, <2>4 DEF JInv, GivenIsJournaled
  <2>6. UnforkedIsBlank'
    <3> SUFFICES ASSUME NEW l \in Launches, NEW k \in Keys, of[l] = NoRun PROVE call'[l][k] = "idle"
      BY <2>2, <2>3 DEF UnforkedIsBlank, Unforked
    <3> QED
      BY <2>1 DEF TInv, FreshIsBlank
  <2>7. AskedIsNew' /\ DeadIsReplayed'
    BY <2>2, <2>3 DEF AskedIsNew, DeadIsReplayed, Unforked
  <2> QED
    BY <2>5, <2>6, <2>7 DEF JInv
<1>5. CASE \E l \in Launches : Forks(l) \/ LaunchFails(l) \/ Working(l)
  BY <1>5, JForks, JWorking
<1>6. CASE \E l \in Launches, k \in Keys : Calling(l, k)
  BY <1>6, JCalling
<1>7. CASE \E s \in Stoppers, l \in Launches : Stopping(s, l)
  BY <1>7, JStopping
<1> QED
  BY <1>1, <1>2, <1>3, <1>4, <1>5, <1>6, <1>7 DEF Next, Request

\* What a script was given before the process died is never asked for again.
THEOREM NothingRedone == Spec => []NothingIsRedone
<1>1. Init => JInv
  BY DEF Init, JInv, GivenIsJournaled, UnforkedIsBlank, AskedIsNew, DeadIsReplayed
<1>2. JInv => NothingIsRedone
  BY DEF JInv, UnforkedIsBlank, AskedIsNew, DeadIsReplayed, NothingIsRedone, Unforked
<1> QED
  BY <1>1, <1>2, TInit, TStep, JStep, PTL DEF Spec
=============================================================================
