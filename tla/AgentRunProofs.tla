--------------------------- MODULE AgentRunProofs ---------------------------
(* Theorems about AgentRun, for any number of runs and callers and any bounds. *)
EXTENDS AgentRun, TLAPS

USE DEF durable, process, recovery, bounds

(***************************************************************************)
(* Lemmas about the operators.                                             *)
(***************************************************************************)
\* Handing events to the chain keeps every outbox a sequence of events.
LEMMA EmitTyped ==
  ASSUME NEW r \in Runs, NEW es \in Seq(Event), outbox \in [Runs -> Seq(Event)], Emit(r, es)
  PROVE  outbox' \in [Runs -> Seq(Event)]
BY DEF Emit

\* One event with no interrupted flag is a sequence of events.
LEMMA PlainEvent ==
  ASSUME NEW type \in {"started", "session", "usage", "completed", "failed"}
  PROVE  <<EventOf(type)>> \in Seq(Event)
BY DEF EventOf, Event, Outcome

\* Changing the state of a catalog entry leaves it one.
LEMMA EntryTyped ==
  ASSUME NEW h \in Home, NEW s \in {"none", "active", "orphaned"}
  PROVE  [h EXCEPT !.state = s] \in Home
BY DEF Home

\* A caller that is not idle has a run.
LEMMA BusyCall ==
  ASSUME NEW c \in Callers, call \in [Callers -> Call \cup {Idle}], call[c].pc # "idle"
  PROVE  call[c] \in Call
BY DEF Idle

(***************************************************************************)
(* The types.                                                              *)
(***************************************************************************)
\* Every variable keeps its type, whatever the fibers, the runtimes, the
\* callers, a crash and recovery do.
THEOREM TypeCorrect == Spec => []TypeOK
<1>1. Init => TypeOK
  BY DEF Init, TypeOK, State, Recoverable, Terminal, NoEvidence, Outcome, Home, NoHome, Event, Call, Idle
<1>2. TypeOK /\ [Next]_vars => TypeOK'
  <2> SUFFICES ASSUME TypeOK, [Next]_vars PROVE TypeOK'
    OBVIOUS
  <2> USE DEF TypeOK, State, Recoverable, Terminal
  <2>1. ASSUME NEW r \in Runs, Create(r) PROVE TypeOK'
    BY <2>1 DEF Create
  <2>2. ASSUME NEW r \in Runs, RecordHome(r) PROVE TypeOK'
    <3>1. [home[r] EXCEPT !.state = "active"] \in Home
      BY EntryTyped
    <3>2. home' = [home EXCEPT ![r] = [home[r] EXCEPT !.state = "active"]]
      BY <2>2 DEF RecordHome
    <3>3. home' \in [Runs -> Home]
      BY <3>1, <3>2
    <3>4. start' \in [Runs -> {"idle", "created", "homed", "starting", "launched", "died"}]
      BY <2>2 DEF RecordHome
    <3> QED
      BY <2>2, <3>3, <3>4 DEF RecordHome
  <2>3. ASSUME NEW r \in Runs, MoveToStarting(r) PROVE TypeOK'
    BY <2>3 DEF MoveToStarting
  <2>4. ASSUME NEW r \in Runs, StartDies(r) PROVE TypeOK'
    BY <2>4 DEF StartDies
  <2>5. ASSUME NEW r \in Runs, Launch(r) PROVE TypeOK'
    BY <2>5, EmitTyped, PlainEvent DEF Launch
  <2>6. ASSUME NEW r \in Runs, SessionLine(r) PROVE TypeOK'
    <3>1. outbox' \in [Runs -> Seq(Event)]
      BY <2>6, EmitTyped, PlainEvent DEF SessionLine
    <3>2. sessions' \in [Runs -> Nat]
      BY <2>6 DEF SessionLine
    <3> QED
      BY <2>6, <3>1, <3>2, SMTT(30) DEF SessionLine
  <2>7. ASSUME NEW r \in Runs, UsageLine(r) PROVE TypeOK'
    <3>1. outbox' \in [Runs -> Seq(Event)]
      BY <2>7, EmitTyped, PlainEvent DEF UsageLine
    <3> QED
      BY <2>7, <3>1 DEF UsageLine
  <2>8. ASSUME NEW r \in Runs, ProcessExit(r) PROVE TypeOK'
    BY <2>8 DEF ProcessExit
  <2>9. ASSUME NEW r \in Runs, ProcessClose(r) PROVE TypeOK'
    BY <2>9 DEF ProcessClose, Complete, Emit, Event, Outcome, ExitCode, Exited
  <2>10. ASSUME NEW r \in Runs, SpawnError(r) PROVE TypeOK'
    BY <2>10 DEF SpawnError, Complete, Emit, Event, EventOf, Outcome, ExitCode
  <2>11. ASSUME NEW r \in Runs, EngineReady(r) PROVE TypeOK'
    BY <2>11 DEF EngineReady
  <2>12. ASSUME NEW r \in Runs, EngineEnds(r) PROVE TypeOK'
    BY <2>12 DEF EngineEnds, Emit, EventOf, Event, Outcome, ExitCode
  <2>13. ASSUME NEW r \in Runs, PersistEvent(r) PROVE TypeOK'
    BY <2>13 DEF PersistEvent
  <2>14. ASSUME NEW r \in Runs, PersistRunning(r) PROVE TypeOK'
    BY <2>14 DEF PersistRunning
  <2>15. ASSUME NEW r \in Runs, WriteFails(r) PROVE TypeOK'
    BY <2>15 DEF WriteFails
  <2>16. ASSUME NEW r \in Runs, DropActive(r) PROVE TypeOK'
    BY <2>16 DEF DropActive
  <2>17. ASSUME NEW r \in Runs, RecordUsage(r) PROVE TypeOK'
    BY <2>17 DEF RecordUsage
  <2>18. ASSUME NEW r \in Runs, Settle(r) PROVE TypeOK'
    BY <2>18 DEF Settle, Verdict
  <2>19. ASSUME NEW r \in Runs, ReleaseHome(r) PROVE TypeOK'
    BY <2>19 DEF ReleaseHome, Retained, Home
  <2>20. ASSUME NEW r \in Runs, Reject(r) PROVE TypeOK'
    BY <2>20 DEF Reject
  <2>21. ASSUME NEW r \in Runs, Reclaim(r) PROVE TypeOK'
    BY <2>21 DEF Reclaim
  <2>22. ASSUME NEW r \in Runs, RecoverRow(r) PROVE TypeOK'
    BY <2>22 DEF RecoverRow, RecoveredState, RecoveredOutcome, Outcome, NoEvidence
  <2>23. ASSUME NEW c \in Callers, NEW r \in Runs, NEW kind \in {"interrupt", "force"}, NEW op, Ask(c, kind, op, r)
        PROVE  TypeOK'
    BY <2>23 DEF Ask, Signal, Call
  <2>24. ASSUME NEW c \in Callers, NEW r \in Runs, ProjectStopRefused(c, r) PROVE TypeOK'
    BY <2>24 DEF ProjectStopRefused, Call
  <2>25. ASSUME NEW c \in Callers, Mark(c) PROVE TypeOK'
    <3>1. call[c] \in Call
      BY <2>25, BusyCall DEF Mark
    <3> QED
      BY <2>25, <3>1 DEF Mark, Call
  <2>26. ASSUME NEW c \in Callers, MoveToInterrupting(c) PROVE TypeOK'
    BY <2>26 DEF MoveToInterrupting, Call, Idle
  <2>27. ASSUME NEW c \in Callers, ReadRow(c) PROVE TypeOK'
    <3>1. call[c] \in Call
      BY <2>27, BusyCall DEF ReadRow
    <3> QED
      BY <2>27, <3>1 DEF ReadRow, Call
  <2>28. ASSUME NEW c \in Callers, ForceStopped(c) PROVE TypeOK'
    BY <2>28 DEF ForceStopped, Call, Idle
  <2>29. CASE Boot
    BY <2>29 DEF Boot, ListRecoverable
  <2>30. CASE RecoverHome
    <3>1. releasing \in Runs
      BY <2>30 DEF RecoverHome
    <3>2. [home[releasing] EXCEPT !.state = "orphaned"] \in Home /\ Retained \in Home
      <4>1. home[releasing] \in Home
        BY <3>1
      <4>2. Retained \in Home
        BY DEF Home, Retained
      <4> QED
        BY <4>1, <4>2, EntryTyped
    <3>3. home' \in [Runs -> Home]
      BY <2>30, <3>1, <3>2 DEF RecoverHome
    <3> QED
      BY <2>30, <3>3 DEF RecoverHome
  <2>31. CASE Listen
    BY <2>31 DEF Listen
  <2>32. CASE Crash
    BY <2>32 DEF Crash, Event, Outcome, Idle, Call
  <2>33. CASE UNCHANGED vars
    BY <2>33 DEF vars
  <2> QED
    BY <2>1, <2>2, <2>3, <2>4, <2>5, <2>6, <2>7, <2>8, <2>9, <2>10, <2>11, <2>12, <2>13, <2>14, <2>15, <2>16, <2>17, <2>18, <2>19, <2>20, <2>21, <2>22, <2>23, <2>24, <2>25, <2>26, <2>27, <2>28, <2>29, <2>30, <2>31, <2>32, <2>33
       DEF Next, StartStep, RuntimeStep, ChainStep, PipelineStep, CallStep, Asks, RecoveryStep,
           Interrupt, Stop, ProjectStop
<1> QED
  BY <1>1, <1>2, PTL DEF Spec

(***************************************************************************)
(* The outcome of a run and its evidence.                                  *)
(***************************************************************************)
\* Taking the head off a sequence of events leaves its last event, unless it was the last.
LEMMA TailKeepsLast ==
  ASSUME NEW s \in Seq(Event), s # <<>>
  PROVE  /\ Tail(s) \in Seq(Event)
         /\ Head(s) \in Event
         /\ Tail(s) # <<>> => Tail(s)[Len(Tail(s))] = s[Len(s)]
         /\ Tail(s) = <<>> => Head(s) = s[Len(s)]
<1>1. Len(s) \in Nat \ {0} /\ Len(Tail(s)) = Len(s) - 1 /\ Tail(s) \in Seq(Event) /\ Head(s) \in Event
  OBVIOUS
<1>2. ASSUME Tail(s) # <<>> PROVE Tail(s)[Len(Tail(s))] = s[Len(s)]
  <2>1. Len(Tail(s)) \in 1 .. Len(Tail(s))
    BY <1>1, <1>2
  <2> QED
    BY <1>1, <2>1
<1>3. ASSUME Tail(s) = <<>> PROVE Head(s) = s[Len(s)]
  BY <1>1, <1>3
<1> QED
  BY <1>1, <1>2, <1>3

\* The last event of what an adapter hands over is the last of the chain.
LEMMA LastOfAppended ==
  ASSUME NEW s \in Seq(Event), NEW t \in Seq(Event), NEW e \in Event
  PROVE  /\ s \o (t \o <<e>>) # <<>>
         /\ (s \o (t \o <<e>>))[Len(s \o (t \o <<e>>))] = e
OBVIOUS

\* OutcomeInv is kept by every step: the chain writes the outcome last, the
\* pipeline decides after the chain, and recovery reads what the chain wrote.
THEOREM OutcomeInvariant == Spec => []OutcomeInv
<1>1. Init => OutcomeInv
  BY DEF Init, OutcomeInv, OutcomeInvFor, Resolved, Untouched
<1>2. TypeOK /\ OutcomeInv /\ [Next]_vars => OutcomeInv'
  <2> SUFFICES ASSUME TypeOK, OutcomeInv, [Next]_vars, NEW q \in Runs PROVE OutcomeInvFor(q)'
    BY DEF OutcomeInv
  <2>a. OutcomeInvFor(q)
    BY DEF OutcomeInv
  <2> USE <2>a DEF OutcomeInvFor, Quiet, Untouched, Resolved, Expected, WritesDone, TypeOK
  <2>1. ASSUME NEW r \in Runs, Create(r) PROVE OutcomeInvFor(q)'
    BY <2>1 DEF Create, Alive
  <2>2. ASSUME NEW r \in Runs, RecordHome(r) PROVE OutcomeInvFor(q)'
    BY <2>2 DEF RecordHome
  <2>3. ASSUME NEW r \in Runs, MoveToStarting(r) PROVE OutcomeInvFor(q)'
    BY <2>3 DEF MoveToStarting
  <2>4. ASSUME NEW r \in Runs, StartDies(r) PROVE OutcomeInvFor(q)'
    BY <2>4 DEF StartDies
  <2>5. ASSUME NEW r \in Runs, Launch(r) PROVE OutcomeInvFor(q)'
    BY <2>5 DEF Launch, Emit
  <2>6. ASSUME NEW r \in Runs, SessionLine(r) PROVE OutcomeInvFor(q)'
    BY <2>6 DEF SessionLine, Emit, Exited
  <2>7. ASSUME NEW r \in Runs, UsageLine(r) PROVE OutcomeInvFor(q)'
    BY <2>7 DEF UsageLine, Emit
  <2>8. ASSUME NEW r \in Runs, ProcessExit(r) PROVE OutcomeInvFor(q)'
    BY <2>8 DEF ProcessExit
  <2>9. ASSUME NEW r \in Runs, ProcessClose(r) PROVE OutcomeInvFor(q)'
    <3>1. CASE q = r
      <4> DEFINE e == [type |-> IF (IF r \in aborted THEN 130 ELSE IF engine[r] = "exited0" THEN 0 ELSE 1) = 0
                                THEN "completed" ELSE "failed", interrupted |-> r \in aborted]
      <4>1. outbox'[q] = outbox[q] \o (<<>> \o <<e>>)
        BY <2>9, <3>1 DEF ProcessClose, Complete, Emit
      <4>2. e \in Event /\ e.type = Expected(q)'
        BY <2>9, <3>1 DEF ProcessClose, Complete, Event, Outcome
      <4>3. outbox'[q] # <<>> /\ outbox'[q][Len(outbox'[q])].type = Expected(q)'
        <5> HIDE DEF e
        <5> QED
          BY <4>1, <4>2, LastOfAppended
      <4> QED
        BY <2>9, <3>1, <4>3 DEF ProcessClose, Complete, Exited
    <3>2. CASE q # r
      BY <2>9, <3>2 DEF ProcessClose, Complete, Emit
    <3> QED
      BY <3>1, <3>2
  <2>10. ASSUME NEW r \in Runs, SpawnError(r) PROVE OutcomeInvFor(q)'
    <3>1. CASE q = r
      <4> DEFINE e == [type |-> IF (IF r \in aborted THEN 130 ELSE 1) = 0 THEN "completed" ELSE "failed",
                       interrupted |-> r \in aborted]
      <4>1. outbox'[q] = outbox[q] \o (<<EventOf("failed")>> \o <<e>>)
        BY <2>10, <3>1 DEF SpawnError, Complete, Emit
      <4>2. e \in Event /\ e.type = Expected(q)'
        BY <2>10, <3>1 DEF SpawnError, Complete, Event, Outcome
      <4>3. outbox'[q] # <<>> /\ outbox'[q][Len(outbox'[q])].type = Expected(q)'
        <5> HIDE DEF e
        <5> QED
          BY <4>1, <4>2, PlainEvent, LastOfAppended
      <4> QED
        BY <2>10, <3>1, <4>3 DEF SpawnError, Complete
    <3>2. CASE q # r
      BY <2>10, <3>2 DEF SpawnError, Complete, Emit
    <3> QED
      BY <3>1, <3>2
  <2>11. ASSUME NEW r \in Runs, EngineReady(r) PROVE OutcomeInvFor(q)'
    BY <2>11 DEF EngineReady
  <2>12. ASSUME NEW r \in Runs, EngineEnds(r) PROVE OutcomeInvFor(q)'
    <3>1. PICK code \in {0, 1} :
               /\ engine[r] \in (IF code = 0 THEN {"running"} ELSE {"creating", "running"})
               /\ result' = [result EXCEPT ![r] = code]
               /\ Emit(r, <<EventOf(IF code = 0 THEN "completed" ELSE "failed")>>)
      BY <2>12 DEF EngineEnds
    <3>2. CASE q = r
      <4> DEFINE e == EventOf(IF code = 0 THEN "completed" ELSE "failed")
      <4>1. outbox'[q] = outbox[q] \o (<<>> \o <<e>>)
        BY <3>1, <3>2 DEF Emit
      <4>2. e \in Event /\ e.type = Expected(q)'
        BY <3>1, <3>2 DEF Event, EventOf, Outcome
      <4>3. outbox'[q] # <<>> /\ outbox'[q][Len(outbox'[q])].type = Expected(q)'
        <5> HIDE DEF e
        <5> QED
          BY <4>1, <4>2, LastOfAppended
      <4> QED
        BY <2>12, <3>1, <3>2, <4>3 DEF EngineEnds
    <3>3. CASE q # r
      BY <2>12, <3>1, <3>3 DEF EngineEnds, Emit
    <3> QED
      BY <3>2, <3>3
  <2>13. ASSUME NEW r \in Runs, PersistEvent(r) PROVE OutcomeInvFor(q)'
    <3>1. CASE q = r
      <4> DEFINE s == outbox[r]
      <4>1. /\ s \in Seq(Event) /\ s # <<>>
            /\ outbox'[q] = Tail(s)
            /\ evidence'[q] = IF Head(s) \in Outcome THEN Head(s) ELSE evidence[q]
        BY <2>13, <3>1 DEF PersistEvent
      <4>2. /\ Tail(s) # <<>> => Tail(s)[Len(Tail(s))] = s[Len(s)]
            /\ Tail(s) = <<>> => Head(s) = s[Len(s)]
            /\ Head(s) \in Event
        BY <4>1, TailKeepsLast
      <4>3. Resolved(q) /\ q \notin poisoned => s[Len(s)].type = Expected(q)
        BY <3>1, <4>1
      <4>4. Head(s).type \in {"completed", "failed"} => Head(s) \in Outcome
        BY <4>2 DEF Event, Outcome
      <4>5. Resolved(q) /\ q \notin poisoned =>
               IF outbox'[q] = <<>> THEN evidence'[q].type = Expected(q)
               ELSE outbox'[q][Len(outbox'[q])].type = Expected(q)
        BY <4>1, <4>2, <4>3, <4>4
      <4> QED
        BY <2>13, <3>1, <4>1, <4>5 DEF PersistEvent
    <3>2. CASE q # r
      BY <2>13, <3>2 DEF PersistEvent
    <3> QED
      BY <3>1, <3>2
  <2>14. ASSUME NEW r \in Runs, PersistRunning(r) PROVE OutcomeInvFor(q)'
    BY <2>14 DEF PersistRunning
  <2>15. ASSUME NEW r \in Runs, WriteFails(r) PROVE OutcomeInvFor(q)'
    BY <2>15 DEF WriteFails
  <2>16. ASSUME NEW r \in Runs, DropActive(r) PROVE OutcomeInvFor(q)'
    BY <2>16 DEF DropActive
  <2>17. ASSUME NEW r \in Runs, RecordUsage(r) PROVE OutcomeInvFor(q)'
    BY <2>17 DEF RecordUsage
  <2>18. ASSUME NEW r \in Runs, Settle(r) PROVE OutcomeInvFor(q)'
    BY <2>18 DEF Settle, Verdict
  <2>19. ASSUME NEW r \in Runs, ReleaseHome(r) PROVE OutcomeInvFor(q)'
    BY <2>19 DEF ReleaseHome
  <2>20. ASSUME NEW r \in Runs, Reject(r) PROVE OutcomeInvFor(q)'
    BY <2>20 DEF Reject
  <2>21. ASSUME NEW r \in Runs, Reclaim(r) PROVE OutcomeInvFor(q)'
    BY <2>21 DEF Reclaim
  <2>22. ASSUME NEW r \in Runs, RecoverRow(r) PROVE OutcomeInvFor(q)'
    BY <2>22 DEF RecoverRow, RecoveredState,RecoveredOutcome
  <2>23. ASSUME NEW c \in Callers, NEW r \in Runs, NEW kind \in {"interrupt", "force"}, NEW op, Ask(c, kind, op, r)
        PROVE  OutcomeInvFor(q)'
    BY <2>23 DEF Ask
  <2>24. ASSUME NEW c \in Callers, NEW r \in Runs, ProjectStopRefused(c, r) PROVE OutcomeInvFor(q)'
    BY <2>24 DEF ProjectStopRefused
  <2>25. ASSUME NEW c \in Callers, Mark(c) PROVE OutcomeInvFor(q)'
    BY <2>25 DEF Mark
  <2>26. ASSUME NEW c \in Callers, MoveToInterrupting(c) PROVE OutcomeInvFor(q)'
    BY <2>26 DEF MoveToInterrupting
  <2>27. ASSUME NEW c \in Callers, ReadRow(c) PROVE OutcomeInvFor(q)'
    BY <2>27 DEF ReadRow
  <2>28. ASSUME NEW c \in Callers, ForceStopped(c) PROVE OutcomeInvFor(q)'
    BY <2>28 DEF ForceStopped
  <2>29. CASE Boot
    BY <2>29 DEF Boot, ListRecoverable, Recoverable
  <2>30. CASE RecoverHome
    BY <2>30 DEF RecoverHome
  <2>31. CASE Listen
    BY <2>31 DEF Listen
  <2>32. CASE Crash
    BY <2>32 DEF Crash
  <2>33. CASE UNCHANGED vars
    BY <2>33 DEF vars
  <2> QED
    BY <2>1, <2>2, <2>3, <2>4, <2>5, <2>6, <2>7, <2>8, <2>9, <2>10, <2>11, <2>12, <2>13, <2>14, <2>15, <2>16, <2>17, <2>18, <2>19, <2>20, <2>21, <2>22, <2>23, <2>24, <2>25, <2>26, <2>27, <2>28, <2>29, <2>30, <2>31, <2>32, <2>33
       DEF Next, StartStep, RuntimeStep, ChainStep, PipelineStep, CallStep, Asks, RecoveryStep,
           Interrupt, Stop, ProjectStop
<1> QED
  BY <1>1, <1>2, TypeCorrect, PTL DEF Spec

\* A run is completed or failed only on recorded evidence.
THEOREM OutcomesHaveEvidence == Spec => []OutcomeHasEvidence
<1>1. OutcomeInv => OutcomeHasEvidence
  BY DEF OutcomeInv, OutcomeInvFor, OutcomeHasEvidence
<1> QED
  BY <1>1, OutcomeInvariant, PTL

(***************************************************************************)
(* Stops go back to requests.                                              *)
(***************************************************************************)
\* What is appended to a chain without an interrupted event leaves it so.
LEMMA PlainAppend ==
  ASSUME NEW s \in Seq(Event), NEW t \in Seq(Event),
         \A i \in 1 .. Len(s) : ~s[i].interrupted,
         \A i \in 1 .. Len(t) : ~t[i].interrupted
  PROVE  \A i \in 1 .. Len(s \o t) : ~(s \o t)[i].interrupted
OBVIOUS

\* One plain event is a sequence without an interrupted event.
LEMMA PlainEventNotInterrupted ==
  ASSUME NEW type
  PROVE  \A i \in 1 .. Len(<<EventOf(type)>>) : ~<<EventOf(type)>>[i].interrupted
BY DEF EventOf

\* An idle caller has no run.
LEMMA IdleHasNoRun == \A q \in Runs : Idle.run # q
BY AgentRunAssumption DEF Idle

\* StopInv is kept by every step: no crash, recovery or late event invents a stop.
THEOREM StopInvariant == Spec => []StopInv
<1>1. Init => StopInv
  BY IdleHasNoRun DEF Init, StopInv, StopInvFor, NoEvidence
<1>2. TypeOK /\ StopInv /\ [Next]_vars => StopInv'
  <2> SUFFICES ASSUME TypeOK, StopInv, [Next]_vars, NEW q \in Runs, q \notin requested'
               PROVE  StopInvFor(q)'
    BY DEF StopInv, StopInvFor
  <2>a. q \notin requested => StopInvFor(q)
    BY DEF StopInv
  <2> USE DEF TypeOK, StopInvFor
  <2>1. ASSUME NEW r \in Runs, Create(r) PROVE StopInvFor(q)'
    BY <2>1, <2>a DEF Create
  <2>2. ASSUME NEW r \in Runs, RecordHome(r) PROVE StopInvFor(q)'
    BY <2>2, <2>a DEF RecordHome
  <2>3. ASSUME NEW r \in Runs, MoveToStarting(r) PROVE StopInvFor(q)'
    BY <2>3, <2>a DEF MoveToStarting
  <2>4. ASSUME NEW r \in Runs, StartDies(r) PROVE StopInvFor(q)'
    BY <2>4, <2>a DEF StartDies
  <2>5. ASSUME NEW r \in Runs, Launch(r) PROVE StopInvFor(q)'
    <3>1. \A i \in 1 .. Len(outbox'[q]) : ~outbox'[q][i].interrupted
      BY <2>5, <2>a, PlainEvent, PlainEventNotInterrupted, PlainAppend DEF Launch, Emit
    <3> QED
      BY <2>5, <2>a, <3>1 DEF Launch
  <2>6. ASSUME NEW r \in Runs, SessionLine(r) PROVE StopInvFor(q)'
    BY <2>6, <2>a DEF SessionLine, Emit, EventOf
  <2>7. ASSUME NEW r \in Runs, UsageLine(r) PROVE StopInvFor(q)'
    BY <2>7, <2>a DEF UsageLine, Emit, EventOf
  <2>8. ASSUME NEW r \in Runs, ProcessExit(r) PROVE StopInvFor(q)'
    BY <2>8, <2>a DEF ProcessExit
  <2>9. ASSUME NEW r \in Runs, ProcessClose(r) PROVE StopInvFor(q)'
    <3> DEFINE e == [type |-> IF (IF r \in aborted THEN 130 ELSE IF engine[r] = "exited0" THEN 0 ELSE 1) = 0
                              THEN "completed" ELSE "failed", interrupted |-> r \in aborted]
    <3>1. r = q => e \in Event /\ ~e.interrupted
      <4>1. e \in Event
        BY DEF Event, Outcome
      <4>2. r = q => r \notin aborted
        BY <2>9, <2>a DEF ProcessClose
      <4> QED
        BY <4>1, <4>2
    <3>2. r = q => outbox'[q] = outbox[q] \o <<e>>
      <4>1. r = q => outbox'[q] = outbox[q] \o (<<>> \o <<e>>)
        BY <2>9 DEF ProcessClose, Complete, Emit
      <4> QED
        BY <4>1
    <3>3. \A i \in 1 .. Len(outbox'[q]) : ~outbox'[q][i].interrupted
      <4>1. CASE r = q
        <5> HIDE DEF e
        <5>1. <<e>> \in Seq(Event) /\ \A i \in 1 .. Len(<<e>>) : ~<<e>>[i].interrupted
          BY <4>1, <3>1
        <5> QED
          BY <4>1, <3>2, <2>a, <5>1, PlainAppend, <2>9 DEF ProcessClose
      <4>2. CASE r # q
        BY <4>2, <2>9, <2>a DEF ProcessClose, Complete, Emit
      <4> QED
        BY <4>1, <4>2
    <3> QED
      BY <2>9, <2>a, <3>3 DEF ProcessClose, Complete
  <2>10. ASSUME NEW r \in Runs, SpawnError(r) PROVE StopInvFor(q)'
    <3> DEFINE e == [type |-> IF (IF r \in aborted THEN 130 ELSE 1) = 0 THEN "completed" ELSE "failed",
                     interrupted |-> r \in aborted]
    <3>1. r = q => e \in Event /\ ~e.interrupted
      <4>1. e \in Event
        BY DEF Event, Outcome
      <4>2. r = q => r \notin aborted
        BY <2>10, <2>a DEF SpawnError
      <4> QED
        BY <4>1, <4>2
    <3>2. r = q => outbox'[q] = outbox[q] \o (<<EventOf("failed")>> \o <<e>>)
      BY <2>10 DEF SpawnError, Complete, Emit
    <3>3. \A i \in 1 .. Len(outbox'[q]) : ~outbox'[q][i].interrupted
      <4>1. CASE r = q
        <5> HIDE DEF e
        <5>1. <<e>> \in Seq(Event) /\ \A i \in 1 .. Len(<<e>>) : ~<<e>>[i].interrupted
          BY <4>1, <3>1
        <5> DEFINE two == <<EventOf("failed")>> \o <<e>>
        <5>2. two \in Seq(Event) /\ \A i \in 1 .. Len(two) : ~two[i].interrupted
          BY <5>1, PlainEvent, PlainEventNotInterrupted, PlainAppend
        <5> HIDE DEF two
        <5>3. outbox'[q] = outbox[q] \o two
          BY <4>1, <3>2 DEF two
        <5> QED
          BY <2>10, <4>1, <2>a, <5>2, <5>3, PlainAppend DEF SpawnError
      <4>2. CASE r # q
        BY <4>2, <2>10, <2>a DEF SpawnError, Complete, Emit
      <4> QED
        BY <4>1, <4>2
    <3> QED
      BY <2>10, <2>a, <3>3 DEF SpawnError, Complete
  <2>11. ASSUME NEW r \in Runs, EngineReady(r) PROVE StopInvFor(q)'
    BY <2>11, <2>a DEF EngineReady
  <2>12. ASSUME NEW r \in Runs, EngineEnds(r) PROVE StopInvFor(q)'
    <3>1. PICK type \in {"completed", "failed"} : Emit(r, <<EventOf(type)>>)
      BY <2>12 DEF EngineEnds
    <3>2. \A i \in 1 .. Len(outbox'[q]) : ~outbox'[q][i].interrupted
      BY <2>12, <2>a, <3>1, PlainEvent, PlainEventNotInterrupted, PlainAppend DEF EngineEnds, Emit
    <3> QED
      BY <2>12, <2>a, <3>2 DEF EngineEnds
  <2>13. ASSUME NEW r \in Runs, PersistEvent(r) PROVE StopInvFor(q)'
    BY <2>13, <2>a DEF PersistEvent
  <2>14. ASSUME NEW r \in Runs, PersistRunning(r) PROVE StopInvFor(q)'
    BY <2>14, <2>a DEF PersistRunning
  <2>15. ASSUME NEW r \in Runs, WriteFails(r) PROVE StopInvFor(q)'
    BY <2>15, <2>a DEF WriteFails
  <2>16. ASSUME NEW r \in Runs, DropActive(r) PROVE StopInvFor(q)'
    BY <2>16, <2>a DEF DropActive
  <2>17. ASSUME NEW r \in Runs, RecordUsage(r) PROVE StopInvFor(q)'
    BY <2>17, <2>a DEF RecordUsage
  <2>18. ASSUME NEW r \in Runs, Settle(r) PROVE StopInvFor(q)'
    BY <2>18, <2>a DEF Settle, Verdict
  <2>19. ASSUME NEW r \in Runs, ReleaseHome(r) PROVE StopInvFor(q)'
    BY <2>19, <2>a DEF ReleaseHome
  <2>20. ASSUME NEW r \in Runs, Reject(r) PROVE StopInvFor(q)'
    BY <2>20, <2>a DEF Reject
  <2>21. ASSUME NEW r \in Runs, Reclaim(r) PROVE StopInvFor(q)'
    BY <2>21, <2>a DEF Reclaim
  <2>22. ASSUME NEW r \in Runs, RecoverRow(r) PROVE StopInvFor(q)'
    BY <2>22, <2>a DEF RecoverRow, RecoveredState,RecoveredOutcome, NoEvidence, Outcome
  <2>23. ASSUME NEW c \in Callers, NEW r \in Runs, NEW kind \in {"interrupt", "force"}, NEW op, Ask(c, kind, op, r)
        PROVE  StopInvFor(q)'
    BY <2>23, <2>a DEF Ask, Signal
  <2>24. ASSUME NEW c \in Callers, NEW r \in Runs, ProjectStopRefused(c, r) PROVE StopInvFor(q)'
    BY <2>24, <2>a DEF ProjectStopRefused
  <2>25. ASSUME NEW c \in Callers, Mark(c) PROVE StopInvFor(q)'
    BY <2>25, <2>a DEF Mark, Call, Idle
  <2>26. ASSUME NEW c \in Callers, MoveToInterrupting(c) PROVE StopInvFor(q)'
    <3>1. call[c] \in Call
      BY <2>26, BusyCall DEF MoveToInterrupting
    <3> QED
      BY <2>26, <2>a, <3>1, IdleHasNoRun DEF MoveToInterrupting, Call
  <2>27. ASSUME NEW c \in Callers, ReadRow(c) PROVE StopInvFor(q)'
    <3>1. call[c] \in Call
      BY <2>27, BusyCall DEF ReadRow
    <3> QED
      BY <2>27, <2>a, <3>1, IdleHasNoRun DEF ReadRow, Call
  <2>28. ASSUME NEW c \in Callers, ForceStopped(c) PROVE StopInvFor(q)'
    <3>1. call[c] \in Call
      BY <2>28, BusyCall DEF ForceStopped
    <3> QED
      BY <2>28, <2>a, <3>1, IdleHasNoRun DEF ForceStopped, Call
  <2>29. CASE Boot
    BY <2>29, <2>a DEF Boot, ListRecoverable, Recoverable
  <2>30. CASE RecoverHome
    BY <2>30, <2>a DEF RecoverHome
  <2>31. CASE Listen
    BY <2>31, <2>a DEF Listen
  <2>32. CASE Crash
    BY <2>32, <2>a, IdleHasNoRun DEF Crash
  <2>33. CASE UNCHANGED vars
    BY <2>33, <2>a DEF vars
  <2> QED
    BY <2>1, <2>2, <2>3, <2>4, <2>5, <2>6, <2>7, <2>8, <2>9, <2>10, <2>11, <2>12, <2>13, <2>14, <2>15, <2>16, <2>17, <2>18, <2>19, <2>20, <2>21, <2>22, <2>23, <2>24, <2>25, <2>26, <2>27, <2>28, <2>29, <2>30, <2>31, <2>32, <2>33
       DEF Next, StartStep, RuntimeStep, ChainStep, PipelineStep, CallStep, Asks, RecoveryStep,
           Interrupt, Stop, ProjectStop
<1> QED
  BY <1>1, <1>2, TypeCorrect, PTL DEF Spec

\* A run is interrupting or stopped only if somebody asked for it.
THEOREM StopsWereRequested == Spec => []StopWasRequested
<1>1. StopInv => StopWasRequested
  BY DEF StopInv, StopInvFor, StopWasRequested
<1> QED
  BY <1>1, StopInvariant, PTL

(***************************************************************************)
(* Who will move a run: the fibers, the pipeline, recovery.                *)
(***************************************************************************)
\* LifeInv is kept by every step: a crash forgets every fiber and every call, so
\* recovery alone holds the rows it lists until it has handled them.
LEMMA LifeStep == TypeOK /\ OutcomeInv /\ LifeInv /\ [Next]_vars => LifeInv'
<1> SUFFICES ASSUME TypeOK, OutcomeInv, LifeInv, [Next]_vars, NEW q \in Runs PROVE LifeInvFor(q)'
  BY DEF LifeInv
<1>a. OutcomeInvFor(q) /\ LifeInvFor(q)
  BY DEF OutcomeInv, LifeInv
<1> USE <1>a DEF OutcomeInvFor, LifeInvFor, Quiet, Untouched, Resolved, WritesDone, TypeOK, Recoverable
<1>1. ASSUME NEW r \in Runs, Create(r) PROVE LifeInvFor(q)'
  BY <1>1 DEF Create, Alive
<1>2. ASSUME NEW r \in Runs, RecordHome(r) PROVE LifeInvFor(q)'
  BY <1>2 DEF RecordHome
<1>3. ASSUME NEW r \in Runs, MoveToStarting(r) PROVE LifeInvFor(q)'
  BY <1>3 DEF MoveToStarting
<1>4. ASSUME NEW r \in Runs, StartDies(r) PROVE LifeInvFor(q)'
  BY <1>4 DEF StartDies
<1>5. ASSUME NEW r \in Runs, Launch(r) PROVE LifeInvFor(q)'
  BY <1>5 DEF Launch, Emit
<1>6. ASSUME NEW r \in Runs, SessionLine(r) PROVE LifeInvFor(q)'
  BY <1>6 DEF SessionLine, Emit, Exited
<1>7. ASSUME NEW r \in Runs, UsageLine(r) PROVE LifeInvFor(q)'
  BY <1>7 DEF UsageLine, Emit
<1>8. ASSUME NEW r \in Runs, ProcessExit(r) PROVE LifeInvFor(q)'
  BY <1>8 DEF ProcessExit
<1>9. ASSUME NEW r \in Runs, ProcessClose(r) PROVE LifeInvFor(q)'
  BY <1>9 DEF ProcessClose, Complete, Emit, Exited, ExitCode
<1>10. ASSUME NEW r \in Runs, SpawnError(r) PROVE LifeInvFor(q)'
  BY <1>10 DEF SpawnError, Complete, Emit
<1>11. ASSUME NEW r \in Runs, EngineReady(r) PROVE LifeInvFor(q)'
  BY <1>11 DEF EngineReady
<1>12. ASSUME NEW r \in Runs, EngineEnds(r) PROVE LifeInvFor(q)'
  BY <1>12 DEF EngineEnds, Emit
<1>13. ASSUME NEW r \in Runs, PersistEvent(r) PROVE LifeInvFor(q)'
  BY <1>13 DEF PersistEvent
<1>14. ASSUME NEW r \in Runs, PersistRunning(r) PROVE LifeInvFor(q)'
  BY <1>14 DEF PersistRunning
<1>15. ASSUME NEW r \in Runs, WriteFails(r) PROVE LifeInvFor(q)'
  BY <1>15 DEF WriteFails
<1>16. ASSUME NEW r \in Runs, DropActive(r) PROVE LifeInvFor(q)'
  BY <1>16 DEF DropActive
<1>17. ASSUME NEW r \in Runs, RecordUsage(r) PROVE LifeInvFor(q)'
  BY <1>17 DEF RecordUsage
<1>18. ASSUME NEW r \in Runs, Settle(r) PROVE LifeInvFor(q)'
  BY <1>18 DEF Settle, Verdict
<1>19. ASSUME NEW r \in Runs, ReleaseHome(r) PROVE LifeInvFor(q)'
  BY <1>19 DEF ReleaseHome, Retained
<1>20. ASSUME NEW r \in Runs, Reject(r) PROVE LifeInvFor(q)'
  BY <1>20 DEF Reject
<1>21. ASSUME NEW r \in Runs, Reclaim(r) PROVE LifeInvFor(q)'
  BY <1>21 DEF Reclaim, Recovered
<1>22. ASSUME NEW r \in Runs, RecoverRow(r) PROVE LifeInvFor(q)'
  BY <1>22 DEF RecoverRow, RecoveredState, RecoveredOutcome
<1>23. ASSUME NEW c \in Callers, NEW r \in Runs, NEW kind \in {"interrupt", "force"}, NEW op, Ask(c, kind, op, r)
      PROVE  LifeInvFor(q)'
  BY <1>23 DEF Ask, Accepts
<1>24. ASSUME NEW c \in Callers, NEW r \in Runs, ProjectStopRefused(c, r) PROVE LifeInvFor(q)'
  BY <1>24 DEF ProjectStopRefused, Recovered
<1>25. ASSUME NEW c \in Callers, Mark(c) PROVE LifeInvFor(q)'
  <2>1. call[c] \in Call
    BY <1>25, BusyCall DEF Mark
  <2> QED
    BY <1>25, <2>1, IdleHasNoRun DEF Mark, Call
<1>26. ASSUME NEW c \in Callers, MoveToInterrupting(c) PROVE LifeInvFor(q)'
  <2>1. call[c] \in Call
    BY <1>26, BusyCall DEF MoveToInterrupting
  <2> QED
    BY <1>26, <2>1, IdleHasNoRun DEF MoveToInterrupting, Call
<1>27. ASSUME NEW c \in Callers, ReadRow(c) PROVE LifeInvFor(q)'
  <2>1. call[c] \in Call
    BY <1>27, BusyCall DEF ReadRow
  <2> QED
    BY <1>27, <2>1, IdleHasNoRun DEF ReadRow, Call
<1>28. ASSUME NEW c \in Callers, ForceStopped(c) PROVE LifeInvFor(q)'
  <2>1. call[c] \in Call
    BY <1>28, BusyCall DEF ForceStopped
  <2> QED
    BY <1>28, <2>1, IdleHasNoRun DEF ForceStopped, Call
<1>29. CASE Boot
  BY <1>29 DEF Boot, ListRecoverable
<1>30. CASE RecoverHome
  BY <1>30 DEF RecoverHome, Retained
<1>31. CASE Listen
  BY <1>31 DEF Listen, Recovered
<1>32. CASE Crash
  BY <1>32, IdleHasNoRun DEF Crash
<1>33. CASE UNCHANGED vars
  BY <1>33 DEF vars
<1> QED
  BY <1>1, <1>2, <1>3, <1>4, <1>5, <1>6, <1>7, <1>8, <1>9, <1>10, <1>11, <1>12, <1>13, <1>14, <1>15, <1>16, <1>17, <1>18, <1>19, <1>20, <1>21, <1>22, <1>23, <1>24, <1>25, <1>26, <1>27, <1>28, <1>29, <1>30, <1>31, <1>32, <1>33
     DEF Next, StartStep, RuntimeStep, ChainStep, PipelineStep, CallStep, Asks, RecoveryStep,
         Interrupt, Stop, ProjectStop

\* So the row and the fibers agree in every state.
THEOREM LifeInvariant == Spec => []LifeInv
<1>1. Init => LifeInv
  BY IdleHasNoRun DEF Init, LifeInv, LifeInvFor, Resolved, Untouched
<1> QED
  BY <1>1, LifeStep, TypeCorrect, OutcomeInvariant, PTL DEF Spec

\* The run of a busy row keeps somebody who will move it, or was stranded.
LEMMA BusyStep ==
  TypeOK /\ OutcomeInv /\ LifeInv /\ BusyRunIsAttended /\ [Next]_vars => BusyRunIsAttended'
<1> DEFINE Busy(q) == row[q] \in {"starting", "running"} => Attended(q) \/ Pending(q) \/ Stranded(q)
<1> SUFFICES ASSUME TypeOK, OutcomeInv, LifeInv, BusyRunIsAttended, [Next]_vars, NEW q \in Runs PROVE Busy(q)'
  BY DEF BusyRunIsAttended
<1>a. OutcomeInvFor(q) /\ LifeInvFor(q) /\ Busy(q)
  BY DEF OutcomeInv, LifeInv, BusyRunIsAttended
<1> USE <1>a DEF OutcomeInvFor, LifeInvFor, Quiet, Untouched, Resolved, WritesDone, TypeOK, Recoverable,
                   Attended, Pending, Stranded
<1>1. ASSUME NEW r \in Runs, Create(r) PROVE Busy(q)'
  BY <1>1 DEF Create, Alive
<1>2. ASSUME NEW r \in Runs, RecordHome(r) PROVE Busy(q)'
  BY <1>2 DEF RecordHome
<1>3. ASSUME NEW r \in Runs, MoveToStarting(r) PROVE Busy(q)'
  BY <1>3 DEF MoveToStarting
<1>4. ASSUME NEW r \in Runs, StartDies(r) PROVE Busy(q)'
  BY <1>4 DEF StartDies
<1>5. ASSUME NEW r \in Runs, Launch(r) PROVE Busy(q)'
  BY <1>5 DEF Launch
<1>6. ASSUME NEW r \in Runs, SessionLine(r) PROVE Busy(q)'
  BY <1>6 DEF SessionLine
<1>7. ASSUME NEW r \in Runs, UsageLine(r) PROVE Busy(q)'
  BY <1>7 DEF UsageLine
<1>8. ASSUME NEW r \in Runs, ProcessExit(r) PROVE Busy(q)'
  BY <1>8 DEF ProcessExit
<1>9. ASSUME NEW r \in Runs, ProcessClose(r) PROVE Busy(q)'
  BY <1>9 DEF ProcessClose, Complete
<1>10. ASSUME NEW r \in Runs, SpawnError(r) PROVE Busy(q)'
  BY <1>10 DEF SpawnError, Complete
<1>11. ASSUME NEW r \in Runs, EngineReady(r) PROVE Busy(q)'
  BY <1>11 DEF EngineReady
<1>12. ASSUME NEW r \in Runs, EngineEnds(r) PROVE Busy(q)'
  BY <1>12 DEF EngineEnds
<1>13. ASSUME NEW r \in Runs, PersistEvent(r) PROVE Busy(q)'
  BY <1>13 DEF PersistEvent
<1>14. ASSUME NEW r \in Runs, PersistRunning(r) PROVE Busy(q)'
  BY <1>14 DEF PersistRunning
<1>15. ASSUME NEW r \in Runs, WriteFails(r) PROVE Busy(q)'
  BY <1>15 DEF WriteFails
<1>16. ASSUME NEW r \in Runs, DropActive(r) PROVE Busy(q)'
  BY <1>16 DEF DropActive
<1>17. ASSUME NEW r \in Runs, RecordUsage(r) PROVE Busy(q)'
  BY <1>17 DEF RecordUsage
<1>18. ASSUME NEW r \in Runs, Settle(r) PROVE Busy(q)'
  BY <1>18 DEF Settle, Verdict
<1>19. ASSUME NEW r \in Runs, ReleaseHome(r) PROVE Busy(q)'
  BY <1>19 DEF ReleaseHome, Retained
<1>20. ASSUME NEW r \in Runs, Reject(r) PROVE Busy(q)'
  BY <1>20 DEF Reject
<1>21. ASSUME NEW r \in Runs, Reclaim(r) PROVE Busy(q)'
  BY <1>21 DEF Reclaim, Recovered
<1>22. ASSUME NEW r \in Runs, RecoverRow(r) PROVE Busy(q)'
  BY <1>22 DEF RecoverRow, RecoveredState, RecoveredOutcome, Outcome, NoEvidence
<1>23. ASSUME NEW c \in Callers, NEW r \in Runs, NEW kind \in {"interrupt", "force"}, NEW op, Ask(c, kind, op, r)
      PROVE  Busy(q)'
  BY <1>23 DEF Ask, Accepts
<1>24. ASSUME NEW c \in Callers, NEW r \in Runs, ProjectStopRefused(c, r) PROVE Busy(q)'
  BY <1>24 DEF ProjectStopRefused, Recovered
<1>25. ASSUME NEW c \in Callers, Mark(c) PROVE Busy(q)'
  BY <1>25 DEF Mark
<1>26. ASSUME NEW c \in Callers, MoveToInterrupting(c) PROVE Busy(q)'
  BY <1>26 DEF MoveToInterrupting
<1>27. ASSUME NEW c \in Callers, ReadRow(c) PROVE Busy(q)'
  BY <1>27 DEF ReadRow
<1>28. ASSUME NEW c \in Callers, ForceStopped(c) PROVE Busy(q)'
  BY <1>28 DEF ForceStopped
<1>29. CASE Boot
  BY <1>29 DEF Boot, ListRecoverable
<1>30. CASE RecoverHome
  BY <1>30 DEF RecoverHome, Retained
<1>31. CASE Listen
  BY <1>31 DEF Listen, Recovered
<1>32. CASE Crash
  BY <1>32 DEF Crash
<1>33. CASE UNCHANGED vars
  BY <1>33 DEF vars
<1> QED
  BY <1>1, <1>2, <1>3, <1>4, <1>5, <1>6, <1>7, <1>8, <1>9, <1>10, <1>11, <1>12, <1>13, <1>14, <1>15, <1>16, <1>17, <1>18, <1>19, <1>20, <1>21, <1>22, <1>23, <1>24, <1>25, <1>26, <1>27, <1>28, <1>29, <1>30, <1>31, <1>32, <1>33
     DEF Next, StartStep, RuntimeStep, ChainStep, PipelineStep, CallStep, Asks, RecoveryStep,
         Interrupt, Stop, ProjectStop

\* However the fibers interleave and crash, no row says "starting" or "running" with
\* nobody left to move it, except after a start that died or a rejected write.
THEOREM BusyRunsAttended == Spec => []BusyRunIsAttended
<1>1. Init => BusyRunIsAttended
  BY DEF Init, BusyRunIsAttended
<1> QED
  BY <1>1, BusyStep, TypeCorrect, OutcomeInvariant, LifeInvariant, PTL DEF Spec

\* A parked run stays without an outcome and without a fiber, and its home is given up.
LEMMA ParkedStep ==
  TypeOK /\ OutcomeInv /\ LifeInv /\ ParkedRunIsDetached /\ [Next]_vars => ParkedRunIsDetached'
<1> DEFINE Parked(q) == row[q] = "awaiting_recovery" =>
                          /\ evidence[q] = NoEvidence
                          /\ q \notin live
                          /\ home[q].state = "orphaned" \/ releasing = q \/ Pending(q)
<1> SUFFICES ASSUME TypeOK, OutcomeInv, LifeInv, ParkedRunIsDetached, [Next]_vars, NEW q \in Runs PROVE Parked(q)'
  BY DEF ParkedRunIsDetached
<1>a. OutcomeInvFor(q) /\ LifeInvFor(q) /\ Parked(q)
  BY DEF OutcomeInv, LifeInv, ParkedRunIsDetached
<1> USE <1>a DEF OutcomeInvFor, LifeInvFor, Quiet, Untouched, Resolved, WritesDone, TypeOK, Recoverable,
                   Pending, Home
<1>1. ASSUME NEW r \in Runs, Create(r) PROVE Parked(q)'
  BY <1>1 DEF Create, Alive
<1>2. ASSUME NEW r \in Runs, RecordHome(r) PROVE Parked(q)'
  BY <1>2 DEF RecordHome
<1>3. ASSUME NEW r \in Runs, MoveToStarting(r) PROVE Parked(q)'
  BY <1>3 DEF MoveToStarting
<1>4. ASSUME NEW r \in Runs, StartDies(r) PROVE Parked(q)'
  BY <1>4 DEF StartDies
<1>5. ASSUME NEW r \in Runs, Launch(r) PROVE Parked(q)'
  BY <1>5 DEF Launch
<1>6. ASSUME NEW r \in Runs, SessionLine(r) PROVE Parked(q)'
  BY <1>6 DEF SessionLine
<1>7. ASSUME NEW r \in Runs, UsageLine(r) PROVE Parked(q)'
  BY <1>7 DEF UsageLine
<1>8. ASSUME NEW r \in Runs, ProcessExit(r) PROVE Parked(q)'
  BY <1>8 DEF ProcessExit
<1>9. ASSUME NEW r \in Runs, ProcessClose(r) PROVE Parked(q)'
  BY <1>9 DEF ProcessClose, Complete
<1>10. ASSUME NEW r \in Runs, SpawnError(r) PROVE Parked(q)'
  BY <1>10 DEF SpawnError, Complete
<1>11. ASSUME NEW r \in Runs, EngineReady(r) PROVE Parked(q)'
  BY <1>11 DEF EngineReady
<1>12. ASSUME NEW r \in Runs, EngineEnds(r) PROVE Parked(q)'
  BY <1>12 DEF EngineEnds
<1>13. ASSUME NEW r \in Runs, PersistEvent(r) PROVE Parked(q)'
  BY <1>13 DEF PersistEvent
<1>14. ASSUME NEW r \in Runs, PersistRunning(r) PROVE Parked(q)'
  BY <1>14 DEF PersistRunning
<1>15. ASSUME NEW r \in Runs, WriteFails(r) PROVE Parked(q)'
  BY <1>15 DEF WriteFails
<1>16. ASSUME NEW r \in Runs, DropActive(r) PROVE Parked(q)'
  BY <1>16 DEF DropActive
<1>17. ASSUME NEW r \in Runs, RecordUsage(r) PROVE Parked(q)'
  BY <1>17 DEF RecordUsage
<1>18. ASSUME NEW r \in Runs, Settle(r) PROVE Parked(q)'
  BY <1>18 DEF Settle, Verdict
<1>19. ASSUME NEW r \in Runs, ReleaseHome(r) PROVE Parked(q)'
  BY <1>19 DEF ReleaseHome, Retained
<1>20. ASSUME NEW r \in Runs, Reject(r) PROVE Parked(q)'
  BY <1>20 DEF Reject
<1>21. ASSUME NEW r \in Runs, Reclaim(r) PROVE Parked(q)'
  BY <1>21 DEF Reclaim, Recovered
<1>22. ASSUME NEW r \in Runs, RecoverRow(r) PROVE Parked(q)'
  <2>1. CASE q = r
    <3>1. evidence[r].type # "awaiting_recovery" \/ evidence[r] = NoEvidence
      BY DEF Outcome
    <3>2. row'[r] = "awaiting_recovery" => evidence[r] = NoEvidence
      BY <1>22, <3>1 DEF RecoverRow, RecoveredState, RecoveredOutcome
    <3>3. q \notin live' /\ releasing' = q /\ evidence' = evidence
      BY <1>22, <2>1 DEF RecoverRow
    <3> QED
      BY <2>1, <3>2, <3>3
  <2>2. CASE q # r
    BY <1>22, <2>2, AgentRunAssumption DEF RecoverRow
  <2> QED
    BY <2>1, <2>2
<1>23. ASSUME NEW c \in Callers, NEW r \in Runs, NEW kind \in {"interrupt", "force"}, NEW op, Ask(c, kind, op, r)
      PROVE  Parked(q)'
  BY <1>23 DEF Ask, Accepts
<1>24. ASSUME NEW c \in Callers, NEW r \in Runs, ProjectStopRefused(c, r) PROVE Parked(q)'
  BY <1>24 DEF ProjectStopRefused, Recovered
<1>25. ASSUME NEW c \in Callers, Mark(c) PROVE Parked(q)'
  BY <1>25 DEF Mark
<1>26. ASSUME NEW c \in Callers, MoveToInterrupting(c) PROVE Parked(q)'
  BY <1>26 DEF MoveToInterrupting
<1>27. ASSUME NEW c \in Callers, ReadRow(c) PROVE Parked(q)'
  BY <1>27 DEF ReadRow
<1>28. ASSUME NEW c \in Callers, ForceStopped(c) PROVE Parked(q)'
  BY <1>28 DEF ForceStopped
<1>29. CASE Boot
  BY <1>29 DEF Boot, ListRecoverable
<1>30. CASE RecoverHome
  BY <1>30 DEF RecoverHome, Retained
<1>31. CASE Listen
  BY <1>31 DEF Listen, Recovered
<1>32. CASE Crash
  BY <1>32 DEF Crash
<1>33. CASE UNCHANGED vars
  BY <1>33 DEF vars
<1> QED
  BY <1>1, <1>2, <1>3, <1>4, <1>5, <1>6, <1>7, <1>8, <1>9, <1>10, <1>11, <1>12, <1>13, <1>14, <1>15, <1>16, <1>17, <1>18, <1>19, <1>20, <1>21, <1>22, <1>23, <1>24, <1>25, <1>26, <1>27, <1>28, <1>29, <1>30, <1>31, <1>32, <1>33
     DEF Next, StartStep, RuntimeStep, ChainStep, PipelineStep, CallStep, Asks, RecoveryStep,
         Interrupt, Stop, ProjectStop

\* A run is parked for recovery only if no outcome of it was ever recorded, nothing
\* of this process executes it, and its home has been given up.
THEOREM ParkedRunsDetached == Spec => []ParkedRunIsDetached
<1>1. Init => ParkedRunIsDetached
  BY DEF Init, ParkedRunIsDetached
<1> QED
  BY <1>1, ParkedStep, TypeCorrect, OutcomeInvariant, LifeInvariant, PTL DEF Spec

\* A completed or failed run changes state only to follow a requested stop: late
\* callers may still move it, but no event, pipeline or recovery does.
THEOREM OutcomesYieldOnlyToStop == Spec => OutcomeYieldsOnlyToStop
<1> DEFINE Yields(q) == row[q] \in {"completed", "failed"} /\ row'[q] # row[q]
                          => row'[q] \in {"interrupting", "stopped"} /\ q \in requested
<1>a. ASSUME TypeOK, OutcomeInv, LifeInv, StopInv, [Next]_vars, NEW q \in Runs PROVE Yields(q)
  <2>a. OutcomeInvFor(q) /\ LifeInvFor(q) /\ StopInvFor(q)
    BY <1>a DEF OutcomeInv, LifeInv, StopInv
  <2> USE <1>a, <2>a DEF OutcomeInvFor, LifeInvFor, StopInvFor, Quiet, Untouched, Resolved, WritesDone,
                         Expected, TypeOK, Recoverable
  <2>1. ASSUME NEW r \in Runs, Create(r) PROVE Yields(q)
    BY <2>1 DEF Create, Alive
  <2>2. ASSUME NEW r \in Runs, RecordHome(r) PROVE Yields(q)
    BY <2>2 DEF RecordHome
  <2>3. ASSUME NEW r \in Runs, MoveToStarting(r) PROVE Yields(q)
    BY <2>3 DEF MoveToStarting
  <2>4. ASSUME NEW r \in Runs, StartDies(r) PROVE Yields(q)
    BY <2>4 DEF StartDies
  <2>5. ASSUME NEW r \in Runs, Launch(r) PROVE Yields(q)
    BY <2>5 DEF Launch
  <2>6. ASSUME NEW r \in Runs, SessionLine(r) PROVE Yields(q)
    BY <2>6 DEF SessionLine
  <2>7. ASSUME NEW r \in Runs, UsageLine(r) PROVE Yields(q)
    BY <2>7 DEF UsageLine
  <2>8. ASSUME NEW r \in Runs, ProcessExit(r) PROVE Yields(q)
    BY <2>8 DEF ProcessExit
  <2>9. ASSUME NEW r \in Runs, ProcessClose(r) PROVE Yields(q)
    BY <2>9 DEF ProcessClose, Complete
  <2>10. ASSUME NEW r \in Runs, SpawnError(r) PROVE Yields(q)
    BY <2>10 DEF SpawnError, Complete
  <2>11. ASSUME NEW r \in Runs, EngineReady(r) PROVE Yields(q)
    BY <2>11 DEF EngineReady
  <2>12. ASSUME NEW r \in Runs, EngineEnds(r) PROVE Yields(q)
    BY <2>12 DEF EngineEnds
  <2>13. ASSUME NEW r \in Runs, PersistEvent(r) PROVE Yields(q)
    BY <2>13 DEF PersistEvent
  <2>14. ASSUME NEW r \in Runs, PersistRunning(r) PROVE Yields(q)
    BY <2>14 DEF PersistRunning
  <2>15. ASSUME NEW r \in Runs, WriteFails(r) PROVE Yields(q)
    BY <2>15 DEF WriteFails
  <2>16. ASSUME NEW r \in Runs, DropActive(r) PROVE Yields(q)
    BY <2>16 DEF DropActive
  <2>17. ASSUME NEW r \in Runs, RecordUsage(r) PROVE Yields(q)
    BY <2>17 DEF RecordUsage
  <2>18. ASSUME NEW r \in Runs, Settle(r) PROVE Yields(q)
    BY <2>18 DEF Settle, Verdict
  <2>19. ASSUME NEW r \in Runs, ReleaseHome(r) PROVE Yields(q)
    BY <2>19 DEF ReleaseHome, Retained
  <2>20. ASSUME NEW r \in Runs, Reject(r) PROVE Yields(q)
    BY <2>20 DEF Reject
  <2>21. ASSUME NEW r \in Runs, Reclaim(r) PROVE Yields(q)
    BY <2>21 DEF Reclaim, Recovered
  <2>22. ASSUME NEW r \in Runs, RecoverRow(r) PROVE Yields(q)
    BY <2>22 DEF RecoverRow, RecoveredState, RecoveredOutcome, Outcome, NoEvidence
  <2>23. ASSUME NEW c \in Callers, NEW r \in Runs, NEW kind \in {"interrupt", "force"}, NEW op, Ask(c, kind, op, r)
        PROVE  Yields(q)
    BY <2>23 DEF Ask, Accepts
  <2>24. ASSUME NEW c \in Callers, NEW r \in Runs, ProjectStopRefused(c, r) PROVE Yields(q)
    BY <2>24 DEF ProjectStopRefused, Recovered
  <2>25. ASSUME NEW c \in Callers, Mark(c) PROVE Yields(q)
    BY <2>25 DEF Mark
  <2>26. ASSUME NEW c \in Callers, MoveToInterrupting(c) PROVE Yields(q)
    BY <2>26 DEF MoveToInterrupting
  <2>27. ASSUME NEW c \in Callers, ReadRow(c) PROVE Yields(q)
    BY <2>27 DEF ReadRow
  <2>28. ASSUME NEW c \in Callers, ForceStopped(c) PROVE Yields(q)
    BY <2>28 DEF ForceStopped
  <2>29. CASE Boot
    BY <2>29 DEF Boot, ListRecoverable
  <2>30. CASE RecoverHome
    BY <2>30 DEF RecoverHome, Retained
  <2>31. CASE Listen
    BY <2>31 DEF Listen, Recovered
  <2>32. CASE Crash
    BY <2>32 DEF Crash
  <2>33. CASE UNCHANGED vars
    BY <2>33 DEF vars
  <2> QED
    BY <2>1, <2>2, <2>3, <2>4, <2>5, <2>6, <2>7, <2>8, <2>9, <2>10, <2>11, <2>12, <2>13, <2>14, <2>15, <2>16, <2>17, <2>18, <2>19, <2>20, <2>21, <2>22, <2>23, <2>24, <2>25, <2>26, <2>27, <2>28, <2>29, <2>30, <2>31, <2>32, <2>33
       DEF Next, StartStep, RuntimeStep, ChainStep, PipelineStep, CallStep, Asks, RecoveryStep,
           Interrupt, Stop, ProjectStop
<1>b. TypeOK /\ OutcomeInv /\ LifeInv /\ StopInv /\ [Next]_vars => [\A r \in Runs : Yields(r)]_vars
  BY <1>a
<1> QED
  BY <1>b, TypeCorrect, OutcomeInvariant, LifeInvariant, StopInvariant, PTL DEF Spec, OutcomeYieldsOnlyToStop

\* A stop that reached the row survives a crash: whatever the runtime recorded,
\* the recovery that handles the row ends it as stopped.
THEOREM StopsSurviveCrashes == Spec => RecoveryKeepsStop
<1> DEFINE Keeps(r) == row[r] = "interrupting" /\ r \notin toRecover' /\ phase' # "down" => row'[r] = "stopped"
<1>1. ASSUME TypeOK, [Next]_vars, NEW q \in toRecover PROVE Keeps(q)
  <2> USE <1>1 DEF TypeOK
  <2>1. ASSUME NEW r \in Runs, RecoverRow(r) PROVE Keeps(q)
    BY <2>1 DEF RecoverRow, RecoveredState, RecoveredOutcome
  <2>2. CASE Boot
    BY <2>2 DEF Boot, ListRecoverable, Recoverable
  <2>3. CASE Crash
    BY <2>3 DEF Crash
  <2>4. CASE toRecover' = toRecover
    BY <2>4
  <2>5. ASSUME NEW r \in Runs, StartStep(r) \/ RuntimeStep(r) PROVE toRecover' = toRecover
    BY <2>5 DEF StartStep, RuntimeStep, Create, RecordHome, MoveToStarting, StartDies, Launch,
                SessionLine, UsageLine, ProcessExit, ProcessClose, SpawnError, EngineReady, EngineEnds
  <2>6. ASSUME NEW r \in Runs, ChainStep(r) \/ WriteFails(r) \/ PipelineStep(r) \/ Reclaim(r)
        PROVE  toRecover' = toRecover
    BY <2>6 DEF ChainStep, PipelineStep, PersistEvent, PersistRunning, WriteFails, DropActive,
                RecordUsage, Settle, ReleaseHome, Reject, Reclaim
  <2>7. ASSUME NEW c \in Callers, CallStep(c) \/ \E r \in Runs : Asks(c, r) PROVE toRecover' = toRecover
    BY <2>7 DEF CallStep, Asks, Interrupt, Stop, ProjectStop, Ask, ProjectStopRefused, Mark,
                MoveToInterrupting, ReadRow, ForceStopped
  <2>8. RecoverHome \/ Listen \/ UNCHANGED vars => toRecover' = toRecover
    BY DEF RecoverHome, Listen, vars
  <2> QED
    BY <2>1, <2>2, <2>3, <2>4, <2>5, <2>6, <2>7, <2>8 DEF Next, RecoveryStep
<1>2. TypeOK /\ [Next]_vars => [\A r \in toRecover : Keeps(r)]_vars
  BY <1>1
<1> QED
  BY <1>2, TypeCorrect, PTL DEF Spec, RecoveryKeepsStop

=============================================================================
