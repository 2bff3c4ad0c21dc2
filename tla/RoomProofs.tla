----------------------------- MODULE RoomProofs -----------------------------
(* Theorems about Room, for any agents, threads, caps and number of events.  *)
EXTENDS Room, FiniteSetTheorems, TLAPS

USE RoomAssumption

(***************************************************************************)
(* The types, and where the messages and deliveries a drain works on come  *)
(* from.                                                                   *)
(***************************************************************************)
RowsAreOfMessages == \A d \in DOMAIN row : d[1] \in DOMAIN log
DrainsHaveRows == \A a \in Agents : phase[a] \in Draining => Current(a) \in DOMAIN row
StopsAreOfRuns == \A a \in stopping : phase[a] = "awaiting"

TInv == TypeOK /\ RowsAreOfMessages /\ DrainsHaveRows /\ StopsAreOfRuns

LEMMA TInit == Init => TInv
BY DEF Init, TInv, TypeOK, RowsAreOfMessages, DrainsHaveRows, StopsAreOfRuns, Draining, Phase

\* A settled row is a row.
LEMMA AsType == \A status \in Status : As(status) \in Delivery
BY DEF As, New, Delivery, Status

LEMMA RowTypes ==
  ASSUME NEW r \in Delivery
  PROVE  /\ [r EXCEPT !.status = "triaging", !.attempt = @ + 1] \in Delivery
         /\ [r EXCEPT !.status = "cancelled"] \in Delivery
         /\ [r EXCEPT !.status = "pending", !.due = TRUE] \in Delivery
         /\ [r EXCEPT !.status = "pending", !.due = FALSE] \in Delivery
<1>1. [r EXCEPT !.status = "triaging", !.attempt = @ + 1] \in Delivery
  <2>1. r.attempt + 1 \in Nat
    BY DEF Delivery
  <2> QED
    BY <2>1 DEF Delivery, Status
<1>2. [r EXCEPT !.status = "cancelled"] \in Delivery
  BY DEF Delivery, Status
<1>3. [r EXCEPT !.status = "pending", !.due = TRUE] \in Delivery
  BY DEF Delivery, Status
<1>4. [r EXCEPT !.status = "pending", !.due = FALSE] \in Delivery
  BY DEF Delivery, Status
<1> QED
  BY <1>1, <1>2, <1>3, <1>4

LEMMA TMessages ==
  ASSUME TInv,
         (\E t \in Threads : Say(t) \/ \E a \in Agents : Post(a, t))
         \/ \E m \in DOMAIN log : SayAgain(m) \/ Enqueue(m) \/ \E a \in Agents : Wake(m, a) \/ WakeDies(m, a)
  PROVE  TInv'
<1> USE DEF TInv, TypeOK, RowsAreOfMessages, DrainsHaveRows, StopsAreOfRuns, memory, Event, Current
<1>1. CASE \E t \in Threads : Say(t)
  <2>1. PICK t \in Threads : Say(t)
    BY <1>1
  <2>2. log' \in Seq(Message) /\ DOMAIN log \subseteq DOMAIN log'
    BY <2>1 DEF Say, Message
  <2> QED
    BY <2>1, <2>2 DEF Say
<1>2. CASE \E t \in Threads : \E a \in Agents : Post(a, t)
  <2>1. PICK t \in Threads, a \in Agents : Post(a, t)
    BY <1>2
  <2>2. log' \in Seq(Message) /\ DOMAIN log \subseteq DOMAIN log'
    BY <2>1 DEF Post, Message
  <2>3. active' \subseteq active /\ events' \in Nat
    BY <2>1 DEF Post
  <2>4. UNCHANGED <<row, scheduled, phase, latest, sending, waking, stopping, lost>>
    BY <2>1 DEF Post
  <2> HIDE DEF Message, Delivery, memory, Event
  <2>5. TypeOK' /\ RowsAreOfMessages'
    BY <2>2, <2>3, <2>4
  <2>6. DrainsHaveRows' /\ StopsAreOfRuns'
    BY <2>4
  <2> QED
    BY <2>5, <2>6
<1>3. CASE \E m \in DOMAIN log : SayAgain(m)
  <2>1. PICK m \in DOMAIN log : SayAgain(m)
    BY <1>3
  <2>2. sending' = sending \cup {m} /\ events' \in Nat
    BY <2>1 DEF SayAgain
  <2>3. UNCHANGED <<log, active, row, scheduled, phase, latest, waking, stopping, lost>>
    BY <2>1 DEF SayAgain
  <2> HIDE DEF Message, Delivery, memory, Event
  <2> QED
    BY <2>2, <2>3
<1>4. CASE \E m \in DOMAIN log : Enqueue(m)
  <2>1. PICK m \in DOMAIN log : Enqueue(m)
    BY <1>4
  <2>2. m \in Nat
    OBVIOUS
  <2>3. Recipients(m) \subseteq Nat \X Agents /\ \A d \in Recipients(m) : d[1] = m
    BY <2>2 DEF Recipients
  <2>4. row' = [d \in DOMAIN row \cup Recipients(m) |-> IF d \in DOMAIN row THEN row[d] ELSE New]
    BY <2>1 DEF Enqueue, DeliveredTo
  <2>5. New \in Delivery
    BY DEF New, Delivery, Status
  <2>6. row' \in [DOMAIN row' -> Delivery] /\ DOMAIN row' = DOMAIN row \cup Recipients(m)
    BY <2>4, <2>5
  <2> QED
    BY <2>1, <2>3, <2>6 DEF Enqueue
<1>5. CASE \E m \in DOMAIN log, a \in Agents : Wake(m, a)
  BY <1>5 DEF Wake, Scheduled
<1>6. CASE \E m \in DOMAIN log, a \in Agents : WakeDies(m, a)
  <2>1. waking' \subseteq waking /\ lost' \subseteq Agents
    BY <1>6 DEF WakeDies
  <2>2. UNCHANGED <<log, active, row, scheduled, phase, latest, sending, stopping, events>>
    BY <1>6 DEF WakeDies
  <2> QED
    BY <2>1, <2>2
<1> QED
  BY <1>1, <1>2, <1>3, <1>4, <1>5, <1>6

LEMMA TDrain ==
  ASSUME TInv, NEW a \in Agents, DrainStep(a) \/ Stop(a)
  PROVE  TInv'
<1> USE DEF TInv, TypeOK, RowsAreOfMessages, DrainsHaveRows, StopsAreOfRuns, memory, Event, Current, Goto, Phase, Draining
<1>1. CASE Take(a)
  <2>1. CASE Due(a) = {}
    BY <1>1, <2>1 DEF Take
  <2>2. CASE Due(a) # {}
    <3>1. PICK d \in Due(a) :
             /\ row' = [e \in DOMAIN row |->
                           IF e = d THEN [row[e] EXCEPT !.status = "triaging", !.attempt = @ + 1]
                           ELSE IF e \in Due(a) THEN As("passed")
                           ELSE IF e \in Owed(a, {"held"}) THEN [row[e] EXCEPT !.status = "cancelled"]
                           ELSE row[e]]
             /\ latest' = [latest EXCEPT ![a] = d[1]]
             /\ phase' = [phase EXCEPT ![a] = "triaging"]
      BY <1>1, <2>2 DEF Take
    <3>2. d \in DOMAIN row /\ d[2] = a /\ d = <<d[1], a>> /\ d[1] \in Nat
      BY DEF Due, Owed
    <3>3. ASSUME NEW e \in DOMAIN row PROVE row'[e] \in Delivery
      <4>1. row[e] \in Delivery
        OBVIOUS
      <4>2. As("passed") \in Delivery
        BY AsType DEF Status
      <4> QED
        BY <3>1, <4>1, <4>2, RowTypes
    <3>4. row' \in [DOMAIN row' -> Delivery] /\ DOMAIN row' = DOMAIN row
      BY <3>1, <3>3
    <3>5. phase[a] = "idle" /\ scheduled' \subseteq scheduled /\ UNCHANGED <<log, active, sending, waking, stopping, lost, events>>
      BY <1>1 DEF Take
    <3>6. phase' \in [Agents -> Phase] /\ latest' \in [Agents -> Nat] /\ a \notin stopping
      BY <3>1, <3>2, <3>5
    <3>7. TypeOK' /\ RowsAreOfMessages'
      BY <3>4, <3>5, <3>6
    <3>8. DrainsHaveRows'
      BY <3>1, <3>2, <3>4
    <3>9. StopsAreOfRuns'
      BY <3>1, <3>5, <3>6
    <3> QED
      BY <3>7, <3>8, <3>9
  <2> QED
    BY <2>1, <2>2
<1>2. CASE Decline(a)
  <2>1. row' \in [DOMAIN row' -> Delivery] /\ DOMAIN row' = DOMAIN row
    BY <1>2, AsType DEF Decline, Settled, Status
  <2> QED
    BY <1>2, <2>1 DEF Decline
<1>3. CASE Accept(a)
  <2>1. row' \in [DOMAIN row' -> Delivery] /\ DOMAIN row' = DOMAIN row
    <3>1. row' = [row EXCEPT ![Current(a)].status = "running"] /\ Current(a) \in DOMAIN row
      BY <1>3 DEF Accept
    <3>2. row[Current(a)] \in Delivery
      BY <3>1
    <3>3. [row[Current(a)] EXCEPT !.status = "running"] \in Delivery
      BY <3>2 DEF Delivery, Status
    <3> QED
      BY <3>1, <3>3
  <2> QED
    BY <1>3, <2>1 DEF Accept
<1>4. CASE Start(a)
  <2>1. row' \in [DOMAIN row' -> Delivery] /\ DOMAIN row' = DOMAIN row
    BY <1>4 DEF Start, Delivery
  <2> QED
    BY <1>4, <2>1 DEF Start
<1>5. CASE Hold(a)
  <2>1. row' \in [DOMAIN row' -> Delivery] /\ DOMAIN row' = DOMAIN row
    BY <1>5, AsType DEF Hold, Settled, Status
  <2> QED
    BY <1>5, <2>1 DEF Hold
<1>6. CASE Duplicate(a)
  <2>1. row' \in [DOMAIN row' -> Delivery] /\ DOMAIN row' = DOMAIN row
    BY <1>6, AsType DEF Duplicate, Settled, Status
  <2> QED
    BY <1>6, <2>1 DEF Duplicate
<1>7. CASE Publish(a)
  <2> DEFINE new == {Len(log) + 1} \X (Agents \ {a})
  <2>1. latest[a] \in DOMAIN log
    BY <1>7 DEF Publish
  <2> DEFINE reply == [author |-> a, thread |-> log[latest[a]].thread, to |-> latest[a]]
  <2>2. log' \in Seq(Message) /\ DOMAIN log' = DOMAIN log \cup {Len(log) + 1}
    <3>1. log[latest[a]] \in Message
      BY <2>1
    <3>2. log[latest[a]].thread \in Threads /\ latest[a] \in Nat
      BY <3>1 DEF Message
    <3>3. reply \in Message
      BY <3>2 DEF Message
    <3>4. log' = Append(log, reply)
      BY <1>7 DEF Publish
    <3> HIDE DEF reply
    <3>5. log' \in Seq(Message) /\ Len(log') = Len(log) + 1
      BY <3>3, <3>4
    <3>6. DOMAIN log' = 1 .. (Len(log) + 1) /\ DOMAIN log = 1 .. Len(log) /\ Len(log) \in Nat
      BY <3>5
    <3> QED
      BY <3>5, <3>6
  <2>3. row' = [d \in DOMAIN row \cup new |-> IF d = Current(a) THEN As("responded")
                                             ELSE IF d \in DOMAIN row THEN row[d] ELSE New]
    BY <1>7 DEF Publish
  <2>4. New \in Delivery /\ As("responded") \in Delivery
    BY AsType DEF New, Delivery, Status
  <2>5. row' \in [DOMAIN row' -> Delivery] /\ DOMAIN row' = DOMAIN row \cup new
    BY <2>3, <2>4
  <2>6. new \subseteq Nat \X Agents /\ \A d \in new : d[1] = Len(log) + 1
    OBVIOUS
  <2> HIDE DEF new
  <2> QED
    BY <1>7, <2>2, <2>5, <2>6 DEF Publish
<1>8. CASE ScheduleOthers(a)
  BY <1>8 DEF ScheduleOthers, Scheduled
<1>9. CASE Fail(a)
  <2>1. row' \in [DOMAIN row' -> Delivery] /\ DOMAIN row' = DOMAIN row
    <3>1. CASE Owed(a, {"triaging", "running"}) = {}
      BY <1>9, <3>1 DEF Fail
    <3>2. CASE Owed(a, {"triaging", "running"}) # {}
      <4>1. PICK d \in Owed(a, {"triaging", "running"}) :
               row' = [row EXCEPT ![d] = IF row[d].attempt < MaxAttempts
                                         THEN [@ EXCEPT !.status = "pending", !.due = FALSE] ELSE As("failed")]
        BY <1>9, <3>2 DEF Fail
      <4>2. d \in DOMAIN row
        BY DEF Owed
      <4>3. row'[d] \in Delivery
        BY <4>1, <4>2, AsType DEF Delivery, Status
      <4> QED
        BY <4>1, <4>2, <4>3
    <3> QED
      BY <3>1, <3>2
  <2>2. events' \in Nat
    <3>1. Event \/ UNCHANGED events
      BY <1>9 DEF Fail
    <3> QED
      BY <3>1
  <2>3. phase' = [phase EXCEPT ![a] = "ending"] /\ stopping' = stopping \ {a}
    BY <1>9 DEF Fail
  <2>4. UNCHANGED <<log, active, scheduled, latest, sending, waking, lost>>
    BY <1>9 DEF Fail
  <2> QED
    BY <2>1, <2>2, <2>3, <2>4
<1>10. CASE Finish(a)
  BY <1>10 DEF Finish
<1>11. CASE Stop(a)
  BY <1>11 DEF Stop
<1> QED
  BY <1>1, <1>2, <1>3, <1>4, <1>5, <1>6, <1>7, <1>8, <1>9, <1>10, <1>11 DEF DrainStep

LEMMA TOthers ==
  ASSUME TInv,
         (\E t \in Threads : Interrupt(t)) \/ (\E d \in DOMAIN row : Cool(d)) \/ Restart \/ UNCHANGED vars
  PROVE  TInv'
<1> USE DEF TInv, TypeOK, RowsAreOfMessages, DrainsHaveRows, StopsAreOfRuns, memory, Event, Current, Draining, Phase
<1>1. CASE \E t \in Threads : Interrupt(t)
  <2>1. PICK t \in Threads : Interrupt(t)
    BY <1>1
  <2>2. \A d \in DOMAIN row : row[d] \in Delivery
    OBVIOUS
  <2>3. row' \in [DOMAIN row -> Delivery]
    BY <2>1, <2>2, RowTypes DEF Interrupt
  <2>4. DOMAIN row' = DOMAIN row
    BY <2>3
  <2>5. active' \subseteq active /\ events' \in Nat
    BY <2>1 DEF Interrupt
  <2>6. stopping' \subseteq Agents /\ \A a \in stopping' : phase[a] = "awaiting"
    BY <2>1 DEF Interrupt
  <2>7. UNCHANGED <<log, scheduled, phase, latest, sending, waking, lost>>
    BY <2>1 DEF Interrupt
  <2> QED
    BY <2>3, <2>4, <2>5, <2>6, <2>7
<1>2. CASE \E d \in DOMAIN row : Cool(d)
  <2>1. PICK d \in DOMAIN row : Cool(d)
    BY <1>2
  <2>2. row' \in [DOMAIN row' -> Delivery] /\ DOMAIN row' = DOMAIN row
    BY <2>1 DEF Cool, Delivery
  <2> QED
    BY <2>1, <2>2 DEF Cool
<1>3. CASE Restart
  <2>1. \A d \in DOMAIN row : row[d] \in Delivery
    OBVIOUS
  <2>2. row' \in [DOMAIN row -> Delivery]
    BY <1>3, <2>1, RowTypes DEF Restart
  <2>3. DOMAIN row' = DOMAIN row
    BY <2>2
  <2>4. scheduled' \subseteq Agents
    BY <1>3 DEF Restart
  <2>5. events' \in Nat
    <3>1. Event
      BY <1>3 DEF Restart
    <3> QED
      BY <3>1
  <2>6. phase' = [a \in Agents |-> "idle"] /\ latest' = [a \in Agents |-> 0]
    BY <1>3 DEF Restart
  <2>7. sending' = {} /\ waking' = {} /\ stopping' = {} /\ lost' = {} /\ UNCHANGED <<log, active>>
    BY <1>3 DEF Restart
  <2> QED
    BY <2>2, <2>3, <2>4, <2>5, <2>6, <2>7
<1>4. CASE UNCHANGED vars
  BY <1>4 DEF vars
<1> QED
  BY <1>1, <1>2, <1>3, <1>4

LEMMA TStep == TInv /\ [Next]_vars => TInv'
BY TMessages, TDrain, TOthers DEF Next

\* What a drain works on is a delivery there is, and only a run under way is about
\* to be stopped (room-runtime.ts:161-531, 674).
THEOREM TypeCorrect == Spec => []TInv
BY TInit, TStep, PTL DEF Spec

(***************************************************************************)
(* A delivery that is open belongs to the drain of its agent, and is the   *)
(* one it works on.  So an agent that is steered, or found draining, comes *)
(* to its own end and looks once more.                                     *)
(***************************************************************************)
OpenIsDrained ==
  \A d \in DOMAIN row : row[d].status \in {"triaging", "running"} =>
                         phase[d[2]] \in Draining /\ d = Current(d[2])

IInv == TInv /\ OpenIsDrained /\ PendingIsAttended

LEMMA IInit == Init => OpenIsDrained /\ PendingIsAttended
BY DEF Init, OpenIsDrained, PendingIsAttended

LEMMA IMessages ==
  ASSUME IInv,
         (\E t \in Threads : Say(t) \/ \E a \in Agents : Post(a, t))
         \/ \E m \in DOMAIN log : SayAgain(m) \/ Enqueue(m) \/ \E a \in Agents : Wake(m, a) \/ WakeDies(m, a)
  PROVE  OpenIsDrained' /\ PendingIsAttended'
<1> USE DEF IInv, TInv, TypeOK, OpenIsDrained, PendingIsAttended, memory, Current
<1>1. CASE \E t \in Threads : Say(t)
  BY <1>1 DEF Say
<1>2. CASE \E t \in Threads : \E a \in Agents : Post(a, t)
  BY <1>2 DEF Post
<1>3. CASE \E m \in DOMAIN log : SayAgain(m)
  BY <1>3 DEF SayAgain
<1>4. CASE \E m \in DOMAIN log : Enqueue(m)
  <2>1. PICK m \in DOMAIN log : Enqueue(m)
    BY <1>4
  <2>2. row' = [d \in DOMAIN row \cup Recipients(m) |-> IF d \in DOMAIN row THEN row[d] ELSE New]
    BY <2>1 DEF Enqueue, DeliveredTo
  <2>3. waking' = waking \cup Recipients(m) /\ UNCHANGED <<scheduled, phase, latest, lost>>
    BY <2>1 DEF Enqueue
  <2>4. ASSUME NEW d \in DOMAIN row'
        PROVE  (d \in DOMAIN row /\ row'[d] = row[d]) \/ (d \in waking' /\ row'[d] = New)
    <3>1. d \in DOMAIN row \cup Recipients(m)
      BY <2>2
    <3> QED
      BY <2>2, <2>3, <3>1
  <2> QED
    BY <2>3, <2>4 DEF New
<1>5. CASE \E m \in DOMAIN log, a \in Agents : Wake(m, a)
  <2>1. PICK m \in DOMAIN log, a \in Agents : Wake(m, a)
    BY <1>5
  <2>2. CASE Steered(a)
    <3>1. phase[a] \in Draining
      BY <2>2 DEF Steered, Owed
    <3>2. waking' = waking \ {<<m, a>>} /\ scheduled' = scheduled /\ UNCHANGED <<row, phase, latest, lost>>
      BY <2>1, <2>2 DEF Wake
    <3> QED
      BY <3>1, <3>2 DEF Draining
  <2>3. CASE ~Steered(a)
    BY <2>1, <2>3 DEF Wake, Scheduled
  <2> QED
    BY <2>2, <2>3
<1>6. CASE \E m \in DOMAIN log, a \in Agents : WakeDies(m, a)
  <2>1. PICK m \in DOMAIN log, a \in Agents : WakeDies(m, a)
    BY <1>6
  <2>2. /\ waking' = {w \in waking : w[1] # m}
        /\ lost' = lost \cup {b \in Agents \ scheduled : <<m, b>> \in waking /\ phase[b] = "idle"}
        /\ UNCHANGED <<row, scheduled, phase, latest>>
    BY <2>1 DEF WakeDies
  <2>3. ASSUME NEW d \in waking, d \notin waking'
        PROVE  d[2] \in scheduled \/ phase[d[2]] # "idle" \/ d[2] \in lost'
    <3>1. d[1] = m /\ d[2] \in Agents /\ d = <<m, d[2]>>
      BY <2>2, <2>3
    <3> QED
      BY <2>2, <3>1
  <2> QED
    BY <2>2, <2>3
<1> QED
  BY <1>1, <1>2, <1>3, <1>4, <1>5, <1>6

\* What a step of a drain does to the other deliveries leaves the invariant alone:
\* they are as they were, or settled, or new and about to be scheduled.
LEMMA IDrain ==
  ASSUME IInv, NEW a \in Agents, DrainStep(a) \/ Stop(a)
  PROVE  OpenIsDrained' /\ PendingIsAttended'
<1> USE DEF IInv, TInv, TypeOK, OpenIsDrained, PendingIsAttended, Current, Goto, Phase, Draining
<1>1. CASE Take(a)
  <2>1. CASE Due(a) = {}
    BY <1>1, <2>1 DEF Take
  <2>2. CASE Due(a) # {}
    <3>1. PICK d \in Due(a) :
             /\ row' = [e \in DOMAIN row |->
                           IF e = d THEN [row[e] EXCEPT !.status = "triaging", !.attempt = @ + 1]
                           ELSE IF e \in Due(a) THEN As("passed")
                           ELSE IF e \in Owed(a, {"held"}) THEN [row[e] EXCEPT !.status = "cancelled"]
                           ELSE row[e]]
             /\ latest' = [latest EXCEPT ![a] = d[1]]
             /\ phase' = [phase EXCEPT ![a] = "triaging"]
      BY <1>1, <2>2 DEF Take
    <3>2. d \in DOMAIN row /\ d[2] = a /\ d = <<d[1], a>>
      BY DEF Due, Owed
    <3>3. phase[a] = "idle" /\ scheduled' = scheduled \ {a} /\ UNCHANGED <<waking, lost>>
      BY <1>1 DEF Take
    <3>4. ASSUME NEW e \in DOMAIN row, e # d
          PROVE  row'[e] = row[e] \/ row'[e].status \in {"passed", "cancelled"}
      <4>1. row[e] \in Delivery
        OBVIOUS
      <4>2. [row[e] EXCEPT !.status = "cancelled"].status = "cancelled" /\ As("passed").status = "passed"
        BY <4>1 DEF Delivery, As, New
      <4> QED
        BY <3>1, <3>4, <4>2
    <3>5. DOMAIN row' = DOMAIN row
      BY <3>1
    <3>6. Current(a)' = d
      BY <3>1, <3>2
    <3>7. OpenIsDrained'
      BY <3>1, <3>2, <3>3, <3>4, <3>5, <3>6
    <3>8. row'[d].status = "triaging"
      <4>1. row[d] \in Delivery
        BY <3>2
      <4> QED
        BY <3>1, <3>2, <4>1 DEF Delivery
    <3>9. ASSUME NEW e \in DOMAIN row', row'[e].status = "pending"
          PROVE  \/ e[2] \in scheduled' \/ phase'[e[2]] # "idle" \/ e \in waking'
                 \/ \E b \in Agents : phase'[b] = "publishing" /\ b # e[2]
                 \/ e[2] \in lost'
      <4>1. e \in DOMAIN row /\ row[e].status = "pending" /\ e[2] \in Agents
        <5>1. e \in DOMAIN row /\ e # d
          BY <3>5, <3>8, <3>9
        <5>2. row'[e] = row[e] \/ row'[e].status \in {"passed", "cancelled"}
          BY <3>4, <5>1
        <5> QED
          BY <3>9, <5>1, <5>2
      <4>2. CASE e[2] = a
        BY <3>1, <4>2
      <4>3. CASE e[2] # a
        BY <3>1, <3>3, <4>1, <4>3
      <4> QED
        BY <4>2, <4>3
    <3> QED
      BY <3>7, <3>9
  <2> QED
    BY <2>1, <2>2
<1>2. CASE /\ phase[a] \in Draining
           /\ \E place \in Phase \ {"idle"} : phase' = [phase EXCEPT ![a] = place]
           /\ UNCHANGED <<scheduled, latest, waking, lost>>
           /\ DOMAIN row' = DOMAIN row
           /\ \A d \in DOMAIN row : d # Current(a) => row'[d] = row[d]
           /\ phase'[a] \notin Draining => row'[Current(a)].status \notin {"triaging", "running"}
  <2>1. ASSUME NEW d \in DOMAIN row', row'[d].status \in {"triaging", "running"}
        PROVE  phase'[d[2]] \in Draining /\ d = <<latest'[d[2]], d[2]>>
    <3>1. CASE d = Current(a)
      BY <1>2, <2>1, <3>1
    <3>2. CASE d # Current(a)
      <4>1. d \in DOMAIN row /\ row[d].status \in {"triaging", "running"} /\ d[2] \in Agents
        BY <1>2, <2>1, <3>2
      <4>2. phase[d[2]] \in Draining /\ d = <<latest[d[2]], d[2]>> /\ d[2] # a
        BY <3>2, <4>1
      <4> QED
        BY <1>2, <4>1, <4>2
    <3> QED
      BY <3>1, <3>2
  <2>2. PendingIsAttended'
    BY <1>2
  <2> QED
    BY <2>1, <2>2
<1>3. CASE Decline(a) \/ Hold(a) \/ Duplicate(a)
  <2>1. \E status \in {"passed", "held"} : row' = [row EXCEPT ![Current(a)] = As(status)]
    BY <1>3 DEF Decline, Hold, Duplicate, Settled
  <2>2. \A status : As(status).status = status
    BY DEF As, New
  <2>3. phase' = [phase EXCEPT ![a] = "ending"] /\ phase[a] \in Draining /\ UNCHANGED <<scheduled, latest, waking, lost>>
    BY <1>3 DEF Decline, Hold, Duplicate
  <2> QED
    BY <1>2, <2>1, <2>2, <2>3 DEF DrainsHaveRows
<1>4. CASE Accept(a)
  BY <1>2, <1>4 DEF Accept
<1>5. CASE Start(a)
  BY <1>2, <1>5 DEF Start
<1>6. CASE Stop(a)
  BY <1>2, <1>6 DEF Stop, StopsAreOfRuns
<1>7. CASE Fail(a)
  <2>1. CASE Owed(a, {"triaging", "running"}) = {}
    <3>1. UNCHANGED row /\ phase' = [phase EXCEPT ![a] = "ending"] /\ phase[a] \in Draining
          /\ UNCHANGED <<scheduled, latest, waking, lost>>
      BY <1>7, <2>1 DEF Fail
    <3>2. Current(a) \in DOMAIN row
      BY <3>1 DEF DrainsHaveRows
    <3>3. row[Current(a)].status \notin {"triaging", "running"}
      BY <2>1, <3>2 DEF Owed
    <3> QED
      BY <1>2, <3>1, <3>3
  <2>2. CASE Owed(a, {"triaging", "running"}) # {}
    <3>1. PICK d \in Owed(a, {"triaging", "running"}) :
             row' = [row EXCEPT ![d] = IF row[d].attempt < MaxAttempts
                                       THEN [@ EXCEPT !.status = "pending", !.due = FALSE] ELSE As("failed")]
      BY <1>7, <2>2 DEF Fail
    <3>2. d \in DOMAIN row /\ d = Current(a)
      BY DEF Owed
    <3>3. row'[d].status \in {"pending", "failed"}
      BY <3>1, <3>2 DEF As, New, Delivery
    <3>4. phase' = [phase EXCEPT ![a] = "ending"] /\ phase[a] \in Draining /\ UNCHANGED <<scheduled, latest, waking, lost>>
      BY <1>7 DEF Fail
    <3> QED
      BY <1>2, <3>1, <3>2, <3>3, <3>4
  <2> QED
    BY <2>1, <2>2
<1>8. CASE Publish(a)
  <2> DEFINE new == {Len(log) + 1} \X (Agents \ {a})
  <2>1. row' = [d \in DOMAIN row \cup new |-> IF d = Current(a) THEN As("responded")
                                             ELSE IF d \in DOMAIN row THEN row[d] ELSE New]
    BY <1>8 DEF Publish
  <2>2. phase' = [phase EXCEPT ![a] = "publishing"] /\ phase[a] \in Draining /\ UNCHANGED <<scheduled, latest, waking, lost>>
    BY <1>8 DEF Publish
  <2>3. ASSUME NEW d \in DOMAIN row'
        PROVE  \/ d \in DOMAIN row /\ d # Current(a) /\ row'[d] = row[d]
               \/ row'[d].status = "responded"
               \/ row'[d].status = "pending" /\ d[2] # a
    <3>1. d \in DOMAIN row \cup new
      BY <2>1
    <3> QED
      BY <2>1, <3>1 DEF As, New
  <2>4. OpenIsDrained'
    BY <2>2, <2>3
  <2>5. PendingIsAttended'
    BY <2>2, <2>3
  <2> QED
    BY <2>4, <2>5
<1>9. CASE ScheduleOthers(a)
  BY <1>9 DEF ScheduleOthers, Scheduled
<1>10. CASE Finish(a)
  <2>1. OpenIsDrained'
    BY <1>10 DEF Finish
  <2>2. PendingIsAttended'
    BY <1>10 DEF Finish, Owed
  <2> QED
    BY <2>1, <2>2
<1> QED
  BY <1>1, <1>3, <1>4, <1>5, <1>6, <1>7, <1>8, <1>9, <1>10 DEF DrainStep

LEMMA IOthers ==
  ASSUME IInv,
         (\E t \in Threads : Interrupt(t)) \/ (\E d \in DOMAIN row : Cool(d)) \/ Restart \/ UNCHANGED vars
  PROVE  OpenIsDrained' /\ PendingIsAttended'
<1> USE DEF IInv, TInv, TypeOK, OpenIsDrained, PendingIsAttended, memory, Current
<1>1. CASE \E t \in Threads : Interrupt(t)
  <2>1. PICK t \in Threads : Interrupt(t)
    BY <1>1
  <2>2. DOMAIN row' = DOMAIN row /\ UNCHANGED <<scheduled, phase, latest, waking, lost>>
    BY <2>1 DEF Interrupt
  <2>3. ASSUME NEW d \in DOMAIN row PROVE row'[d] = row[d] \/ row'[d].status = "cancelled"
    <3>1. row[d] \in Delivery
      OBVIOUS
    <3>2. row'[d] = row[d] \/ row'[d] = [row[d] EXCEPT !.status = "cancelled"]
      BY <2>1 DEF Interrupt
    <3> QED
      BY <3>1, <3>2 DEF Delivery
  <2> QED
    BY <2>2, <2>3
<1>2. CASE \E d \in DOMAIN row : Cool(d)
  <2>1. PICK d \in DOMAIN row : Cool(d)
    BY <1>2
  <2>2. \A e \in DOMAIN row : row[e] \in Delivery
    OBVIOUS
  <2>3. DOMAIN row' = DOMAIN row /\ \A e \in DOMAIN row : row'[e].status = row[e].status
    BY <2>1, <2>2 DEF Cool, Delivery
  <2> QED
    BY <2>1, <2>3 DEF Cool
<1>3. CASE Restart
  <2>1. DOMAIN row' = DOMAIN row
    BY <1>3 DEF Restart
  <2>2. ASSUME NEW d \in DOMAIN row
        PROVE  /\ row'[d].status \notin {"triaging", "running"}
               /\ row'[d].status = "pending" => row[d].status \in {"pending", "triaging", "running"}
    <3>1. row[d] \in Delivery
      OBVIOUS
    <3> QED
      BY <1>3, <3>1 DEF Restart, Delivery
  <2>3. scheduled' = {a \in Agents : Owed(a, {"pending", "triaging", "running"}) # {}}
    BY <1>3 DEF Restart
  <2>4. \A d \in DOMAIN row : d[2] \in Agents
    OBVIOUS
  <2> QED
    BY <2>1, <2>2, <2>3, <2>4 DEF Owed
<1>4. CASE UNCHANGED vars
  BY <1>4 DEF vars
<1> QED
  BY <1>1, <1>2, <1>3, <1>4

LEMMA IStep == IInv /\ [Next]_vars => IInv'
<1> SUFFICES ASSUME IInv, [Next]_vars PROVE IInv'
  OBVIOUS
<1>1. TInv'
  BY TStep DEF IInv
<1>2. OpenIsDrained' /\ PendingIsAttended'
  BY IMessages, IDrain, IOthers DEF Next
<1> QED
  BY <1>1, <1>2 DEF IInv

\* A delivery that waits is never forgotten: its agent is scheduled, drains, or is
\* about to be scheduled (room-runtime.ts:517-542); but for the agents a handler was
\* still to schedule when it died of a message no run takes (581-585), which wait until
\* somebody else schedules them.
THEOREM PendingAttended == Spec => []PendingIsAttended
<1>1. Init => IInv
  BY TInit, IInit DEF IInv
<1>2. IInv => PendingIsAttended
  BY DEF IInv
<1> QED
  BY <1>1, <1>2, IStep, PTL DEF Spec

(***************************************************************************)
(* The replies.  What a step does to the rows and to the channel is one of *)
(* three things: it answers nothing, it lets an agent speak, or it adds    *)
(* the reply and the mark of its delivery at once.                         *)
(***************************************************************************)
\* A row is of a message somebody else wrote.
RowsAreOfOthers == \A d \in DOMAIN row : d[1] \in DOMAIN log /\ log[d[1]].author # d[2]

\* What a drain works on is open, or was cancelled under its hands.
CurrentIsUnanswered ==
  \A a \in Agents : phase[a] \in Draining =>
     Current(a) \in DOMAIN row /\ row[Current(a)].status \in {"triaging", "running", "cancelled"}

\* A reply answers a delivery that says so, and follows it with nothing of another
\* author in between.
RepliesFit ==
  \A r \in DOMAIN log : log[r].to # 0 =>
     /\ log[r].to \in 1 .. (r - 1)
     /\ <<log[r].to, log[r].author>> \in DOMAIN row
     /\ row[<<log[r].to, log[r].author>>].status = "responded"
     /\ \A m \in (log[r].to + 1) .. (r - 1) : log[m].author = log[r].author

RepliesDiffer ==
  \A r, s \in DOMAIN log :
     log[r].to # 0 /\ log[r].to = log[s].to /\ log[r].author = log[s].author => r = s

RespondedHasReply ==
  \A d \in DOMAIN row : row[d].status = "responded" =>
     \E r \in DOMAIN log : log[r].to = d[1] /\ log[r].author = d[2]

\* An agent that has decided to speak found room for its turn: unless the founder
\* spoke since, fewer than MaxTurns messages of agents end with the one it answers.
BudgetWasRead ==
  \A a \in Agents : phase[a] \in {"starting", "awaiting"} =>
     /\ 0 < MaxTurns
     /\ \A from \in 1 .. latest[a] :
          (\A m \in from .. Len(log) : log[m].author # Human) => latest[a] - from + 1 < MaxTurns

SInv == RowsAreOfOthers /\ CurrentIsUnanswered /\ RepliesFit /\ RepliesDiffer /\ RespondedHasReply /\ BudgetWasRead

\* A step that answers no delivery, and one that writes no reply.
RowsKeep ==
  /\ DOMAIN row \subseteq DOMAIN row'
  /\ \A d \in DOMAIN row' : row'[d].status = "responded" <=> (d \in DOMAIN row /\ row[d].status = "responded")

LogKeeps == log' = log \/ \E msg \in Message : msg.to = 0 /\ log' = Append(log, msg)

LEMMA LogGrows ==
  ASSUME log \in Seq(Message), NEW msg \in Message, log' = Append(log, msg)
  PROVE  /\ log' \in Seq(Message)
         /\ Len(log) \in Nat /\ Len(log') = Len(log) + 1
         /\ DOMAIN log = 1 .. Len(log) /\ DOMAIN log' = 1 .. (Len(log) + 1)
         /\ \A m \in 1 .. Len(log) : log'[m] = log[m]
         /\ log'[Len(log) + 1] = msg
BY Zenon, SMT

LEMMA LogSame ==
  ASSUME log \in Seq(Message), LogKeeps
  PROVE  /\ log' \in Seq(Message)
         /\ DOMAIN log = 1 .. Len(log) /\ DOMAIN log' = 1 .. Len(log')
         /\ Len(log) \in Nat /\ Len(log') \in Nat /\ Len(log) <= Len(log')
         /\ \A m \in 1 .. Len(log) : log'[m] = log[m]
         /\ \A m \in 1 .. Len(log') : m > Len(log) => log'[m].to = 0
<1>1. CASE log' = log
  BY <1>1
<1>2. CASE log' # log
  <2>1. PICK msg \in Message : msg.to = 0 /\ log' = Append(log, msg)
    BY <1>2 DEF LogKeeps
  <2> QED
    BY <2>1, LogGrows
<1> QED
  BY <1>1, <1>2

\* A step of that kind leaves the replies and what answers them alone.
LEMMA RepliesKept ==
  ASSUME TInv, SInv, RowsKeep, LogKeeps
  PROVE  RepliesFit' /\ RepliesDiffer' /\ RespondedHasReply'
<1> USE LogSame DEF TInv, TypeOK, SInv
<1>1. RepliesFit'
  <2> SUFFICES ASSUME NEW r \in DOMAIN log', log'[r].to # 0
               PROVE  /\ log'[r].to \in 1 .. (r - 1)
                      /\ <<log'[r].to, log'[r].author>> \in DOMAIN row'
                      /\ row'[<<log'[r].to, log'[r].author>>].status = "responded"
                      /\ \A m \in (log'[r].to + 1) .. (r - 1) : log'[m].author = log'[r].author
    BY DEF RepliesFit
  <2>1. r \in DOMAIN log /\ log'[r] = log[r]
    OBVIOUS
  <2>2. /\ log[r].to \in 1 .. (r - 1)
        /\ <<log[r].to, log[r].author>> \in DOMAIN row
        /\ row[<<log[r].to, log[r].author>>].status = "responded"
        /\ \A m \in (log[r].to + 1) .. (r - 1) : log[m].author = log[r].author
    BY <2>1 DEF RepliesFit
  <2>3. \A m \in (log[r].to + 1) .. (r - 1) : log'[m] = log[m]
    BY <2>1, <2>2
  <2> QED
    BY <2>1, <2>2, <2>3 DEF RowsKeep
<1>2. RepliesDiffer'
  <2>1. \A r \in DOMAIN log' : log'[r].to # 0 => r \in DOMAIN log /\ log'[r] = log[r]
    OBVIOUS
  <2> QED
    BY <2>1 DEF RepliesDiffer
<1>3. RespondedHasReply'
  <2> SUFFICES ASSUME NEW d \in DOMAIN row', row'[d].status = "responded"
               PROVE  \E r \in DOMAIN log' : log'[r].to = d[1] /\ log'[r].author = d[2]
    BY DEF RespondedHasReply
  <2>1. d \in DOMAIN row /\ row[d].status = "responded"
    BY DEF RowsKeep
  <2>2. PICK r \in DOMAIN log : log[r].to = d[1] /\ log[r].author = d[2]
    BY <2>1 DEF RespondedHasReply
  <2>3. r \in DOMAIN log' /\ log'[r] = log[r]
    BY <2>2
  <2> QED
    BY <2>2, <2>3
<1> QED
  BY <1>1, <1>2, <1>3

\* Who decided to speak keeps the room it found.
LEMMA BudgetKept ==
  ASSUME TInv, SInv, LogKeeps,
         \A a \in Agents : phase'[a] \in {"starting", "awaiting"} =>
            phase[a] \in {"starting", "awaiting"} /\ latest'[a] = latest[a]
  PROVE  BudgetWasRead'
<1> USE LogSame DEF TInv, TypeOK, SInv
<1> SUFFICES ASSUME NEW a \in Agents, phase'[a] \in {"starting", "awaiting"}
             PROVE  /\ 0 < MaxTurns
                    /\ \A from \in 1 .. latest'[a] :
                         (\A m \in from .. Len(log') : log'[m].author # Human) => latest'[a] - from + 1 < MaxTurns
  BY DEF BudgetWasRead
<1>1. 0 < MaxTurns /\ latest'[a] = latest[a]
  BY DEF BudgetWasRead
<1>2. ASSUME NEW from \in 1 .. latest[a], \A m \in from .. Len(log') : log'[m].author # Human
      PROVE  latest[a] - from + 1 < MaxTurns
  <2>1. \A m \in from .. Len(log) : log[m].author # Human
    BY <1>2
  <2> QED
    BY <2>1 DEF BudgetWasRead
<1> QED
  BY <1>1, <1>2

\* The turns counted do not grow with a message that is no reply.
LEMMA TurnsKept ==
  ASSUME TInv, TurnsAreBudgeted, LogKeeps
  PROVE  TurnsAreBudgeted'
<1> USE LogSame DEF TInv, TypeOK
<1> SUFFICES ASSUME NEW from \in DOMAIN log', \A m \in from .. Len(log') : log'[m].author # Human
             PROVE  Cardinality({m \in from .. Len(log') : log'[m].to # 0}) <= MaxTurns
  BY DEF TurnsAreBudgeted
<1>1. {m \in from .. Len(log') : log'[m].to # 0} = {m \in from .. Len(log) : log[m].to # 0}
  OBVIOUS
<1>2. CASE from \in DOMAIN log
  <2>1. \A m \in from .. Len(log) : log[m].author # Human
    BY <1>2
  <2> QED
    BY <1>1, <1>2, <2>1 DEF TurnsAreBudgeted
<1>3. CASE from \notin DOMAIN log
  <2>1. {m \in from .. Len(log) : log[m].to # 0} = {}
    BY <1>3
  <2>2. Cardinality({}) = 0 /\ 0 <= MaxTurns
    BY FS_EmptySet
  <2> QED
    BY <1>1, <2>1, <2>2
<1> QED
  BY <1>2, <1>3

\* Rows that stay are still of a message of somebody else.
LEMMA RowsStayOfOthers ==
  ASSUME TInv, SInv, LogKeeps, DOMAIN row' = DOMAIN row
  PROVE  RowsAreOfOthers'
BY LogSame DEF TInv, TypeOK, SInv, RowsAreOfOthers

LEMMA SKept ==
  ASSUME TInv, SInv, TurnsAreBudgeted, RowsKeep, LogKeeps, RowsAreOfOthers', CurrentIsUnanswered',
         \A a \in Agents : phase'[a] \in {"starting", "awaiting"} =>
            phase[a] \in {"starting", "awaiting"} /\ latest'[a] = latest[a]
  PROVE  SInv' /\ TurnsAreBudgeted'
BY RepliesKept, BudgetKept, TurnsKept DEF SInv

LEMMA SMessages ==
  ASSUME TInv, SInv, TurnsAreBudgeted,
         (\E t \in Threads : Say(t) \/ \E a \in Agents : Post(a, t))
         \/ \E m \in DOMAIN log : SayAgain(m) \/ Enqueue(m) \/ \E a \in Agents : Wake(m, a) \/ WakeDies(m, a)
  PROVE  SInv' /\ TurnsAreBudgeted'
<1>1. ASSUME UNCHANGED <<row, phase, latest>>, LogKeeps PROVE SInv' /\ TurnsAreBudgeted'
  <2>1. RowsKeep
    BY <1>1 DEF RowsKeep
  <2>2. CurrentIsUnanswered'
    BY <1>1 DEF SInv, CurrentIsUnanswered, Current
  <2>3. RowsAreOfOthers'
    BY <1>1, RowsStayOfOthers
  <2> QED
    BY <1>1, <2>1, <2>2, <2>3, SKept
<1>2. CASE \E t \in Threads : Say(t)
  <2>1. PICK t \in Threads : Say(t)
    BY <1>2
  <2>2. [author |-> Human, thread |-> t, to |-> 0] \in Message
    BY DEF Message
  <2>3. LogKeeps
    BY <2>1, <2>2 DEF Say, LogKeeps
  <2> QED
    BY <1>1, <2>1, <2>3 DEF Say
<1>3. CASE \E t \in Threads, a \in Agents : Post(a, t)
  <2>1. PICK t \in Threads, a \in Agents : Post(a, t)
    BY <1>3
  <2>2. [author |-> a, thread |-> t, to |-> 0] \in Message
    BY DEF Message
  <2>3. LogKeeps
    BY <2>1, <2>2 DEF Post, LogKeeps
  <2> QED
    BY <1>1, <2>1, <2>3 DEF Post, memory
<1>4. CASE \E m \in DOMAIN log : SayAgain(m) \/ \E a \in Agents : Wake(m, a) \/ WakeDies(m, a)
  BY <1>1, <1>4 DEF SayAgain, Wake, WakeDies, LogKeeps
<1>5. CASE \E m \in DOMAIN log : Enqueue(m)
  <2>1. PICK m \in DOMAIN log : Enqueue(m)
    BY <1>5
  <2>2. row' = [d \in DOMAIN row \cup Recipients(m) |-> IF d \in DOMAIN row THEN row[d] ELSE New]
    BY <2>1 DEF Enqueue, DeliveredTo
  <2>3. UNCHANGED <<log, phase, latest>>
    BY <2>1 DEF Enqueue
  <2>4. RowsKeep /\ LogKeeps
    BY <2>2, <2>3 DEF RowsKeep, LogKeeps, New
  <2>5. RowsAreOfOthers'
    <3>1. \A d \in Recipients(m) : d[1] = m /\ log[m].author # d[2]
      BY DEF Recipients
    <3> QED
      BY <2>2, <2>3, <3>1 DEF SInv, RowsAreOfOthers
  <2>6. CurrentIsUnanswered'
    BY <2>2, <2>3 DEF SInv, CurrentIsUnanswered, Current
  <2> QED
    BY <2>3, <2>4, <2>5, <2>6, SKept
<1> QED
  BY <1>2, <1>3, <1>4, <1>5

\* A drain step other than the two that matter answers nothing and reads no budget.
LEMMA SDrain ==
  ASSUME TInv, SInv, TurnsAreBudgeted, OpenIsDrained, NEW a \in Agents,
         DrainStep(a) \/ Stop(a), ~Accept(a), ~Publish(a)
  PROVE  SInv' /\ TurnsAreBudgeted'
<1> USE DEF TInv, TypeOK, SInv, CurrentIsUnanswered, Current, Goto, Draining, Phase
<1>1. ASSUME UNCHANGED log, DOMAIN row' = DOMAIN row,
             \A d \in DOMAIN row : /\ row'[d].status = "responded" <=> row[d].status = "responded"
                                   /\ d[2] # a => row'[d] = row[d],
             \A b \in Agents \ {a} : phase'[b] = phase[b] /\ latest'[b] = latest[b],
             phase'[a] \in Draining => /\ <<latest'[a], a>> \in DOMAIN row
                                       /\ row'[<<latest'[a], a>>].status \in {"triaging", "running", "cancelled"},
             phase'[a] \in {"starting", "awaiting"} => phase[a] \in {"starting", "awaiting"} /\ latest'[a] = latest[a]
      PROVE  SInv' /\ TurnsAreBudgeted'
  <2>1. RowsKeep /\ LogKeeps
    BY <1>1 DEF RowsKeep, LogKeeps
  <2>2. RowsAreOfOthers'
    BY <1>1, <2>1, RowsStayOfOthers
  <2>3. CurrentIsUnanswered'
    <3> SUFFICES ASSUME NEW b \in Agents, phase'[b] \in Draining
                 PROVE  /\ <<latest'[b], b>> \in DOMAIN row'
                        /\ row'[<<latest'[b], b>>].status \in {"triaging", "running", "cancelled"}
      OBVIOUS
    <3>1. CASE b = a
      BY <1>1, <3>1
    <3>2. CASE b # a
      BY <1>1, <3>2
    <3> QED
      BY <3>1, <3>2
  <2>4. ASSUME NEW b \in Agents, phase'[b] \in {"starting", "awaiting"}
        PROVE  phase[b] \in {"starting", "awaiting"} /\ latest'[b] = latest[b]
    BY <1>1, <2>4
  <2> QED
    BY <2>1, <2>2, <2>3, <2>4, SKept
<1>2. CASE Take(a)
  <2>1. CASE Due(a) = {}
    BY <1>1, <1>2, <2>1 DEF Take
  <2>2. CASE Due(a) # {}
    <3>1. PICK d \in Due(a) :
             /\ row' = [e \in DOMAIN row |->
                           IF e = d THEN [row[e] EXCEPT !.status = "triaging", !.attempt = @ + 1]
                           ELSE IF e \in Due(a) THEN As("passed")
                           ELSE IF e \in Owed(a, {"held"}) THEN [row[e] EXCEPT !.status = "cancelled"]
                           ELSE row[e]]
             /\ latest' = [latest EXCEPT ![a] = d[1]]
             /\ phase' = [phase EXCEPT ![a] = "triaging"]
      BY <1>2, <2>2 DEF Take
    <3>2. d \in DOMAIN row /\ d[2] = a /\ d = <<d[1], a>>
      BY DEF Due, Owed
    <3>3. UNCHANGED log
      BY <1>2 DEF Take
    <3>4. ASSUME NEW e \in DOMAIN row
          PROVE  /\ row'[e].status = "responded" <=> row[e].status = "responded"
                 /\ e = d => row'[e].status = "triaging"
                 /\ e[2] # a => row'[e] = row[e]
      <4>1. row[e] \in Delivery
        OBVIOUS
      <4>2. /\ [row[e] EXCEPT !.status = "cancelled"].status = "cancelled"
            /\ As("passed").status = "passed"
            /\ [row[e] EXCEPT !.status = "triaging", !.attempt = @ + 1].status = "triaging"
        BY <4>1 DEF Delivery, As, New
      <4> QED
        BY <3>1, <3>2, <4>2 DEF Due, Owed
    <3>5. \A b \in Agents \ {a} : phase'[b] = phase[b] /\ latest'[b] = latest[b]
      BY <3>1
    <3>6. DOMAIN row' = DOMAIN row /\ <<latest'[a], a>> = d /\ phase'[a] = "triaging"
      BY <3>1, <3>2
    <3> HIDE DEF TInv, TypeOK, SInv, CurrentIsUnanswered, Draining, Phase
    <3> QED
      BY <1>1, <3>2, <3>3, <3>4, <3>5, <3>6
  <2> QED
    BY <2>1, <2>2
<1>3. CASE /\ phase[a] \in Draining /\ UNCHANGED <<log, latest>>
           /\ \/ phase' = [phase EXCEPT ![a] = "ending"]
              \/ phase[a] = "starting" /\ phase' = [phase EXCEPT ![a] = "awaiting"]
              \/ phase' = [phase EXCEPT ![a] = "stopped"]
           /\ DOMAIN row' = DOMAIN row
           /\ \A d \in DOMAIN row : d # Current(a) => row'[d] = row[d]
           /\ row'[Current(a)].status # "responded"
           /\ phase'[a] \in Draining => row'[Current(a)].status = row[Current(a)].status
  <2>1. Current(a) \in DOMAIN row /\ row[Current(a)].status \in {"triaging", "running", "cancelled"}
    BY <1>3
  <2>2. \A d \in DOMAIN row : /\ row'[d].status = "responded" <=> row[d].status = "responded"
                              /\ d[2] # a => row'[d] = row[d]
    <3> SUFFICES ASSUME NEW d \in DOMAIN row
                 PROVE  /\ row'[d].status = "responded" <=> row[d].status = "responded"
                        /\ d[2] # a => row'[d] = row[d]
      OBVIOUS
    <3>1. CASE d = Current(a)
      BY <1>3, <2>1, <3>1
    <3>2. CASE d # Current(a)
      BY <1>3, <3>2
    <3> QED
      BY <3>1, <3>2
  <2>3. \A b \in Agents \ {a} : phase'[b] = phase[b] /\ latest'[b] = latest[b]
    BY <1>3
  <2>4. phase'[a] \in {"starting", "awaiting"} => phase[a] \in {"starting", "awaiting"}
    BY <1>3
  <2> QED
    BY <1>1, <1>3, <2>1, <2>2, <2>3, <2>4
<1>4. CASE Decline(a) \/ Hold(a) \/ Duplicate(a)
  <2>1. \E status \in {"passed", "held"} : row' = [row EXCEPT ![Current(a)] = As(status)]
    BY <1>4 DEF Decline, Hold, Duplicate, Settled
  <2>2. \A status : As(status).status = status
    BY DEF As, New
  <2>3. phase' = [phase EXCEPT ![a] = "ending"] /\ phase[a] \in Draining /\ UNCHANGED <<log, latest>>
    BY <1>4 DEF Decline, Hold, Duplicate
  <2> QED
    BY <1>3, <2>1, <2>2, <2>3
<1>5. CASE Start(a)
  <2>1. Current(a) \in DOMAIN row /\ row[Current(a)] \in Delivery /\ row[Current(a)].status # "responded"
    BY <1>5 DEF Start
  <2>2. [row[Current(a)] EXCEPT !.linked = TRUE].status = row[Current(a)].status
    BY <2>1 DEF Delivery
  <2> QED
    BY <1>3, <1>5, <2>1, <2>2 DEF Start
<1>6. CASE Stop(a)
  BY <1>3, <1>6 DEF Stop, StopsAreOfRuns
<1>7. CASE Fail(a)
  <2>1. phase' = [phase EXCEPT ![a] = "ending"] /\ phase[a] \in Draining /\ UNCHANGED <<log, latest>>
    BY <1>7 DEF Fail
  <2>2. CASE Owed(a, {"triaging", "running"}) = {}
    BY <1>3, <1>7, <2>1, <2>2 DEF Fail
  <2>3. CASE Owed(a, {"triaging", "running"}) # {}
    <3>1. PICK d \in Owed(a, {"triaging", "running"}) :
             row' = [row EXCEPT ![d] = IF row[d].attempt < MaxAttempts
                                       THEN [@ EXCEPT !.status = "pending", !.due = FALSE] ELSE As("failed")]
      BY <1>7, <2>3 DEF Fail
    <3>2. d \in DOMAIN row /\ d = Current(a)
      BY DEF Owed, OpenIsDrained
    <3>3. row'[d].status \in {"pending", "failed"}
      BY <3>1, <3>2 DEF As, New, Delivery
    <3> QED
      BY <1>3, <2>1, <3>1, <3>2, <3>3
  <2> QED
    BY <2>2, <2>3
<1>8. CASE ScheduleOthers(a) \/ Finish(a)
  <2>1. /\ phase' = [phase EXCEPT ![a] = "ending"] \/ phase' = [phase EXCEPT ![a] = "idle"]
        /\ latest' = latest \/ latest' = [latest EXCEPT ![a] = 0]
        /\ UNCHANGED <<log, row>>
    BY <1>8 DEF ScheduleOthers, Finish
  <2> QED
    BY <1>1, <2>1
<1> QED
  BY <1>2, <1>4, <1>5, <1>6, <1>7, <1>8 DEF DrainStep

LEMMA SOthers ==
  ASSUME TInv, SInv, TurnsAreBudgeted,
         (\E t \in Threads : Interrupt(t)) \/ (\E d \in DOMAIN row : Cool(d)) \/ Restart \/ UNCHANGED vars
  PROVE  SInv' /\ TurnsAreBudgeted'
<1> USE DEF TInv, TypeOK, SInv, CurrentIsUnanswered, Current, Draining
<1>1. ASSUME UNCHANGED log, DOMAIN row' = DOMAIN row,
             \A d \in DOMAIN row : row'[d].status = row[d].status \/
                 (row[d].status # "responded" /\ row'[d].status \in {"cancelled", "pending"}),
             \/ UNCHANGED <<phase, latest>> /\ \A d \in DOMAIN row : row'[d].status \in {row[d].status, "cancelled"}
             \/ \A a \in Agents : phase'[a] = "idle"
      PROVE  SInv' /\ TurnsAreBudgeted'
  <2>1. RowsKeep /\ LogKeeps
    BY <1>1 DEF RowsKeep, LogKeeps
  <2>2. RowsAreOfOthers'
    BY <1>1, <2>1, RowsStayOfOthers
  <2>3. CurrentIsUnanswered'
    BY <1>1
  <2>4. ASSUME NEW b \in Agents, phase'[b] \in {"starting", "awaiting"}
        PROVE  phase[b] \in {"starting", "awaiting"} /\ latest'[b] = latest[b]
    BY <1>1, <2>4
  <2> QED
    BY <2>1, <2>2, <2>3, <2>4, SKept
<1>2. CASE \E t \in Threads : Interrupt(t)
  <2>1. PICK t \in Threads : Interrupt(t)
    BY <1>2
  <2>2. DOMAIN row' = DOMAIN row /\ UNCHANGED <<log, phase, latest>>
    BY <2>1 DEF Interrupt
  <2>3. ASSUME NEW d \in DOMAIN row
        PROVE  row'[d].status = row[d].status \/ (row[d].status # "responded" /\ row'[d].status = "cancelled")
    <3>1. row[d] \in Delivery
      OBVIOUS
    <3>2. \/ row'[d] = row[d]
          \/ row[d].status # "responded" /\ row'[d] = [row[d] EXCEPT !.status = "cancelled"]
      BY <2>1 DEF Interrupt
    <3> QED
      BY <3>1, <3>2 DEF Delivery
  <2> QED
    BY <1>1, <2>2, <2>3
<1>3. CASE \E d \in DOMAIN row : Cool(d)
  <2>1. PICK d \in DOMAIN row : Cool(d)
    BY <1>3
  <2>2. \A e \in DOMAIN row : row[e] \in Delivery
    OBVIOUS
  <2>3. DOMAIN row' = DOMAIN row /\ \A e \in DOMAIN row : row'[e].status = row[e].status
    BY <2>1, <2>2 DEF Cool, Delivery
  <2> QED
    BY <1>1, <2>1, <2>3 DEF Cool, memory
<1>4. CASE Restart
  <2>1. DOMAIN row' = DOMAIN row /\ UNCHANGED log
    BY <1>4 DEF Restart
  <2>2. ASSUME NEW d \in DOMAIN row
        PROVE  row'[d].status = row[d].status \/
                 (row[d].status # "responded" /\ row'[d].status \in {"cancelled", "pending"})
    <3>1. row[d] \in Delivery
      OBVIOUS
    <3> QED
      BY <1>4, <3>1 DEF Restart, Delivery
  <2>3. \A a \in Agents : phase'[a] = "idle"
    BY <1>4 DEF Restart
  <2> QED
    BY <1>1, <2>1, <2>2, <2>3
<1>5. CASE UNCHANGED vars
  BY <1>1, <1>5 DEF vars, memory
<1> QED
  BY <1>2, <1>3, <1>4, <1>5

LEMMA Interval ==
  \A i, j \in Int : IsFiniteSet(i .. j) /\ Cardinality(i .. j) = IF i > j THEN 0 ELSE j - i + 1
BY FS_Interval

LEMMA Subset ==
  ASSUME NEW S, IsFiniteSet(S), NEW T, T \subseteq S
  PROVE  IsFiniteSet(T) /\ Cardinality(T) <= Cardinality(S) /\ Cardinality(T) \in Nat /\ Cardinality(S) \in Nat
<1>1. IsFiniteSet(T) /\ Cardinality(T) <= Cardinality(S)
  BY FS_Subset
<1> QED
  BY <1>1, FS_CardinalityType

\* As many messages as MaxTurns without the founder would have been counted.
LEMMA BudgetLeft ==
  ASSUME log \in Seq(Message), RecentAgentTurns < MaxTurns, NEW last \in DOMAIN log
  PROVE  /\ 0 < MaxTurns
         /\ \A from \in 1 .. last :
              (\A m \in from .. Len(log) : log[m].author # Human) => last - from + 1 < MaxTurns
<1> DEFINE counted == {m \in DOMAIN log : /\ m + MaxTurns >= Len(log)
                                          /\ \A later \in m .. Len(log) : log[later].author # Human}
<1>1. last \in 1 .. Len(log) /\ Len(log) \in Nat /\ DOMAIN log = 1 .. Len(log) /\ MaxTurns \in Nat
  OBVIOUS
<1>2. IsFiniteSet(1 .. Len(log))
  <2>1. 1 \in Int /\ Len(log) \in Int
    BY <1>1
  <2> QED
    BY <2>1, Interval, Zenon
<1>3. counted \subseteq 1 .. Len(log)
  BY <1>1
<1>4. Cardinality(counted) < MaxTurns
  BY DEF RecentAgentTurns
<1>5. ASSUME NEW from \in 1 .. last, \A m \in from .. Len(log) : log[m].author # Human,
             ~(last - from + 1 < MaxTurns)
      PROVE  FALSE
  <2> DEFINE first == Len(log) - MaxTurns + 1
  <2>1. first \in Int /\ Len(log) \in Int /\ from \in Nat /\ first >= from
    BY <1>1, <1>5
  <2>2. first .. Len(log) \subseteq counted
    BY <1>1, <1>5, <2>1
  <2>3. Cardinality(first .. Len(log)) = IF first > Len(log) THEN 0 ELSE Len(log) - first + 1
    <3> HIDE DEF first
    <3> QED
      BY <2>1, Interval, Zenon
  <2>4. Cardinality(first .. Len(log)) = MaxTurns
    BY <1>1, <2>3
  <2> HIDE DEF counted, first
  <2>5. IsFiniteSet(counted)
    BY <1>2, <1>3, Subset
  <2>6. Cardinality(first .. Len(log)) <= Cardinality(counted) /\ Cardinality(counted) \in Nat
    BY <2>2, <2>5, Subset
  <2> QED
    BY <1>1, <1>4, <2>4, <2>6
<1>6. Cardinality(counted) \in Nat
  <2> HIDE DEF counted
  <2> QED
    BY <1>2, <1>3, Subset
<1> HIDE DEF counted
<1> QED
  BY <1>1, <1>4, <1>5, <1>6

\* The decision to speak reads the budget.
LEMMA SAccept ==
  ASSUME TInv, SInv, TurnsAreBudgeted, NEW a \in Agents, Accept(a)
  PROVE  SInv' /\ TurnsAreBudgeted'
<1> USE DEF TInv, TypeOK, SInv, Draining, Phase
<1>1. /\ phase[a] = "triaging" /\ phase' = [phase EXCEPT ![a] = "starting"]
      /\ UNCHANGED <<log, latest>> /\ RecentAgentTurns < MaxTurns
      /\ row' = [row EXCEPT ![Current(a)].status = "running"]
  BY DEF Accept, Goto
<1>2. Current(a) \in DOMAIN row /\ row[Current(a)] \in Delivery /\ row[Current(a)].status # "responded"
  BY <1>1 DEF CurrentIsUnanswered
<1>3. DOMAIN row' = DOMAIN row /\ row'[Current(a)].status = "running"
  BY <1>1, <1>2 DEF Delivery
<1>4. \A d \in DOMAIN row : d # Current(a) => row'[d] = row[d]
  BY <1>1
<1>5. RowsKeep /\ LogKeeps
  BY <1>1, <1>2, <1>3, <1>4 DEF RowsKeep, LogKeeps
<1>6. RowsAreOfOthers'
  BY <1>3, <1>5, RowsStayOfOthers
<1>7. CurrentIsUnanswered'
  <2> SUFFICES ASSUME NEW b \in Agents, phase'[b] \in Draining
               PROVE  /\ <<latest'[b], b>> \in DOMAIN row'
                      /\ row'[<<latest'[b], b>>].status \in {"triaging", "running", "cancelled"}
    BY DEF CurrentIsUnanswered, Current
  <2>1. CASE b = a
    BY <1>1, <1>2, <1>3, <2>1 DEF Current
  <2>2. CASE b # a
    BY <1>1, <1>3, <1>4, <2>2 DEF CurrentIsUnanswered, Current
  <2> QED
    BY <2>1, <2>2
<1>8. latest[a] \in DOMAIN log
  BY <1>2 DEF RowsAreOfMessages, Current
<1>9. BudgetWasRead'
  BY <1>1, <1>8, BudgetLeft DEF BudgetWasRead
<1>10. TurnsAreBudgeted' /\ RepliesFit' /\ RepliesDiffer' /\ RespondedHasReply'
  BY <1>5, RepliesKept, TurnsKept
<1> QED
  BY <1>6, <1>7, <1>9, <1>10

\* When an agent publishes, nobody else has spoken since the message it answers; so it
\* has not replied since either, and all the replies before are within the budget.
LEMMA SPublish ==
  ASSUME TInv, SInv, TurnsAreBudgeted, NEW a \in Agents, Publish(a)
  PROVE  SInv' /\ TurnsAreBudgeted'
<1> DEFINE msg == [author |-> a, thread |-> log[latest[a]].thread, to |-> latest[a]]
           new == {Len(log) + 1} \X (Agents \ {a})
<1>1. /\ phase[a] = "awaiting" /\ phase' = [phase EXCEPT ![a] = "publishing"]
      /\ log' = Append(log, msg) /\ latest' = latest
      /\ row' = [d \in DOMAIN row \cup new |-> IF d = Current(a) THEN As("responded")
                                              ELSE IF d \in DOMAIN row THEN row[d] ELSE New]
      /\ \A m \in DOMAIN log : log[m].author # a => m <= latest[a]
  <2>1. latest[a] \in Nat /\ DOMAIN log \subseteq Nat
    BY DEF TInv, TypeOK
  <2> QED
    BY <2>1 DEF Publish, Goto, Stale, Others
<1>2. /\ Current(a) \in DOMAIN row /\ row[Current(a)].status # "responded"
      /\ latest[a] \in DOMAIN log /\ log[latest[a]].author # a
      /\ latest[a] \in Nat /\ Len(log) \in Nat /\ latest[a] # 0
  <2>1. Current(a) \in DOMAIN row /\ row[Current(a)].status \in {"triaging", "running", "cancelled"}
    BY <1>1 DEF SInv, CurrentIsUnanswered, Draining
  <2>2. latest[a] \in DOMAIN log /\ log[latest[a]].author # a
    BY <2>1 DEF SInv, RowsAreOfOthers, Current
  <2>3. log \in Seq(Message) /\ Len(log) \in Nat /\ DOMAIN log = 1 .. Len(log)
    BY DEF TInv, TypeOK
  <2> QED
    BY <2>1, <2>2, <2>3
<1>3. msg \in Message /\ msg.author = a /\ msg.to = latest[a] /\ a # Human
  <2>1. log[latest[a]] \in Message
    BY <1>2 DEF TInv, TypeOK
  <2>2. log[latest[a]].thread \in Threads
    BY <2>1 DEF Message
  <2> QED
    BY <1>2, <2>2 DEF Message
<1> HIDE DEF msg
<1>4. /\ log' \in Seq(Message) /\ Len(log') = Len(log) + 1
      /\ DOMAIN log = 1 .. Len(log) /\ DOMAIN log' = 1 .. (Len(log) + 1)
      /\ \A m \in 1 .. Len(log) : log'[m] = log[m]
      /\ log'[Len(log) + 1] = msg
  BY <1>1, <1>3, LogGrows DEF TInv, TypeOK
<1>5. /\ DOMAIN row' = DOMAIN row \cup new
      /\ row'[Current(a)].status = "responded"
      /\ \A d \in DOMAIN row : d # Current(a) => row'[d] = row[d]
      /\ \A d \in DOMAIN row' : row'[d].status = "responded" => d \in DOMAIN row
  BY <1>1, <1>2 DEF As, New
<1>6. \A d \in new : d[1] = Len(log) + 1 /\ d[2] # a /\ d \notin DOMAIN row
  <2>1. \A d \in DOMAIN row : d[1] \in DOMAIN log
    BY DEF TInv, RowsAreOfMessages
  <2>2. Len(log) + 1 \notin DOMAIN log
    BY <1>2, <1>4
  <2>3. \A d \in new : d[1] = Len(log) + 1 /\ d[2] # a
    OBVIOUS
  <2> QED
    BY <2>1, <2>2, <2>3
<1> HIDE DEF new
<1>7. \A r \in DOMAIN log : log[r].author = a /\ log[r].to # 0 => r <= latest[a] /\ log[r].to # latest[a]
  <2> SUFFICES ASSUME NEW r \in DOMAIN log, log[r].author = a, log[r].to # 0
               PROVE  r <= latest[a] /\ log[r].to # latest[a]
    OBVIOUS
  <2>1. /\ log[r].to \in 1 .. (r - 1) /\ <<log[r].to, a>> \in DOMAIN row
        /\ row[<<log[r].to, a>>].status = "responded"
        /\ \A m \in (log[r].to + 1) .. (r - 1) : log[m].author = a
    BY DEF SInv, RepliesFit
  <2>2. log[r].to # latest[a]
    BY <1>2, <2>1 DEF Current
  <2>3. log[r].to \in DOMAIN log /\ log[log[r].to].author # a
    BY <2>1 DEF SInv, RowsAreOfOthers
  <2>4. log[r].to < latest[a]
    BY <1>1, <1>2, <1>4, <2>2, <2>3
  <2>5. ~(latest[a] \in (log[r].to + 1) .. (r - 1))
    BY <1>2, <2>1
  <2> QED
    BY <1>2, <1>4, <2>1, <2>2, <2>4, <2>5
<1>8. RepliesFit'
  <2> SUFFICES ASSUME NEW r \in DOMAIN log', log'[r].to # 0
               PROVE  /\ log'[r].to \in 1 .. (r - 1)
                      /\ <<log'[r].to, log'[r].author>> \in DOMAIN row'
                      /\ row'[<<log'[r].to, log'[r].author>>].status = "responded"
                      /\ \A m \in (log'[r].to + 1) .. (r - 1) : log'[m].author = log'[r].author
    BY DEF RepliesFit
  <2>1. CASE r = Len(log) + 1
    <3>1. log'[r].to = latest[a] /\ log'[r].author = a /\ latest[a] \in 1 .. (r - 1)
      BY <1>2, <1>3, <1>4, <2>1
    <3>2. <<latest[a], a>> \in DOMAIN row' /\ row'[<<latest[a], a>>].status = "responded"
      BY <1>2, <1>5 DEF Current
    <3>3. ASSUME NEW m \in (latest[a] + 1) .. (r - 1) PROVE log'[m].author = a
      <4>1. m \in DOMAIN log /\ log'[m] = log[m] /\ ~(m <= latest[a])
        BY <1>2, <1>4, <2>1, <3>3
      <4> QED
        BY <1>1, <4>1
    <3> QED
      BY <3>1, <3>2, <3>3
  <2>2. CASE r # Len(log) + 1
    <3>1. r \in DOMAIN log /\ log'[r] = log[r]
      BY <1>2, <1>4, <2>2
    <3>2. /\ log[r].to \in 1 .. (r - 1)
          /\ <<log[r].to, log[r].author>> \in DOMAIN row
          /\ row[<<log[r].to, log[r].author>>].status = "responded"
          /\ \A m \in (log[r].to + 1) .. (r - 1) : log[m].author = log[r].author
      BY <3>1 DEF SInv, RepliesFit
    <3>3. \A m \in (log[r].to + 1) .. (r - 1) : log'[m] = log[m]
      BY <1>4, <3>1, <3>2
    <3>4. row'[<<log[r].to, log[r].author>>].status = "responded"
      BY <1>5, <3>2
    <3> QED
      BY <1>5, <3>1, <3>2, <3>3, <3>4
  <2> QED
    BY <2>1, <2>2
<1>9. RepliesDiffer'
  <2> SUFFICES ASSUME NEW r \in DOMAIN log', NEW s \in DOMAIN log',
                      log'[r].to # 0, log'[r].to = log'[s].to, log'[r].author = log'[s].author
               PROVE  r = s
    BY DEF RepliesDiffer
  <2>1. \A m \in DOMAIN log' : m = Len(log) + 1 \/ (m \in DOMAIN log /\ log'[m] = log[m])
    BY <1>2, <1>4
  <2>2. ASSUME NEW m \in DOMAIN log, log[m].to = latest[a], log[m].author = a PROVE FALSE
    BY <1>2, <1>7, <2>2
  <2>3. log'[Len(log) + 1].to = latest[a] /\ log'[Len(log) + 1].author = a
    BY <1>3, <1>4
  <2> QED
    BY <2>1, <2>2, <2>3 DEF SInv, RepliesDiffer
<1>10. RespondedHasReply'
  <2> SUFFICES ASSUME NEW d \in DOMAIN row', row'[d].status = "responded"
               PROVE  \E r \in DOMAIN log' : log'[r].to = d[1] /\ log'[r].author = d[2]
    BY DEF RespondedHasReply
  <2>1. CASE d = Current(a)
    <3>1. Len(log) + 1 \in DOMAIN log' /\ d[1] = latest[a] /\ d[2] = a
      BY <1>2, <1>4, <2>1 DEF Current
    <3> QED
      BY <1>3, <1>4, <3>1
  <2>2. CASE d # Current(a)
    <3>1. d \in DOMAIN row /\ row[d].status = "responded"
      BY <1>5, <2>2
    <3>2. PICK r \in DOMAIN log : log[r].to = d[1] /\ log[r].author = d[2]
      BY <3>1 DEF SInv, RespondedHasReply
    <3> QED
      BY <1>2, <1>4, <3>2
  <2> QED
    BY <2>1, <2>2
<1>11. RowsAreOfOthers'
  <2> SUFFICES ASSUME NEW d \in DOMAIN row' PROVE d[1] \in DOMAIN log' /\ log'[d[1]].author # d[2]
    BY DEF RowsAreOfOthers
  <2>1. CASE d \in DOMAIN row
    BY <1>2, <1>4, <2>1 DEF SInv, RowsAreOfOthers
  <2>2. CASE d \notin DOMAIN row
    BY <1>2, <1>3, <1>4, <1>5, <1>6, <2>2
  <2> QED
    BY <2>1, <2>2
<1>12. CurrentIsUnanswered'
  <2> SUFFICES ASSUME NEW b \in Agents, phase'[b] \in Draining
               PROVE  /\ <<latest'[b], b>> \in DOMAIN row'
                      /\ row'[<<latest'[b], b>>].status \in {"triaging", "running", "cancelled"}
    BY DEF CurrentIsUnanswered, Current
  <2>1. b # a /\ phase'[b] = phase[b]
    BY <1>1 DEF TInv, TypeOK, Draining
  <2>2. Current(b) \in DOMAIN row /\ row[Current(b)].status \in {"triaging", "running", "cancelled"}
    BY <2>1 DEF SInv, CurrentIsUnanswered
  <2>3. Current(b) # Current(a)
    BY <2>1 DEF Current
  <2> QED
    BY <1>1, <1>5, <2>2, <2>3 DEF Current
<1>13. BudgetWasRead'
  <2> SUFFICES ASSUME NEW b \in Agents, phase'[b] \in {"starting", "awaiting"}
               PROVE  /\ 0 < MaxTurns
                      /\ \A from \in 1 .. latest'[b] :
                           (\A m \in from .. Len(log') : log'[m].author # Human) => latest'[b] - from + 1 < MaxTurns
    BY DEF BudgetWasRead
  <2>1. phase[b] \in {"starting", "awaiting"} /\ latest'[b] = latest[b]
    BY <1>1 DEF TInv, TypeOK
  <2>2. ASSUME NEW from \in 1 .. latest[b], \A m \in from .. Len(log') : log'[m].author # Human
        PROVE  latest[b] - from + 1 < MaxTurns
    <3>1. \A m \in from .. Len(log) : log[m].author # Human
      BY <1>2, <1>4, <2>2
    <3> QED
      BY <2>1, <3>1 DEF SInv, BudgetWasRead
  <2> QED
    BY <2>1, <2>2 DEF SInv, BudgetWasRead
<1>14. TurnsAreBudgeted'
  <2> SUFFICES ASSUME NEW from \in DOMAIN log', \A m \in from .. Len(log') : log'[m].author # Human
               PROVE  Cardinality({m \in from .. Len(log') : log'[m].to # 0}) <= MaxTurns
    BY DEF TurnsAreBudgeted
  <2> DEFINE counted == {m \in from .. Len(log') : log'[m].to # 0}
             old == from .. latest[a]
  <2>1. counted \subseteq old \cup {Len(log) + 1}
    <3> SUFFICES ASSUME NEW m \in counted, m # Len(log) + 1 PROVE m \in old
      OBVIOUS
    <3>1. m \in DOMAIN log /\ log'[m] = log[m] /\ log[m].to # 0
      BY <1>2, <1>4
    <3>2. m <= latest[a]
      BY <1>1, <1>7, <3>1
    <3> QED
      BY <3>2
  <2>2. from \in Nat /\ from > 0
    BY <1>2, <1>4
  <2>3. IsFiniteSet(old) /\ Cardinality(old) = IF from > latest[a] THEN 0 ELSE latest[a] - from + 1
    <3>1. from \in Int /\ latest[a] \in Int
      BY <1>2, <2>2
    <3> QED
      BY <3>1, Interval, Zenon
  <2>4. Cardinality(old) < MaxTurns /\ Cardinality(old) \in Nat
    <3>1. 0 < MaxTurns
      BY <1>1 DEF SInv, BudgetWasRead
    <3>2. CASE from > latest[a]
      BY <2>3, <3>1, <3>2
    <3>3. CASE ~(from > latest[a])
      <4>1. from \in 1 .. latest[a]
        BY <1>2, <2>2, <3>3
      <4>2. \A m \in from .. Len(log) : log[m].author # Human
        BY <1>2, <1>4, <2>2
      <4>3. latest[a] - from + 1 < MaxTurns
        BY <1>1, <4>1, <4>2 DEF SInv, BudgetWasRead
      <4> HIDE DEF old
      <4> QED
        BY <1>2, <2>2, <2>3, <3>3, <4>1, <4>3
    <3> QED
      BY <3>2, <3>3
  <2> HIDE DEF counted, old
  <2>5. /\ IsFiniteSet(old \cup {Len(log) + 1})
        /\ Cardinality(old \cup {Len(log) + 1}) <= MaxTurns
    <3>1. /\ IsFiniteSet(old \cup {Len(log) + 1})
          /\ Cardinality(old \cup {Len(log) + 1}) \in {Cardinality(old), Cardinality(old) + 1}
      BY <2>3, FS_AddElement
    <3> QED
      BY <2>4, <3>1
  <2>6. Cardinality(counted) <= Cardinality(old \cup {Len(log) + 1}) /\ IsFiniteSet(counted)
    BY <2>1, <2>5, Subset
  <2>7. Cardinality(counted) \in Nat /\ Cardinality(old \cup {Len(log) + 1}) \in Nat
    BY <2>5, <2>6, FS_CardinalityType
  <2>8. Cardinality(counted) <= MaxTurns
    BY <2>5, <2>6, <2>7
  <2> QED
    BY <2>8 DEF counted
<1> QED
  BY <1>8, <1>9, <1>10, <1>11, <1>12, <1>13, <1>14 DEF SInv

LEMMA SStep == IInv /\ SInv /\ TurnsAreBudgeted /\ [Next]_vars => SInv' /\ TurnsAreBudgeted'
BY SMessages, SDrain, SAccept, SPublish, SOthers DEF Next, IInv, DrainStep

LEMMA SInit == Init => SInv /\ TurnsAreBudgeted
BY DEF Init, SInv, RowsAreOfOthers, CurrentIsUnanswered, RepliesFit, RepliesDiffer, RespondedHasReply,
       BudgetWasRead, TurnsAreBudgeted, Draining

\* What was said, answered and read of the budget, together with the types.
LEMMA SHolds == Spec => [](IInv /\ SInv /\ TurnsAreBudgeted)
<1>1. Init => IInv
  BY TInit, IInit DEF IInv
<1> QED
  BY <1>1, SInit, IStep, SStep, PTL DEF Spec

\* The agents never say more among themselves than their budget of turns, though each
\* reads the budget long before it replies (room-runtime.ts:113-126, 240).
THEOREM TurnsBudgeted == Spec => []TurnsAreBudgeted
BY SHolds, PTL

\* A delivery is answered once, and exactly if it says so, however often it was sent,
\* retried, interrupted or recovered (room-runtime.ts:361-471).
THEOREM DeliveriesAnsweredOnce == Spec => []AnsweredOnce
<1>1. IInv /\ SInv => AnsweredOnce
  <2> SUFFICES ASSUME IInv, SInv, NEW m \in DOMAIN log, NEW a \in Agents
               PROVE  Cardinality(Replies(m, a)) =
                        IF <<m, a>> \in DOMAIN row /\ row[<<m, a>>].status = "responded" THEN 1 ELSE 0
    BY DEF AnsweredOnce
  <2>1. m # 0
    BY DEF IInv, TInv, TypeOK
  <2>2. CASE <<m, a>> \in DOMAIN row /\ row[<<m, a>>].status = "responded"
    <3>1. PICK r \in DOMAIN log : log[r].to = m /\ log[r].author = a
      BY <2>2 DEF SInv, RespondedHasReply
    <3>2. Replies(m, a) = {r}
      BY <2>1, <3>1 DEF Replies, SInv, RepliesDiffer
    <3> QED
      BY <2>2, <3>2, FS_Singleton
  <2>3. CASE ~(<<m, a>> \in DOMAIN row /\ row[<<m, a>>].status = "responded")
    <3>1. Replies(m, a) = {}
      BY <2>1, <2>3 DEF Replies, SInv, RepliesFit
    <3> QED
      BY <2>3, <3>1, FS_EmptySet
  <2> QED
    BY <2>2, <2>3
<1> QED
  BY <1>1, SHolds, PTL
=============================================================================
