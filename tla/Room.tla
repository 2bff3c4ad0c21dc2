-------------------------------- MODULE Room --------------------------------
(***************************************************************************)
(* The board room: the channel in which a founder and the agents of a      *)
(* company talk.  Every message is delivered to every agent but its        *)
(* author; an agent takes the newest delivery it owes, decides whether to  *)
(* speak, runs a turn and publishes its reply if nothing was said since.   *)
(* Deliveries are rows; who is scheduled or draining is in memory only.    *)
(***************************************************************************)
EXTENDS Naturals, Sequences, FiniteSets

CONSTANTS
    Agents,         \* the agents on the board
    Human,          \* the founder
    Threads,        \* conversation threads
    MaxTurns,       \* MAX_AGENT_TURNS
    MaxAttempts,    \* max_attempts of a delivery
    MaxSends,       \* bound: messages the founder sends
    MaxEvents       \* bound: messages sent, and sent again, failures, posts,
                    \* interrupts and restarts

ASSUME RoomAssumption ==
    /\ Human \notin Agents
    /\ {MaxTurns, MaxAttempts, MaxSends, MaxEvents} \subseteq Nat

VARIABLES
    log,        \* the channel's messages, in the order of their sequence
    active,     \* the threads whose status is active
    row,        \* the delivery of each <<message, agent>> that has one
    \* memory
    scheduled,  \* the set of the same name
    phase,      \* the drain of each agent; it is in running unless idle
    latest,     \* the message it works on, 0 if there is none
    sending,    \* messages whose enqueueMessage has not begun
    waking,     \* the <<message, agent>> enqueueMessage has still to wake
    stopping,   \* agents whose run an interrupt is about to stop
    lost,       \* agents that are not scheduled because enqueueMessage died
                \* before it came to them; nothing in the program records them
    events      \* uses of the bound

memory == <<scheduled, phase, latest, sending, waking, stopping, lost>>
vars   == <<log, active, row, memory, events>>

-----------------------------------------------------------------------------
Message == [author : Agents \cup {Human}, thread : Threads, to : Nat]
Status == {"pending", "triaging", "running", "held", "responded", "passed", "failed", "cancelled"}

\* linked: agent_run_id is set.  due: next_attempt_at is not in the future.
Delivery == [status : Status, attempt : Nat, linked : BOOLEAN, due : BOOLEAN]

New == [status |-> "pending", attempt |-> 0, linked |-> FALSE, due |-> TRUE]

\* The drain of an agent.  triaging: until the decision to speak.  starting,
\* awaiting, stopped: the agent run, until its id is stored, until it ends, and
\* once it was stopped.  publishing: before the others are scheduled.  ending:
\* before running.delete.
Draining == {"triaging", "starting", "awaiting", "stopped"}
Phase == Draining \cup {"idle", "publishing", "ending"}

Event == events < MaxEvents /\ events' = events + 1

TypeOK ==
    /\ log \in Seq(Message)
    /\ active \subseteq Threads
    /\ DOMAIN row \subseteq Nat \X Agents
    /\ row \in [DOMAIN row -> Delivery]
    /\ scheduled \subseteq Agents
    /\ phase \in [Agents -> Phase]
    /\ latest \in [Agents -> Nat]
    /\ sending \subseteq Nat
    /\ waking \subseteq Nat \X Agents
    /\ stopping \subseteq Agents
    /\ lost \subseteq Agents
    /\ events \in Nat

Init ==
    /\ log = <<>>
    /\ active = Threads
    /\ row = [d \in {} |-> New]
    /\ scheduled = {}
    /\ phase = [a \in Agents |-> "idle"]
    /\ latest = [a \in Agents |-> 0]
    /\ sending = {}
    /\ waking = {}
    /\ stopping = {}
    /\ lost = {}
    /\ events = 0

-----------------------------------------------------------------------------
Recipients(m) == {m} \X (Agents \ {log[m].author})

\* Mutation: a delivery that exists is reset.
RedeliveredTo(D) == [d \in DOMAIN row \cup D |-> IF d \in D THEN New ELSE row[d]]

\* insertDeliveries: on conflict, the row there is stays as it is.
DeliveredTo(D) == [d \in DOMAIN row \cup D |-> IF d \in DOMAIN row THEN row[d] ELSE New]

Owed(a, S) == {d \in DOMAIN row : d[2] = a /\ row[d].status \in S}

\* What a settled row keeps besides its status is read by nobody.
As(status) == [New EXCEPT !.status = status]
Settled(d, status) == [row EXCEPT ![d] = As(status)]

\* schedule.
Scheduled(A) == scheduled \cup {a \in A : phase[a] = "idle"}

-----------------------------------------------------------------------------
(* Messages come in.                                                       *)

\* The transaction of sendMessage.
Say(t) ==
    /\ t \in active
    /\ Event
    /\ Cardinality({m \in DOMAIN log : log[m].author = Human}) < MaxSends
    /\ log' = Append(log, [author |-> Human, thread |-> t, to |-> 0])
    /\ sending' = sending \cup {Len(log) + 1}
    /\ UNCHANGED <<active, row, scheduled, phase, latest, waking, stopping, lost>>

\* The request is sent again: it is answered from its row, and enqueued again.
SayAgain(m) ==
    /\ Event
    /\ log[m].author = Human
    /\ m \notin sending
    /\ sending' = sending \cup {m}
    /\ UNCHANGED <<log, active, row, scheduled, phase, latest, waking, stopping, lost>>

\* A decision reaches the channel and completes its thread; nobody enqueues it.
Post(a, t) ==
    /\ Event
    /\ active' = active \ {t}
    /\ log' = Append(log, [author |-> a, thread |-> t, to |-> 0])
    /\ UNCHANGED <<row, memory>>

\* The transaction of enqueueMessage.
Enqueue(m) ==
    /\ m \in sending
    /\ sending' = sending \ {m}
    /\ row' = DeliveredTo(Recipients(m))
    /\ waking' = waking \cup Recipients(m)
    /\ UNCHANGED <<log, active, scheduled, phase, latest, stopping, lost, events>>

\* An agent with a run under way is steered, the others are scheduled.
Steered(a) == \E d \in Owed(a, {"running"}) : row[d].linked

Wake(m, a) ==
    /\ <<m, a>> \in waking
    /\ waking' = waking \ {<<m, a>>}
    /\ IF Steered(a) THEN UNCHANGED <<scheduled, lost>>
       ELSE scheduled' = Scheduled({a}) /\ lost' = lost \ {a}
    /\ UNCHANGED <<log, active, row, phase, latest, sending, stopping, events>>

\* The runtime takes no message for the run: a CLI never does, the others not
\* once it has ended.  The rejection is a defect, the handler dies, and those of
\* its recipients it has not come to are not scheduled.
WakeDies(m, a) ==
    /\ <<m, a>> \in waking
    /\ Steered(a)
    /\ waking' = {w \in waking : w[1] # m}
    /\ lost' = lost \cup {b \in Agents \ scheduled : <<m, b>> \in waking /\ phase[b] = "idle"}
    /\ UNCHANGED <<log, active, row, scheduled, phase, latest, sending, stopping, events>>

-----------------------------------------------------------------------------
(* The drain of an agent.                                                  *)

Goto(a, where) == phase' = [phase EXCEPT ![a] = where]

Due(a) == {d \in Owed(a, {"pending"}) : row[d].due}

\* The wait of schedule is over.  The newest delivery that is due is taken, the
\* others are coalesced into it, and what the agent held is superseded.
Take(a) ==
    /\ a \in scheduled
    /\ scheduled' = scheduled \ {a}
    /\ phase[a] = "idle"
    /\ IF Due(a) = {}
       THEN Goto(a, "ending") /\ UNCHANGED <<row, latest>>
       ELSE \E d \in Due(a) :
              /\ \A other \in Due(a) : other[1] <= d[1]
              /\ row' = [e \in DOMAIN row |->
                           IF e = d THEN [row[e] EXCEPT !.status = "triaging", !.attempt = @ + 1]
                           ELSE IF e \in Due(a) THEN As("passed")
                           ELSE IF e \in Owed(a, {"held"}) THEN [row[e] EXCEPT !.status = "cancelled"]
                           ELSE row[e]]
              /\ latest' = [latest EXCEPT ![a] = d[1]]
              /\ Goto(a, "triaging")
    /\ UNCHANGED <<log, active, sending, waking, stopping, lost, events>>

Current(a) == <<latest[a], a>>

\* recentAgentTurns.
RecentAgentTurns ==
    Cardinality({m \in DOMAIN log : /\ m + MaxTurns >= Len(log)
                                    /\ \A later \in m .. Len(log) : log[later].author # Human})

\* The budget of turns is spent, the agent is gone, or it has nothing to say.
Decline(a) ==
    /\ phase[a] = "triaging"
    /\ row' = Settled(Current(a), "passed")
    /\ Goto(a, "ending")
    /\ UNCHANGED <<log, active, scheduled, latest, sending, waking, stopping, lost, events>>

\* The budget is read, here and never again, and the agent decides to speak.
Accept(a) ==
    /\ phase[a] = "triaging"
    /\ RecentAgentTurns < MaxTurns
    /\ row' = [row EXCEPT ![Current(a)].status = "running"]
    /\ Goto(a, "starting")
    /\ UNCHANGED <<log, active, scheduled, latest, sending, waking, stopping, lost, events>>

\* The run starts and agent_run_id is stored.
Start(a) ==
    /\ phase[a] = "starting"
    /\ row' = [row EXCEPT ![Current(a)].linked = TRUE]
    /\ Goto(a, "awaiting")
    /\ UNCHANGED <<log, active, scheduled, latest, sending, waking, stopping, lost, events>>

Others(a) == {m \in DOMAIN log : log[m].author # a}

\* Mutation: what was said since is not looked at.
NeverStale(a) == FALSE

\* Somebody else has spoken since the message the agent answers.
Stale(a) == \E m \in Others(a) : m > latest[a]

Hold(a) ==
    /\ phase[a] = "awaiting"
    /\ Stale(a)
    /\ row' = Settled(Current(a), "held")
    /\ Goto(a, "ending")
    /\ stopping' = stopping \ {a}
    /\ UNCHANGED <<log, active, scheduled, latest, sending, waking, lost, events>>

\* The reply repeats the last message of another agent, word for word.
Duplicate(a) ==
    /\ phase[a] = "awaiting"
    /\ ~Stale(a)
    /\ \E m \in Others(a) : log[m].author \in Agents /\ \A other \in Others(a) : other <= m
    /\ row' = Settled(Current(a), "passed")
    /\ Goto(a, "ending")
    /\ stopping' = stopping \ {a}
    /\ UNCHANGED <<log, active, scheduled, latest, sending, waking, lost, events>>

\* The reply, the end of its delivery and the new deliveries are one transaction.
Publish(a) ==
    /\ phase[a] = "awaiting"
    /\ ~Stale(a)
    /\ log' = Append(log, [author |-> a, thread |-> log[latest[a]].thread, to |-> latest[a]])
    /\ LET new == {Len(log) + 1} \X (Agents \ {a})
       IN row' = [d \in DOMAIN row \cup new |->
                    IF d = Current(a) THEN As("responded")
                    ELSE IF d \in DOMAIN row THEN row[d] ELSE New]
    /\ Goto(a, "publishing")
    /\ stopping' = stopping \ {a}
    /\ UNCHANGED <<active, scheduled, latest, sending, waking, lost, events>>

\* The recipients of the reply are scheduled.
ScheduleOthers(a) ==
    /\ phase[a] = "publishing"
    /\ scheduled' = Scheduled(Agents \ {a})
    /\ lost' = lost \ (Agents \ {a})
    /\ Goto(a, "ending")
    /\ UNCHANGED <<log, active, row, latest, sending, waking, stopping, events>>

\* Mutation: a failure leaves the delivery as it was.
FailIgnored(a) ==
    /\ \/ phase[a] \in {"triaging", "starting", "awaiting"} /\ Event
       \/ phase[a] = "stopped" /\ UNCHANGED events
    /\ Goto(a, "ending")
    /\ stopping' = stopping \ {a}
    /\ UNCHANGED <<log, active, row, scheduled, latest, sending, waking, lost>>

\* The turn cannot be prepared, the run does not start, or it fails: the delivery
\* the agent has open, if an interrupt left it one, is tried again later.
Fail(a) ==
    /\ \/ phase[a] \in {"triaging", "starting", "awaiting"} /\ Event
       \/ phase[a] = "stopped" /\ UNCHANGED events
    /\ LET open == Owed(a, {"triaging", "running"})
       IN IF open = {} THEN UNCHANGED row
          ELSE \E d \in open :
                 row' = [row EXCEPT ![d] = IF row[d].attempt < MaxAttempts THEN [@ EXCEPT !.status = "pending", !.due = FALSE]
                                           ELSE As("failed")]
    /\ Goto(a, "ending")
    /\ stopping' = stopping \ {a}
    /\ UNCHANGED <<log, active, scheduled, latest, sending, waking, lost>>

\* The time of the next attempt comes.
Cool(d) ==
    /\ d \in DOMAIN row
    /\ ~row[d].due
    /\ row' = [row EXCEPT ![d].due = TRUE]
    /\ UNCHANGED <<log, active, memory, events>>

\* Mutation: what came in meanwhile is left to others.
FinishUnchecked(a) ==
    /\ phase[a] = "ending"
    /\ Goto(a, "idle")
    /\ latest' = [latest EXCEPT ![a] = 0]
    /\ UNCHANGED <<log, active, row, scheduled, sending, waking, stopping, lost, events>>

\* running.delete and the look for what is still pending.
Finish(a) ==
    /\ phase[a] = "ending"
    /\ Goto(a, "idle")
    /\ latest' = [latest EXCEPT ![a] = 0]
    /\ scheduled' = IF Owed(a, {"pending"}) = {} THEN scheduled ELSE scheduled \cup {a}
    /\ UNCHANGED <<log, active, row, sending, waking, stopping, lost, events>>

-----------------------------------------------------------------------------
(* The founder interrupts a thread; the control plane restarts.            *)

\* The transaction of interruptThread.  A run whose id is not stored is not
\* stopped, and a drain does not look at its row again.
Interrupt(t) ==
    /\ Event
    /\ LET hit == {d \in DOMAIN row : /\ log[d[1]].thread = t
                                     /\ row[d].status \in {"pending", "triaging", "running", "held"}}
       IN /\ row' = [d \in DOMAIN row |-> IF d \in hit THEN [row[d] EXCEPT !.status = "cancelled"] ELSE row[d]]
          /\ stopping' = stopping \cup {a \in Agents : phase[a] = "awaiting" /\ Current(a) \in hit}
    /\ active' = active \ {t}
    /\ UNCHANGED <<log, scheduled, phase, latest, sending, waking, lost>>

\* The run is stopped, unless it has ended.
Stop(a) ==
    /\ a \in stopping
    /\ stopping' = stopping \ {a}
    /\ Goto(a, "stopped")
    /\ UNCHANGED <<log, active, row, scheduled, latest, sending, waking, lost, events>>

\* The process dies at any moment, and recover is the first to touch the rows.
Restart ==
    /\ Event
    /\ row' = [d \in DOMAIN row |->
                 CASE row[d].status \in {"triaging", "running"} -> [row[d] EXCEPT !.status = "pending", !.due = TRUE]
                   [] row[d].status = "held" -> [row[d] EXCEPT !.status = "cancelled"]
                   [] OTHER -> row[d]]
    /\ scheduled' = {a \in Agents : Owed(a, {"pending", "triaging", "running"}) # {}}
    /\ phase' = [a \in Agents |-> "idle"]
    /\ latest' = [a \in Agents |-> 0]
    /\ sending' = {}
    /\ waking' = {}
    /\ stopping' = {}
    /\ lost' = {}
    /\ UNCHANGED <<log, active>>

-----------------------------------------------------------------------------
DrainStep(a) ==
    \/ Take(a) \/ Decline(a) \/ Accept(a) \/ Start(a)
    \/ Hold(a) \/ Duplicate(a) \/ Publish(a) \/ ScheduleOthers(a) \/ Fail(a) \/ Finish(a)

Next ==
    \/ \E t \in Threads : Say(t) \/ Interrupt(t) \/ \E a \in Agents : Post(a, t)
    \/ \E m \in DOMAIN log : SayAgain(m) \/ Enqueue(m) \/ \E a \in Agents : Wake(m, a) \/ WakeDies(m, a)
    \/ \E a \in Agents : DrainStep(a) \/ Stop(a)
    \/ \E d \in DOMAIN row : Cool(d)
    \/ Restart

Spec == Init /\ [][Next]_vars

\* Handlers and drains go on, a wait is over some time, and an agent run ends one
\* way or another: that is assumed of the harness, the room has no timeout for it.
\* Founders, posts and crashes owe nothing.
Fairness ==
    /\ WF_vars(\E m \in DOMAIN log : Enqueue(m) \/ \E a \in Agents : Wake(m, a) \/ WakeDies(m, a))
    /\ \A a \in Agents : WF_vars(DrainStep(a)) /\ WF_vars(Stop(a))
    /\ WF_vars(\E d \in DOMAIN row : Cool(d))

FairSpec == Spec /\ Fairness

\* Less is enough for the room to come to rest: some handler or drain goes on.
SomeoneGoesOn ==
    \/ \E m \in DOMAIN log : Enqueue(m) \/ \E a \in Agents : Wake(m, a) \/ WakeDies(m, a)
    \/ \E a \in Agents : DrainStep(a) \/ Stop(a)

BusySpec == Spec /\ WF_vars(SomeoneGoesOn) /\ WF_vars(\E d \in DOMAIN row : Cool(d))

-----------------------------------------------------------------------------
\* A delivery that waits is never forgotten: its agent is scheduled, drains, or
\* is about to be scheduled by the handler or the reply that made it, whatever
\* schedule returned early on (room-runtime.ts:517-542); but for the agents a
\* handler that died was still to schedule, until somebody else does (581-585).
PendingIsAttended ==
    \A d \in DOMAIN row : row[d].status = "pending" =>
        \/ d[2] \in scheduled
        \/ phase[d[2]] # "idle"
        \/ d \in waking
        \/ \E a \in Agents : phase[a] = "publishing" /\ a # d[2]
        \/ d[2] \in lost

Replies(m, a) == {r \in DOMAIN log : log[r].to = m /\ log[r].author = a}

\* A delivery is answered once, and exactly if it says so, however often it was
\* sent, retried, interrupted or recovered (room-runtime.ts:361-471).
AnsweredOnce ==
    \A m \in DOMAIN log, a \in Agents :
        Cardinality(Replies(m, a)) = IF <<m, a>> \in DOMAIN row /\ row[<<m, a>>].status = "responded" THEN 1 ELSE 0

\* The agents never say more among themselves than their budget of turns, though
\* each reads the budget long before it replies (room-runtime.ts:113-126, 240).
TurnsAreBudgeted ==
    \A from \in DOMAIN log :
        (\A m \in from .. Len(log) : log[m].author # Human)
        => Cardinality({m \in from .. Len(log) : log[m].to # 0}) <= MaxTurns

\* A bound on the messages of the channel, by TurnsAreBudgeted.
Slots == 1 .. (MaxEvents + MaxSends * MaxTurns)
In(m, a, S) == <<m, a>> \in DOMAIN row /\ row[<<m, a>>].status \in S

\* What an agent owes, but for the messages it is not scheduled for.
Unsettled(a) == {"triaging", "running"} \cup (IF a \in lost THEN {} ELSE {"pending"})

\* The room comes to rest when nobody speaks: every delivery is answered, passed,
\* held, cancelled or, after its attempts, failed; only what an agent was not
\* scheduled for by a handler that died waits on (room-runtime.ts:480-531, 557-591).
DeliveriesEnd == []<>(\A a \in Agents : Owed(a, Unsettled(a)) = {})

\* What is held back as stale is taken up again with what was said since
\* (plans/2026-08-21-board-group-chat.md:76).
HeldIsRevisited == \A m \in Slots, a \in Agents : In(m, a, {"held"}) ~> ~In(m, a, {"held"})
=============================================================================
