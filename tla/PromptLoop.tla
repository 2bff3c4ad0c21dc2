------------------------------ MODULE PromptLoop ------------------------------
(***************************************************************************)
(* The loop of a session's main agent: SessionPrompt.prompt writes a user   *)
(* message and joins or starts the one run of the session, Inbox.send       *)
(* leaves a note and wakes the loop, agent messages wait to be drained, and *)
(* before it stops a run passes the task gate and the goal gate.  Messages  *)
(* are ordered by their ids, which are taken before the message is written. *)
(*                                                                         *)
(* The runner that serializes runs is SessionRunState; here a run is there  *)
(* from the call that starts it until its callers are answered.             *)
(***************************************************************************)
EXTENDS Naturals, FiniteSets

CONSTANTS
    Prompts,          \* calls of prompt
    Notes,            \* rows sent to the inbox
    Mail,             \* agent messages sent to the main agent
    Goals,            \* conditions set with /goal
    NoGoal,           \* no goal
    Fresh,            \* does the session start without messages
    MaxDrain,         \* MAX_DRAIN_PER_TURN
    MaxTaskReact,     \* MAX_TASK_GATE_MAIN_REACT
    MaxGoalReact,     \* MAX_GOAL_REACT
    MaxToolSteps,     \* bound: steps of the model that end in tool calls
    MaxMessages,      \* bound: messages of the session
    MaxInterruptions  \* bound: cancels and crashes

ASSUME PromptLoopAssumption ==
    /\ NoGoal \notin Goals
    /\ Fresh \in BOOLEAN
    /\ MaxDrain \in Nat \ {0}
    /\ {MaxTaskReact, MaxGoalReact, MaxToolSteps, MaxMessages, MaxInterruptions} \subseteq Nat

VARIABLES
    clock,    \* the last message id taken
    user,     \* the id of the last user message, 0 if there is none
    reply,    \* the last assistant message and how its step ended
    prompt,   \* what each call of prompt is doing, and the id it took
    note,     \* how far each Inbox.send is
    inbox,    \* the rows of the inbox
    rendered, \* how often each row has been written into a message
    unread,   \* agent messages not marked as read
    mailed,   \* agent messages sent
    goal,     \* the active goal and its re-entries
    goals,    \* the goals that have been set
    tasks,    \* are there open or started tasks in the session
    nudged,   \* the counter of the task gate
    run,      \* the run, its place in the loop and what it has read
    shown,    \* what has been part of the input of a step of the model
    tools,    \* steps that ended in tool calls
    interrupts \* cancels and crashes

messages == <<clock, user, reply>>
callers  == <<prompt, note>>
mailbox  == <<inbox, rendered, unread, mailed>>
gates    == <<goal, goals, tasks, nudged>>
bounds   == <<tools, interrupts>>
vars     == <<messages, callers, mailbox, gates, run, shown, bounds>>

-----------------------------------------------------------------------------
\* A run that has read nothing.
RunAt(pc, nudges) ==
    [pc |-> pc, rows |-> {}, seen |-> {}, mail |-> {}, goal |-> NoGoal, nudges |-> nudges]

NoRun == RunAt("none", 0)

\* A run enters the loop at its head.
Run(nudges) == RunAt("head", nudges)

NoActiveGoal == [condition |-> NoGoal, react |-> 0]

RunState ==
    [pc : {"none", "head", "render", "delete", "mail", "read", "ready", "step", "taskGate",
           "goalGate", "judge", "nudge", "ending", "dead"},
     rows : SUBSET Notes, seen : SUBSET Prompts, mail : SUBSET Mail,
     goal : Goals \cup {NoGoal}, nudges : Nat]

HoldsRows(run_) == (run_.rows # {}) = (run_.pc \in {"render", "delete"})

\* The types; rows are held just while they are rendered and deleted, and no
\* message has an id that was not handed out.
TypeOK ==
    /\ {clock, user, reply.id, nudged, tools, interrupts} \subseteq Nat
    /\ reply \in [id : Nat, end : {"none", "open", "tool", "final", "failed"}]
    /\ prompt \in [Prompts -> [pc : {"new", "preparing", "written", "waiting", "answered", "broken"}, id : Nat]]
    /\ note \in [Notes -> {"new", "inserted", "sent"}]
    /\ inbox \subseteq Notes
    /\ rendered \in [Notes -> Nat]
    /\ unread \subseteq mailed
    /\ mailed \subseteq Mail
    /\ goal \in [condition : Goals \cup {NoGoal}, react : Nat]
    /\ goals \subseteq Goals
    /\ tasks \in BOOLEAN
    /\ run \in RunState
    /\ HoldsRows(run)
    /\ {user, reply.id} \cup {prompt[p].id : p \in Prompts} \subseteq 0..clock
    /\ shown \subseteq Prompts \cup Mail

\* A session without messages, or one that has answered a first message.
Init ==
    /\ clock = IF Fresh THEN 0 ELSE 2
    /\ user = IF Fresh THEN 0 ELSE 1
    /\ reply = IF Fresh THEN [id |-> 0, end |-> "none"] ELSE [id |-> 2, end |-> "final"]
    /\ prompt = [p \in Prompts |-> [pc |-> "new", id |-> 0]]
    /\ note = [n \in Notes |-> "new"]
    /\ inbox = {} /\ rendered = [n \in Notes |-> 0]
    /\ unread = {} /\ mailed = {}
    /\ goal = NoActiveGoal /\ goals = {}
    /\ tasks \in BOOLEAN
    /\ nudged = 0
    /\ run = NoRun
    /\ shown = {}
    /\ tools = 0 /\ interrupts = 0

NextId == clock + 1

\* MessageID.ascending, and a user message written with that id.
WriteUser ==
    /\ clock < MaxMessages
    /\ clock' = NextId
    /\ user' = NextId
    /\ UNCHANGED reply


\* ensureRunning: a run that is there is joined, and the work given is dropped.
JoinOrStart == run' = IF run.pc = "none" THEN Run(0) ELSE run

-----------------------------------------------------------------------------
(* prompt, Inbox.send, agent messages, /goal.                              *)

\* createUserMessage takes the id and then resolves the parts of the message.
Prepare(p) ==
    /\ prompt[p].pc = "new"
    /\ clock < MaxMessages
    /\ clock' = NextId
    /\ prompt' = [prompt EXCEPT ![p] = [pc |-> "preparing", id |-> NextId]]
    /\ UNCHANGED <<user, reply, note, mailbox, gates, run, shown, bounds>>

WritePrompt(p) ==
    /\ prompt[p].pc = "preparing"
    /\ prompt' = [prompt EXCEPT ![p].pc = "written"]
    /\ user' = IF prompt[p].id > user THEN prompt[p].id ELSE user
    /\ UNCHANGED <<clock, reply, note, mailbox, gates, run, shown, bounds>>

Loop(p) ==
    /\ prompt[p].pc = "written"
    /\ prompt' = [prompt EXCEPT ![p].pc = "waiting"]
    /\ JoinOrStart
    /\ UNCHANGED <<messages, note, mailbox, gates, shown, bounds>>

InsertNote(n) ==
    /\ note[n] = "new"
    /\ note' = [note EXCEPT ![n] = "inserted"]
    /\ inbox' = inbox \cup {n}
    /\ UNCHANGED <<messages, prompt, rendered, unread, mailed, gates, run, shown, bounds>>

\* The forked wake calls the loop and ignores its result.
Wake(n) ==
    /\ note[n] = "inserted"
    /\ note' = [note EXCEPT ![n] = "sent"]
    /\ JoinOrStart
    /\ UNCHANGED <<messages, prompt, mailbox, gates, shown, bounds>>

\* AgentMessage.create wakes nobody.
SendMail(m) ==
    /\ m \notin mailed
    /\ mailed' = mailed \cup {m}
    /\ unread' = unread \cup {m}
    /\ UNCHANGED <<messages, callers, inbox, rendered, gates, run, shown, bounds>>

SetGoal(g) ==
    /\ g \notin goals
    /\ goals' = goals \cup {g}
    /\ goal' = [condition |-> g, react |-> 0]
    /\ UNCHANGED <<messages, callers, mailbox, tasks, nudged, run, shown, bounds>>

\* "/goal clear".
ClearGoal ==
    /\ goal # NoActiveGoal
    /\ goal' = NoActiveGoal
    /\ UNCHANGED <<messages, callers, mailbox, goals, tasks, nudged, run, shown, bounds>>

-----------------------------------------------------------------------------
(* The head of the loop.                                                   *)

At(pc) == run.pc = pc

\* The oldest rows of the inbox, or all of them; ids made in the same
\* millisecond are in no order.
Batch(rows) ==
    /\ rows \subseteq inbox
    /\ Cardinality(rows) = IF Cardinality(inbox) > MaxDrain THEN MaxDrain ELSE Cardinality(inbox)

\* Mutation: an empty inbox is drained too.
EmptyToo(rows) == user = 0 /\ reply.id = 0

\* There is nothing to drain, or no message to take agent and model from.
Deferred(rows) == rows = {} \/ (user = 0 /\ reply.id = 0)

SelectRows ==
    /\ At("head")
    /\ \E rows \in SUBSET inbox :
         /\ Batch(rows)
         /\ run' = IF Deferred(rows)
                   THEN [run EXCEPT !.pc = "mail"]
                   ELSE [run EXCEPT !.pc = "render", !.rows = rows]
    /\ UNCHANGED <<messages, callers, mailbox, gates, shown, bounds>>

RenderRows ==
    /\ At("render")
    /\ WriteUser
    /\ rendered' = [n \in Notes |-> IF n \in run.rows THEN rendered[n] + 1 ELSE rendered[n]]
    /\ run' = [run EXCEPT !.pc = "delete"]
    /\ UNCHANGED <<callers, inbox, unread, mailed, gates, shown, bounds>>

\* Mutation: the rows are left for the next drain.
NothingDeleted == {}

Drained == run.rows

\* Mutation: the rows are deleted before a message carries them.
DeleteSelected ==
    /\ At("render")
    /\ inbox' = inbox \ Drained
    /\ run' = [run EXCEPT !.pc = "mail", !.rows = {}]
    /\ UNCHANGED <<messages, callers, rendered, unread, mailed, gates, shown, bounds>>

DeleteRows ==
    /\ At("delete")
    /\ inbox' = inbox \ Drained
    /\ run' = [run EXCEPT !.pc = "mail", !.rows = {}]
    /\ UNCHANGED <<messages, callers, rendered, unread, mailed, gates, shown, bounds>>

\* drainUnread marks the messages as read and hands over their text.
DrainUnread ==
    /\ At("mail")
    /\ run' = [run EXCEPT !.pc = "read", !.mail = unread]
    /\ unread' = {}
    /\ UNCHANGED <<messages, callers, inbox, rendered, mailed, gates, shown, bounds>>

Written(p) == prompt[p].pc \notin {"new", "preparing"} /\ prompt[p].id # 0

\* classifyAssistantStep of the last assistant message: unless its step ended
\* with the last word after the last user message, there is work to do.
Classify ==
    IF reply.id < user \/ reply.end \in {"none", "open", "tool"} THEN "continue"
    ELSE reply.end

\* The messages are read, the agent messages are put into the last user
\* message of what was read, and the last step is classified.
ReadMessages ==
    /\ At("read")
    /\ run' = [run EXCEPT !.seen = {p \in Prompts : Written(p)},
                          !.pc = IF user = 0 THEN "dead"
                                 ELSE IF Classify = "continue" THEN "ready"
                                 ELSE IF Classify = "final" THEN "taskGate"
                                 ELSE "ending"]
    /\ UNCHANGED <<messages, callers, mailbox, gates, shown, bounds>>

\* The assistant message is written before the model is called with what was read.
StartStep ==
    /\ At("ready")
    /\ clock < MaxMessages
    /\ clock' = NextId
    /\ reply' = [id |-> NextId, end |-> "open"]
    /\ shown' = shown \cup run.seen \cup run.mail
    /\ run' = [run EXCEPT !.pc = "step"]
    /\ UNCHANGED <<user, callers, mailbox, gates, bounds>>

\* After tool calls the loop goes on; an error, a refused tool or a structured
\* answer leaves it through the gates, any other answer through its head.
After(end) ==
    CASE end = "tool" -> {Run(run.nudges)}
      [] end = "final" -> {Run(run.nudges), [run EXCEPT !.pc = "taskGate"]}
      [] end = "failed" -> {[run EXCEPT !.pc = "taskGate"]}

\* The step ends in tool calls, in an answer, or in an error.  The model, or an
\* agent it has started, changes the task board.
EndStep(end) ==
    /\ At("step")
    /\ end = "tool" => tools < MaxToolSteps
    /\ reply' = [reply EXCEPT !.end = end]
    /\ tools' = IF end = "tool" THEN tools + 1 ELSE tools
    /\ tasks' \in BOOLEAN
    /\ run' \in After(end)
    /\ UNCHANGED <<clock, user, callers, mailbox, goal, goals, nudged, shown, interrupts>>

-----------------------------------------------------------------------------
(* The gates.                                                              *)

\* Mutation: the counter is not compared with the cap.
NoTaskCap(count) == TRUE

TaskReactLeft(count) == count < MaxTaskReact

\* taskGate: open tasks and a nudge left.  The list fails open.
TaskGate ==
    /\ At("taskGate")
    /\ \E listed \in {tasks, FALSE} :
         IF listed /\ TaskReactLeft(nudged)
         THEN /\ nudged' = nudged + 1
              /\ run' = [run EXCEPT !.pc = "nudge"]
         ELSE /\ nudged' = 0
              /\ run' = [run EXCEPT !.pc = "goalGate"]
    /\ UNCHANGED <<messages, callers, mailbox, goal, goals, tasks, shown, bounds>>

\* goalGate: the judge is asked about the goal there is now.
GoalGate ==
    /\ At("goalGate")
    /\ run' = IF goal = NoActiveGoal THEN [run EXCEPT !.pc = "ending"]
              ELSE [run EXCEPT !.pc = "judge", !.goal = goal.condition]
    /\ UNCHANGED <<messages, callers, mailbox, gates, shown, bounds>>

\* Mutation: the goal is left, and the gates are asked again.
SatisfiedAgain ==
    /\ At("judge")
    /\ run' = [run EXCEPT !.pc = "taskGate"]
    /\ UNCHANGED <<messages, callers, mailbox, gates, shown, bounds>>

\* The verdict, or a judge that failed: the goal is cleared and the run may stop.
Satisfied ==
    /\ At("judge")
    /\ goal' = NoActiveGoal
    /\ run' = [run EXCEPT !.pc = "ending"]
    /\ UNCHANGED <<messages, callers, mailbox, goals, tasks, nudged, shown, bounds>>

\* bumpReact, which finds no goal if it was cleared meanwhile.
BumpReact(g) == IF g = NoActiveGoal THEN g ELSE [g EXCEPT !.react = @ + 1]

NotSatisfied ==
    /\ At("judge")
    /\ LET bumped == BumpReact(goal)
       IN IF bumped.react > MaxGoalReact
          THEN /\ goal' = NoActiveGoal
               /\ run' = [run EXCEPT !.pc = "ending"]
          ELSE /\ goal' = bumped
               /\ run' = [run EXCEPT !.pc = "nudge"]
    /\ UNCHANGED <<messages, callers, mailbox, goals, tasks, nudged, shown, bounds>>

\* The user message a gate writes to go on.
Nudge ==
    /\ At("nudge")
    /\ WriteUser
    /\ run' = Run(run.nudges + 1)
    /\ UNCHANGED <<callers, mailbox, gates, shown, bounds>>

-----------------------------------------------------------------------------
(* The end of a run.                                                       *)

\* Whoever waits for the run gets the last assistant message.
Answered(how) == [p \in Prompts |-> IF prompt[p].pc = "waiting" THEN [prompt[p] EXCEPT !.pc = how] ELSE prompt[p]]

\* A run that found no user message dies.
EndRun ==
    /\ run.pc \in {"ending", "dead"}
    /\ run' = NoRun
    /\ prompt' = Answered(IF At("dead") THEN "broken" ELSE "answered")
    /\ UNCHANGED <<messages, note, mailbox, gates, shown, bounds>>

\* SessionPrompt.cancel, or the run dies.
Cancel ==
    /\ run.pc # "none"
    /\ interrupts < MaxInterruptions
    /\ interrupts' = interrupts + 1
    /\ run' = NoRun
    /\ prompt' = Answered("broken")
    /\ UNCHANGED <<messages, note, mailbox, gates, shown, tools>>

\* The process dies and comes back: messages, inbox and agent messages are in
\* the database, the goal and the counter are not, and nothing is woken.
Crash ==
    /\ interrupts < MaxInterruptions
    /\ interrupts' = interrupts + 1
    /\ run' = NoRun
    /\ prompt' = [p \in Prompts |->
                    IF prompt[p].pc = "preparing" THEN [pc |-> "broken", id |-> 0]
                    ELSE IF prompt[p].pc \in {"written", "waiting"} THEN [prompt[p] EXCEPT !.pc = "broken"]
                    ELSE prompt[p]]
    /\ note' = [n \in Notes |-> IF note[n] = "inserted" THEN "sent" ELSE note[n]]
    /\ goal' = NoActiveGoal
    /\ nudged' = 0
    /\ UNCHANGED <<messages, mailbox, goals, tasks, shown, tools>>

-----------------------------------------------------------------------------
PromptStep(p) == WritePrompt(p) \/ Loop(p)
LoopStep == \/ SelectRows \/ RenderRows \/ DeleteRows \/ DrainUnread \/ ReadMessages
            \/ StartStep \/ (\E end \in {"tool", "final", "failed"} : EndStep(end))
            \/ TaskGate \/ GoalGate \/ Satisfied \/ NotSatisfied \/ Nudge \/ EndRun

Next ==
    \/ \E p \in Prompts : Prepare(p) \/ PromptStep(p)
    \/ \E n \in Notes : InsertNote(n) \/ Wake(n)
    \/ \E m \in Mail : SendMail(m)
    \/ \E g \in Goals : SetGoal(g)
    \/ ClearGoal
    \/ LoopStep
    \/ Cancel
    \/ Crash

Spec == Init /\ [][Next]_vars

\* A call that can go on does; a step of the model ends, as does the judge's.
Fairness ==
    /\ \A p \in Prompts : WF_vars(PromptStep(p))
    /\ \A n \in Notes : WF_vars(Wake(n))
    /\ WF_vars(LoopStep)

FairSpec == Spec /\ Fairness

-----------------------------------------------------------------------------
(* Safety.                                                                 *)

\* A note that was accepted is in the inbox until a message carries it, though
\* it may arrive while older rows are being drained and a run may be cancelled,
\* or the process die, anywhere.
NotesAreKept == \A n \in Notes : note[n] # "new" => n \in inbox \/ rendered[n] > 0

\* The model is told a note twice only if a drain was cut short before it could
\* delete the rows.
RepeatsNeedInterruption == \A n \in Notes : rendered[n] <= interrupts + 1

\* However the gates take turns, a run is sent back a bounded number of times:
\* the task gate may nudge again after each nudge of the goal gate, which has
\* its own cap and one nudge more for a goal cleared under the judge's hands.
NudgesAreBounded ==
    run.nudges < (MaxTaskReact + 1) * ((MaxGoalReact + 1) * Cardinality(goals) + 1)

(* Liveness, under FairSpec.                                               *)

\* A run ends, whatever the task board and the judge say: the gates never trap
\* the user, and neither do notes that keep arriving.
RunsEnd == run.pc # "none" ~> run.pc = "none"


-----------------------------------------------------------------------------
(* What the code says of itself.                                           *)

\* The test "prompt submitted during an active run is included in the next LLM
\* input": a prompt that is answered has been shown to the model.
PromptsAreShown == \A p \in Prompts : prompt[p].pc = "answered" => p \in shown
=============================================================================
