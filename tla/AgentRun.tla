------------------------------ MODULE AgentRun ------------------------------
(***************************************************************************)
(* One durable Agent run: its agent_runs row with its agent_tool_calls, the*)
(* answers rows of the messages about it, and the Discord bot processes    *)
(* that execute it (DurableAgentService.answer, NexonAgentService.run,     *)
(* AgentRunStore).  The run belongs to the message `Ask`; the messages in  *)
(* `Resumes` name it with --agent-resume.  Runs share no rows, so one is   *)
(* enough.                                                                 *)
(*                                                                         *)
(* An action is one committed transaction together with the model or tool  *)
(* call before it.  A bot process handles one message at a time (the       *)
(* semaphore of MapleDiscordClient); a message may be delivered to it more *)
(* than once.  A tool call is identified by tool and arguments.            *)
(***************************************************************************)
EXTENDS Naturals, Sequences

CONSTANTS
    Bots,         \* bot processes
    Ask,          \* the message that asks with --agent
    Resumes,      \* the messages that ask to resume the run
    Strangers,    \* those of them sent by another user or in another guild
    Calls,        \* tool calls the model may choose
    MaxCalls,     \* max_tool_calls
    MaxDeliveries,\* bound on how often a message is delivered
    NoCall        \* no tool call is going on

Messages == {Ask} \cup Resumes

ASSUME AgentAssumption ==
    /\ Ask \notin Resumes
    /\ Strangers \subseteq Resumes
    /\ NoCall \notin Calls
    /\ MaxCalls \in Nat \ {0}
    /\ MaxDeliveries \in Nat

VARIABLES
    run,       \* the agent_runs row and its agent_tool_calls
    expired,   \* expires_at has passed
    answered,  \* messages that have an answers row
    replies,   \* how often each message was replied to on Discord
    delivered, \* how often each message was delivered
    bot        \* the bot processes

vars == <<run, expired, answered, replies, delivered, bot>>

-----------------------------------------------------------------------------

RunState == {"none", "queued", "running", "partial", "succeeded", "failed"}

\* planned: plan_json is not empty; calls: the recorded tool calls by
\* step_index, whose number is tool_call_count.
AgentRunRow == [state: RunState, planned: BOOLEAN, calls: Seq(Calls)]

NoRun == [state |-> "none", planned |-> FALSE, calls |-> <<>>]

Stages == {"idle", "open", "standalone", "plan", "decide", "record",
           "finish", "fail", "finish_failed", "reply"}

\* steps: the tool calls the model has seen; invalid: invalid_decisions;
\* call: the chosen tool call; ran: it was executed, not refused as repeated.
BotState == [pc: Stages, message: Messages, steps: Seq(Calls),
             invalid: {0, 1}, call: Calls \cup {NoCall}, ran: BOOLEAN]

Idle == [pc |-> "idle", message |-> Ask, steps |-> <<>>, invalid |-> 0,
         call |-> NoCall, ran |-> FALSE]

Init ==
    /\ run = NoRun
    /\ expired = FALSE
    /\ answered = {}
    /\ replies = [m \in Messages |-> 0]
    /\ delivered = [m \in Messages |-> 0]
    /\ bot = [b \in Bots |-> Idle]

At(b, stage) == bot[b].pc = stage

Goto(b, stage) == bot' = [bot EXCEPT ![b].pc = stage]

-----------------------------------------------------------------------------
(* A message arrives.  An answered one is a duplicate and ends here.       *)

\* Mutant: duplicates are not recognised.
DuplicateNever(m) == FALSE

Duplicate(m) == m \in answered

\* The id of the run is on the replies only, so it takes a reply to Ask to
\* send a message that resumes it.
Deliver(b, m) ==
    /\ At(b, "idle")
    /\ delivered[m] < MaxDeliveries
    /\ m \in Resumes => replies[Ask] > 0
    /\ delivered' = [delivered EXCEPT ![m] = @ + 1]
    /\ bot' = IF Duplicate(m) THEN bot
              ELSE [bot EXCEPT ![b].pc = "open", ![b].message = m]
    /\ UNCHANGED <<run, expired, answered, replies>>

\* Mutant: the recorded steps are not handed to the execution.
LoadForgetting(b) ==
    bot' = [bot EXCEPT ![b].pc = IF run.planned THEN "decide" ELSE "plan"]

\* The execution goes on where the stored run stopped.
Load(b) ==
    bot' = [bot EXCEPT ![b].pc = IF run.planned THEN "decide" ELSE "plan",
                       ![b].steps = run.calls]

\* AgentRunStore.create: a second delivery of Ask finds the run of the first,
\* whatever its state.
Create(b) ==
    /\ At(b, "open")
    /\ bot[b].message = Ask
    /\ run' = IF run.state = "none" THEN [run EXCEPT !.state = "queued"]
              ELSE run
    /\ Load(b)
    /\ UNCHANGED <<expired, answered, replies, delivered>>

\* Mutant: a run that has succeeded can be resumed.
ResumableAlways(m) == m \notin Strangers /\ ~expired

Resumable(m) ==
    /\ m \notin Strangers
    /\ ~expired
    /\ run.state # "succeeded"

Resume(b) ==
    /\ At(b, "open")
    /\ bot[b].message \in Resumes
    /\ IF Resumable(bot[b].message)
       THEN run' = [run EXCEPT !.state = "running"] /\ Load(b)
       ELSE UNCHANGED run /\ Goto(b, "standalone")
    /\ UNCHANGED <<expired, answered, replies, delivered>>

\* AgentRunAccessError: the refusal is stored as the answer.
StandaloneAnswer(b) ==
    /\ At(b, "standalone")
    /\ answered' = answered \cup {bot[b].message}
    /\ Goto(b, "reply")
    /\ UNCHANGED <<run, expired, replies, delivered>>

-----------------------------------------------------------------------------
(* Planning and the tool loop.                                             *)

\* The execution continues with the calls as save_plan read them.
SavePlan(b) ==
    /\ At(b, "plan")
    /\ run' = [run EXCEPT !.planned = TRUE, !.state = "running"]
    /\ bot' = [bot EXCEPT ![b].pc = "decide", ![b].steps = run.calls]
    /\ UNCHANGED <<expired, answered, replies, delivered>>

\* LLMUnavailable in the plan or in the loop, AgentPlanningError.
ModelFails(b) ==
    /\ bot[b].pc \in {"plan", "decide"}
    /\ Goto(b, "fail")
    /\ UNCHANGED <<run, expired, answered, replies, delivered>>

\* seen_calls.
Seen(steps) == {steps[i] : i \in DOMAIN steps}

\* Mutant: the budget is compared too late by one.
CallToolOneMore(b) ==
    /\ At(b, "decide")
    /\ Len(bot[b].steps) <= MaxCalls
    /\ \E c \in Calls :
         bot' = [bot EXCEPT ![b].pc = "record",
                            ![b].call = c,
                            ![b].ran = c \notin Seen(bot[b].steps),
                            ![b].steps = Append(@, c)]
    /\ UNCHANGED <<run, expired, answered, replies, delivered>>

\* The model chooses a tool; a repeated call is not executed but is a step.
CallTool(b) ==
    /\ At(b, "decide")
    /\ Len(bot[b].steps) < MaxCalls
    /\ \E c \in Calls :
         bot' = [bot EXCEPT ![b].pc = "record",
                            ![b].call = c,
                            ![b].ran = c \notin Seen(bot[b].steps),
                            ![b].steps = Append(@, c)]
    /\ UNCHANGED <<run, expired, answered, replies, delivered>>

\* Mutant: the step is forgotten before its checkpoint is written.
RecordToolCallEmpty(b) ==
    /\ At(b, "record")
    /\ bot' = [bot EXCEPT ![b].pc = "decide", ![b].call = NoCall,
                          ![b].ran = FALSE]
    /\ run' = [run EXCEPT !.calls = Append(@, bot'[b].call),
                          !.state = "partial"]
    /\ UNCHANGED <<expired, answered, replies, delivered>>

\* The checkpoint of the step: record_tool_call checks neither the budget nor
\* the state of the run.
RecordToolCall(b) ==
    /\ At(b, "record")
    /\ run' = [run EXCEPT !.calls = Append(@, bot[b].call),
                          !.state = "partial"]
    /\ bot' = [bot EXCEPT ![b].pc = "decide", ![b].call = NoCall,
                          ![b].ran = FALSE]
    /\ UNCHANGED <<expired, answered, replies, delivered>>

\* Mutant: every invalid decision is answered with a correction.
InvalidDecisionForgiven(b) ==
    /\ At(b, "decide")
    /\ Len(bot[b].steps) < MaxCalls
    /\ bot' = [bot EXCEPT ![b].invalid = 1 - @]
    /\ UNCHANGED <<run, expired, answered, replies, delivered>>

\* One correction; the second invalid decision ends the loop with a text.
InvalidDecision(b) ==
    /\ At(b, "decide")
    /\ Len(bot[b].steps) < MaxCalls
    /\ bot' = IF bot[b].invalid = 0 THEN [bot EXCEPT ![b].invalid = 1]
              ELSE [bot EXCEPT ![b].pc = "finish"]
    /\ UNCHANGED <<run, expired, answered, replies, delivered>>

\* The model answers; at the limit its answer ends the loop, valid or not.
Decide(b) ==
    /\ At(b, "decide")
    /\ Goto(b, "finish")
    /\ UNCHANGED <<run, expired, answered, replies, delivered>>

-----------------------------------------------------------------------------
(* The end of an execution.                                                *)

\* finish(succeeded=True) leaves the run alone if the answer exists.
Finish(b) ==
    /\ At(b, "finish")
    /\ run' = IF bot[b].message \in answered THEN run
              ELSE [run EXCEPT !.state = "succeeded"]
    /\ answered' = answered \cup {bot[b].message}
    /\ Goto(b, "reply")
    /\ UNCHANGED <<expired, replies, delivered>>

Fail(b) ==
    /\ At(b, "fail")
    /\ run' = [run EXCEPT !.state = "failed"]
    /\ Goto(b, "finish_failed")
    /\ UNCHANGED <<expired, answered, replies, delivered>>

\* finish(succeeded=False): the message is answered, the run stays failed.
FinishFailed(b) ==
    /\ At(b, "finish_failed")
    /\ answered' = answered \cup {bot[b].message}
    /\ Goto(b, "reply")
    /\ UNCHANGED <<run, expired, replies, delivered>>

Reply(b) ==
    /\ At(b, "reply")
    /\ replies' = [replies EXCEPT ![bot[b].message] = @ + 1]
    /\ bot' = [bot EXCEPT ![b] = Idle]
    /\ UNCHANGED <<run, expired, answered, delivered>>

\* The process dies, or an exception nobody catches (the database, Discord)
\* ends the handler: what was committed stays, the user hears nothing.
Break(b) ==
    /\ ~At(b, "idle")
    /\ bot' = [bot EXCEPT ![b] = Idle]
    /\ UNCHANGED <<run, expired, answered, replies, delivered>>

Expire ==
    /\ run.state # "none"
    /\ ~expired
    /\ expired' = TRUE
    /\ UNCHANGED <<run, answered, replies, delivered, bot>>

-----------------------------------------------------------------------------

\* What a bot does by itself once it handles a message.
Step(b) ==
    \/ Create(b) \/ Resume(b) \/ StandaloneAnswer(b)
    \/ SavePlan(b) \/ ModelFails(b) \/ CallTool(b) \/ RecordToolCall(b)
    \/ InvalidDecision(b) \/ Decide(b)
    \/ Finish(b) \/ Fail(b) \/ FinishFailed(b) \/ Reply(b)

Next ==
    \/ \E b \in Bots : \/ \E m \in Messages : Deliver(b, m)
                       \/ Step(b)
                       \/ Break(b)
    \/ Expire

\* Model, tool and database calls return (they have timeouts).
Spec == Init /\ [][Next]_vars /\ \A b \in Bots : WF_vars(Step(b))

-----------------------------------------------------------------------------

TypeOK ==
    /\ run \in AgentRunRow
    /\ expired \in BOOLEAN
    /\ answered \subseteq Messages
    /\ replies \in [Messages -> Nat]
    /\ delivered \in [Messages -> 0..MaxDeliveries]
    /\ bot \in [Bots -> BotState]

\* With one bot process a run never records more tool calls than its budget,
\* over all its executions: deliveries, crashes, failures and resumes
\* included, although record_tool_call compares nothing with max_tool_calls
\* (docs/nexon-open-api-agent.md:82).
BudgetRespected == Len(run.calls) <= MaxCalls

\* With one bot process a tool call that has been recorded is not executed
\* again for this run, in this execution or in a later one (seen_calls,
\* prior_steps; docs/nexon-open-api-agent.md:108).  A call that was executed
\* but not recorded may be.
RecordedNotRepeated ==
    \A b \in Bots :
        bot[b].ran => bot[b].call \notin Seen(run.calls)

\* With one bot process a message gets at most one reply, however often it is
\* delivered (existing_answer, and the answers row written before replying).
RepliedOnce == \A m \in Messages : replies[m] <= 1

\* With one bot process a run that succeeded is never executed again: no late
\* message, resume or failure of another execution touches it.
SucceededIsFinal ==
    [][run.state = "succeeded" => UNCHANGED run]_vars

\* Every message is dealt with: the planning and tool loops of an execution
\* end, however the model behaves, so the next message gets its turn.
HandlerReturns == \A b \in Bots : ~At(b, "idle") ~> At(b, "idle")

=============================================================================
