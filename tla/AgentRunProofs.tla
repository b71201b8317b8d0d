--------------------------- MODULE AgentRunProofs ---------------------------
(***************************************************************************)
(* Proofs about AgentRun.  With one bot process, for every budget, set of  *)
(* tool calls and of messages and every number of deliveries: the budget is*)
(* respected, no recorded call is repeated, a message is replied to at most*)
(* once, and a run that succeeded is never touched again.                  *)
(***************************************************************************)
EXTENDS AgentRun, TLAPS

OneBot == \E b \in Bots : Bots = {b}

-----------------------------------------------------------------------------
(* The inductive invariant.  What a bot has in memory agrees with the rows *)
(* at every step, because nobody else writes them.                         *)

\* The tool loop sees exactly the recorded calls; while a step is not yet
\* recorded it is one ahead of them.
MemoryAgrees ==
    \A b \in Bots :
        /\ At(b, "decide") => bot[b].steps = run.calls
        /\ At(b, "record") => /\ bot[b].call \in Calls
                              /\ Len(run.calls) < MaxCalls
                              /\ bot[b].steps = Append(run.calls, bot[b].call)
        /\ bot[b].ran => At(b, "record")

Working == {"open", "standalone", "plan", "decide", "record", "finish",
            "fail", "finish_failed"}

\* A message is answered when it is being replied to, and not before.
AnsweredBeforeReply ==
    /\ \A b \in Bots :
         /\ bot[b].pc \in Working => bot[b].message \notin answered
         /\ At(b, "reply") => /\ bot[b].message \in answered
                              /\ replies[bot[b].message] = 0
    /\ \A m \in Messages : replies[m] > 0 => m \in answered

Executing == {"plan", "decide", "record", "finish", "fail", "finish_failed"}

\* Nobody executes a run that succeeded: Ask has its answer by then, and a
\* message that resumes the run looks at its state.
ExecutedIsOpen ==
    /\ \A b \in Bots :
         /\ bot[b].pc \in Executing => run.state # "succeeded"
         /\ ~At(b, "idle") /\ bot[b].message \in Resumes => Ask \in answered
    /\ run.state = "succeeded" => Ask \in answered

IInv ==
    /\ TypeOK
    /\ BudgetRespected
    /\ RecordedNotRepeated
    /\ RepliedOnce
    /\ MemoryAgrees
    /\ AnsweredBeforeReply
    /\ ExecutedIsOpen

-----------------------------------------------------------------------------
(* Updates of a bot keep its type.                                         *)

LEMMA SetPc ==
    ASSUME NEW r \in BotState, NEW s \in Stages
    PROVE  [r EXCEPT !.pc = s] \in BotState
  BY DEF BotState

LEMMA SetInvalid ==
    ASSUME NEW r \in BotState
    PROVE  [r EXCEPT !.invalid = 1] \in BotState
  BY DEF BotState

LEMMA SetMessage ==
    ASSUME NEW r \in BotState, NEW s \in Stages, NEW m \in Messages
    PROVE  [r EXCEPT !.pc = s, !.message = m] \in BotState
  BY DEF BotState

LEMMA SetSteps ==
    ASSUME NEW r \in BotState, NEW s \in Stages, NEW t \in Seq(Calls)
    PROVE  [r EXCEPT !.pc = s, !.steps = t] \in BotState
  BY DEF BotState

LEMMA SetCall ==
    ASSUME NEW r \in BotState, NEW s \in Stages, NEW e \in BOOLEAN,
           NEW c \in Calls \cup {NoCall}
    PROVE  [r EXCEPT !.pc = s, !.call = c, !.ran = e] \in BotState
  BY DEF BotState

LEMMA SetStep ==
    ASSUME NEW r \in BotState, NEW s \in Stages, NEW e \in BOOLEAN,
           NEW c \in Calls \cup {NoCall}, NEW t \in Seq(Calls)
    PROVE  [r EXCEPT !.pc = s, !.call = c, !.ran = e, !.steps = t]
             \in BotState
  BY DEF BotState

LEMMA IdleType == Idle \in BotState
  BY DEF Idle, BotState, Stages, Messages

LEMMA UpdateBot ==
    ASSUME NEW b \in Bots, NEW r \in BotState, NEW f \in [Bots -> BotState]
    PROVE  [f EXCEPT ![b] = r] \in [Bots -> BotState]
  OBVIOUS

-----------------------------------------------------------------------------
(* Every action keeps the invariant.                                       *)

LEMMA DeliverStep ==
    ASSUME NEW b \in Bots, Bots = {b}, NEW m \in Messages, IInv, Deliver(b, m)
    PROVE  IInv'
<1> USE DEF At, Messages
<1>0. TypeOK
  BY DEF IInv
<1>1. TypeOK'
  <2>1. "open" \in Stages
      BY DEF Stages
  <2>2. [bot[b] EXCEPT !.pc = "open", !.message = m] \in BotState
      BY <1>0, <2>1, SetMessage DEF TypeOK
  <2>3. bot' \in [Bots -> BotState]
    <3>1. CASE bot' = bot
        BY <1>0, <3>1 DEF TypeOK
    <3>2. CASE bot' = [bot EXCEPT ![b] =
                        [bot[b] EXCEPT !.pc = "open", !.message = m]]
        BY <1>0, <2>2, <3>2, UpdateBot DEF TypeOK
    <3> QED
        BY <3>1, <3>2 DEF Deliver
  <2> QED
      BY <1>0, AgentAssumption, <2>3 DEF Deliver, TypeOK, AgentAssumption,
         BotState
<1>2. MemoryAgrees'
  BY <1>0, AgentAssumption
  DEF IInv, TypeOK, Deliver, Duplicate, AgentAssumption, MemoryAgrees,
      BudgetRespected, BotState, AgentRunRow
<1>3. AnsweredBeforeReply'
  BY <1>0, AgentAssumption
  DEF IInv, TypeOK, Deliver, Duplicate, AgentAssumption, AnsweredBeforeReply,
      BotState, Working
<1>4. ExecutedIsOpen'
  BY <1>0, AgentAssumption
  DEF IInv, TypeOK, Deliver, Duplicate, AgentAssumption, ExecutedIsOpen,
      BotState, AnsweredBeforeReply, Executing, Working
<1>5. BudgetRespected' /\ RecordedNotRepeated'
  BY <1>0 DEF IInv, TypeOK, Deliver, Duplicate, MemoryAgrees, BudgetRespected,
     RecordedNotRepeated, Seen, BotState, AgentRunRow
<1>6. RepliedOnce'
  BY <1>0, AgentAssumption
  DEF IInv, TypeOK, Deliver, Duplicate, AgentAssumption, AnsweredBeforeReply,
      BotState, RepliedOnce
<1> QED
  BY <1>1, <1>2, <1>3, <1>4, <1>5, <1>6 DEF IInv

LEMMA CreateStep ==
    ASSUME NEW b \in Bots, Bots = {b}, IInv, Create(b)
    PROVE  IInv'
<1> USE DEF At, Messages
<1>0. TypeOK
  BY DEF IInv
<1>1. TypeOK'
  <2>1. bot' = [bot EXCEPT ![b] = [bot[b] EXCEPT
                 !.pc = IF run.planned THEN "decide" ELSE "plan",
                 !.steps = run.calls]]
      BY DEF Create, Load
  <2>2. {"decide", "plan"} \subseteq Stages
      BY DEF Stages
  <2>3. bot' \in [Bots -> BotState]
      BY <1>0, <2>1, <2>2, SetSteps, UpdateBot DEF TypeOK, AgentRunRow
  <2>4. run' \in AgentRunRow
      BY <1>0 DEF Create, TypeOK, AgentRunRow, RunState
  <2> QED
      BY <1>0, AgentAssumption, <2>3, <2>4 DEF Create, TypeOK, AgentAssumption,
         BotState
<1>2. MemoryAgrees'
  BY <1>0, AgentAssumption
  DEF IInv, TypeOK, Create, Load, AgentAssumption, MemoryAgrees,
      BudgetRespected, BotState, AgentRunRow
<1>3. AnsweredBeforeReply'
  BY <1>0, AgentAssumption
  DEF IInv, TypeOK, Create, Load, AgentAssumption, AnsweredBeforeReply,
      BotState, Working
<1>4. ExecutedIsOpen'
  BY <1>0, AgentAssumption
  DEF IInv, TypeOK, Create, Load, AgentAssumption, ExecutedIsOpen, BotState,
      AnsweredBeforeReply, Executing, Working
<1>5. BudgetRespected' /\ RecordedNotRepeated'
  BY <1>0 DEF IInv, TypeOK, Create, Load, MemoryAgrees, BudgetRespected,
     RecordedNotRepeated, Seen, BotState, AgentRunRow
<1>6. RepliedOnce'
  BY <1>0, AgentAssumption
  DEF IInv, TypeOK, Create, Load, AgentAssumption, AnsweredBeforeReply,
      BotState, RepliedOnce
<1> QED
  BY <1>1, <1>2, <1>3, <1>4, <1>5, <1>6 DEF IInv

LEMMA ResumeStep ==
    ASSUME NEW b \in Bots, Bots = {b}, IInv, Resume(b)
    PROVE  IInv'
<1> USE DEF At, Messages
<1>0. TypeOK
  BY DEF IInv
<1>1. TypeOK'
  <2>3. bot' \in [Bots -> BotState]
    <3>1. CASE Resumable(bot[b].message)
      <4>1. bot' = [bot EXCEPT ![b] = [bot[b] EXCEPT
                     !.pc = IF run.planned THEN "decide" ELSE "plan",
                     !.steps = run.calls]]
          BY <3>1 DEF Resume, Load
      <4>2. {"decide", "plan"} \subseteq Stages
          BY DEF Stages
      <4> QED
          BY <1>0, <4>1, <4>2, SetSteps, UpdateBot DEF TypeOK, AgentRunRow
    <3>2. CASE ~Resumable(bot[b].message)
      <4>1. bot' = [bot EXCEPT ![b] = [bot[b] EXCEPT !.pc = "standalone"]]
          BY <3>2 DEF Resume, Goto
      <4>2. "standalone" \in Stages
          BY DEF Stages
      <4> QED
          BY <1>0, <4>1, <4>2, SetPc, UpdateBot DEF TypeOK
    <3> QED
        BY <3>1, <3>2
  <2>4. run' \in AgentRunRow
      BY <1>0 DEF Resume, TypeOK, AgentRunRow, RunState
  <2> QED
      BY <1>0, AgentAssumption, <2>3, <2>4 DEF Resume, TypeOK, AgentAssumption,
         BotState
<1>2. MemoryAgrees'
  <2>1. CASE Resumable(bot[b].message)
    <3>1. run'.calls = run.calls /\ bot'[b].steps = run.calls
        BY <1>0, <2>1 DEF Resume, Load, TypeOK, AgentRunRow, BotState
    <3>2. bot'[b].pc \in {"plan", "decide"} /\ ~bot'[b].ran
        BY <1>0, <2>1 DEF IInv, MemoryAgrees, Resume, Load, TypeOK, BotState
    <3> QED
        BY <3>1, <3>2 DEF MemoryAgrees
  <2>2. CASE ~Resumable(bot[b].message)
      BY <1>0, <2>2 DEF IInv, MemoryAgrees, Resume, Goto, TypeOK, BotState
  <2> QED
      BY <2>1, <2>2
<1>3. AnsweredBeforeReply'
  BY <1>0, AgentAssumption
  DEF IInv, TypeOK, Resume, Resumable, Load, Goto, AgentAssumption,
      AnsweredBeforeReply, BotState, Working
<1>4. ExecutedIsOpen'
  <2>1. CASE Resumable(bot[b].message)
    <3>1. run'.state = "running"
        BY <1>0, <2>1 DEF Resume, TypeOK, AgentRunRow
    <3>2. Ask \in answered
        BY DEF IInv, ExecutedIsOpen, Resume
    <3> QED
        BY <3>1, <3>2 DEF ExecutedIsOpen, Resume
  <2>2. CASE ~Resumable(bot[b].message)
      BY <1>0, <2>2, AgentAssumption
      DEF IInv, TypeOK, Resume, Goto, AgentAssumption, BotState,
          ExecutedIsOpen, Executing
  <2> QED
      BY <2>1, <2>2
<1>5. BudgetRespected' /\ RecordedNotRepeated'
  <2>1. run'.calls = run.calls
      BY <1>0 DEF Resume, TypeOK, AgentRunRow
  <2>2. bot'[b].ran = FALSE
      BY <1>0 DEF IInv, TypeOK, MemoryAgrees, Resume, Load, Goto, BotState
  <2> QED
      BY <2>1, <2>2 DEF IInv, BudgetRespected, RecordedNotRepeated
<1>6. RepliedOnce'
  BY <1>0, AgentAssumption
  DEF IInv, TypeOK, Resume, Resumable, Load, Goto, AgentAssumption,
      AnsweredBeforeReply, BotState, RepliedOnce
<1> QED
  BY <1>1, <1>2, <1>3, <1>4, <1>5, <1>6 DEF IInv

LEMMA StandaloneAnswerStep ==
    ASSUME NEW b \in Bots, Bots = {b}, IInv, StandaloneAnswer(b)
    PROVE  IInv'
<1> USE DEF At, Messages
<1>0. TypeOK
  BY DEF IInv
<1>1. TypeOK'
  <2>1. bot' = [bot EXCEPT ![b] = [bot[b] EXCEPT !.pc = "reply"]]
      BY DEF StandaloneAnswer, Goto
  <2>2. "reply" \in Stages
      BY DEF Stages
  <2>3. bot' \in [Bots -> BotState]
      BY <1>0, <2>1, <2>2, SetPc, UpdateBot DEF TypeOK
  <2> QED
      BY <1>0, AgentAssumption, <2>3 DEF StandaloneAnswer, TypeOK,
         AgentAssumption, BotState
<1>2. MemoryAgrees'
  BY <1>0, AgentAssumption
  DEF IInv, TypeOK, StandaloneAnswer, Goto, AgentAssumption, MemoryAgrees,
      BudgetRespected, BotState, AgentRunRow
<1>3. AnsweredBeforeReply'
  BY <1>0, AgentAssumption
  DEF IInv, TypeOK, StandaloneAnswer, Goto, AgentAssumption,
      AnsweredBeforeReply, BotState, Working
<1>4. ExecutedIsOpen'
  BY <1>0, AgentAssumption
  DEF IInv, TypeOK, StandaloneAnswer, Goto, AgentAssumption, ExecutedIsOpen,
      BotState, AnsweredBeforeReply, Executing, Working
<1>5. BudgetRespected' /\ RecordedNotRepeated'
  BY <1>0 DEF IInv, TypeOK, StandaloneAnswer, Goto, MemoryAgrees,
     BudgetRespected, RecordedNotRepeated, Seen, BotState, AgentRunRow
<1>6. RepliedOnce'
  BY <1>0, AgentAssumption
  DEF IInv, TypeOK, StandaloneAnswer, Goto, AgentAssumption,
      AnsweredBeforeReply, BotState, RepliedOnce
<1> QED
  BY <1>1, <1>2, <1>3, <1>4, <1>5, <1>6 DEF IInv

LEMMA SavePlanStep ==
    ASSUME NEW b \in Bots, Bots = {b}, IInv, SavePlan(b)
    PROVE  IInv'
<1> USE DEF At, Messages
<1>0. TypeOK
  BY DEF IInv
<1>1. TypeOK'
  <2>1. bot' = [bot EXCEPT ![b] =
                 [bot[b] EXCEPT !.pc = "decide", !.steps = run.calls]]
      BY DEF SavePlan
  <2>2. "decide" \in Stages
      BY DEF Stages
  <2>3. bot' \in [Bots -> BotState]
      BY <1>0, <2>1, <2>2, SetSteps, UpdateBot DEF TypeOK, AgentRunRow
  <2>4. run' \in AgentRunRow
      BY <1>0 DEF SavePlan, TypeOK, AgentRunRow, RunState
  <2> QED
      BY <1>0, AgentAssumption, <2>3, <2>4 DEF SavePlan, TypeOK,
         AgentAssumption, BotState
<1>2. MemoryAgrees'
  BY <1>0, AgentAssumption
  DEF IInv, TypeOK, SavePlan, AgentAssumption, MemoryAgrees, BudgetRespected,
      BotState, AgentRunRow
<1>3. AnsweredBeforeReply'
  BY <1>0, AgentAssumption
  DEF IInv, TypeOK, SavePlan, AgentAssumption, AnsweredBeforeReply, BotState,
      Working
<1>4. ExecutedIsOpen'
  BY <1>0, AgentAssumption
  DEF IInv, TypeOK, SavePlan, AgentAssumption, ExecutedIsOpen, BotState,
      AnsweredBeforeReply, Executing, Working
<1>5. BudgetRespected' /\ RecordedNotRepeated'
  BY <1>0 DEF IInv, TypeOK, SavePlan, MemoryAgrees, BudgetRespected,
     RecordedNotRepeated, Seen, BotState, AgentRunRow
<1>6. RepliedOnce'
  BY <1>0, AgentAssumption
  DEF IInv, TypeOK, SavePlan, AgentAssumption, AnsweredBeforeReply, BotState,
      RepliedOnce
<1> QED
  BY <1>1, <1>2, <1>3, <1>4, <1>5, <1>6 DEF IInv

LEMMA ModelFailsStep ==
    ASSUME NEW b \in Bots, Bots = {b}, IInv, ModelFails(b)
    PROVE  IInv'
<1> USE DEF At, Messages
<1>0. TypeOK
  BY DEF IInv
<1>1. TypeOK'
  <2>1. bot' = [bot EXCEPT ![b] = [bot[b] EXCEPT !.pc = "fail"]]
      BY DEF ModelFails, Goto
  <2>2. "fail" \in Stages
      BY DEF Stages
  <2>3. bot' \in [Bots -> BotState]
      BY <1>0, <2>1, <2>2, SetPc, UpdateBot DEF TypeOK
  <2> QED
      BY <1>0, AgentAssumption, <2>3 DEF ModelFails, TypeOK, AgentAssumption,
         BotState
<1>2. MemoryAgrees'
  BY <1>0, AgentAssumption
  DEF IInv, TypeOK, ModelFails, Goto, AgentAssumption, MemoryAgrees,
      BudgetRespected, BotState, AgentRunRow
<1>3. AnsweredBeforeReply'
  BY <1>0, AgentAssumption
  DEF IInv, TypeOK, ModelFails, Goto, AgentAssumption, AnsweredBeforeReply,
      BotState, Working
<1>4. ExecutedIsOpen'
  BY <1>0, AgentAssumption
  DEF IInv, TypeOK, ModelFails, Goto, AgentAssumption, ExecutedIsOpen,
      BotState, AnsweredBeforeReply, Executing, Working
<1>5. BudgetRespected' /\ RecordedNotRepeated'
  BY <1>0 DEF IInv, TypeOK, ModelFails, Goto, MemoryAgrees, BudgetRespected,
     RecordedNotRepeated, Seen, BotState, AgentRunRow
<1>6. RepliedOnce'
  BY <1>0, AgentAssumption
  DEF IInv, TypeOK, ModelFails, Goto, AgentAssumption, AnsweredBeforeReply,
      BotState, RepliedOnce
<1> QED
  BY <1>1, <1>2, <1>3, <1>4, <1>5, <1>6 DEF IInv

LEMMA CallToolStep ==
    ASSUME NEW b \in Bots, Bots = {b}, IInv, CallTool(b)
    PROVE  IInv'
<1> USE DEF At, Messages
<1>0. TypeOK
  BY DEF IInv
<1>1. TypeOK'
  <2>1. PICK c \in Calls :
          bot' = [bot EXCEPT ![b] = [bot[b] EXCEPT
                    !.pc = "record", !.call = c,
                    !.ran = c \notin Seen(bot[b].steps),
                    !.steps = Append(bot[b].steps, c)]]
      BY DEF CallTool
  <2>2. /\ "record" \in Stages
        /\ (c \notin Seen(bot[b].steps)) \in BOOLEAN
        /\ Append(bot[b].steps, c) \in Seq(Calls)
      BY <1>0 DEF Stages, TypeOK, BotState
  <2>3. bot' \in [Bots -> BotState]
      BY <1>0, <2>1, <2>2, SetStep, UpdateBot DEF TypeOK
  <2> QED
      BY <1>0, AgentAssumption, <2>3 DEF CallTool, TypeOK, AgentAssumption,
         BotState
<1>2. MemoryAgrees'
  BY <1>0, AgentAssumption
  DEF IInv, TypeOK, CallTool, AgentAssumption, MemoryAgrees, BudgetRespected,
      BotState, AgentRunRow
<1>3. AnsweredBeforeReply'
  BY <1>0, AgentAssumption
  DEF IInv, TypeOK, CallTool, AgentAssumption, AnsweredBeforeReply, BotState,
      Working
<1>4. ExecutedIsOpen'
  BY <1>0, AgentAssumption
  DEF IInv, TypeOK, CallTool, AgentAssumption, ExecutedIsOpen, BotState,
      AnsweredBeforeReply, Executing, Working
<1>5. BudgetRespected' /\ RecordedNotRepeated'
  <2>1. PICK c \in Calls :
          /\ bot'[b].call = c
          /\ bot'[b].ran = (c \notin Seen(bot[b].steps))
      BY <1>0 DEF CallTool, TypeOK, BotState
  <2>2. bot[b].steps = run.calls /\ run' = run
      BY DEF IInv, MemoryAgrees, CallTool
  <2> QED
      BY <2>1, <2>2 DEF IInv, BudgetRespected, RecordedNotRepeated, Seen
<1>6. RepliedOnce'
  BY <1>0, AgentAssumption
  DEF IInv, TypeOK, CallTool, AgentAssumption, AnsweredBeforeReply, BotState,
      RepliedOnce
<1> QED
  BY <1>1, <1>2, <1>3, <1>4, <1>5, <1>6 DEF IInv

LEMMA RecordToolCallStep ==
    ASSUME NEW b \in Bots, Bots = {b}, IInv, RecordToolCall(b)
    PROVE  IInv'
<1> USE DEF At, Messages
<1>0. TypeOK
  BY DEF IInv
<1>1. TypeOK'
  <2>1. bot' = [bot EXCEPT ![b] = [bot[b] EXCEPT
                 !.pc = "decide", !.call = NoCall, !.ran = FALSE]]
      BY DEF RecordToolCall
  <2>2. "decide" \in Stages
      BY DEF Stages
  <2>3. bot' \in [Bots -> BotState]
      BY <1>0, <2>1, <2>2, SetCall, UpdateBot DEF TypeOK
  <2>4. run' \in AgentRunRow
      BY <1>0 DEF RecordToolCall, TypeOK, AgentRunRow, RunState, BotState,
         IInv, MemoryAgrees
  <2> QED
      BY <1>0, AgentAssumption, <2>3, <2>4 DEF RecordToolCall, TypeOK,
         AgentAssumption, BotState
<1>2. MemoryAgrees'
  BY <1>0, AgentAssumption
  DEF IInv, TypeOK, RecordToolCall, AgentAssumption, MemoryAgrees,
      BudgetRespected, BotState, AgentRunRow
<1>3. AnsweredBeforeReply'
  BY <1>0, AgentAssumption
  DEF IInv, TypeOK, RecordToolCall, AgentAssumption, AnsweredBeforeReply,
      BotState, Working
<1>4. ExecutedIsOpen'
  BY <1>0, AgentAssumption
  DEF IInv, TypeOK, RecordToolCall, AgentAssumption, ExecutedIsOpen, BotState,
      AnsweredBeforeReply, Executing, Working
<1>5. BudgetRespected' /\ RecordedNotRepeated'
  <2>1. run'.calls = Append(run.calls, bot[b].call)
      BY <1>0 DEF RecordToolCall, TypeOK, AgentRunRow
  <2>2. Len(run.calls) \in Nat /\ Len(run'.calls) = Len(run.calls) + 1
      BY <1>0, <2>1 DEF IInv, MemoryAgrees, RecordToolCall, TypeOK, AgentRunRow
  <2>3. Len(run.calls) < MaxCalls
      BY DEF IInv, MemoryAgrees, RecordToolCall
  <2>4. bot'[b].ran = FALSE
      BY <1>0 DEF RecordToolCall, TypeOK, BotState
  <2> QED
      BY <2>2, <2>3, <2>4, AgentAssumption
      DEF BudgetRespected, RecordedNotRepeated, AgentAssumption
<1>6. RepliedOnce'
  BY <1>0, AgentAssumption
  DEF IInv, TypeOK, RecordToolCall, AgentAssumption, AnsweredBeforeReply,
      BotState, RepliedOnce
<1> QED
  BY <1>1, <1>2, <1>3, <1>4, <1>5, <1>6 DEF IInv

LEMMA InvalidDecisionStep ==
    ASSUME NEW b \in Bots, Bots = {b}, IInv, InvalidDecision(b)
    PROVE  IInv'
<1> USE DEF At, Messages
<1>0. TypeOK
  BY DEF IInv
<1>1. TypeOK'
  <2>1. \/ bot' = [bot EXCEPT ![b] = [bot[b] EXCEPT !.invalid = 1]]
        \/ bot' = [bot EXCEPT ![b] = [bot[b] EXCEPT !.pc = "finish"]]
      BY DEF InvalidDecision
  <2>2. "finish" \in Stages
      BY DEF Stages
  <2>3. bot' \in [Bots -> BotState]
      BY <1>0, <2>1, <2>2, SetPc, SetInvalid, UpdateBot DEF TypeOK
  <2> QED
      BY <1>0, AgentAssumption, <2>3 DEF InvalidDecision, TypeOK,
         AgentAssumption, BotState
<1>2. MemoryAgrees'
  BY <1>0, AgentAssumption
  DEF IInv, TypeOK, InvalidDecision, AgentAssumption, MemoryAgrees,
      BudgetRespected, BotState, AgentRunRow
<1>3. AnsweredBeforeReply'
  BY <1>0, AgentAssumption
  DEF IInv, TypeOK, InvalidDecision, AgentAssumption, AnsweredBeforeReply,
      BotState, Working
<1>4. ExecutedIsOpen'
  BY <1>0, AgentAssumption
  DEF IInv, TypeOK, InvalidDecision, AgentAssumption, ExecutedIsOpen, BotState,
      AnsweredBeforeReply, Executing, Working
<1>5. BudgetRespected' /\ RecordedNotRepeated'
  BY <1>0 DEF IInv, TypeOK, InvalidDecision, MemoryAgrees, BudgetRespected,
     RecordedNotRepeated, Seen, BotState, AgentRunRow
<1>6. RepliedOnce'
  BY <1>0, AgentAssumption
  DEF IInv, TypeOK, InvalidDecision, AgentAssumption, AnsweredBeforeReply,
      BotState, RepliedOnce
<1> QED
  BY <1>1, <1>2, <1>3, <1>4, <1>5, <1>6 DEF IInv

LEMMA DecideStep ==
    ASSUME NEW b \in Bots, Bots = {b}, IInv, Decide(b)
    PROVE  IInv'
<1> USE DEF At, Messages
<1>0. TypeOK
  BY DEF IInv
<1>1. TypeOK'
  <2>1. bot' = [bot EXCEPT ![b] = [bot[b] EXCEPT !.pc = "finish"]]
      BY DEF Decide, Goto
  <2>2. "finish" \in Stages
      BY DEF Stages
  <2>3. bot' \in [Bots -> BotState]
      BY <1>0, <2>1, <2>2, SetPc, UpdateBot DEF TypeOK
  <2> QED
      BY <1>0, AgentAssumption, <2>3 DEF Decide, TypeOK, AgentAssumption,
         BotState
<1>2. MemoryAgrees'
  BY <1>0, AgentAssumption
  DEF IInv, TypeOK, Decide, Goto, AgentAssumption, MemoryAgrees,
      BudgetRespected, BotState, AgentRunRow
<1>3. AnsweredBeforeReply'
  BY <1>0, AgentAssumption
  DEF IInv, TypeOK, Decide, Goto, AgentAssumption, AnsweredBeforeReply,
      BotState, Working
<1>4. ExecutedIsOpen'
  BY <1>0, AgentAssumption
  DEF IInv, TypeOK, Decide, Goto, AgentAssumption, ExecutedIsOpen, BotState,
      AnsweredBeforeReply, Executing, Working
<1>5. BudgetRespected' /\ RecordedNotRepeated'
  BY <1>0 DEF IInv, TypeOK, Decide, Goto, MemoryAgrees, BudgetRespected,
     RecordedNotRepeated, Seen, BotState, AgentRunRow
<1>6. RepliedOnce'
  BY <1>0, AgentAssumption
  DEF IInv, TypeOK, Decide, Goto, AgentAssumption, AnsweredBeforeReply,
      BotState, RepliedOnce
<1> QED
  BY <1>1, <1>2, <1>3, <1>4, <1>5, <1>6 DEF IInv

LEMMA FinishStep ==
    ASSUME NEW b \in Bots, Bots = {b}, IInv, Finish(b)
    PROVE  IInv'
<1> USE DEF At, Messages
<1>0. TypeOK
  BY DEF IInv
<1>1. TypeOK'
  <2>1. bot' = [bot EXCEPT ![b] = [bot[b] EXCEPT !.pc = "reply"]]
      BY DEF Finish, Goto
  <2>2. "reply" \in Stages
      BY DEF Stages
  <2>3. bot' \in [Bots -> BotState]
      BY <1>0, <2>1, <2>2, SetPc, UpdateBot DEF TypeOK
  <2>4. run' \in AgentRunRow
      BY <1>0 DEF Finish, TypeOK, AgentRunRow, RunState
  <2> QED
      BY <1>0, AgentAssumption, <2>3, <2>4 DEF Finish, TypeOK, AgentAssumption,
         BotState
<1>2. MemoryAgrees'
  BY <1>0, AgentAssumption
  DEF IInv, TypeOK, Finish, Goto, AgentAssumption, MemoryAgrees,
      BudgetRespected, BotState, AgentRunRow
<1>3. AnsweredBeforeReply'
  BY <1>0, AgentAssumption
  DEF IInv, TypeOK, Finish, Goto, AgentAssumption, AnsweredBeforeReply,
      BotState, Working
<1>4. ExecutedIsOpen'
  BY <1>0, AgentAssumption
  DEF IInv, TypeOK, Finish, Goto, AgentAssumption, ExecutedIsOpen, BotState,
      AnsweredBeforeReply, Executing, Working
<1>5. BudgetRespected' /\ RecordedNotRepeated'
  BY <1>0 DEF IInv, TypeOK, Finish, Goto, MemoryAgrees, BudgetRespected,
     RecordedNotRepeated, Seen, BotState, AgentRunRow
<1>6. RepliedOnce'
  BY <1>0, AgentAssumption
  DEF IInv, TypeOK, Finish, Goto, AgentAssumption, AnsweredBeforeReply,
      BotState, RepliedOnce
<1> QED
  BY <1>1, <1>2, <1>3, <1>4, <1>5, <1>6 DEF IInv

LEMMA FailStep ==
    ASSUME NEW b \in Bots, Bots = {b}, IInv, Fail(b)
    PROVE  IInv'
<1> USE DEF At, Messages
<1>0. TypeOK
  BY DEF IInv
<1>1. TypeOK'
  <2>1. bot' = [bot EXCEPT ![b] = [bot[b] EXCEPT !.pc = "finish_failed"]]
      BY DEF Fail, Goto
  <2>2. "finish_failed" \in Stages
      BY DEF Stages
  <2>3. bot' \in [Bots -> BotState]
      BY <1>0, <2>1, <2>2, SetPc, UpdateBot DEF TypeOK
  <2>4. run' \in AgentRunRow
      BY <1>0 DEF Fail, TypeOK, AgentRunRow, RunState
  <2> QED
      BY <1>0, AgentAssumption, <2>3, <2>4 DEF Fail, TypeOK, AgentAssumption,
         BotState
<1>2. MemoryAgrees'
  BY <1>0, AgentAssumption
  DEF IInv, TypeOK, Fail, Goto, AgentAssumption, MemoryAgrees, BudgetRespected,
      BotState, AgentRunRow
<1>3. AnsweredBeforeReply'
  BY <1>0, AgentAssumption
  DEF IInv, TypeOK, Fail, Goto, AgentAssumption, AnsweredBeforeReply, BotState,
      Working
<1>4. ExecutedIsOpen'
  BY <1>0, AgentAssumption
  DEF IInv, TypeOK, Fail, Goto, AgentAssumption, ExecutedIsOpen, BotState,
      AnsweredBeforeReply, Executing, Working
<1>5. BudgetRespected' /\ RecordedNotRepeated'
  BY <1>0 DEF IInv, TypeOK, Fail, Goto, MemoryAgrees, BudgetRespected,
     RecordedNotRepeated, Seen, BotState, AgentRunRow
<1>6. RepliedOnce'
  BY <1>0, AgentAssumption
  DEF IInv, TypeOK, Fail, Goto, AgentAssumption, AnsweredBeforeReply, BotState,
      RepliedOnce
<1> QED
  BY <1>1, <1>2, <1>3, <1>4, <1>5, <1>6 DEF IInv

LEMMA FinishFailedStep ==
    ASSUME NEW b \in Bots, Bots = {b}, IInv, FinishFailed(b)
    PROVE  IInv'
<1> USE DEF At, Messages
<1>0. TypeOK
  BY DEF IInv
<1>1. TypeOK'
  <2>1. bot' = [bot EXCEPT ![b] = [bot[b] EXCEPT !.pc = "reply"]]
      BY DEF FinishFailed, Goto
  <2>2. "reply" \in Stages
      BY DEF Stages
  <2>3. bot' \in [Bots -> BotState]
      BY <1>0, <2>1, <2>2, SetPc, UpdateBot DEF TypeOK
  <2> QED
      BY <1>0, AgentAssumption, <2>3 DEF FinishFailed, TypeOK, AgentAssumption,
         BotState
<1>2. MemoryAgrees'
  BY <1>0, AgentAssumption
  DEF IInv, TypeOK, FinishFailed, Goto, AgentAssumption, MemoryAgrees,
      BudgetRespected, BotState, AgentRunRow
<1>3. AnsweredBeforeReply'
  BY <1>0, AgentAssumption
  DEF IInv, TypeOK, FinishFailed, Goto, AgentAssumption, AnsweredBeforeReply,
      BotState, Working
<1>4. ExecutedIsOpen'
  BY <1>0, AgentAssumption
  DEF IInv, TypeOK, FinishFailed, Goto, AgentAssumption, ExecutedIsOpen,
      BotState, AnsweredBeforeReply, Executing, Working
<1>5. BudgetRespected' /\ RecordedNotRepeated'
  BY <1>0 DEF IInv, TypeOK, FinishFailed, Goto, MemoryAgrees, BudgetRespected,
     RecordedNotRepeated, Seen, BotState, AgentRunRow
<1>6. RepliedOnce'
  BY <1>0, AgentAssumption
  DEF IInv, TypeOK, FinishFailed, Goto, AgentAssumption, AnsweredBeforeReply,
      BotState, RepliedOnce
<1> QED
  BY <1>1, <1>2, <1>3, <1>4, <1>5, <1>6 DEF IInv

LEMMA ReplyStep ==
    ASSUME NEW b \in Bots, Bots = {b}, IInv, Reply(b)
    PROVE  IInv'
<1> USE DEF At, Messages
<1>0. TypeOK
  BY DEF IInv
<1>1. TypeOK'
  <2>3. bot' \in [Bots -> BotState]
      BY <1>0, IdleType, UpdateBot DEF Reply, TypeOK
  <2> QED
      BY <1>0, AgentAssumption, <2>3 DEF Reply, TypeOK, AgentAssumption,
         BotState
<1>2. MemoryAgrees'
  BY <1>0, AgentAssumption
  DEF IInv, TypeOK, Reply, Idle, AgentAssumption, MemoryAgrees,
      BudgetRespected, BotState, AgentRunRow
<1>3. AnsweredBeforeReply'
  BY <1>0, AgentAssumption
  DEF IInv, TypeOK, Reply, Idle, AgentAssumption, AnsweredBeforeReply,
      BotState, Working
<1>4. ExecutedIsOpen'
  BY <1>0, AgentAssumption
  DEF IInv, TypeOK, Reply, Idle, AgentAssumption, ExecutedIsOpen, BotState,
      AnsweredBeforeReply, Executing, Working
<1>5. BudgetRespected' /\ RecordedNotRepeated'
  BY <1>0 DEF IInv, TypeOK, Reply, Idle, MemoryAgrees, BudgetRespected,
     RecordedNotRepeated, Seen, BotState, AgentRunRow
<1>6. RepliedOnce'
  BY <1>0, AgentAssumption
  DEF IInv, TypeOK, Reply, Idle, AgentAssumption, AnsweredBeforeReply,
      BotState, RepliedOnce
<1> QED
  BY <1>1, <1>2, <1>3, <1>4, <1>5, <1>6 DEF IInv

LEMMA BreakStep ==
    ASSUME NEW b \in Bots, Bots = {b}, IInv, Break(b)
    PROVE  IInv'
<1> USE DEF At, Messages
<1>0. TypeOK
  BY DEF IInv
<1>1. TypeOK'
  <2>3. bot' \in [Bots -> BotState]
      BY <1>0, IdleType, UpdateBot DEF Break, TypeOK
  <2> QED
      BY <1>0, AgentAssumption, <2>3 DEF Break, TypeOK, AgentAssumption,
         BotState
<1>2. MemoryAgrees'
  BY <1>0, AgentAssumption
  DEF IInv, TypeOK, Break, Idle, AgentAssumption, MemoryAgrees,
      BudgetRespected, BotState, AgentRunRow
<1>3. AnsweredBeforeReply'
  BY <1>0, AgentAssumption
  DEF IInv, TypeOK, Break, Idle, AgentAssumption, AnsweredBeforeReply,
      BotState, Working
<1>4. ExecutedIsOpen'
  BY <1>0, AgentAssumption
  DEF IInv, TypeOK, Break, Idle, AgentAssumption, ExecutedIsOpen, BotState,
      AnsweredBeforeReply, Executing, Working
<1>5. BudgetRespected' /\ RecordedNotRepeated'
  BY <1>0 DEF IInv, TypeOK, Break, Idle, MemoryAgrees, BudgetRespected,
     RecordedNotRepeated, Seen, BotState, AgentRunRow
<1>6. RepliedOnce'
  BY <1>0, AgentAssumption
  DEF IInv, TypeOK, Break, Idle, AgentAssumption, AnsweredBeforeReply,
      BotState, RepliedOnce
<1> QED
  BY <1>1, <1>2, <1>3, <1>4, <1>5, <1>6 DEF IInv

LEMMA ExpireStep ==
    ASSUME IInv, Expire
    PROVE  IInv'
  BY DEF IInv, Expire, TypeOK, BudgetRespected, RecordedNotRepeated, Seen,
     RepliedOnce, MemoryAgrees, AnsweredBeforeReply, ExecutedIsOpen, At

-----------------------------------------------------------------------------
(* The results.                                                            *)

\* Everything holds in the initial state.
THEOREM Initially == Init => IInv
<1> SUFFICES ASSUME Init PROVE IInv
  OBVIOUS
<1>1. TypeOK
  <2>1. run \in AgentRunRow
    BY DEF Init, NoRun, AgentRunRow, RunState
  <2>2. bot \in [Bots -> BotState]
    BY IdleType DEF Init
  <2>3. /\ answered \subseteq Messages
        /\ replies \in [Messages -> Nat]
        /\ delivered \in [Messages -> 0..MaxDeliveries]
    BY AgentAssumption DEF Init, AgentAssumption
  <2> QED
    BY <2>1, <2>2, <2>3 DEF Init, TypeOK
<1>2. RecordedNotRepeated /\ RepliedOnce /\ MemoryAgrees
  BY DEF Init, Idle, RecordedNotRepeated, RepliedOnce, MemoryAgrees, At
<1>3. AnsweredBeforeReply
  BY DEF Init, Idle, AnsweredBeforeReply, Working, At
<1>4. ExecutedIsOpen
  BY DEF Init, Idle, NoRun, ExecutedIsOpen, Executing, At
<1>5. BudgetRespected
  BY AgentAssumption DEF Init, NoRun, BudgetRespected, AgentAssumption
<1> QED
  BY <1>1, <1>2, <1>3, <1>4, <1>5 DEF IInv

\* With one bot process every step keeps the invariant.
THEOREM Inductive == OneBot /\ IInv /\ [Next]_vars => IInv'
<1> SUFFICES ASSUME NEW b \in Bots, Bots = {b}, IInv, [Next]_vars
             PROVE  IInv'
  BY DEF OneBot
<1>1. CASE \E m \in Messages : Deliver(b, m)
  BY <1>1, DeliverStep
<1>2. CASE Step(b)
  BY <1>2, CreateStep, ResumeStep, StandaloneAnswerStep, SavePlanStep,
     ModelFailsStep, CallToolStep, RecordToolCallStep, InvalidDecisionStep,
     DecideStep, FinishStep, FailStep, FinishFailedStep, ReplyStep
  DEF Step
<1>3. CASE Break(b)
  BY <1>3, BreakStep
<1>4. CASE Expire
  BY <1>4, ExpireStep
<1>5. CASE UNCHANGED vars
  BY <1>5 DEF vars, IInv, TypeOK, BudgetRespected, RecordedNotRepeated, Seen,
     RepliedOnce, MemoryAgrees, AnsweredBeforeReply, ExecutedIsOpen, At
<1> QED
  BY <1>1, <1>2, <1>3, <1>4, <1>5 DEF Next

\* The invariant always holds with one bot process.
THEOREM Invariance == OneBot /\ Spec => []IInv
<1>1. OneBot /\ IInv /\ [Next]_vars => IInv'
  BY Inductive
<1>2. OneBot => []OneBot
  <2>1. OneBot => OneBot'
    BY DEF OneBot
  <2> QED
    BY <2>1, PTL
<1> QED
  BY Initially, <1>1, <1>2, PTL DEF Spec

\* Type correctness (the row, the answers and the memory of the bots).
THEOREM AgentTypeOK == OneBot /\ Spec => []TypeOK
  BY Invariance, PTL DEF IInv

\* The budget of a run holds over all its executions (record_tool_call).
THEOREM BudgetHolds == OneBot /\ Spec => []BudgetRespected
  BY Invariance, PTL DEF IInv

\* A recorded tool call is never executed again (seen_calls, prior_steps).
THEOREM NoRecordedRepeat == OneBot /\ Spec => []RecordedNotRepeated
  BY Invariance, PTL DEF IInv

\* At most one reply for a message, however often it is delivered.
THEOREM OneReply == OneBot /\ Spec => []RepliedOnce
  BY Invariance, PTL DEF IInv

\* A run that succeeded is never touched again: every action that writes the
\* row is taken by a bot that executes the run or is about to.
THEOREM SucceededStays == OneBot /\ Spec => SucceededIsFinal
<1>1. ASSUME NEW b \in Bots, Bots = {b}, IInv, [Next]_vars,
             run.state = "succeeded"
      PROVE  run' = run
  <2>1. Ask \in answered
    BY <1>1 DEF IInv, ExecutedIsOpen
  <2>2. bot[b].pc \notin Executing
    BY <1>1 DEF IInv, ExecutedIsOpen
  <2>3. At(b, "open") => bot[b].message # Ask
    BY <1>1, <2>1 DEF IInv, AnsweredBeforeReply, Working, At
  <2>4. ASSUME Step(b) PROVE run' = run
    BY <1>1, <2>2, <2>3, <2>4
    DEF Step, Executing, At, Create, Resume, Resumable, StandaloneAnswer,
        SavePlan, ModelFails, CallTool, RecordToolCall, InvalidDecision,
        Decide, Finish, Fail, FinishFailed, Reply
  <2> QED
    BY <1>1, <2>4 DEF Next, Deliver, Break, Expire, vars
<1>2. OneBot /\ IInv /\ [Next]_vars
        => [run.state = "succeeded" => UNCHANGED run]_vars
  BY <1>1 DEF OneBot
<1>3. OneBot => []OneBot
  <2>1. OneBot => OneBot'
    BY DEF OneBot
  <2> QED
    BY <2>1, PTL
<1> QED
  BY Invariance, <1>2, <1>3, PTL DEF Spec, SucceededIsFinal


=============================================================================
