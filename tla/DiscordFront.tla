---------------------------- MODULE DiscordFront ----------------------------
(***************************************************************************)
(* The Discord client of discord/runtime.py with the transaction of        *)
(* qa/service.py behind it: the gate of waiting questions, the semaphore   *)
(* of one generation, the answer stored under an advisory lock on the      *)
(* message, and the reply sent in parts.                                   *)
(*                                                                         *)
(* A delivery is one call of on_message.  A message is delivered to every  *)
(* process that holds a gateway session (nothing keeps a second bot from   *)
(* being started), and again when a session is resumed.  Routing and rate  *)
(* limits decide without waiting for anything: a message here is one they  *)
(* admit, and module ChatFront states what they admit.                    *)
(***************************************************************************)
EXTENDS Integers, FiniteSets, SequencesExt

CONSTANTS
  Bots,          \* processes
  Messages,      \* accepted Discord messages
  MaxDeliveries, \* bound on the calls of on_message
  MaxWaiting,    \* MaxWaiting[b]: questions in process b at a time
  Parts,         \* parts of a long answer
  MaxCrashes,    \* bound on the crashes
  None

ASSUME FrontAssumption ==
  /\ MaxWaiting \in [Bots -> Nat \ {0}] /\ Parts \in Nat \ {0}
  /\ MaxDeliveries \in Nat /\ MaxCrashes \in Nat
  /\ None \notin Bots \cup Messages /\ None \notin Nat

VARIABLES
  queueLine,      \* queueLine[b]: tasks at _queue_lock, the first holds it
  genLine,        \* genLine[b]: tasks at _generation, the first holds it
  waiting,        \* waiting[b]: the counter _waiting
  task,           \* task[d]: the call of on_message
  answer,         \* answer[m]: the delivery whose answer is stored, or None
  posted,         \* <<d, i>>: part i of the answer of d is on Discord
  views,          \* views[b]: messages whose source button process b answers
  unheard,        \* deliveries whose part was posted, and the process running
                  \* now did not hear so
  crashes

vars == <<queueLine, genLine, waiting, task, answer, posted, views, unheard, crashes>>

\* The calls of on_message, numbered in the order they come in.
Deliveries == 1..MaxDeliveries

Stages == {"new", "entering", "refusing", "typing", "generating", "answering",
           "replying", "leaving", "ended", "lost"}

\* "sent" counts the parts posted before the one in hand.
Task == [bot : Bots \cup {None}, msg : Messages \cup {None}, stage : Stages,
         sent : 0..(Parts - 1)]

NoTask == [bot |-> None, msg |-> None, stage |-> "new", sent |-> 0]

\* One type invariant.  Nobody waits twice in a line.
TypeOK ==
  /\ crashes \in 0..MaxCrashes
  /\ task \in [Deliveries -> Task]
  /\ answer \in [Messages -> Deliveries \cup {None}]
  /\ posted \subseteq Deliveries \X (1..Parts)
  /\ views \in [Bots -> SUBSET Messages]
  /\ unheard \subseteq Deliveries
  /\ waiting \in [Bots -> Nat]
  /\ queueLine \in [Bots -> Seq(Deliveries)]
  /\ genLine \in [Bots -> Seq(Deliveries)]
  /\ \A b \in Bots :
       /\ waiting[b] <= MaxWaiting[b]
       /\ IsInjective(queueLine[b]) /\ IsInjective(genLine[b])

Init ==
  /\ crashes = 0
  /\ queueLine = [b \in Bots |-> <<>>]
  /\ genLine = [b \in Bots |-> <<>>]
  /\ waiting = [b \in Bots |-> 0]
  /\ task = [d \in Deliveries |-> NoTask]
  /\ answer = [m \in Messages |-> None]
  /\ posted = {}
  /\ views = [b \in Bots |-> {}]
  /\ unheard = {}

-----------------------------------------------------------------------------
Bot(d) == task[d].bot
Msg(d) == task[d].msg
At(d, stage) == task[d].stage = stage
To(d, stage) == [task EXCEPT ![d].stage = stage]

Holds(line, d) == line[Bot(d)] # <<>> /\ Head(line[Bot(d)]) = d
Joined(line, d) == [line EXCEPT ![Bot(d)] = Append(@, d)]
Passed(line, d) == [line EXCEPT ![Bot(d)] = Tail(@)]

\* Under the queue lock: take a place, or tell the user that the queue is full,
\* which is done with the lock held.  A free asyncio.Lock is taken without giving
\* way to another task, so the lock matters only while a refusal is being sent.
Full(b) == waiting[b] >= MaxWaiting[b]

\* on_message up to its first await, for a message that is admitted.
OnMessage(b, d, m) ==
  LET stage == CASE queueLine[b] # <<>> -> "entering"
                 [] queueLine[b] = <<>> /\ Full(b) -> "refusing"
                 [] OTHER -> "typing"
  IN /\ task[d] = NoTask
     /\ \A e \in 1..(d - 1) : task[e] # NoTask
     /\ task' = [task EXCEPT ![d] =
          [bot |-> b, msg |-> m, stage |-> stage, sent |-> 0]]
     /\ queueLine' = IF stage = "typing" THEN queueLine
                       ELSE [queueLine EXCEPT ![b] = Append(@, d)]
     /\ waiting' = IF stage = "typing"
                     THEN [waiting EXCEPT ![b] = @ + 1] ELSE waiting
     /\ UNCHANGED <<genLine, answer, posted, views, unheard, crashes>>

\* A task that had to wait for the queue lock gets it.
Enter(d) ==
  /\ At(d, "entering") /\ Holds(queueLine, d)
  /\ IF Full(Bot(d))
     THEN task' = To(d, "refusing") /\ UNCHANGED <<waiting, queueLine>>
     ELSE /\ waiting' = [waiting EXCEPT ![Bot(d)] = @ + 1]
          /\ task' = To(d, "typing")
          /\ queueLine' = Passed(queueLine, d)
  /\ UNCHANGED <<genLine, answer, posted, views, unheard, crashes>>

Refuse(d) ==
  /\ At(d, "refusing") /\ Holds(queueLine, d)
  /\ queueLine' = Passed(queueLine, d)
  /\ task' = To(d, "ended")
  /\ UNCHANGED <<genLine, waiting, answer, posted, views, unheard, crashes>>

\* Any way out of the gated region is the finally of on_message: the place is
\* given back under the queue lock.
GoLeave(d) ==
  IF queueLine[Bot(d)] = <<>>
  THEN /\ waiting' = [waiting EXCEPT ![Bot(d)] = @ - 1]
       /\ task' = To(d, "ended")
       /\ UNCHANGED queueLine
  ELSE /\ task' = To(d, "leaving")
       /\ queueLine' = Joined(queueLine, d)
       /\ UNCHANGED waiting

Leave(d) ==
  /\ At(d, "leaving") /\ Holds(queueLine, d)
  /\ waiting' = [waiting EXCEPT ![Bot(d)] = @ - 1]
  /\ queueLine' = Passed(queueLine, d)
  /\ task' = To(d, "ended")
  /\ UNCHANGED <<genLine, answer, posted, views, unheard, crashes>>

\* Mutant: typing() outside the try, so its failure keeps the place.
MutTypingOutsideTry(d) ==
  /\ At(d, "typing")
  /\ \/ task' = To(d, "generating") /\ genLine' = Joined(genLine, d)
     \/ task' = To(d, "ended") /\ UNCHANGED genLine
  /\ UNCHANGED <<queueLine, waiting, answer, posted, views, unheard, crashes>>

\* channel.typing() sends a request, which may fail; then the semaphore.
Typing(d) ==
  /\ At(d, "typing")
  /\ \/ task' = To(d, "generating") /\ genLine' = Joined(genLine, d)
        /\ UNCHANGED <<queueLine, waiting>>
     \/ GoLeave(d) /\ UNCHANGED genLine
  /\ UNCHANGED <<answer, posted, views, unheard, crashes>>

Answered(m) == answer[m] # None

AdvisoryLocked(m) == \E e \in Deliveries : At(e, "answering") /\ Msg(e) = m

\* QAService.answer: the lock on the message, then the look for its answer; a
\* duplicate is dropped without a word.
BeginAnswer(d) ==
  /\ At(d, "generating") /\ Holds(genLine, d)
  /\ ~AdvisoryLocked(Msg(d))
  /\ IF Answered(Msg(d))
     THEN GoLeave(d) /\ genLine' = Passed(genLine, d)
     ELSE task' = To(d, "answering") /\ UNCHANGED <<queueLine, waiting, genLine>>
  /\ UNCHANGED <<answer, posted, views, unheard, crashes>>

\* Mutant: the place is given back once the answer is stored, and again by the
\* finally.
MutStoreLeavesTwice(d) ==
  /\ At(d, "answering") /\ ~Answered(Msg(d))
  /\ genLine' = Passed(genLine, d)
  /\ answer' = [answer EXCEPT ![Msg(d)] = d]
  /\ task' = To(d, "replying")
  /\ waiting' = [waiting EXCEPT ![Bot(d)] = @ - 1]
  /\ UNCHANGED <<queueLine, posted, views, unheard, crashes>>

\* The answer is inserted and committed; request_message_id is unique.
StoreAnswer(d) ==
  /\ At(d, "answering")
  /\ genLine' = Passed(genLine, d)
  /\ IF Answered(Msg(d))
     THEN GoLeave(d) /\ UNCHANGED answer
     ELSE /\ answer' = [answer EXCEPT ![Msg(d)] = d]
          /\ task' = To(d, "replying") /\ UNCHANGED <<queueLine, waiting>>
  /\ UNCHANGED <<posted, views, unheard, crashes>>

\* Mutant: the semaphore is not released when the handler raises.
MutFailKeepsSemaphore(d) ==
  /\ At(d, "answering")
  /\ GoLeave(d)
  /\ UNCHANGED <<genLine, answer, posted, views, unheard, crashes>>

\* Mutant: when the answer cannot be stored the user gets it all the same.
MutFailAnswerReplies(d) ==
  /\ At(d, "answering")
  /\ genLine' = Passed(genLine, d)
  /\ task' = To(d, "replying")
  /\ UNCHANGED <<queueLine, waiting, answer, posted, views, unheard, crashes>>

\* Retrieval, the database or the reply to COMMIT fails: in the last case the
\* answer is stored and the process does not know.
FailAnswer(d) ==
  /\ At(d, "answering")
  /\ genLine' = Passed(genLine, d)
  /\ GoLeave(d)
  /\ \/ UNCHANGED answer
     \/ ~Answered(Msg(d)) /\ answer' = [answer EXCEPT ![Msg(d)] = d]
  /\ UNCHANGED <<posted, views, unheard, crashes>>

\* message.reply sends the next part, the last with the source button, whose
\* view is kept once Discord has answered.  When the request fails the rest is
\* given up: Discord refused the part, or posted it and its answer was lost.
Reply(d) ==
  LET next == task[d].sent + 1
      Post == posted' = posted \cup {<<d, next>>}
  IN /\ At(d, "replying")
     /\ \/ /\ next < Parts /\ Post
           /\ task' = [task EXCEPT ![d].sent = next]
           /\ UNCHANGED <<queueLine, waiting, views, unheard>>
        \/ /\ next = Parts /\ Post /\ GoLeave(d)
           /\ views' = [views EXCEPT ![Bot(d)] = @ \cup {Msg(d)}]
           /\ UNCHANGED unheard
        \/ GoLeave(d) /\ UNCHANGED <<posted, views, unheard>>
        \/ /\ Post /\ GoLeave(d)
           /\ unheard' = unheard \cup {d}
           /\ UNCHANGED views
     /\ UNCHANGED <<genLine, answer, crashes>>

\* Mutant: the persistent views are not registered again.
MutNoneRegistered == {}

\* setup_hook: a process that starts answers the button of every stored answer.
Registered == {m \in Messages : Answered(m)}

\* The process dies and is started again (restart: unless-stopped): its tasks
\* and counters are gone, its transactions rolled back.
Crash(b) ==
  /\ crashes < MaxCrashes
  /\ crashes' = crashes + 1
  /\ task' = [d \in Deliveries |->
       IF Bot(d) = b /\ task[d].stage # "ended"
       THEN [task[d] EXCEPT !.stage = "lost"] ELSE task[d]]
  /\ queueLine' = [queueLine EXCEPT ![b] = <<>>]
  /\ genLine' = [genLine EXCEPT ![b] = <<>>]
  /\ waiting' = [waiting EXCEPT ![b] = 0]
  /\ views' = [views EXCEPT ![b] = Registered]
  /\ unheard' = {d \in unheard : Bot(d) # b}
  /\ UNCHANGED <<answer, posted>>

Step(d) ==
  \/ Enter(d) \/ Refuse(d) \/ Typing(d) \/ BeginAnswer(d)
  \/ StoreAnswer(d) \/ FailAnswer(d) \/ Reply(d) \/ Leave(d)

Next ==
  \/ \E b \in Bots : \/ \E d \in Deliveries, m \in Messages : OnMessage(b, d, m)
                     \/ Crash(b)
  \/ \E d \in Deliveries : Step(d)

\* The event loop runs every ready task and its locks are first come, first
\* served; requests to Discord, the model and the database have timeouts.
Spec == Init /\ [][Next]_vars /\ \A d \in Deliveries : WF_vars(Step(d))

-----------------------------------------------------------------------------
(* Properties.                                                             *)

Inside == {"typing", "generating", "answering", "replying", "leaving"}

\* The counter of waiting questions is the number of calls that took a place
\* and have not given it back, whatever way they go: a place lost on an error
\* path would shrink the queue until the bot refuses everybody
\* (MapleDiscordClient.on_message).
WaitingCountsTasks ==
  \A b \in Bots :
    waiting[b] = Cardinality({d \in Deliveries : Bot(d) = b
                                /\ task[d].stage \in Inside})

\* Every part on Discord belongs to the answer that is stored for its message:
\* no message is answered twice, over processes, redeliveries and crashes, and
\* nothing is said that the answers table does not know (QAService.answer,
\* the early return on a duplicate).
PostedIsStored == \A p \in posted : answer[Msg(p[1])] = p[1]

\* A source button on Discord is answered by the process that sent it, and by
\* its successor after a restart: the answer is stored before the button is
\* sent, and the views of stored answers are registered before the gateway
\* session opens (MapleDiscordClient.setup_hook; the expiry of answers after
\* seven days is left out).  The one button nobody answers is that of a part
\* whose post was not confirmed to the process, and only until it is restarted.
ButtonServed ==
  \A p \in posted :
    p[2] = Parts => \/ Msg(p[1]) \in views[Bot(p[1])]
                    \/ p[1] \in unheard

\* Every call of on_message ends, or dies with its process: nothing waits for
\* ever for the queue lock, the semaphore or the advisory lock.
EveryCallEnds ==
  \A d \in Deliveries :
    (task[d].stage # "new") ~> (task[d].stage \in {"ended", "lost"})
=============================================================================
