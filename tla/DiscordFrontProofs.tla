------------------------- MODULE DiscordFrontProofs -------------------------
(***************************************************************************)
(* Proofs about DiscordFront.  For every number of processes, of messages, *)
(* of redeliveries and of crashes, and for every limit of waiting          *)
(* questions: the counter of the gate is exact, what Discord shows is what *)
(* the answers table holds, and every source button has its view, but for one  *)
(* whose post was not confirmed to the process still running.              *)
(***************************************************************************)
EXTENDS DiscordFront, FiniteSetTheorems, SequenceTheorems, TLAPS

-----------------------------------------------------------------------------
(* The inductive invariant.                                                *)

AtQueue == {"entering", "refusing", "leaving"}
AtSemaphore == {"generating", "answering"}

\* In line b stand the tasks of process b whose stage is in S, each once.
Lined(line, t, S) ==
  /\ line \in [Bots -> Seq(Deliveries)]
  /\ \A b \in Bots :
       /\ IsInjective(line[b])
       /\ \A e \in Deliveries :
            e \in Range(line[b]) <=> t[e].bot = b /\ t[e].stage \in S

\* A delivery that came in has a process and a message.
Known(t) ==
  \A d \in Deliveries :
    \/ t[d] = NoTask
    \/ /\ t[d] # NoTask
       /\ t[d].stage # "new" /\ t[d].bot \in Bots /\ t[d].msg \in Messages

\* Who is generating an answer holds the semaphore of its process.
OneGenerates ==
  \A d \in Deliveries :
    At(d, "answering") => genLine[Bot(d)] # <<>> /\ Head(genLine[Bot(d)]) = d

\* The tasks that hold a place in the queue of process b.
Placed(t, b) == {d \in Deliveries : t[d].bot = b /\ t[d].stage \in Inside}

\* A delivery replies only when its own answer is the one stored.
RepliesAreStored ==
  \A d \in Deliveries : At(d, "replying") => answer[Msg(d)] = d

\* Only deliveries that came in have posted anything.
PostedAreKnown == \A p \in posted : task[p[1]] # NoTask

\* At most one delivery at a time works on the answer to a message, over all
\* processes: the advisory lock of QAService.answer.
OneAnswerAtATime ==
  \A d, e \in Deliveries :
    At(d, "answering") /\ At(e, "answering") /\ Msg(d) = Msg(e) => d = e

\* A process generates one answer at a time: the semaphore of one permit.
OneGenerationPerProcess ==
  \A d, e \in Deliveries :
    At(d, "answering") /\ At(e, "answering") /\ Bot(d) = Bot(e) => d = e

\* The gate: tasks, the line of the queue lock and the counter agree.
QueueInv ==
  /\ task \in [Deliveries -> Task]
  /\ waiting \in [Bots -> Nat]
  /\ \A b \in Bots : waiting[b] <= MaxWaiting[b]
  /\ Known(task)
  /\ Lined(queueLine, task, AtQueue)
  /\ WaitingCountsTasks

\* The semaphore.
SemaphoreInv == Lined(genLine, task, AtSemaphore) /\ OneGenerates

\* The answers, and what Discord shows of them.
AnswerInv ==
  /\ crashes \in 0..MaxCrashes
  /\ answer \in [Messages -> Deliveries \cup {None}]
  /\ posted \subseteq Deliveries \X (1..Parts)
  /\ views \in [Bots -> SUBSET Messages]
  /\ unheard \subseteq Deliveries
  /\ OneAnswerAtATime
  /\ RepliesAreStored
  /\ PostedAreKnown
  /\ PostedIsStored
  /\ ButtonServed

IInv == QueueInv /\ SemaphoreInv /\ AnswerInv

-----------------------------------------------------------------------------
(* Lines: who stands in them after somebody joins or leaves.               *)

\* Every delivery but d is as it was; and d keeps its process and message.
Only(d, t, u) == \A e \in Deliveries : e # d => u[e] = t[e]
Moves(d, t, u) == Only(d, t, u) /\ u[d].bot = t[d].bot /\ u[d].msg = t[d].msg

\* d joins line b; the first of line b leaves it.
Join(line, b, d) == [line EXCEPT ![b] = Append(@, d)]
Pass(line, b) == [line EXCEPT ![b] = Tail(@)]

\* A newcomer stands at the end of the line.
LEMMA AppendInLine ==
    ASSUME NEW S, NEW s \in Seq(S), NEW d \in S, IsInjective(s), d \notin Range(s)
    PROVE  /\ Append(s, d) \in Seq(S) /\ IsInjective(Append(s, d))
           /\ Range(Append(s, d)) = Range(s) \cup {d}
           /\ Append(s, d) # <<>>
           /\ s # <<>> => Head(Append(s, d)) = Head(s)
           /\ s = <<>> => Head(Append(s, d)) = d
<1>1. /\ Append(s, d) \in Seq(S)
      /\ Append(s, d) # <<>>
      /\ Len(Append(s, d)) = Len(s) + 1
      /\ \A i \in 1..Len(s) : Append(s, d)[i] = s[i]
      /\ Append(s, d)[Len(s) + 1] = d
  BY AppendProperties
<1>2. /\ Len(s) \in Nat /\ DOMAIN s = 1..Len(s)
      /\ DOMAIN Append(s, d) = 1..(Len(s) + 1)
  BY <1>1, LenProperties
<1>3. IsInjective(Append(s, d))
  BY <1>1, <1>2 DEF IsInjective, Range
<1>4. Range(Append(s, d)) = Range(s) \cup {d}
  BY <1>1, <1>2 DEF Range
<1> QED
  BY <1>1, <1>3, <1>4, HeadTailAppend

\* When the first of a line goes, all the others stay.
LEMMA TailOfLine ==
    ASSUME NEW S, NEW s \in Seq(S), IsInjective(s), s # <<>>
    PROVE  /\ Tail(s) \in Seq(S) /\ IsInjective(Tail(s))
           /\ Range(Tail(s)) = Range(s) \ {Head(s)}
<1>1. /\ Tail(s) \in Seq(S)
      /\ Len(Tail(s)) = Len(s) - 1
      /\ \A i \in 1..Len(Tail(s)) : Tail(s)[i] = s[i + 1]
      /\ Head(s) = s[1]
  BY HeadTailProperties
<1>2. /\ Len(s) \in Nat \ {0} /\ DOMAIN s = 1..Len(s)
      /\ DOMAIN Tail(s) = 1..(Len(s) - 1)
  BY <1>1, LenProperties, EmptySeq
<1>3. IsInjective(Tail(s))
  BY <1>1, <1>2 DEF IsInjective
<1>4. Range(Tail(s)) \subseteq Range(s) \ {Head(s)}
  BY <1>1, <1>2 DEF IsInjective, Range
<1>5. Range(s) \ {Head(s)} \subseteq Range(Tail(s))
  <2> SUFFICES ASSUME NEW i \in 1..Len(s), s[i] # s[1]
               PROVE  s[i] \in Range(Tail(s))
      BY <1>1, <1>2 DEF Range
  <2>1. i - 1 \in 1..(Len(s) - 1) /\ Tail(s)[i - 1] = s[i]
      BY <1>1, <1>2
  <2> QED
      BY <2>1, <1>2 DEF Range
<1> QED
  BY <1>1, <1>3, <1>4, <1>5

\* A task joins the line of its process.
LEMMA LineJoined ==
    ASSUME NEW line, NEW t, NEW u, NEW S, NEW d \in Deliveries,
           Lined(line, t, S), u[d].bot \in Bots,
           t[d].stage \notin S, u[d].stage \in S,
           Only(d, t, u)
    PROVE  Lined(Join(line, u[d].bot, d), u, S)
<1> DEFINE next == [line EXCEPT ![u[d].bot] = Append(@, d)]
<1> USE DEF Only
<1>1. d \notin Range(line[u[d].bot])
  BY DEF Lined
<1>2. /\ Append(line[u[d].bot], d) \in Seq(Deliveries)
      /\ IsInjective(Append(line[u[d].bot], d))
      /\ Range(Append(line[u[d].bot], d)) = Range(line[u[d].bot]) \cup {d}
  BY <1>1, AppendInLine DEF Lined
<1>3. next \in [Bots -> Seq(Deliveries)]
  BY <1>2 DEF Lined
<1>4. ASSUME NEW b \in Bots
      PROVE  /\ IsInjective(next[b])
             /\ \A e \in Deliveries :
                  e \in Range(next[b]) <=> u[e].bot = b /\ u[e].stage \in S
  <2>1. CASE b = u[d].bot
    <3>1. next[b] = Append(line[b], d)
        BY <2>1 DEF Lined
    <3> QED
        BY <2>1, <3>1, <1>2 DEF Lined
  <2>2. CASE b # u[d].bot
    <3>1. next[b] = line[b]
        BY <2>2 DEF Lined
    <3>2. d \notin Range(line[b])
        BY DEF Lined
    <3> QED
        BY <2>2, <3>1, <3>2 DEF Lined
  <2> QED
      BY <2>1, <2>2
<1> QED
  BY <1>3, <1>4 DEF Lined, Join

\* The first of a line leaves it.
LEMMA LinePassed ==
    ASSUME NEW line, NEW t, NEW u, NEW S, NEW d \in Deliveries,
           Lined(line, t, S), t[d].bot \in Bots,
           line[t[d].bot] # <<>>, Head(line[t[d].bot]) = d,
           u[d].stage \notin S,
           Only(d, t, u)
    PROVE  Lined(Pass(line, t[d].bot), u, S)
<1> DEFINE next == [line EXCEPT ![t[d].bot] = Tail(@)]
<1> USE DEF Only
<1>1. /\ Tail(line[t[d].bot]) \in Seq(Deliveries)
      /\ IsInjective(Tail(line[t[d].bot]))
      /\ Range(Tail(line[t[d].bot])) = Range(line[t[d].bot]) \ {d}
  BY TailOfLine DEF Lined
<1>2. next \in [Bots -> Seq(Deliveries)]
  BY <1>1 DEF Lined
<1>3. ASSUME NEW b \in Bots
      PROVE  /\ IsInjective(next[b])
             /\ \A e \in Deliveries :
                  e \in Range(next[b]) <=> u[e].bot = b /\ u[e].stage \in S
  <2>1. CASE b = t[d].bot
    <3>1. next[b] = Tail(line[b])
        BY <2>1 DEF Lined
    <3> QED
        BY <2>1, <3>1, <1>1 DEF Lined
  <2>2. CASE b # t[d].bot
    <3>1. next[b] = line[b]
        BY <2>2 DEF Lined
    <3>2. d \notin Range(line[b])
        BY <2>2 DEF Lined
    <3> QED
        BY <2>2, <3>1, <3>2 DEF Lined
  <2> QED
      BY <2>1, <2>2
<1> QED
  BY <1>2, <1>3 DEF Lined, Pass

\* A line nobody joins or leaves.
LEMMA LineKept ==
    ASSUME NEW line, NEW t, NEW u, NEW S, Lined(line, t, S),
           \A e \in Deliveries :
             \/ t[e].stage \in S /\ u[e].stage \in S /\ u[e].bot = t[e].bot
             \/ t[e].stage \notin S /\ u[e].stage \notin S
    PROVE  Lined(line, u, S)
  BY DEF Lined

-----------------------------------------------------------------------------
(* The places taken in a process, and how many they are.                   *)

LEMMA PlacedFinite ==
    ASSUME NEW t, NEW b
    PROVE  IsFiniteSet(Placed(t, b)) /\ Cardinality(Placed(t, b)) \in Nat
<1>1. IsFiniteSet(Deliveries)
  BY FrontAssumption, FS_Interval DEF Deliveries, FrontAssumption
<1>2. Placed(t, b) \in SUBSET Deliveries
  BY DEF Placed
<1> QED
  BY <1>1, <1>2, FS_Subset, FS_CardinalityType

\* A task takes a place.
LEMMA PlaceTaken ==
    ASSUME NEW t, NEW u, NEW d \in Deliveries, NEW b,
           t[d].stage \notin Inside, u[d].stage \in Inside,
           Only(d, t, u)
    PROVE  Cardinality(Placed(u, b)) =
             IF b = u[d].bot THEN Cardinality(Placed(t, b)) + 1
                             ELSE Cardinality(Placed(t, b))
<1>1. d \notin Placed(t, b)
  BY DEF Placed, Only
<1>2. CASE b = u[d].bot
  <2>1. Placed(u, b) = Placed(t, b) \cup {d}
      BY <1>2 DEF Placed, Only
  <2> QED
      BY <1>1, <1>2, <2>1, PlacedFinite, FS_AddElement
<1>3. CASE b # u[d].bot
  <2>1. Placed(u, b) = Placed(t, b)
      BY <1>3 DEF Placed, Only
  <2> QED
      BY <1>3, <2>1
<1> QED
  BY <1>2, <1>3

\* A task gives its place back; it counted, so the counter was not zero.
LEMMA PlaceLeft ==
    ASSUME NEW t, NEW u, NEW d \in Deliveries, NEW b,
           t[d].stage \in Inside, u[d].stage \notin Inside,
           Only(d, t, u)
    PROVE  /\ Cardinality(Placed(u, b)) =
                IF b = t[d].bot THEN Cardinality(Placed(t, b)) - 1
                                ELSE Cardinality(Placed(t, b))
           /\ b = t[d].bot => Cardinality(Placed(t, b)) > 0
<1>1. CASE b = t[d].bot
  <2>1. Placed(u, b) = Placed(t, b) \ {d} /\ d \in Placed(t, b)
      BY <1>1 DEF Placed, Only
  <2>2. Cardinality(Placed(u, b)) = Cardinality(Placed(t, b)) - 1
      BY <2>1, PlacedFinite, FS_RemoveElement
  <2> QED
      BY <1>1, <2>2, PlacedFinite
<1>2. CASE b # t[d].bot
  <2>1. Placed(u, b) = Placed(t, b)
      BY <1>2 DEF Placed, Only
  <2> QED
      BY <1>2, <2>1
<1> QED
  BY <1>1, <1>2

\* Nobody takes a place or gives one back.
LEMMA PlacesKept ==
    ASSUME NEW t, NEW u, NEW b,
           \A e \in Deliveries :
             \/ t[e].stage \in Inside /\ u[e].stage \in Inside /\ u[e].bot = t[e].bot
             \/ t[e].stage \notin Inside /\ u[e].stage \notin Inside
    PROVE  Placed(u, b) = Placed(t, b)
  BY DEF Placed

-----------------------------------------------------------------------------
(* A task that moves to another stage, and the counter when it does.       *)

LEMMA TaskMoved ==
    ASSUME NEW d \in Deliveries, NEW s \in Stages, s # "new",
           task \in [Deliveries -> Task], Known(task), task[d].stage # "new",
           task' = To(d, s)
    PROVE  /\ task' \in [Deliveries -> Task] /\ Known(task)'
           /\ Moves(d, task, task')
           /\ task'[d].sent = task[d].sent /\ task'[d].stage = s
           /\ task[d].bot \in Bots /\ task[d].msg \in Messages
<1>1. task[d] \in Task
  OBVIOUS
<1>2. [task[d] EXCEPT !.stage = s] \in Task
  BY <1>1 DEF Task
<1>3. task' = [task EXCEPT ![d] = [task[d] EXCEPT !.stage = s]]
  BY DEF To
<1>4. task' \in [Deliveries -> Task] /\ task'[d] = [task[d] EXCEPT !.stage = s]
  BY <1>2, <1>3
<1>5. /\ task'[d].bot = task[d].bot /\ task'[d].msg = task[d].msg
      /\ task'[d].sent = task[d].sent /\ task'[d].stage = s
  BY <1>1, <1>4 DEF Task
<1>6. \A e \in Deliveries : e # d => task'[e] = task[e]
  BY <1>3
<1>7. task[d].bot \in Bots /\ task[d].msg \in Messages
  BY DEF Known, NoTask
<1>8. task'[d] # NoTask
  BY <1>5 DEF NoTask
<1>9. Known(task)'
  BY <1>5, <1>6, <1>7, <1>8 DEF Known
<1> QED
  BY <1>4, <1>5, <1>6, <1>7, <1>9 DEF Moves, Only

\* The counter is exact after one task took a place.
LEMMA CountUp ==
    ASSUME NEW d \in Deliveries, QueueInv,
           task[d].stage \notin Inside, task'[d].stage \in Inside,
           task'[d].bot \in Bots, ~Full(task'[d].bot),
           Only(d, task, task'),
           waiting' = [waiting EXCEPT ![task'[d].bot] = @ + 1]
    PROVE  /\ waiting' \in [Bots -> Nat]
           /\ \A b \in Bots : waiting'[b] <= MaxWaiting[b]
           /\ \A b \in Bots : waiting'[b] = Cardinality(Placed(task', b))
<1>1. \A b \in Bots : waiting[b] = Cardinality(Placed(task, b))
  BY DEF QueueInv, WaitingCountsTasks, Placed, Bot
<1>2. \A b \in Bots : Cardinality(Placed(task', b)) =
             IF b = task'[d].bot THEN waiting[b] + 1 ELSE waiting[b]
  BY <1>1, PlaceTaken
<1>3. \A b \in Bots : waiting[b] \in Nat /\ MaxWaiting[b] \in Nat
  BY FrontAssumption DEF FrontAssumption, QueueInv
<1> QED
  BY <1>2, <1>3 DEF QueueInv, Full

\* The counter is exact, and never below zero, after one task left its place.
LEMMA CountDown ==
    ASSUME NEW d \in Deliveries, QueueInv,
           task[d].stage \in Inside, task'[d].stage \notin Inside,
           task[d].bot \in Bots,
           Only(d, task, task'),
           waiting' = [waiting EXCEPT ![task[d].bot] = @ - 1]
    PROVE  /\ waiting' \in [Bots -> Nat]
           /\ \A b \in Bots : waiting'[b] <= MaxWaiting[b]
           /\ \A b \in Bots : waiting'[b] = Cardinality(Placed(task', b))
<1>1. \A b \in Bots : waiting[b] = Cardinality(Placed(task, b))
  BY DEF QueueInv, WaitingCountsTasks, Placed, Bot
<1>2. /\ \A b \in Bots : Cardinality(Placed(task', b)) =
             IF b = task[d].bot THEN waiting[b] - 1 ELSE waiting[b]
      /\ waiting[task[d].bot] > 0
  BY <1>1, PlaceLeft
<1>3. \A b \in Bots : waiting[b] \in Nat /\ MaxWaiting[b] \in Nat
  BY FrontAssumption DEF FrontAssumption, QueueInv
<1> QED
  BY <1>2, <1>3 DEF QueueInv

\* The counter stays as it is when every task keeps its place or has none.
LEMMA CountKept ==
    ASSUME QueueInv,
           \A e \in Deliveries :
             \/ task[e].stage \in Inside /\ task'[e].stage \in Inside
                /\ task'[e].bot = task[e].bot
             \/ task[e].stage \notin Inside /\ task'[e].stage \notin Inside
    PROVE  \A b \in Bots : waiting[b] = Cardinality(Placed(task', b))
<1>1. \A b \in Bots : waiting[b] = Cardinality(Placed(task, b))
  BY DEF QueueInv, WaitingCountsTasks, Placed, Bot
<1> QED
  BY <1>1, PlacesKept

\* The holder of the queue lock gives it back.
LEMMA QueuePassed ==
    ASSUME NEW d \in Deliveries, QueueInv, Only(d, task, task'),
           task[d].bot \in Bots, task'[d].stage \notin AtQueue,
           Holds(queueLine, d), queueLine' = Passed(queueLine, d)
    PROVE  Lined(queueLine, task, AtQueue)'
<1>1. queueLine' = Pass(queueLine, task[d].bot)
  BY DEF Passed, Pass, Bot
<1>2. Lined(queueLine, task, AtQueue)
  BY DEF QueueInv
<1>3. Lined(Pass(queueLine, task[d].bot), task', AtQueue)
  BY <1>2, LinePassed DEF Holds, Bot
<1> QED
  BY <1>1, <1>3 DEF Lined

\* A task that keeps its place goes on, and the gate does not notice.
LEMMA QueueAside ==
    ASSUME NEW d \in Deliveries, QueueInv, Moves(d, task, task'),
           task' \in [Deliveries -> Task], Known(task)',
           task[d].stage \in Inside \ AtQueue, task'[d].stage \in Inside \ AtQueue,
           UNCHANGED <<queueLine, waiting>>
    PROVE  QueueInv'
<1>1. Lined(queueLine, task', AtQueue)
  BY LineKept DEF QueueInv, Moves, Only
<1>2. Lined(queueLine, task, AtQueue)'
  BY <1>1 DEF Lined
<1>3. \A b \in Bots : waiting[b] = Cardinality(Placed(task', b))
  BY CountKept DEF Moves, Only
<1>4. WaitingCountsTasks'
  BY <1>3 DEF WaitingCountsTasks, Placed, Bot
<1> QED
  BY <1>2, <1>4 DEF QueueInv

\* The finally of on_message: from anywhere in the gated region.
LEMMA GoLeaveStep ==
    ASSUME NEW d \in Deliveries, QueueInv, GoLeave(d),
           task[d].stage \in {"typing", "generating", "answering", "replying"}
    PROVE  /\ QueueInv'
           /\ Moves(d, task, task')
           /\ task'[d].stage \in {"ended", "leaving"}
           /\ task[d].bot \in Bots /\ task[d].msg \in Messages
<1>0. /\ "ended" \in Stages /\ "leaving" \in Stages
      /\ task[d].stage # "new" /\ task[d].stage \in Inside
      /\ task[d].stage \notin AtQueue
      /\ "leaving" \in Inside /\ "ended" \notin Inside
      /\ "leaving" \in AtQueue /\ "ended" \notin AtQueue
  BY DEF Stages, Inside, AtQueue
<1>1. CASE queueLine[Bot(d)] = <<>>
  <2>1. task' = To(d, "ended") /\ UNCHANGED queueLine
        /\ waiting' = [waiting EXCEPT ![task[d].bot] = @ - 1]
      BY <1>1 DEF GoLeave, Bot
  <2>2. /\ task' \in [Deliveries -> Task] /\ Known(task)'
        /\ Moves(d, task, task') /\ Only(d, task, task')
        /\ task'[d].stage = "ended"
        /\ task[d].bot \in Bots /\ task[d].msg \in Messages
      BY <1>0, <2>1, TaskMoved DEF QueueInv, Moves
  <2>3. /\ waiting' \in [Bots -> Nat]
        /\ \A b \in Bots : waiting'[b] <= MaxWaiting[b]
        /\ \A b \in Bots : waiting'[b] = Cardinality(Placed(task', b))
      BY <1>0, <2>1, <2>2, CountDown
  <2>4. Lined(queueLine, task', AtQueue)
    <3>1. \A e \in Deliveries :
             \/ task[e].stage \in AtQueue /\ task'[e].stage \in AtQueue
                /\ task'[e].bot = task[e].bot
             \/ task[e].stage \notin AtQueue /\ task'[e].stage \notin AtQueue
        BY <1>0, <2>2 DEF Moves, Only
    <3> QED
        BY <3>1, LineKept DEF QueueInv
  <2>5. WaitingCountsTasks'
      BY <2>1, <2>3 DEF WaitingCountsTasks, Placed, Bot
  <2>6. Lined(queueLine, task, AtQueue)'
      BY <2>1, <2>4 DEF Lined
  <2>7. waiting' \in [Bots -> Nat] /\ \A b \in Bots : waiting'[b] <= MaxWaiting[b]
      BY <2>1, <2>3 DEF QueueInv
  <2> QED
      BY <2>2, <2>5, <2>6, <2>7 DEF QueueInv
<1>2. CASE queueLine[Bot(d)] # <<>>
  <2>1. task' = To(d, "leaving") /\ UNCHANGED waiting
        /\ queueLine' = [queueLine EXCEPT ![task[d].bot] = Append(@, d)]
      BY <1>2 DEF GoLeave, Joined, Bot
  <2>2. /\ task' \in [Deliveries -> Task] /\ Known(task)'
        /\ Moves(d, task, task') /\ Only(d, task, task')
        /\ task'[d].stage = "leaving"
        /\ task[d].bot \in Bots /\ task[d].msg \in Messages
      BY <1>0, <2>1, TaskMoved DEF QueueInv, Moves
  <2>3. \A b \in Bots : waiting[b] = Cardinality(Placed(task', b))
      BY <1>0, <2>2, CountKept DEF Moves, Only
  <2>4. Lined(queueLine', task', AtQueue)
    <3>1. queueLine' = Join(queueLine, task'[d].bot, d)
        BY <2>1, <2>2 DEF Join, Moves
    <3>2. Lined(queueLine, task, AtQueue)
        BY DEF QueueInv
    <3>3. /\ Only(d, task, task') /\ task'[d].bot \in Bots
          /\ task[d].stage \notin AtQueue /\ task'[d].stage \in AtQueue
        BY <1>0, <2>2 DEF Moves
    <3>4. Lined(Join(queueLine, task'[d].bot, d), task', AtQueue)
        BY <3>2, <3>3, LineJoined
    <3> QED
        BY <3>1, <3>4
  <2>5. WaitingCountsTasks'
      BY <2>1, <2>3 DEF WaitingCountsTasks, Placed, Bot
  <2>6. Lined(queueLine, task, AtQueue)'
      BY <2>1, <2>4 DEF Lined
  <2>7. waiting' \in [Bots -> Nat] /\ \A b \in Bots : waiting'[b] <= MaxWaiting[b]
      BY <2>1, <2>3 DEF QueueInv
  <2> QED
      BY <2>2, <2>5, <2>6, <2>7 DEF QueueInv
<1> QED
  BY <1>1, <1>2

-----------------------------------------------------------------------------
(* The semaphore and the answers, by what the moving task does with them.  *)

\* A task that has nothing to do with the semaphore moves.
LEMMA SemaphoreAside ==
    ASSUME NEW d \in Deliveries, SemaphoreInv, Moves(d, task, task'),
           task[d].stage \notin AtSemaphore, task'[d].stage \notin AtSemaphore,
           UNCHANGED genLine
    PROVE  SemaphoreInv'
<1>1. \A e \in Deliveries :
        \/ /\ task[e].stage \in AtSemaphore /\ task'[e].stage \in AtSemaphore
           /\ task'[e].bot = task[e].bot
        \/ task[e].stage \notin AtSemaphore /\ task'[e].stage \notin AtSemaphore
  BY DEF Moves, Only
<1>2. Lined(genLine, task', AtSemaphore)
  BY <1>1, LineKept DEF SemaphoreInv
<1>3. Lined(genLine, task, AtSemaphore)'
  BY <1>2 DEF Lined
<1>4. OneGenerates'
  BY DEF SemaphoreInv, OneGenerates, Moves, Only, At, Bot, AtSemaphore
<1> QED
  BY <1>3, <1>4 DEF SemaphoreInv

\* The holder of the semaphore gives it back.
LEMMA SemaphorePassed ==
    ASSUME NEW d \in Deliveries, SemaphoreInv, Moves(d, task, task'),
           task[d].bot \in Bots, task'[d].stage \notin AtSemaphore,
           genLine[Bot(d)] # <<>>, Head(genLine[Bot(d)]) = d,
           genLine' = Passed(genLine, d)
    PROVE  SemaphoreInv'
<1>1. genLine' = Pass(genLine, task[d].bot)
  BY DEF Passed, Pass, Bot
<1>2. Lined(genLine, task, AtSemaphore) /\ Only(d, task, task')
  BY DEF SemaphoreInv, Moves
<1>3. Lined(Pass(genLine, task[d].bot), task', AtSemaphore)
  BY <1>2, LinePassed DEF Bot
<1>4. Lined(genLine, task, AtSemaphore)'
  BY <1>1, <1>3 DEF Lined
<1>5. OneGenerates'
  <2> SUFFICES ASSUME NEW e \in Deliveries, At(e, "answering")'
               PROVE  /\ genLine'[Bot(e)'] # <<>>
                      /\ Head(genLine'[Bot(e)']) = e
      BY DEF OneGenerates
  <2>1. e # d /\ task'[e] = task[e] /\ At(e, "answering")
      BY DEF At, AtSemaphore, Moves, Only
  <2>2. genLine[Bot(e)] # <<>> /\ Head(genLine[Bot(e)]) = e
      BY <2>1 DEF SemaphoreInv, OneGenerates
  <2>3. Bot(e) # Bot(d)
      BY <2>1, <2>2
  <2>4. genLine'[Bot(e)] = genLine[Bot(e)]
      BY <1>2, <2>3 DEF Passed, Lined, Bot
  <2> QED
      BY <2>1, <2>2, <2>4 DEF Bot
<1> QED
  BY <1>4, <1>5 DEF SemaphoreInv

\* A task that is neither working on an answer nor sending one afterwards
\* moves, and the answers are left alone.
LEMMA AnswersAside ==
    ASSUME NEW d \in Deliveries, AnswerInv, Moves(d, task, task'),
           task[d].stage # "new", Known(task),
           task'[d].stage \notin {"new", "answering", "replying"},
           UNCHANGED <<answer, posted, views, unheard, crashes>>
    PROVE  AnswerInv'
<1>1. \A e \in Deliveries : Msg(e)' = Msg(e) /\ Bot(e)' = Bot(e)
  BY DEF Moves, Only, Msg, Bot
<1>2. OneAnswerAtATime' /\ RepliesAreStored'
  BY <1>1 DEF AnswerInv, OneAnswerAtATime, RepliesAreStored, Moves, Only, At
<1>3. PostedAreKnown'
  BY DEF AnswerInv, PostedAreKnown, Moves, Only, NoTask
<1>4. PostedIsStored' /\ ButtonServed'
  BY <1>1 DEF AnswerInv, PostedIsStored, ButtonServed
<1> QED
  BY <1>2, <1>3, <1>4 DEF AnswerInv

\* A delivery stores its answer, and replies or goes.
LEMMA AnswerStored ==
    ASSUME NEW d \in Deliveries, AnswerInv, Moves(d, task, task'),
           ~Answered(Msg(d)), Msg(d) \in Messages, Known(task),
           task[d].stage # "new", task'[d].stage \notin {"new", "answering"},
           answer' = [answer EXCEPT ![Msg(d)] = d],
           UNCHANGED <<posted, views, unheard, crashes>>
    PROVE  AnswerInv'
<1>1. \A e \in Deliveries : Msg(e)' = Msg(e) /\ Bot(e)' = Bot(e)
  BY DEF Moves, Only, Msg, Bot
<1>2. answer' \in [Messages -> Deliveries \cup {None}]
  BY DEF AnswerInv
<1>3. ASSUME NEW e \in Deliveries, answer[Msg(e)] = e, Msg(e) \in Messages
      PROVE  answer'[Msg(e)] = e
  <2>1. Msg(e) # Msg(d)
      BY <1>3, FrontAssumption DEF Answered, FrontAssumption, Deliveries
  <2> QED
      BY <1>3, <2>1 DEF AnswerInv
<1>4. OneAnswerAtATime'
  BY <1>1 DEF AnswerInv, OneAnswerAtATime, Moves, Only, At
<1>5. RepliesAreStored'
  <2> SUFFICES ASSUME NEW e \in Deliveries, At(e, "replying")'
               PROVE  answer'[Msg(e)] = e
      BY <1>1 DEF RepliesAreStored
  <2>1. CASE e = d
      BY <2>1 DEF AnswerInv
  <2>2. CASE e # d
    <3>1. At(e, "replying") /\ Msg(e) \in Messages
        BY <2>2 DEF Moves, Only, At, Known, NoTask, Msg
    <3> QED
        BY <3>1, <1>3 DEF AnswerInv, RepliesAreStored
  <2> QED
      BY <2>1, <2>2
<1>6. PostedAreKnown'
  BY DEF AnswerInv, PostedAreKnown, Moves, Only, NoTask
<1>7. PostedIsStored'
  <2> SUFFICES ASSUME NEW p \in posted
               PROVE  answer'[Msg(p[1])] = p[1]
      BY <1>1 DEF PostedIsStored, AnswerInv
  <2>1. p[1] \in Deliveries
      BY DEF AnswerInv
  <2>2. Msg(p[1]) \in Messages /\ answer[Msg(p[1])] = p[1]
      BY <2>1 DEF AnswerInv, PostedAreKnown, PostedIsStored, Known, Msg
  <2> QED
      BY <2>1, <2>2, <1>3
<1>8. ButtonServed'
  BY <1>1 DEF AnswerInv, ButtonServed
<1> QED
  BY <1>2, <1>4, <1>5, <1>6, <1>7, <1>8 DEF AnswerInv

-----------------------------------------------------------------------------
(* Every action keeps the invariant.                                       *)

LEMMA OnMessageStep ==
    ASSUME NEW b \in Bots, NEW d \in Deliveries, NEW m \in Messages, IInv,
           OnMessage(b, d, m)
    PROVE  IInv'
<1>0. /\ QueueInv /\ SemaphoreInv /\ AnswerInv
      /\ task[d] = NoTask /\ task[d].stage = "new" /\ task \in [Deliveries -> Task]
  BY DEF IInv, OnMessage, NoTask, QueueInv
<1>1. PICK stage \in {"entering", "refusing", "typing"} :
        /\ task' = [task EXCEPT ![d] =
                     [bot |-> b, msg |-> m, stage |-> stage, sent |-> 0]]
        /\ stage = "typing" => /\ queueLine' = queueLine /\ ~Full(b)
                               /\ waiting' = [waiting EXCEPT ![b] = @ + 1]
        /\ stage # "typing" =>
             /\ queueLine' = [queueLine EXCEPT ![b] = Append(@, d)]
             /\ waiting' = waiting
        /\ UNCHANGED <<genLine, answer, posted, views, unheard, crashes>>
  BY DEF OnMessage
<1>2. /\ Only(d, task, task')
      /\ task'[d] = [bot |-> b, msg |-> m, stage |-> stage, sent |-> 0]
      /\ task'[d].bot = b /\ task'[d].msg = m /\ task'[d].stage = stage
  BY <1>0, <1>1 DEF Only
<1>3. task' \in [Deliveries -> Task]
  <2>1. [bot |-> b, msg |-> m, stage |-> stage, sent |-> 0] \in Task
      BY FrontAssumption DEF Task, Stages, FrontAssumption
  <2> QED
      BY <1>0, <1>1, <2>1
<1>4. Known(task)'
  BY <1>0, <1>2 DEF Known, QueueInv, Only, NoTask
<1>5. SemaphoreInv'
  <2>1. \A e \in Deliveries :
          \/ /\ task[e].stage \in AtSemaphore /\ task'[e].stage \in AtSemaphore
             /\ task'[e].bot = task[e].bot
          \/ task[e].stage \notin AtSemaphore /\ task'[e].stage \notin AtSemaphore
      BY <1>0, <1>2 DEF Only, AtSemaphore
  <2>2. Lined(genLine, task', AtSemaphore)
      BY <1>0, <2>1, LineKept DEF SemaphoreInv
  <2>3. Lined(genLine, task, AtSemaphore)'
      BY <1>1, <2>2 DEF Lined
  <2>4. OneGenerates'
      BY <1>0, <1>1, <1>2 DEF SemaphoreInv, OneGenerates, Only, At, Bot
  <2> QED
      BY <2>3, <2>4 DEF SemaphoreInv
<1>6. AnswerInv'
  <2>1. OneAnswerAtATime' /\ RepliesAreStored'
      BY <1>0, <1>1, <1>2 DEF AnswerInv, OneAnswerAtATime, RepliesAreStored, Only,
         At, Msg
  <2>2. \A p \in posted : p[1] \in Deliveries \ {d} /\ task'[p[1]] = task[p[1]]
      BY <1>0, <1>2 DEF AnswerInv, PostedAreKnown, Only
  <2>3. PostedAreKnown' /\ PostedIsStored' /\ ButtonServed'
      BY <1>0, <1>1, <2>2 DEF AnswerInv, PostedAreKnown, PostedIsStored,
         ButtonServed, Msg, Bot
  <2> QED
      BY <1>0, <1>1, <2>1, <2>3 DEF AnswerInv
<1>7. CASE stage = "typing"
  <2>1. /\ task[d].stage \notin Inside /\ task'[d].stage \in Inside
        /\ task[d].stage \notin AtQueue /\ task'[d].stage \notin AtQueue
      BY <1>0, <1>2, <1>7 DEF Inside, AtQueue
  <2>2. /\ waiting' \in [Bots -> Nat]
        /\ \A c \in Bots : waiting'[c] <= MaxWaiting[c]
        /\ \A c \in Bots : waiting'[c] = Cardinality(Placed(task', c))
      BY <1>0, <1>1, <1>2, <1>7, <2>1, CountUp
  <2>3. Lined(queueLine, task', AtQueue)
      BY <1>0, <1>2, <2>1, LineKept DEF QueueInv, Only
  <2>4. Lined(queueLine, task, AtQueue)'
      BY <1>1, <1>7, <2>3 DEF Lined
  <2>5. WaitingCountsTasks'
      BY <2>2 DEF WaitingCountsTasks, Placed, Bot
  <2> QED
      BY <1>3, <1>4, <1>5, <1>6, <2>2, <2>4, <2>5 DEF IInv, QueueInv
<1>8. CASE stage # "typing"
  <2>1. /\ task[d].stage \notin Inside /\ task'[d].stage \notin Inside
        /\ task[d].stage \notin AtQueue /\ task'[d].stage \in AtQueue
      BY <1>0, <1>1, <1>2, <1>8 DEF Inside, AtQueue
  <2>2. \A c \in Bots : waiting[c] = Cardinality(Placed(task', c))
      BY <1>0, <1>2, <2>1, CountKept DEF Only
  <2>3. queueLine' = Join(queueLine, task'[d].bot, d)
      BY <1>1, <1>2, <1>8 DEF Join
  <2>4. Lined(queueLine, task, AtQueue) /\ task'[d].bot \in Bots
      BY <1>0, <1>2 DEF QueueInv
  <2>5. Lined(Join(queueLine, task'[d].bot, d), task', AtQueue)
      BY <1>2, <2>1, <2>4, LineJoined
  <2>6. Lined(queueLine, task, AtQueue)'
      BY <2>3, <2>5 DEF Lined
  <2>7. WaitingCountsTasks'
      BY <1>1, <1>8, <2>2 DEF WaitingCountsTasks, Placed, Bot
  <2> QED
      BY <1>0, <1>1, <1>3, <1>4, <1>5, <1>6, <1>8, <2>6, <2>7 DEF IInv, QueueInv
<1> QED
  BY <1>7, <1>8

LEMMA EnterStep ==
    ASSUME NEW d \in Deliveries, IInv, Enter(d)
    PROVE  IInv'
<1>0. /\ QueueInv /\ SemaphoreInv /\ AnswerInv
      /\ task[d].stage = "entering" /\ Holds(queueLine, d)
      /\ UNCHANGED <<genLine, answer, posted, views, unheard, crashes>>
  BY DEF IInv, Enter, At
<1>1. CASE Full(Bot(d))
  <2>1. task' = To(d, "refusing") /\ UNCHANGED <<waiting, queueLine>>
      BY <1>1 DEF Enter
  <2>2. /\ task' \in [Deliveries -> Task] /\ Known(task)'
        /\ Moves(d, task, task') /\ task'[d].stage = "refusing"
      BY <1>0, <2>1, TaskMoved DEF QueueInv, Stages
  <2>3. Lined(queueLine, task', AtQueue)
      BY <1>0, <2>2, LineKept DEF QueueInv, Moves, Only, AtQueue
  <2>4. Lined(queueLine, task, AtQueue)'
      BY <2>1, <2>3 DEF Lined
  <2>5. \A b \in Bots : waiting[b] = Cardinality(Placed(task', b))
      BY <1>0, <2>2, CountKept DEF Moves, Only, Inside
  <2>6. WaitingCountsTasks'
      BY <2>1, <2>5 DEF WaitingCountsTasks, Placed, Bot
  <2>7. QueueInv'
      BY <1>0, <2>1, <2>2, <2>4, <2>6 DEF QueueInv
  <2>8. SemaphoreInv'
      BY <1>0, <2>2, SemaphoreAside DEF AtSemaphore
  <2>9. AnswerInv'
      BY <1>0, <2>2, AnswersAside DEF QueueInv
  <2> QED
      BY <2>7, <2>8, <2>9 DEF IInv
<1>2. CASE ~Full(Bot(d))
  <2>1. /\ task' = To(d, "typing") /\ queueLine' = Passed(queueLine, d)
        /\ waiting' = [waiting EXCEPT ![task[d].bot] = @ + 1]
      BY <1>2 DEF Enter, Bot
  <2>2. /\ task' \in [Deliveries -> Task] /\ Known(task)'
        /\ Moves(d, task, task') /\ task'[d].stage = "typing"
        /\ task[d].bot \in Bots
      BY <1>0, <2>1, TaskMoved DEF QueueInv, Stages
  <2>3. Lined(queueLine, task, AtQueue)'
      BY <1>0, <2>1, <2>2, QueuePassed DEF Moves, AtQueue
  <2>4. /\ task[d].stage \notin Inside /\ task'[d].stage \in Inside
        /\ task'[d].bot \in Bots /\ ~Full(task'[d].bot) /\ Only(d, task, task')
        /\ waiting' = [waiting EXCEPT ![task'[d].bot] = @ + 1]
      BY <1>0, <1>2, <2>1, <2>2 DEF Inside, Moves, Bot
  <2>5. /\ waiting' \in [Bots -> Nat]
        /\ \A c \in Bots : waiting'[c] <= MaxWaiting[c]
        /\ \A c \in Bots : waiting'[c] = Cardinality(Placed(task', c))
      BY <1>0, <2>4, CountUp
  <2>6. WaitingCountsTasks'
      BY <2>5 DEF WaitingCountsTasks, Placed, Bot
  <2>7. QueueInv'
      BY <2>2, <2>3, <2>5, <2>6 DEF QueueInv
  <2>8. SemaphoreInv'
      BY <1>0, <2>2, SemaphoreAside DEF AtSemaphore
  <2>9. AnswerInv'
      BY <1>0, <2>2, AnswersAside DEF QueueInv
  <2> QED
      BY <2>7, <2>8, <2>9 DEF IInv
<1> QED
  BY <1>1, <1>2

LEMMA RefuseStep ==
    ASSUME NEW d \in Deliveries, IInv, Refuse(d)
    PROVE  IInv'
<1>0. /\ QueueInv /\ SemaphoreInv /\ AnswerInv
      /\ task[d].stage = "refusing" /\ Holds(queueLine, d)
      /\ queueLine' = Passed(queueLine, d) /\ task' = To(d, "ended")
      /\ UNCHANGED <<waiting, genLine, answer, posted, views, unheard, crashes>>
  BY DEF IInv, Refuse, At
<1>1. /\ task' \in [Deliveries -> Task] /\ Known(task)'
      /\ Moves(d, task, task') /\ task'[d].stage = "ended"
      /\ task[d].bot \in Bots
  BY <1>0, TaskMoved DEF QueueInv, Stages
<1>2. Lined(queueLine, task, AtQueue)'
  BY <1>0, <1>1, QueuePassed DEF Moves, AtQueue
<1>3. \A b \in Bots : waiting[b] = Cardinality(Placed(task', b))
  BY <1>0, <1>1, CountKept DEF Moves, Only, Inside
<1>4. WaitingCountsTasks'
  BY <1>0, <1>3 DEF WaitingCountsTasks, Placed, Bot
<1>5. QueueInv'
  BY <1>0, <1>1, <1>2, <1>4 DEF QueueInv
<1>6. SemaphoreInv'
  BY <1>0, <1>1, SemaphoreAside DEF AtSemaphore
<1>7. AnswerInv'
  BY <1>0, <1>1, AnswersAside DEF QueueInv
<1> QED
  BY <1>5, <1>6, <1>7 DEF IInv

LEMMA LeaveStep ==
    ASSUME NEW d \in Deliveries, IInv, Leave(d)
    PROVE  IInv'
<1>0. /\ QueueInv /\ SemaphoreInv /\ AnswerInv
      /\ task[d].stage = "leaving" /\ Holds(queueLine, d)
      /\ queueLine' = Passed(queueLine, d) /\ task' = To(d, "ended")
      /\ waiting' = [waiting EXCEPT ![task[d].bot] = @ - 1]
      /\ UNCHANGED <<genLine, answer, posted, views, unheard, crashes>>
  BY DEF IInv, Leave, At, Bot
<1>1. /\ task' \in [Deliveries -> Task] /\ Known(task)'
      /\ Moves(d, task, task') /\ task'[d].stage = "ended"
      /\ task[d].bot \in Bots
  BY <1>0, TaskMoved DEF QueueInv, Stages
<1>2. Lined(queueLine, task, AtQueue)'
  BY <1>0, <1>1, QueuePassed DEF Moves, AtQueue
<1>3. task[d].stage \in Inside /\ task'[d].stage \notin Inside /\ Only(d, task, task')
  BY <1>0, <1>1 DEF Inside, Moves
<1>4. /\ waiting' \in [Bots -> Nat]
      /\ \A b \in Bots : waiting'[b] <= MaxWaiting[b]
      /\ \A b \in Bots : waiting'[b] = Cardinality(Placed(task', b))
  BY <1>0, <1>1, <1>3, CountDown
<1>5. WaitingCountsTasks'
  BY <1>4 DEF WaitingCountsTasks, Placed, Bot
<1>6. QueueInv'
  BY <1>1, <1>2, <1>4, <1>5 DEF QueueInv
<1>7. SemaphoreInv'
  BY <1>0, <1>1, SemaphoreAside DEF AtSemaphore
<1>8. AnswerInv'
  BY <1>0, <1>1, AnswersAside DEF QueueInv
<1> QED
  BY <1>6, <1>7, <1>8 DEF IInv

LEMMA TypingStep ==
    ASSUME NEW d \in Deliveries, IInv, Typing(d)
    PROVE  IInv'
<1>0. /\ QueueInv /\ SemaphoreInv /\ AnswerInv
      /\ task[d].stage = "typing" /\ task \in [Deliveries -> Task] /\ Known(task)
      /\ UNCHANGED <<answer, posted, views, unheard, crashes>>
  BY DEF IInv, Typing, At, QueueInv
<1>1. CASE GoLeave(d) /\ UNCHANGED genLine
  <2>1. /\ QueueInv' /\ Moves(d, task, task')
        /\ task'[d].stage \in {"ended", "leaving"}
      BY <1>0, <1>1, GoLeaveStep
  <2>2. SemaphoreInv'
      BY <1>0, <1>1, <2>1, SemaphoreAside DEF AtSemaphore
  <2>3. AnswerInv'
      BY <1>0, <2>1, AnswersAside
  <2> QED
      BY <2>1, <2>2, <2>3 DEF IInv
<1>2. CASE /\ task' = To(d, "generating") /\ genLine' = Joined(genLine, d)
           /\ UNCHANGED <<queueLine, waiting>>
  <2>1. /\ task' \in [Deliveries -> Task] /\ Known(task)'
        /\ Moves(d, task, task') /\ task'[d].stage = "generating"
        /\ task[d].bot \in Bots
      BY <1>0, <1>2, TaskMoved DEF Stages
  <2>2. QueueInv'
      BY <1>0, <1>2, <2>1, QueueAside DEF Inside, AtQueue
  <2>3. /\ genLine' = Join(genLine, task'[d].bot, d) /\ task'[d].bot \in Bots
        /\ task[d].stage \notin AtSemaphore /\ task'[d].stage \in AtSemaphore
        /\ Only(d, task, task') /\ Lined(genLine, task, AtSemaphore)
      BY <1>0, <1>2, <2>1 DEF Joined, Join, Bot, AtSemaphore, Moves, SemaphoreInv
  <2>4. Lined(Join(genLine, task'[d].bot, d), task', AtSemaphore)
      BY <2>3, LineJoined
  <2>5. Lined(genLine, task, AtSemaphore)'
      BY <2>3, <2>4 DEF Lined
  <2>6. OneGenerates'
    <3> SUFFICES ASSUME NEW e \in Deliveries, At(e, "answering")'
                 PROVE  /\ genLine'[Bot(e)'] # <<>>
                        /\ Head(genLine'[Bot(e)']) = e
        BY DEF OneGenerates
    <3>1. e # d /\ task'[e] = task[e] /\ Bot(e)' = Bot(e) /\ At(e, "answering")
        BY <2>1 DEF At, Moves, Only, Bot
    <3>2. genLine[Bot(e)] # <<>> /\ Head(genLine[Bot(e)]) = e /\ Bot(e) \in Bots
        BY <1>0, <3>1 DEF SemaphoreInv, OneGenerates, Known, Bot, At, NoTask
    <3>3. genLine[Bot(e)] \in Seq(Deliveries)
        BY <2>3, <3>2 DEF Lined
    <3>4. genLine'[Bot(e)] = IF Bot(e) = Bot(d) THEN Append(genLine[Bot(e)], d)
                                                ELSE genLine[Bot(e)]
        BY <1>2, <2>3, <3>2 DEF Joined, Lined
    <3>5. /\ Append(genLine[Bot(e)], d) # <<>>
          /\ Head(Append(genLine[Bot(e)], d)) = Head(genLine[Bot(e)])
        BY <3>2, <3>3, AppendProperties, HeadTailAppend
    <3> QED
        BY <3>1, <3>2, <3>4, <3>5
  <2>7. SemaphoreInv'
      BY <2>5, <2>6 DEF SemaphoreInv
  <2>8. AnswerInv'
      BY <1>0, <2>1, AnswersAside
  <2> QED
      BY <2>2, <2>7, <2>8 DEF IInv
<1> QED
  BY <1>1, <1>2 DEF Typing

\* QAService.answer drops a duplicate, or starts on the answer with the lock on
\* the message.
LEMMA BeginAnswerStep ==
    ASSUME NEW d \in Deliveries, IInv, BeginAnswer(d)
    PROVE  IInv'
<1>0. /\ QueueInv /\ SemaphoreInv /\ AnswerInv
      /\ task[d].stage = "generating" /\ task \in [Deliveries -> Task] /\ Known(task)
      /\ genLine[Bot(d)] # <<>> /\ Head(genLine[Bot(d)]) = d
      /\ ~AdvisoryLocked(Msg(d))
      /\ UNCHANGED <<answer, posted, views, unheard, crashes>>
  BY DEF IInv, BeginAnswer, At, QueueInv, Holds
<1>1. CASE GoLeave(d) /\ genLine' = Passed(genLine, d)
  <2>1. /\ QueueInv' /\ Moves(d, task, task') /\ task[d].bot \in Bots
        /\ task'[d].stage \in {"ended", "leaving"}
      BY <1>0, <1>1, GoLeaveStep
  <2>2. SemaphoreInv'
      BY <1>0, <1>1, <2>1, SemaphorePassed DEF AtSemaphore
  <2>3. AnswerInv'
      BY <1>0, <2>1, AnswersAside
  <2> QED
      BY <2>1, <2>2, <2>3 DEF IInv
<1>2. CASE task' = To(d, "answering") /\ UNCHANGED <<queueLine, waiting, genLine>>
  <2>1. /\ task' \in [Deliveries -> Task] /\ Known(task)'
        /\ Moves(d, task, task') /\ task'[d].stage = "answering"
      BY <1>0, <1>2, TaskMoved DEF Stages
  <2>2. QueueInv'
      BY <1>0, <1>2, <2>1, QueueAside DEF Inside, AtQueue
  <2>3. Lined(genLine, task', AtSemaphore)
      BY <1>0, <2>1, LineKept DEF SemaphoreInv, Moves, Only, AtSemaphore
  <2>4. Lined(genLine, task, AtSemaphore)'
      BY <1>2, <2>3 DEF Lined
  <2>5. OneGenerates'
      BY <1>0, <1>2, <2>1 DEF SemaphoreInv, OneGenerates, Moves, Only, At, Bot
  <2>6. \A e \in Deliveries : Msg(e)' = Msg(e) /\ Bot(e)' = Bot(e)
      BY <2>1 DEF Moves, Only, Msg, Bot
  <2>7. OneAnswerAtATime'
      BY <1>0, <2>1, <2>6 DEF AnswerInv, OneAnswerAtATime, AdvisoryLocked, At,
         Moves, Only
  <2>8. RepliesAreStored' /\ PostedAreKnown' /\ PostedIsStored' /\ ButtonServed'
      BY <1>0, <2>1, <2>6 DEF AnswerInv, RepliesAreStored, PostedAreKnown,
         PostedIsStored, ButtonServed, At, Moves, Only, NoTask
  <2>9. AnswerInv'
      BY <1>0, <2>7, <2>8 DEF AnswerInv
  <2> QED
      BY <2>2, <2>4, <2>5, <2>9 DEF IInv, SemaphoreInv
<1> QED
  BY <1>1, <1>2 DEF BeginAnswer

LEMMA StoreAnswerStep ==
    ASSUME NEW d \in Deliveries, IInv, StoreAnswer(d)
    PROVE  IInv'
<1>0. /\ QueueInv /\ SemaphoreInv /\ AnswerInv
      /\ task[d].stage = "answering" /\ task \in [Deliveries -> Task] /\ Known(task)
      /\ genLine[Bot(d)] # <<>> /\ Head(genLine[Bot(d)]) = d
      /\ genLine' = Passed(genLine, d)
      /\ UNCHANGED <<posted, views, unheard, crashes>>
  BY DEF IInv, StoreAnswer, At, QueueInv, SemaphoreInv, OneGenerates
<1>1. CASE GoLeave(d) /\ UNCHANGED answer
  <2>1. /\ QueueInv' /\ Moves(d, task, task') /\ task[d].bot \in Bots
        /\ task'[d].stage \in {"ended", "leaving"}
      BY <1>0, <1>1, GoLeaveStep
  <2>2. SemaphoreInv'
      BY <1>0, <2>1, SemaphorePassed DEF AtSemaphore
  <2>3. AnswerInv'
      BY <1>0, <1>1, <2>1, AnswersAside
  <2> QED
      BY <2>1, <2>2, <2>3 DEF IInv
<1>2. CASE /\ ~Answered(Msg(d)) /\ answer' = [answer EXCEPT ![Msg(d)] = d]
           /\ task' = To(d, "replying") /\ UNCHANGED <<queueLine, waiting>>
  <2>1. /\ task' \in [Deliveries -> Task] /\ Known(task)'
        /\ Moves(d, task, task') /\ task'[d].stage = "replying"
        /\ task[d].bot \in Bots /\ Msg(d) \in Messages
      BY <1>0, <1>2, TaskMoved DEF Stages, Msg
  <2>2. QueueInv'
      BY <1>0, <1>2, <2>1, QueueAside DEF Inside, AtQueue
  <2>3. SemaphoreInv'
      BY <1>0, <2>1, SemaphorePassed DEF AtSemaphore
  <2>4. AnswerInv'
      BY <1>0, <1>2, <2>1, AnswerStored
  <2> QED
      BY <2>2, <2>3, <2>4 DEF IInv
<1> QED
  BY <1>1, <1>2 DEF StoreAnswer

LEMMA FailAnswerStep ==
    ASSUME NEW d \in Deliveries, IInv, FailAnswer(d)
    PROVE  IInv'
<1>0. /\ QueueInv /\ SemaphoreInv /\ AnswerInv
      /\ task[d].stage = "answering" /\ task \in [Deliveries -> Task] /\ Known(task)
      /\ genLine[Bot(d)] # <<>> /\ Head(genLine[Bot(d)]) = d
      /\ genLine' = Passed(genLine, d) /\ GoLeave(d)
      /\ UNCHANGED <<posted, views, unheard, crashes>>
  BY DEF IInv, FailAnswer, At, QueueInv, SemaphoreInv, OneGenerates
<1>1. /\ QueueInv' /\ Moves(d, task, task')
      /\ task[d].bot \in Bots /\ Msg(d) \in Messages
      /\ task'[d].stage \in {"ended", "leaving"}
  BY <1>0, GoLeaveStep DEF Msg
<1>2. SemaphoreInv'
  BY <1>0, <1>1, SemaphorePassed DEF AtSemaphore
<1>3. CASE UNCHANGED answer
  <2>1. AnswerInv'
      BY <1>0, <1>1, <1>3, AnswersAside
  <2> QED
      BY <1>1, <1>2, <2>1 DEF IInv
<1>4. CASE ~Answered(Msg(d)) /\ answer' = [answer EXCEPT ![Msg(d)] = d]
  <2>1. AnswerInv'
      BY <1>0, <1>1, <1>4, AnswerStored
  <2> QED
      BY <1>1, <1>2, <2>1 DEF IInv
<1> QED
  BY <1>3, <1>4 DEF FailAnswer

\* A part is put on Discord by a delivery whose answer is stored.
LEMMA PartPosted ==
    ASSUME NEW d \in Deliveries, NEW i \in 1..Parts, AnswerInv, Known(task),
           Moves(d, task, task'), task[d].stage = "replying",
           task'[d].stage \notin {"new", "answering"},
           posted' = posted \cup {<<d, i>>},
           \/ UNCHANGED views
           \/ views' = [views EXCEPT ![Bot(d)] = @ \cup {Msg(d)}],
           unheard' \in {unheard, unheard \cup {d}},
           i = Parts => Msg(d) \in views'[Bot(d)] \/ d \in unheard',
           UNCHANGED <<answer, crashes>>
    PROVE  AnswerInv'
<1>1. \A e \in Deliveries : Msg(e)' = Msg(e) /\ Bot(e)' = Bot(e)
  BY DEF Moves, Only, Msg, Bot
<1>2. Msg(d) \in Messages /\ Bot(d) \in Bots /\ answer[Msg(d)] = d
  BY DEF AnswerInv, RepliesAreStored, Known, Msg, Bot, At, NoTask
<1>3. posted' \subseteq Deliveries \X (1..Parts)
  BY DEF AnswerInv
<1>4. views' \in [Bots -> SUBSET Messages] /\ unheard' \subseteq Deliveries
  BY <1>2 DEF AnswerInv
<1>5. OneAnswerAtATime' /\ RepliesAreStored'
  BY <1>1, <1>2 DEF AnswerInv, OneAnswerAtATime, RepliesAreStored, Moves, Only, At
<1>6. PostedAreKnown'
  BY DEF AnswerInv, PostedAreKnown, Moves, Only, NoTask
<1>7. PostedIsStored'
  BY <1>1, <1>2 DEF AnswerInv, PostedIsStored
<1>8. ButtonServed'
  <2> SUFFICES ASSUME NEW p \in posted', p[2] = Parts
               PROVE  Msg(p[1]) \in views'[Bot(p[1])] \/ p[1] \in unheard'
      BY <1>1, <1>3 DEF ButtonServed
  <2>1. \A b \in Bots : views[b] \subseteq views'[b]
      BY <1>2 DEF AnswerInv
  <2>2. CASE p \in posted
    <3>1. /\ p[1] \in Deliveries /\ Bot(p[1]) \in Bots
          /\ Msg(p[1]) \in views[Bot(p[1])] \/ p[1] \in unheard
        BY <2>2 DEF AnswerInv, ButtonServed, PostedAreKnown, Known, Bot
    <3> QED
        BY <2>1, <3>1
  <2>3. CASE p = <<d, i>>
      BY <1>2, <2>3 DEF AnswerInv
  <2> QED
      BY <2>2, <2>3
<1> QED
  BY <1>3, <1>4, <1>5, <1>6, <1>7, <1>8 DEF AnswerInv

LEMMA ReplyStep ==
    ASSUME NEW d \in Deliveries, IInv, Reply(d)
    PROVE  IInv'
<1>0. /\ QueueInv /\ SemaphoreInv /\ AnswerInv
      /\ task[d].stage = "replying" /\ task \in [Deliveries -> Task] /\ Known(task)
      /\ task[d] \in Task /\ Parts \in Nat \ {0}
      /\ UNCHANGED <<genLine, answer, crashes>>
  BY FrontAssumption DEF IInv, Reply, At, QueueInv, FrontAssumption
<1>1. CASE /\ task[d].sent + 1 < Parts
           /\ posted' = posted \cup {<<d, task[d].sent + 1>>}
           /\ task' = [task EXCEPT ![d].sent = @ + 1]
           /\ UNCHANGED <<queueLine, waiting, views, unheard>>
  <2>1. task[d].sent + 1 \in 1..Parts /\ task[d].sent + 1 # Parts
      BY <1>0, <1>1 DEF Task
  <2>2. [task[d] EXCEPT !.sent = @ + 1] \in Task
      BY <1>0, <2>1 DEF Task
  <2>3. task' = [task EXCEPT ![d] = [task[d] EXCEPT !.sent = @ + 1]]
      BY <1>0, <1>1
  <2>4. /\ task' \in [Deliveries -> Task] /\ Only(d, task, task')
        /\ task'[d] = [task[d] EXCEPT !.sent = @ + 1]
      BY <1>0, <2>2, <2>3 DEF Only
  <2>5. Moves(d, task, task') /\ task'[d].stage = "replying"
      BY <1>0, <2>4 DEF Moves, Task
  <2>6. Known(task)'
      BY <1>0, <2>5 DEF Known, Moves, Only, NoTask
  <2>7. QueueInv'
      BY <1>0, <1>1, <2>4, <2>5, <2>6, QueueAside DEF Inside, AtQueue
  <2>8. SemaphoreInv'
      BY <1>0, <2>5, SemaphoreAside DEF AtSemaphore
  <2>9. AnswerInv'
      BY <1>0, <1>1, <2>1, <2>5, PartPosted
  <2> QED
      BY <2>7, <2>8, <2>9 DEF IInv
<1>2. ASSUME GoLeave(d)
      PROVE  /\ QueueInv' /\ SemaphoreInv' /\ Moves(d, task, task')
             /\ task'[d].stage \in {"ended", "leaving"}
  <2>1. /\ QueueInv' /\ Moves(d, task, task')
        /\ task'[d].stage \in {"ended", "leaving"}
      BY <1>0, <1>2, GoLeaveStep
  <2>2. SemaphoreInv'
      BY <1>0, <2>1, SemaphoreAside DEF AtSemaphore
  <2> QED
      BY <2>1, <2>2
<1>3. CASE /\ task[d].sent + 1 = Parts
           /\ posted' = posted \cup {<<d, task[d].sent + 1>>}
           /\ views' = [views EXCEPT ![Bot(d)] = @ \cup {Msg(d)}]
           /\ GoLeave(d) /\ UNCHANGED unheard
  <2>1. task[d].sent + 1 \in 1..Parts
      BY <1>0, <1>3
  <2>2. Msg(d) \in views'[Bot(d)]
      BY <1>0, <1>3 DEF AnswerInv, Known, Bot, NoTask
  <2>3. AnswerInv'
      BY <1>0, <1>2, <1>3, <2>1, <2>2, PartPosted
  <2> QED
      BY <1>2, <1>3, <2>3 DEF IInv
<1>4. CASE GoLeave(d) /\ UNCHANGED <<posted, views, unheard>>
  <2>1. AnswerInv'
      BY <1>0, <1>2, <1>4, AnswersAside
  <2> QED
      BY <1>2, <1>4, <2>1 DEF IInv
<1>5. CASE /\ posted' = posted \cup {<<d, task[d].sent + 1>>} /\ GoLeave(d)
           /\ unheard' = unheard \cup {d} /\ UNCHANGED views
  <2>1. task[d].sent + 1 \in 1..Parts
      BY <1>0 DEF Task
  <2>2. AnswerInv'
      BY <1>0, <1>2, <1>5, <2>1, PartPosted
  <2> QED
      BY <1>2, <1>5, <2>2 DEF IInv
<1> QED
  BY <1>1, <1>3, <1>4, <1>5 DEF Reply

\* The process dies: its lines and its counter are empty again, and its
\* successor has the button of every stored answer.
LEMMA CrashStep ==
    ASSUME NEW b \in Bots, IInv, Crash(b)
    PROVE  IInv'
<1>0. /\ QueueInv /\ SemaphoreInv /\ AnswerInv
      /\ task \in [Deliveries -> Task] /\ Known(task)
      /\ UNCHANGED <<answer, posted>>
      /\ None \notin Bots /\ None \notin Deliveries
  BY FrontAssumption DEF IInv, Crash, QueueInv, FrontAssumption, Deliveries
<1>1. \A d \in Deliveries :
        /\ task[d] \in Task
        /\ task'[d] = IF Bot(d) = b /\ task[d].stage # "ended"
                        THEN [task[d] EXCEPT !.stage = "lost"] ELSE task[d]
  BY <1>0 DEF Crash
<1>2. \A d \in Deliveries :
        /\ task'[d].bot = task[d].bot /\ task'[d].msg = task[d].msg
        /\ Bot(d) # b => task'[d] = task[d]
        /\ Bot(d) = b => task'[d].stage \in {"ended", "lost"}
        /\ task'[d].stage # "lost" => task'[d] = task[d]
  BY <1>1 DEF Task, Bot
<1>3. task' \in [Deliveries -> Task]
  <2>1. \A d \in Deliveries : [task[d] EXCEPT !.stage = "lost"] \in Task
      BY <1>1 DEF Task, Stages
  <2> QED
      BY <2>1, <1>1 DEF Crash
<1>4. Known(task)'
  BY <1>0, <1>2 DEF Known, NoTask, Bot
<1>5. ASSUME NEW line, NEW S, Lined(line, task, S), "lost" \notin S, "ended" \notin S
      PROVE  Lined([line EXCEPT ![b] = <<>>], task', S)
  <2> DEFINE next == [line EXCEPT ![b] = <<>>]
  <2>1. next \in [Bots -> Seq(Deliveries)]
      BY <1>5, EmptySeq DEF Lined
  <2>2. ASSUME NEW c \in Bots
        PROVE  /\ IsInjective(next[c])
               /\ \A e \in Deliveries :
                    e \in Range(next[c]) <=> task'[e].bot = c /\ task'[e].stage \in S
    <3>1. CASE c = b
      <4>1. next[c] = <<>>
          BY <1>5, <3>1 DEF Lined
      <4>2. IsInjective(<<>>) /\ Range(<<>>) = {}
          BY DEF IsInjective, Range
      <4>3. \A e \in Deliveries : ~(task'[e].bot = c /\ task'[e].stage \in S)
          BY <1>2, <1>5, <3>1 DEF Bot
      <4> QED
          BY <4>1, <4>2, <4>3
    <3>2. CASE c # b
      <4>1. next[c] = line[c]
          BY <1>5, <3>2 DEF Lined
      <4> QED
          BY <1>2, <1>5, <3>2, <4>1 DEF Lined, Bot
    <3> QED
        BY <3>1, <3>2
  <2> QED
      BY <2>1, <2>2 DEF Lined
<1>6. Lined(queueLine, task, AtQueue)' /\ Lined(genLine, task, AtSemaphore)'
  <2>1. /\ Lined(queueLine, task, AtQueue)
        /\ Lined(genLine, task, AtSemaphore)
        /\ "lost" \notin AtQueue /\ "ended" \notin AtQueue
        /\ "lost" \notin AtSemaphore /\ "ended" \notin AtSemaphore
      BY <1>0 DEF QueueInv, SemaphoreInv, AtQueue, AtSemaphore
  <2>2. Lined([queueLine EXCEPT ![b] = <<>>], task', AtQueue)
      BY <2>1, <1>5
  <2>3. Lined([genLine EXCEPT ![b] = <<>>], task', AtSemaphore)
      BY <2>1, <1>5
  <2>4. /\ queueLine' = [queueLine EXCEPT ![b] = <<>>]
        /\ genLine' = [genLine EXCEPT ![b] = <<>>]
      BY DEF Crash
  <2> QED
      BY <2>2, <2>3, <2>4 DEF Lined
<1>7. QueueInv'
  <2>1. ASSUME NEW c \in Bots
        PROVE  /\ waiting'[c] = Cardinality(Placed(task', c))
               /\ waiting'[c] \in Nat /\ waiting'[c] <= MaxWaiting[c]
    <3>1. CASE c = b
      <4>1. Placed(task', c) = {}
          BY <1>2, <3>1 DEF Placed, Inside, Bot
      <4>2. waiting'[c] = 0
          BY <3>1, <1>0 DEF Crash, QueueInv
      <4> QED
          BY <4>1, <4>2, FS_EmptySet, FrontAssumption DEF FrontAssumption
    <3>2. CASE c # b
      <4>1. Placed(task', c) = Placed(task, c)
          BY <1>2, <3>2 DEF Placed, Inside, Bot
      <4>2. waiting'[c] = waiting[c]
          BY <3>2, <1>0 DEF Crash, QueueInv
      <4>3. waiting[c] = Cardinality(Placed(task, c))
          BY <1>0 DEF QueueInv, WaitingCountsTasks, Placed, Bot
      <4> QED
          BY <1>0, <4>1, <4>2, <4>3 DEF QueueInv
    <3> QED
        BY <3>1, <3>2
  <2>2. waiting' \in [Bots -> Nat]
      BY <2>1, <1>0 DEF Crash, QueueInv
  <2>3. WaitingCountsTasks'
      BY <2>1 DEF WaitingCountsTasks, Placed, Bot
  <2> QED
      BY <1>3, <1>4, <1>6, <2>1, <2>2, <2>3 DEF QueueInv
<1>8. SemaphoreInv'
  <2>1. OneGenerates'
    <3> SUFFICES ASSUME NEW e \in Deliveries, At(e, "answering")'
                 PROVE  genLine'[Bot(e)'] # <<>> /\ Head(genLine'[Bot(e)']) = e
        BY DEF OneGenerates
    <3>1. Bot(e)' = Bot(e) /\ Bot(e) # b /\ At(e, "answering")
        BY <1>2 DEF At, Bot
    <3>2. genLine'[Bot(e)] = genLine[Bot(e)]
        BY <1>0, <3>1 DEF Crash, SemaphoreInv, Lined, Known, Bot, At, NoTask
    <3> QED
        BY <1>0, <3>1, <3>2 DEF SemaphoreInv, OneGenerates
  <2> QED
      BY <1>6, <2>1 DEF SemaphoreInv
<1>9. AnswerInv'
  <2>1. \A e \in Deliveries : Msg(e)' = Msg(e) /\ Bot(e)' = Bot(e)
      BY <1>2 DEF Msg, Bot
  <2>2. /\ crashes' \in 0..MaxCrashes /\ views' \in [Bots -> SUBSET Messages]
        /\ unheard' \subseteq Deliveries
      BY <1>0, FrontAssumption DEF Crash, AnswerInv, Registered, FrontAssumption
  <2>3. OneAnswerAtATime' /\ RepliesAreStored'
      BY <1>0, <1>2, <2>1 DEF AnswerInv, OneAnswerAtATime, RepliesAreStored, At
  <2>4. PostedAreKnown'
    <3>1. \A d \in Deliveries : task[d] # NoTask => task'[d] # NoTask
        BY <1>0, <1>4, <1>2 DEF Known, NoTask
    <3> QED
        BY <1>0, <3>1 DEF AnswerInv, PostedAreKnown
  <2>5. PostedIsStored'
      BY <1>0, <2>1 DEF AnswerInv, PostedIsStored
  <2>6. ButtonServed'
    <3> SUFFICES ASSUME NEW p \in posted, p[2] = Parts
                 PROVE  Msg(p[1]) \in views'[Bot(p[1])] \/ p[1] \in unheard'
        BY <1>0, <2>1 DEF ButtonServed, AnswerInv
    <3>1. /\ p[1] \in Deliveries /\ Msg(p[1]) \in Messages /\ Bot(p[1]) \in Bots
          /\ answer[Msg(p[1])] = p[1]
          /\ Msg(p[1]) \in views[Bot(p[1])] \/ p[1] \in unheard
        BY <1>0 DEF AnswerInv, PostedAreKnown, PostedIsStored, ButtonServed, Known,
           Msg, Bot
    <3>2. Msg(p[1]) \in Registered
        BY <1>0, <3>1 DEF Registered, Answered
    <3> QED
        BY <1>0, <3>1, <3>2 DEF Crash, AnswerInv
  <2> QED
      BY <1>0, <2>2, <2>3, <2>4, <2>5, <2>6 DEF AnswerInv
<1> QED
  BY <1>7, <1>8, <1>9 DEF IInv

-----------------------------------------------------------------------------
(* The theorems.                                                           *)

LEMMA InitIInv == Init => IInv
<1> SUFFICES ASSUME Init PROVE IInv
  OBVIOUS
<1> USE FrontAssumption DEF Init, FrontAssumption
<1>1. /\ task \in [Deliveries -> Task] /\ Known(task)
      /\ \A d \in Deliveries : task[d].stage = "new"
  BY DEF Task, Stages, NoTask, Known
<1>2. ASSUME NEW S, "new" \notin S
      PROVE  Lined([b \in Bots |-> <<>>], task, S)
  <2>1. IsInjective(<<>>) /\ Range(<<>>) = {} /\ <<>> \in Seq(Deliveries)
      BY EmptySeq DEF IsInjective, Range
  <2> QED
      BY <1>1, <1>2, <2>1 DEF Lined
<1>3. Lined(queueLine, task, AtQueue) /\ Lined(genLine, task, AtSemaphore)
  BY <1>2 DEF AtQueue, AtSemaphore
<1>4. \A b \in Bots : Placed(task, b) = {}
  BY <1>1 DEF Placed, Inside
<1>5. WaitingCountsTasks
  BY <1>4, FS_EmptySet DEF WaitingCountsTasks, Placed, Bot
<1>6. QueueInv
  BY <1>1, <1>3, <1>5 DEF QueueInv
<1>7. SemaphoreInv
  BY <1>1, <1>3 DEF SemaphoreInv, OneGenerates, At
<1>8. AnswerInv
  BY <1>1 DEF AnswerInv, OneAnswerAtATime, RepliesAreStored, PostedAreKnown,
     PostedIsStored, ButtonServed, At
<1> QED
  BY <1>6, <1>7, <1>8 DEF IInv

LEMMA NextIInv == IInv /\ [Next]_vars => IInv'
<1> SUFFICES ASSUME IInv, [Next]_vars PROVE IInv'
  OBVIOUS
<1>1. ASSUME NEW b \in Bots, NEW d \in Deliveries, NEW m \in Messages,
             OnMessage(b, d, m)
      PROVE  IInv'
  BY <1>1, OnMessageStep
<1>2. ASSUME NEW b \in Bots, Crash(b)
      PROVE  IInv'
  BY <1>2, CrashStep
<1>3. ASSUME NEW d \in Deliveries, Step(d)
      PROVE  IInv'
  BY <1>3, EnterStep, RefuseStep, TypingStep, BeginAnswerStep, StoreAnswerStep,
     FailAnswerStep, ReplyStep, LeaveStep DEF Step
<1>4. CASE UNCHANGED vars
  <2>1. QueueInv' /\ SemaphoreInv'
      BY <1>4 DEF vars, IInv, QueueInv, SemaphoreInv, Known, Lined, OneGenerates,
         WaitingCountsTasks, At, Bot
  <2>2. AnswerInv'
      BY <1>4 DEF vars, IInv, AnswerInv, OneAnswerAtATime, RepliesAreStored,
         PostedAreKnown, PostedIsStored, ButtonServed, At, Bot, Msg
  <2> QED
      BY <2>1, <2>2 DEF IInv
<1> QED
  BY <1>1, <1>2, <1>3, <1>4 DEF Next

\* What every call of on_message leaves behind at each of its awaits, failures
\* and restarts included.
THEOREM InductiveInvariant == Spec => []IInv
<1>1. Init => IInv
  BY InitIInv
<1>2. IInv /\ [Next]_vars => IInv'
  BY NextIInv
<1> QED
  BY <1>1, <1>2, PTL DEF Spec

\* Every variable keeps its type; no task waits twice in a line, and the
\* counter of on_message is never below zero nor above its limit.
THEOREM TypeCorrect == Spec => []TypeOK
<1>1. IInv => TypeOK
  BY DEF IInv, QueueInv, SemaphoreInv, AnswerInv, TypeOK, Lined
<1> QED
  BY <1>1, InductiveInvariant, PTL

\* A place in the queue is given back on every way out of on_message, exactly
\* once: the counter is the number of calls between taking one and giving it
\* back, after every crash too.
THEOREM WaitingIsExact == Spec => []WaitingCountsTasks
<1>1. IInv => WaitingCountsTasks
  BY DEF IInv, QueueInv
<1> QED
  BY <1>1, InductiveInvariant, PTL

\* Whatever part of an answer is on Discord, the answer stored for its message
\* is that one: two processes or two deliveries never answer one message.
THEOREM PostedAnswerIsStored == Spec => []PostedIsStored
<1>1. IInv => PostedIsStored
  BY DEF IInv, AnswerInv
<1> QED
  BY <1>1, InductiveInvariant, PTL

\* A source button on Discord always has its view in the process that sent it,
\* or in the one started after it, unless the reply to its own request was lost
\* and that process still runs: a restart is enough to have every button served.
THEOREM ButtonAlwaysServed == Spec => []ButtonServed
<1>1. IInv => ButtonServed
  BY DEF IInv, AnswerInv
<1> QED
  BY <1>1, InductiveInvariant, PTL

\* The advisory lock of QAService.answer and the semaphore of the client: at
\* any time one delivery works on a message, and a process on one delivery.
THEOREM AnswersAreExclusive ==
    Spec => [](OneAnswerAtATime /\ OneGenerationPerProcess)
<1>1. IInv => OneAnswerAtATime /\ OneGenerationPerProcess
  <2> SUFFICES ASSUME IInv PROVE OneAnswerAtATime /\ OneGenerationPerProcess
      OBVIOUS
  <2>1. OneGenerationPerProcess
      BY DEF IInv, SemaphoreInv, OneGenerates, OneGenerationPerProcess
  <2> QED
      BY <2>1 DEF IInv, AnswerInv
<1> QED
  BY <1>1, InductiveInvariant, PTL

\* An answer once stored stays the answer to its message: nothing overwrites
\* it, whoever fails, repeats or restarts (request_message_id is unique).
AnswersStay ==
  [][\A m \in Messages : Answered(m) => answer'[m] = answer[m]]_vars

THEOREM StoredAnswersStay == Spec => AnswersStay
<1>1. IInv /\ [Next]_vars =>
        [\A m \in Messages : Answered(m) => answer'[m] = answer[m]]_vars
  <2> SUFFICES ASSUME IInv, [Next]_vars, NEW m \in Messages, Answered(m),
                      ~UNCHANGED vars
               PROVE  answer'[m] = answer[m]
      OBVIOUS
  <2>1. answer \in [Messages -> Deliveries \cup {None}]
      BY DEF IInv, AnswerInv
  <2>2. ASSUME NEW b \in Bots PROVE Crash(b) => answer' = answer
      BY DEF Crash
  <2>3. ASSUME NEW b \in Bots, NEW d \in Deliveries, NEW n \in Messages
        PROVE  OnMessage(b, d, n) => answer' = answer
      BY DEF OnMessage
  <2>4. ASSUME NEW d \in Deliveries, Step(d)
        PROVE  \/ answer' = answer
               \/ ~Answered(Msg(d)) /\ answer' = [answer EXCEPT ![Msg(d)] = d]
      BY <2>4 DEF Step, Enter, Refuse, Typing, BeginAnswer, StoreAnswer, FailAnswer,
         Reply, Leave
  <2>5. ASSUME NEW d \in Deliveries, Step(d)
        PROVE  answer'[m] = answer[m]
    <3>1. CASE answer' = answer
        BY <3>1
    <3>2. CASE ~Answered(Msg(d)) /\ answer' = [answer EXCEPT ![Msg(d)] = d]
      <4>1. m # Msg(d)
          BY <3>2
      <4> QED
          BY <2>1, <3>2, <4>1
    <3> QED
        BY <2>4, <2>5, <3>1, <3>2
  <2> QED
      BY <2>2, <2>3, <2>5 DEF Next
<1> QED
  BY <1>1, InductiveInvariant, PTL DEF Spec, AnswersStay

=============================================================================
