------------------------ MODULE CrawlRequestsProofs -------------------------
(***************************************************************************)
(* Proofs about CrawlRequests.  For every delay, threshold, cap, number of *)
(* redirects, of requests and of retries: no request goes out without an   *)
(* approval that was valid within the pause before it, and none after the  *)
(* site said stop.                                                         *)
(***************************************************************************)
EXTENDS CrawlRequests, TLAPS

-----------------------------------------------------------------------------
(* The inductive invariant.                                                *)

\* While the circuit is closed and the command has not failed it has counted
\* every refusal the process got, and nothing else; a request in hand was made
\* with the circuit closed.
CircuitCounts ==
  /\ call.pc \in {"pace", "wait", "backoff"} => circuit.reason = "none"
  /\ circuit.reason = "none" /\ call.pc # "failed" =>
       /\ circuit.denials = seen.denials
       /\ seen.denials < Threshold
       /\ ~seen.fatal

\* A request waiting for its pause was checked, and the pause is what is left
\* of the time the approval may have been revoked since.
PauseCoversRevocation ==
  /\ approved => revoked = 0
  /\ call.pc = "pace" =>
       /\ call.target = "allowed"
       /\ sleep <= MinDelay
       /\ approved \/ revoked + sleep <= MinDelay

\* Whatever the site still asks of a process with a closed circuit, the process
\* is asleep for at least as long.
SleepCoversOwed ==
  circuit.reason = "none" => owed <= IF call.pc = "backoff" THEN sleep ELSE 0

IInv ==
  /\ TypeOK
  /\ CircuitCounts
  /\ PauseCoversRevocation
  /\ SleepCoversOwed

-----------------------------------------------------------------------------
(* Every action keeps the invariant.                                       *)

\* The constants, one by one.
LEMMA Constants ==
    /\ MinDelay \in Nat \ {0} /\ Threshold \in Nat \ {0}
    /\ MaxHops \in Nat \ {0} /\ Retries \in Nat \ {0} /\ MaxRequests \in Nat \ {0}
    /\ Cap \in Nat /\ RetryDelay \in Nat /\ MaxCommands \in Nat
    /\ \A seconds \in Asked : seconds \in Nat
  BY CrawlAssumption DEF CrawlAssumption

\* A pause of the script is no longer than its longest.
LEMMA PauseBounded ==
    ASSUME NEW n \in 1..Retries
    PROVE  RetryDelay * n \in Nat /\ RetryDelay * n <= RetryDelay * Retries
<1> DEFINE k == Retries - n
<1>1. k \in Nat /\ Retries = n + k /\ n \in Nat
  BY Constants
<1>2. RetryDelay * Retries = RetryDelay * n + RetryDelay * k
  BY <1>1, Constants
<1>3. RetryDelay * n \in Nat /\ RetryDelay * k \in Nat
  BY <1>1, Constants
<1> QED
  BY <1>2, <1>3

LEMMA SleepBounds ==
    /\ MaxSleep \in Nat /\ Cap <= MaxSleep /\ MinDelay <= MaxSleep
    /\ \A n \in 1..Retries : RetryDelay * n \in 0..MaxSleep
<1>1. RetryDelay * Retries \in Nat
  BY Constants
<1> QED
  BY <1>1, Constants, PauseBounded DEF MaxSleep

LEMMA BeginCallStep ==
    ASSUME NEW kind \in Kinds, IInv, BeginCall(kind)
    PROVE  IInv'
<1>0. call' \in Call /\ made' \in 0..MaxRequests
  <2>1. CASE more
      BY <2>1, Constants DEF IInv, BeginCall, TypeOK, Call, Targets
  <2>2. CASE ~more
      BY <2>2, Constants DEF IInv, BeginCall, TypeOK, Call, Targets
  <2> QED
      BY <2>1, <2>2
<1>1. TypeOK'
  BY <1>0 DEF IInv, BeginCall, TypeOK
<1>2. CircuitCounts' /\ PauseCoversRevocation' /\ SleepCoversOwed'
  BY DEF IInv, BeginCall, CircuitCounts, PauseCoversRevocation, SleepCoversOwed
<1> QED
  BY <1>1, <1>2 DEF IInv

LEMMA CheckStep ==
    ASSUME IInv, Check
    PROVE  IInv'
<1>1. call \in Call /\ since \in Nat
  BY Constants DEF IInv, TypeOK, MaxTime
<1>2. CASE Authorised
  <2>1. /\ call' = [call EXCEPT !.pc = "pace"] /\ sleep' \in 0..MinDelay
        /\ circuit.reason = "none" /\ approved /\ call.target = "allowed"
      BY <1>1, <1>2, Constants DEF Check, Authorised
  <2>2. TypeOK'
      BY <1>1, <2>1, Constants, SleepBounds DEF IInv, Check, TypeOK, Call
  <2>3. CircuitCounts' /\ PauseCoversRevocation' /\ SleepCoversOwed'
      BY <1>1, <2>1, Constants DEF IInv, Check, CircuitCounts,
         PauseCoversRevocation, SleepCoversOwed, Call, TypeOK
  <2> QED
      BY <2>2, <2>3 DEF IInv
<1>3. CASE ~Authorised
  <2>1. call' = [call EXCEPT !.pc = "failed"] /\ sleep' = sleep
      BY <1>3 DEF Check
  <2>2. TypeOK'
      BY <1>1, <2>1 DEF IInv, Check, TypeOK, Call
  <2>3. CircuitCounts' /\ PauseCoversRevocation' /\ SleepCoversOwed'
      BY <1>1, <2>1 DEF IInv, Check, CircuitCounts,
         PauseCoversRevocation, SleepCoversOwed, Call
  <2> QED
      BY <2>2, <2>3 DEF IInv
<1> QED
  BY <1>2, <1>3

LEMMA SendStep ==
    ASSUME IInv, Send
    PROVE  IInv'
<1>1. call \in Call
  BY DEF IInv, TypeOK
<1>2. TypeOK'
  BY <1>1, Constants DEF IInv, Send, TypeOK, Call, MaxTime
<1>3. CircuitCounts' /\ PauseCoversRevocation' /\ SleepCoversOwed'
  BY <1>1 DEF IInv, Send, CircuitCounts, PauseCoversRevocation,
     SleepCoversOwed, Call
<1> QED
  BY <1>2, <1>3 DEF IInv

\* Only record_status changes the circuit, and it opens it at the threshold.
LEMMA RecordedType ==
    ASSUME NEW denied \in BOOLEAN, IInv, call.pc = "wait"
    PROVE  /\ Recorded(denied) \in [denials : 0..Threshold, reason : Reasons]
           /\ Recorded(denied).denials = IF denied THEN circuit.denials + 1 ELSE 0
           /\ denied /\ Recorded(denied).reason = "none"
                => Recorded(denied).denials < Threshold
           /\ ~denied => Recorded(denied).reason = "none"
<1>1. /\ circuit \in [denials : 0..Threshold, reason : Reasons]
      /\ circuit.reason = "none" /\ circuit.denials < Threshold
  BY DEF IInv, TypeOK, CircuitCounts
<1> QED
  BY <1>1, Constants DEF Recorded, Reasons

\* The ways a call goes on.
LEMMA CallKept ==
    ASSUME NEW c \in Call
    PROVE  /\ [c EXCEPT !.pc = "failed"] \in Call
           /\ [c EXCEPT !.pc = "failed"].pc = "failed"
           /\ [c EXCEPT !.pc = "backoff"] \in Call
           /\ [c EXCEPT !.pc = "backoff"].pc = "backoff"
           /\ NoCall \in Call /\ NoCall.pc = "none"
<1>1. NoCall \in Call /\ NoCall.pc = "none"
  BY Constants DEF Call, NoCall, Kinds, Targets
<1> QED
  BY <1>1 DEF Call

LEMMA HopTaken ==
    ASSUME NEW c \in Call, c.hop < MaxHops, NEW target \in Targets,
           NEW n, n = [c EXCEPT !.pc = "check", !.hop = @ + 1, !.target = target]
    PROVE  n \in Call /\ n.pc = "check"
<1>1. n = [pc |-> "check", kind |-> c.kind, hop |-> c.hop + 1, target |-> target]
  BY DEF Call
<1>2. c.hop + 1 \in 0..MaxHops
  BY Constants DEF Call
<1> QED
  BY <1>1, <1>2 DEF Call

LEMMA AnswerStep ==
    ASSUME IInv, Answer
    PROVE  IInv'
<1>0. /\ call.pc = "wait" /\ call \in Call
      /\ circuit.reason = "none" /\ circuit.denials = seen.denials
      /\ seen.denials < Threshold /\ ~seen.fatal
      /\ circuit \in [denials : 0..Threshold, reason : Reasons]
      /\ seen \in [denials : 0..Threshold, fatal : BOOLEAN]
      /\ sleep \in 0..MaxSleep /\ owed \in 0..Cap /\ stopped \in BOOLEAN
      /\ owed = 0 /\ MaxSleep \in Nat /\ more \in BOOLEAN
      /\ UNCHANGED <<approved, revoked, made, since, script>>
  BY SleepBounds, Constants DEF IInv, TypeOK, CircuitCounts, SleepCoversOwed, Answer
<1> DEFINE Rest ==
      /\ circuit' \in [denials : 0..Threshold, reason : Reasons]
      /\ seen' \in [denials : 0..Threshold, fatal : BOOLEAN]
      /\ sleep' \in 0..MaxSleep /\ owed' \in 0..Cap /\ stopped' \in BOOLEAN
      /\ call' \in Call /\ call'.pc \in {"none", "check", "backoff", "failed"}
      /\ call'.pc = "backoff" => circuit'.reason = "none"
      /\ circuit'.reason = "none" /\ call'.pc # "failed" =>
           /\ circuit'.denials = seen'.denials
           /\ seen'.denials < Threshold
           /\ ~seen'.fatal
      /\ circuit'.reason = "none" =>
           owed' <= IF call'.pc = "backoff" THEN sleep' ELSE 0
      /\ more' \in BOOLEAN
<1>1. ASSUME Rest PROVE IInv'
  <2>1. TypeOK'
      BY <1>0, <1>1 DEF IInv, TypeOK
  <2>2. CircuitCounts'
      BY <1>1 DEF CircuitCounts
  <2>3. PauseCoversRevocation'
      BY <1>0, <1>1 DEF IInv, PauseCoversRevocation
  <2>4. SleepCoversOwed'
      BY <1>1 DEF SleepCoversOwed
  <2> QED
      BY <2>1, <2>2, <2>3, <2>4 DEF IInv
<1>2. Dropped \in Call /\ Dropped.pc \in {"none", "failed"}
  BY <1>0, CallKept DEF Dropped
<1>3. Failed \in Call /\ Failed.pc = "failed"
  BY <1>0, CallKept DEF Failed
<1>4. CASE AnswerContent
  <2>1. PICK fatal \in {"none", "captcha", "drift"} :
          /\ circuit' = [Recorded(FALSE) EXCEPT !.reason =
               IF fatal = "captcha" \/ (fatal = "drift" /\ call.kind = "page")
               THEN fatal ELSE @]
          /\ seen' = [denials |-> 0, fatal |-> fatal # "none" \/ seen.fatal]
          /\ stopped' = (stopped \/ fatal # "none")
          /\ call' = IF fatal = "none" THEN NoCall ELSE Failed
          /\ more' \in IF fatal = "none" /\ call.kind = "comments"
                       THEN BOOLEAN ELSE {more}
          /\ UNCHANGED <<sleep, owed>>
      BY <1>4 DEF AnswerContent
  <2>2. /\ circuit' \in [denials : 0..Threshold, reason : Reasons]
        /\ circuit'.denials = 0
    <3>1. circuit' = [denials |-> 0, reason |->
            IF fatal = "captcha" \/ (fatal = "drift" /\ call.kind = "page")
            THEN fatal ELSE "none"]
        BY <1>0, <2>1 DEF Recorded
    <3> QED
        BY <3>1, Constants DEF Reasons
  <2>3. /\ seen' \in [denials : 0..Threshold, fatal : BOOLEAN] /\ seen'.denials = 0
        /\ fatal = "none" => ~seen'.fatal
      BY <1>0, <2>1, Constants
  <2>4. /\ call' \in Call /\ call'.pc \in {"none", "failed"}
        /\ call'.pc # "failed" => fatal = "none"
      BY <1>0, <1>3, <2>1, CallKept
  <2>5. stopped' \in BOOLEAN
      BY <1>0, <2>1
  <2>6. sleep' \in 0..MaxSleep /\ owed' = 0 /\ 0 \in 0..Cap
      BY <1>0, <2>1, Constants
  <2>7. more' \in BOOLEAN
    <3>1. CASE fatal = "none" /\ call.kind = "comments"
        BY <2>1, <3>1
    <3>2. CASE ~(fatal = "none" /\ call.kind = "comments")
        BY <1>0, <2>1, <3>2
    <3> QED
        BY <3>1, <3>2
  <2>8. Rest
      BY <2>2, <2>3, <2>4, <2>5, <2>6, <2>7, Constants
  <2> QED
      BY <1>1, <2>8
<1>5. CASE AnswerRedirect
  <2>1. call' \in Call /\ call'.pc \in {"check", "failed", "none"}
    <3>1. CASE call.hop < MaxHops /\ call' # Dropped
      <4>1. call.hop # MaxHops
          BY <1>0, <3>1, Constants DEF Call
      <4>2. PICK target \in Targets :
              call' = [call EXCEPT !.pc = "check", !.hop = @ + 1, !.target = target]
          BY <1>5, <3>1, <4>1, Zenon DEF AnswerRedirect
      <4> QED
          BY <1>0, <3>1, <4>2, HopTaken
    <3> QED
        BY <1>2, <1>3, <1>5, <3>1 DEF AnswerRedirect
  <2>2. /\ circuit' = [circuit EXCEPT !.denials = 0]
        /\ seen' = [seen EXCEPT !.denials = 0]
        /\ UNCHANGED <<more, sleep, owed, stopped>>
      BY <1>5 DEF AnswerRedirect, Recorded
  <2>3. Rest
      BY <1>0, <2>1, <2>2, Constants
  <2> QED
      BY <1>1, <2>3
<1>6. CASE AnswerRefusal
  <2>1. PICK seconds \in Asked, limited \in BOOLEAN :
          /\ circuit' = Recorded(TRUE)
          /\ seen' = [seen EXCEPT !.denials = @ + 1]
          /\ owed' = IF limited THEN Backoff(seconds) ELSE owed
          /\ IF circuit'.reason # "none"
             THEN call' = Failed /\ stopped' = TRUE /\ UNCHANGED sleep
             ELSE /\ IF limited /\ Backoff(seconds) > 0
                     THEN /\ call' = [call EXCEPT !.pc = "backoff"]
                          /\ sleep' = Backoff(seconds)
                     ELSE call' = Dropped /\ UNCHANGED sleep
                  /\ UNCHANGED stopped
          /\ UNCHANGED more
      BY <1>6 DEF AnswerRefusal
  <2>2. Backoff(seconds) \in 0..Cap
      BY Constants DEF Backoff
  <2>3. /\ circuit' \in [denials : 0..Threshold, reason : Reasons]
        /\ circuit'.denials = circuit.denials + 1
        /\ circuit'.reason = "none" => circuit'.denials < Threshold
      BY <2>1, <1>0, RecordedType
  <2>4. /\ seen' \in [denials : 0..Threshold, fatal : BOOLEAN]
        /\ seen'.denials = circuit'.denials /\ ~seen'.fatal
      BY <1>0, <2>1, <2>3, Constants
  <2>5. owed' \in 0..Cap /\ more' \in BOOLEAN
      BY <1>0, <2>1, <2>2
  <2>6. CASE circuit'.reason # "none"
    <3>1. call' = Failed /\ stopped' = TRUE /\ UNCHANGED sleep
        BY <2>1, <2>6
    <3>2. Rest
        BY <1>0, <1>3, <2>3, <2>4, <2>5, <2>6, <3>1
    <3> QED
        BY <1>1, <3>2
  <2>7. CASE circuit'.reason = "none" /\ limited /\ Backoff(seconds) > 0
    <3>1. /\ call' = [call EXCEPT !.pc = "backoff"] /\ sleep' = Backoff(seconds)
          /\ owed' = Backoff(seconds) /\ UNCHANGED stopped
        BY <2>1, <2>7
    <3>2. sleep' \in 0..MaxSleep
        BY <2>2, <3>1, SleepBounds, Constants
    <3>3. call' \in Call /\ call'.pc = "backoff"
        BY <1>0, <3>1, CallKept
    <3>4. Rest
        BY <1>0, <2>2, <2>3, <2>4, <2>5, <2>7, <3>1, <3>2, <3>3
    <3> QED
        BY <1>1, <3>4
  <2>8. CASE circuit'.reason = "none" /\ ~(limited /\ Backoff(seconds) > 0)
    <3>1. call' = Dropped /\ UNCHANGED <<sleep, stopped>>
        BY <2>1, <2>8
    <3>2. owed' = 0
      <4>1. CASE limited
          BY <2>1, <2>2, <2>8, <4>1, Constants
      <4>2. CASE ~limited
          BY <1>0, <2>1, <4>2
      <4> QED
          BY <4>1, <4>2
    <3>3. Rest
        BY <1>0, <1>2, <2>3, <2>4, <2>5, <2>8, <3>1, <3>2
    <3> QED
        BY <1>1, <3>3
  <2> QED
      BY <2>6, <2>7, <2>8
<1>7. CASE AnswerError
  <2>1. /\ call' = Dropped /\ UNCHANGED <<more, sleep, owed, stopped>>
        /\ \/ circuit' = circuit /\ seen' = seen
           \/ /\ circuit' = [circuit EXCEPT !.denials = 0]
              /\ seen' = [seen EXCEPT !.denials = 0]
           \/ /\ circuit' = circuit
              /\ circuit = [circuit EXCEPT !.denials = 0] /\ seen' = seen
      BY <1>7 DEF AnswerError, Recorded
  <2>2. Rest
      BY <1>0, <1>2, <2>1, Constants
  <2> QED
      BY <1>1, <2>2
<1> QED
  BY <1>4, <1>5, <1>6, <1>7 DEF Answer

LEMMA EndBackoffStep ==
    ASSUME IInv, EndBackoff
    PROVE  IInv'
<1>1. /\ Dropped \in Call /\ Dropped.pc \in {"none", "failed"}
      /\ call' = Dropped /\ call.pc = "backoff" /\ sleep = 0
      /\ UNCHANGED <<approved, revoked, circuit, made, more, since, sleep, script, seen,
                     stopped, owed>>
  BY CallKept DEF IInv, TypeOK, EndBackoff, Dropped
<1>2. TypeOK'
  BY <1>1 DEF IInv, TypeOK
<1>3. CircuitCounts' /\ PauseCoversRevocation' /\ SleepCoversOwed'
  BY <1>1 DEF IInv, CircuitCounts, PauseCoversRevocation, SleepCoversOwed
<1> QED
  BY <1>2, <1>3 DEF IInv

-----------------------------------------------------------------------------
(* The script, the approval and time.                                      *)

LEMMA NewProcessStep ==
    ASSUME IInv, NewProcess, UNCHANGED <<approved, revoked, stopped>>,
           sleep' \in 0..MaxSleep,
           script' \in [pc : {"run", "retry", "ended"}, attempt : 1..Retries,
                        commands : 0..MaxCommands]
    PROVE  IInv'
<1>1. /\ circuit' = [denials |-> 0, reason |-> "none"]
      /\ call' = NoCall /\ call'.pc = "none" /\ call' \in Call
      /\ made' = 0 /\ more' = FALSE /\ since' = MaxTime /\ owed' = 0
      /\ seen' = [denials |-> 0, fatal |-> FALSE]
  BY CallKept DEF NewProcess, Fresh, Unseen, IInv, TypeOK
<1>2. TypeOK'
  <2>1. /\ circuit' \in [denials : 0..Threshold, reason : Reasons]
        /\ seen' \in [denials : 0..Threshold, fatal : BOOLEAN]
      BY <1>1, Constants DEF Reasons
  <2>2. /\ 0 \in 0..MaxRequests /\ 0 \in 0..Cap
        /\ MaxTime \in 0..MaxTime
      BY Constants DEF MaxTime
  <2>3. more' \in BOOLEAN
      BY <1>1
  <2> QED
      BY <1>1, <2>1, <2>2, <2>3 DEF IInv, TypeOK
<1>3. CircuitCounts' /\ PauseCoversRevocation' /\ SleepCoversOwed'
  BY <1>1, Constants DEF IInv, CircuitCounts, PauseCoversRevocation,
     SleepCoversOwed
<1> QED
  BY <1>2, <1>3 DEF IInv

LEMMA NextCommandType ==
    ASSUME IInv, NextCommand
    PROVE  script' \in [pc : {"run", "retry", "ended"}, attempt : 1..Retries,
                        commands : 0..MaxCommands]
  BY Constants DEF IInv, TypeOK, NextCommand

LEMMA ScriptStep ==
    ASSUME IInv, Succeed \/ Fail \/ Retry
    PROVE  IInv'
<1>1. CASE Succeed
  BY <1>1, NextCommandType, NewProcessStep DEF Succeed, IInv, TypeOK
<1>2. CASE Fail
  <2>1. CASE script.attempt = Retries
      BY <1>2, <2>1, NextCommandType, NewProcessStep DEF Fail, IInv, TypeOK
  <2>2. CASE script.attempt # Retries
    <3>1. /\ script.attempt \in 1..Retries
          /\ script' = [script EXCEPT !.pc = "retry", !.attempt = @ + 1]
          /\ sleep' = RetryDelay * script.attempt
        BY <1>2, <2>2 DEF Fail, IInv, TypeOK
    <3>2. sleep' \in 0..MaxSleep
        BY <3>1, SleepBounds
    <3>3. script' \in [pc : {"run", "retry", "ended"}, attempt : 1..Retries,
                       commands : 0..MaxCommands]
      <4>1. script \in [pc : {"run", "retry", "ended"}, attempt : 1..Retries,
                        commands : 0..MaxCommands]
          BY DEF IInv, TypeOK
      <4>2. script' = [pc |-> "retry", attempt |-> script.attempt + 1,
                       commands |-> script.commands]
          BY <3>1, <4>1
      <4>3. script.attempt + 1 \in 1..Retries
          BY <2>2, <3>1, Constants
      <4> QED
          BY <4>1, <4>2, <4>3
    <3> QED
        BY <1>2, <3>2, <3>3, NewProcessStep DEF Fail
  <2> QED
      BY <2>1, <2>2
<1>3. CASE Retry
  <2>1. /\ script' = [script EXCEPT !.pc = "run"]
        /\ UNCHANGED <<approved, revoked, circuit, call, made, more, since, sleep, seen,
                       stopped, owed>>
      BY <1>3 DEF Retry, process
  <2>2. TypeOK'
      BY <2>1 DEF IInv, TypeOK
  <2>3. CircuitCounts' /\ PauseCoversRevocation' /\ SleepCoversOwed'
      BY <2>1 DEF IInv, CircuitCounts, PauseCoversRevocation, SleepCoversOwed
  <2> QED
      BY <2>2, <2>3 DEF IInv
<1> QED
  BY <1>1, <1>2, <1>3

LEMMA ApproveStep ==
    ASSUME IInv, Approve
    PROVE  IInv'
<1>1. TypeOK'
  BY Constants DEF IInv, TypeOK, Approve, process, MaxTime
<1>2. CircuitCounts' /\ PauseCoversRevocation' /\ SleepCoversOwed'
  BY Constants, SleepBounds DEF IInv, TypeOK, Approve, process, CircuitCounts,
     PauseCoversRevocation, SleepCoversOwed
<1> QED
  BY <1>1, <1>2 DEF IInv

LEMMA TickStep ==
    ASSUME IInv, Tick
    PROVE  IInv'
<1>1. TypeOK'
  BY Constants, SleepBounds DEF IInv, TypeOK, Tick, Later, Older, MaxTime
<1>2. CircuitCounts'
  BY DEF IInv, Tick, CircuitCounts
<1>3. PauseCoversRevocation'
  BY Constants, SleepBounds DEF IInv, TypeOK, Tick, Later, Older, MaxTime,
     PauseCoversRevocation
<1>4. SleepCoversOwed'
  BY Constants, SleepBounds DEF IInv, TypeOK, Tick, Later, SleepCoversOwed
<1> QED
  BY <1>1, <1>2, <1>3, <1>4 DEF IInv

-----------------------------------------------------------------------------
(* The theorems.                                                           *)

LEMMA InitIInv == Init => IInv
<1> SUFFICES ASSUME Init PROVE IInv
  OBVIOUS
<1>1. NoCall \in Call /\ NoCall.pc = "none"
  BY Constants DEF Call, NoCall, Kinds, Targets
<1>2. TypeOK
  <2>1. /\ approved \in BOOLEAN /\ revoked \in 0..MaxTime /\ since \in 0..MaxTime
        /\ made \in 0..MaxRequests /\ more \in BOOLEAN /\ sleep \in 0..MaxSleep
        /\ stopped \in BOOLEAN /\ owed \in 0..Cap
    <3>1. MaxTime \in Nat /\ 0 \in 0..MaxTime /\ MaxTime \in 0..MaxTime
        BY Constants DEF MaxTime
    <3>2. 0 \in 0..MaxRequests /\ 0 \in 0..MaxSleep /\ 0 \in 0..Cap
        BY Constants, SleepBounds
    <3> QED
        BY <3>1, <3>2 DEF Init
  <2>2. /\ circuit \in [denials : 0..Threshold, reason : Reasons]
        /\ seen \in [denials : 0..Threshold, fatal : BOOLEAN]
      BY Constants DEF Init, Fresh, Unseen, Reasons
  <2>3. script \in [pc : {"run", "retry", "ended"}, attempt : 1..Retries,
                    commands : 0..MaxCommands]
      BY Constants DEF Init
  <2> QED
      BY <1>1, <2>1, <2>2, <2>3 DEF TypeOK, Init
<1>3. CircuitCounts /\ PauseCoversRevocation /\ SleepCoversOwed
  BY <1>1, Constants DEF Init, CircuitCounts, PauseCoversRevocation,
     SleepCoversOwed, Fresh, Unseen
<1> QED
  BY <1>2, <1>3 DEF IInv

LEMMA NextIInv == IInv /\ [Next]_vars => IInv'
<1> SUFFICES ASSUME IInv, [Next]_vars PROVE IInv'
  OBVIOUS
<1>1. CASE Step
  <2>1. ASSUME NEW kind \in Kinds, BeginCall(kind) PROVE IInv'
      BY <2>1, BeginCallStep
  <2> QED
      BY <1>1, <2>1, CheckStep, SendStep, AnswerStep, EndBackoffStep, ScriptStep
      DEF Step
<1>2. CASE UNCHANGED vars
  BY <1>2 DEF vars, process, IInv, TypeOK, CircuitCounts, PauseCoversRevocation,
     SleepCoversOwed
<1> QED
  BY <1>1, <1>2, TickStep, ApproveStep DEF Next

\* What every process knows between two of its steps, whatever the site, the
\* owner and the clock do.
THEOREM InductiveInvariant == Spec => []IInv
<1>1. Init => IInv
  BY InitIInv
<1>2. IInv /\ [Next]_vars => IInv'
  BY NextIInv
<1> QED
  BY <1>1, <1>2, PTL DEF Spec

\* The state keeps its type: the circuit counts up to its threshold and stays
\* there, no pause is longer than the longest the code can ask for.
THEOREM TypeCorrect == Spec => []TypeOK
<1>1. IInv => TypeOK
  BY DEF IInv
<1> QED
  BY <1>1, InductiveInvariant, PTL

\* Every request goes to an allowed URL under an approval that is valid or was
\* within the pause before it, whenever the owner revokes it and however many
\* redirects and retries there are (require_live_crawl, _pace).
THEOREM ApprovalPrecedesRequests == Spec => RequestsAreApproved
<1>1. IInv /\ [Next]_vars =>
        [Send => call.target = "allowed" /\ (approved \/ revoked <= MinDelay)]_vars
  <2> SUFFICES ASSUME IInv, Send
               PROVE  call.target = "allowed" /\ (approved \/ revoked <= MinDelay)
      OBVIOUS
  <2>1. revoked \in Nat
      BY Constants DEF IInv, TypeOK, MaxTime
  <2> QED
      BY <2>1, Constants DEF IInv, PauseCoversRevocation, Send
<1> QED
  BY <1>1, InductiveInvariant, PTL DEF Spec, RequestsAreApproved

\* No process makes a request after the site refused it as often as the
\* threshold says or showed a captcha or an unknown page, and none before the
\* time is over that the site asked of it (CrawlCircuit, Retry-After).
THEOREM RefusalsAreHonoured == Spec => RefusalsHonoured
<1>1. IInv /\ [Next]_vars =>
        [Send => seen.denials < Threshold /\ ~seen.fatal /\ owed = 0]_vars
  <2> SUFFICES ASSUME IInv, Send
               PROVE  seen.denials < Threshold /\ ~seen.fatal /\ owed = 0
      OBVIOUS
  <2>1. circuit.reason = "none" /\ call.pc = "pace"
      BY DEF IInv, CircuitCounts, Send
  <2>2. owed \in Nat /\ owed <= 0
      BY <2>1, Constants DEF IInv, TypeOK, SleepCoversOwed
  <2> QED
      BY <2>1, <2>2 DEF IInv, CircuitCounts
<1> QED
  BY <1>1, InductiveInvariant, PTL DEF Spec, RefusalsHonoured

=============================================================================
