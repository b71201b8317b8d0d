--------------------------- MODULE CrawlRequests ----------------------------
(***************************************************************************)
(* The requests of a crawl: RespectfulInvenClient with its circuit and the *)
(* approval gate (crawler/http.py, circuit.py, policy.py), the way         *)
(* crawler/live.py takes their failures, and run_with_retry of             *)
(* daily_incremental_sync.sh, which starts a new process for each attempt. *)
(*                                                                         *)
(* A page's articles and images are so many requests, in any number up to  *)
(* a bound, as one listing holds at most max_articles and one article its  *)
(* images.  The comments of an article are fetched page by page as long as *)
(* the site reports more of them, which the program does not bound.  What  *)
(* is parsed and stored is the matter of SourceCorpus, which page it is    *)
(* that of BoardSync.  Time passes only while the program sleeps or the    *)
(* site has not answered.                                                  *)
(***************************************************************************)
EXTENDS Integers

CONSTANTS
  MinDelay,     \* minimum_delay_seconds
  Threshold,    \* refusals in a row that open the circuit
  MaxHops,      \* requests of one call, redirects included
  Cap,          \* longest Retry-After that is waited for
  Asked,        \* Retry-After values of the site, 0 for none
  Retries,      \* DAILY_CRAWL_RETRIES
  RetryDelay,   \* DAILY_CRAWL_RETRY_DELAY
  MaxRequests,  \* bound on the calls of one process, those for further
                \* pages of comments not counted
  MaxCommands   \* bound on the commands of the script

ASSUME CrawlAssumption ==
  /\ {MinDelay, Threshold, MaxHops, Retries, MaxRequests} \subseteq Nat \ {0}
  /\ {Cap, RetryDelay, MaxCommands} \subseteq Nat /\ Asked \subseteq Nat

VARIABLES
  approved,  \* the approval file is valid and names the scope
  revoked,   \* time since it is not, up to a bound
  circuit,   \* CrawlCircuit of the process
  call,      \* the request in hand
  made,      \* calls of the process so far, further comments not counted
  more,      \* the site reported more comments than were fetched
  since,     \* time since the last request of the process, up to a bound
  sleep,     \* time left to sleep
  script,    \* run_with_retry
  seen,      \* what the site answered to this process
  stopped,   \* a stop condition has occurred
  owed       \* time the site asked the process to stay away for

process == <<circuit, call, made, more, since>>
vars == <<approved, revoked, process, sleep, script, seen, stopped, owed>>

Reasons == {"none", "denials", "captcha", "drift"}
\* The listing and the articles, a page of comments, an image.
Kinds == {"page", "comments", "media"}

\* A URL is on the allow list or outside.
Targets == {"allowed", "outside"}

NoCall == [pc |-> "none", kind |-> "page", hop |-> 0, target |-> "allowed"]
Call == [pc : {"none", "check", "pace", "wait", "backoff", "failed"},
         kind : Kinds, hop : 0..MaxHops, target : Targets]

Fresh == [denials |-> 0, reason |-> "none"]
Unseen == [denials |-> 0, fatal |-> FALSE]

MaxTime == MinDelay + 1
MaxSleep == MinDelay + Cap + RetryDelay * Retries

\* The types of the state.
TypeOK ==
  /\ approved \in BOOLEAN /\ revoked \in 0..MaxTime
  /\ circuit \in [denials : 0..Threshold, reason : Reasons]
  /\ call \in Call /\ made \in 0..MaxRequests /\ more \in BOOLEAN
  /\ since \in 0..MaxTime
  /\ sleep \in 0..MaxSleep
  /\ script \in [pc : {"run", "retry", "ended"}, attempt : 1..Retries,
                 commands : 0..MaxCommands]
  /\ seen \in [denials : 0..Threshold, fatal : BOOLEAN]
  /\ stopped \in BOOLEAN /\ owed \in 0..Cap

\* A process has made no request: its clock of the last one is long past.
NewProcess ==
  /\ circuit' = Fresh /\ call' = NoCall /\ made' = 0 /\ more' = FALSE
  /\ since' = MaxTime /\ seen' = Unseen /\ owed' = 0

Init ==
  /\ approved = TRUE /\ revoked = 0
  /\ circuit = Fresh /\ call = NoCall /\ made = 0 /\ more = FALSE
  /\ since = MaxTime /\ seen = Unseen
  /\ sleep = 0 /\ owed = 0 /\ stopped = FALSE
  /\ script = [pc |-> "run", attempt |-> 1, commands |-> 0]

-----------------------------------------------------------------------------
(* One call of the client.  The lock of the client is never contended: a   *)
(* process makes one call at a time.                                       *)

\* The listing page first, then articles, their comments and their images.  The
\* comments are gone through before anything else: while offset < total.
BeginCall(kind) ==
  /\ script.pc = "run" /\ call.pc = "none"
  /\ made = 0 => kind = "page"
  /\ IF more THEN kind = "comments" /\ UNCHANGED made
             ELSE made < MaxRequests /\ made' = made + 1
  /\ \E target \in IF kind = "comments" THEN {"allowed"} ELSE Targets :
       call' = [pc |-> "check", kind |-> kind, hop |-> 1, target |-> target]
  /\ UNCHANGED <<approved, revoked, circuit, more, since, sleep, script, seen,
                 stopped, owed>>

\* Mutant: a redirect is followed without a look at its target.
MutRedirectTrusted ==
  /\ circuit.reason = "none"
  /\ approved /\ (call.hop = 1 => call.target = "allowed")

\* require_closed and require_live_crawl, before every hop; the approval file
\* is read each time.
Authorised == circuit.reason = "none" /\ approved /\ call.target = "allowed"

Check ==
  /\ call.pc = "check"
  /\ IF Authorised
     THEN /\ call' = [call EXCEPT !.pc = "pace"]
          /\ sleep' = IF since < MinDelay THEN MinDelay - since ELSE 0
     ELSE call' = [call EXCEPT !.pc = "failed"] /\ UNCHANGED sleep
  /\ UNCHANGED <<approved, revoked, circuit, made, more, since, script, seen, stopped, owed>>

\* The request goes out after the pause.
Send ==
  /\ call.pc = "pace" /\ sleep = 0
  /\ call' = [call EXCEPT !.pc = "wait"]
  /\ since' = 0
  /\ UNCHANGED <<approved, revoked, circuit, made, more, sleep, script, seen, stopped, owed>>

\* Mutant: only a page, not an image, counts.
MutMediaNotRecorded(denied) ==
  IF denied /\ call.kind # "media"
  THEN [denials |-> circuit.denials + 1,
        reason |-> IF circuit.denials + 1 >= Threshold THEN "denials" ELSE circuit.reason]
  ELSE circuit

\* record_status for 403 and 429, and for 2xx and 3xx; others leave it alone.
Recorded(denied) ==
  IF denied
  THEN [denials |-> circuit.denials + 1,
        reason |-> IF circuit.denials + 1 >= Threshold THEN "denials" ELSE circuit.reason]
  ELSE [circuit EXCEPT !.denials = 0]

\* A call ends without an answer.  The page is given up; of an image only
\* HTTP status, transport and content errors are passed over, so CrawlCircuitOpen,
\* LiveCrawlDenied and TooManyRedirects end the page as well.
Dropped == IF call.kind = "media" THEN NoCall ELSE [call EXCEPT !.pc = "failed"]

Failed == [call EXCEPT !.pc = "failed"]

\* A usable page, or one with a captcha, or one the parser does not know, which
\* the circuit is told of unless it is one of comments.  A page of comments says
\* how many there are.
AnswerContent ==
  \E fatal \in {"none", "captcha"} \cup (IF call.kind = "media" THEN {} ELSE {"drift"}) :
    /\ circuit' = [Recorded(FALSE) EXCEPT !.reason =
                     IF fatal = "captcha" \/ (fatal = "drift" /\ call.kind = "page")
                     THEN fatal ELSE @]
    /\ seen' = [denials |-> 0, fatal |-> fatal # "none" \/ seen.fatal]
    /\ stopped' = (stopped \/ fatal # "none")
    /\ call' = IF fatal = "none" THEN NoCall ELSE Failed
    /\ more' \in IF fatal = "none" /\ call.kind = "comments" THEN BOOLEAN ELSE {more}
    /\ UNCHANGED <<sleep, owed>>

AnswerRedirect ==
  /\ circuit' = Recorded(FALSE) /\ seen' = [seen EXCEPT !.denials = 0]
  /\ \/ call.hop < MaxHops
        /\ \E target \in Targets :
             call' = [call EXCEPT !.pc = "check", !.hop = @ + 1, !.target = target]
     \/ call.hop = MaxHops /\ call' = Failed
     \/ call' = Dropped \* no Location
  /\ UNCHANGED <<more, sleep, owed, stopped>>

\* retry_after_seconds: at most the cap.
Backoff(seconds) == IF seconds < Cap THEN seconds ELSE Cap

\* 403 or 429.  The refusal that opens the circuit raises before Retry-After is
\* looked at.
AnswerRefusal ==
  \E seconds \in Asked, limited \in BOOLEAN :
    /\ circuit' = Recorded(TRUE)
    /\ seen' = [seen EXCEPT !.denials = @ + 1]
    /\ owed' = IF limited THEN Backoff(seconds) ELSE owed
    /\ IF circuit'.reason # "none"
       THEN call' = Failed /\ stopped' = TRUE /\ UNCHANGED sleep
       ELSE /\ IF limited /\ Backoff(seconds) > 0
               THEN call' = [call EXCEPT !.pc = "backoff"] /\ sleep' = Backoff(seconds)
               ELSE call' = Dropped /\ UNCHANGED sleep
            /\ UNCHANGED stopped
    /\ UNCHANGED more

\* 404, 5xx, a timeout, a body beyond the bound: the last two after a status.
AnswerError ==
  /\ call' = Dropped
  /\ circuit' \in {circuit, Recorded(FALSE)}
  /\ seen' = IF circuit' = circuit THEN seen ELSE [seen EXCEPT !.denials = 0]
  /\ UNCHANGED <<more, sleep, owed, stopped>>

Answer ==
  /\ call.pc = "wait"
  /\ AnswerContent \/ AnswerRedirect \/ AnswerRefusal \/ AnswerError
  /\ UNCHANGED <<approved, revoked, made, since, script>>

EndBackoff ==
  /\ call.pc = "backoff" /\ sleep = 0
  /\ call' = Dropped
  /\ UNCHANGED <<approved, revoked, circuit, made, more, since, sleep, script, seen, stopped, owed>>

-----------------------------------------------------------------------------
(* run_with_retry and the commands of the script.                          *)

NextCommand ==
  script' = IF script.commands + 1 >= MaxCommands
            THEN [script EXCEPT !.pc = "ended"]
            ELSE [pc |-> "run", attempt |-> 1, commands |-> script.commands + 1]

\* The page is stored and the process ends.
Succeed ==
  /\ script.pc = "run" /\ call.pc = "none" /\ made > 0 /\ ~more
  /\ NextCommand /\ NewProcess
  /\ UNCHANGED <<approved, revoked, sleep, stopped>>

\* Mutant: the script never gives up.
MutRetryForEver ==
  /\ script.pc = "run" /\ call.pc = "failed"
  /\ NewProcess
  /\ script' = [script EXCEPT !.pc = "retry"]
  /\ sleep' = RetryDelay * script.attempt
  /\ UNCHANGED <<approved, revoked, stopped>>

\* The process ends with one exit status or another; the script looks at none.
Fail ==
  /\ script.pc = "run" /\ call.pc = "failed"
  /\ NewProcess
  /\ IF script.attempt = Retries
     THEN NextCommand /\ UNCHANGED sleep
     ELSE /\ script' = [script EXCEPT !.pc = "retry", !.attempt = @ + 1]
          /\ sleep' = RetryDelay * script.attempt
  /\ UNCHANGED <<approved, revoked, stopped>>

Retry ==
  /\ script.pc = "retry" /\ sleep = 0
  /\ script' = [script EXCEPT !.pc = "run"]
  /\ UNCHANGED <<approved, revoked, process, sleep, seen, stopped, owed>>

-----------------------------------------------------------------------------
(* The owner's approval and time.                                          *)

Approve ==
  /\ approved' = ~approved /\ revoked' = 0
  /\ UNCHANGED <<process, sleep, script, seen, stopped, owed>>

Later(t) == IF t = 0 THEN 0 ELSE t - 1
Older(t) == IF t = MaxTime THEN t ELSE t + 1

Tick ==
  /\ sleep > 0 \/ call.pc = "wait"
  /\ sleep' = Later(sleep) /\ owed' = Later(owed)
  /\ since' = Older(since)
  /\ revoked' = IF approved THEN 0 ELSE Older(revoked)
  /\ UNCHANGED <<approved, circuit, call, made, more, script, seen, stopped>>

Step ==
  \/ (\E kind \in Kinds : BeginCall(kind)) \/ Check \/ Send \/ Answer \/ EndBackoff
  \/ Succeed \/ Fail \/ Retry

Next == Step \/ Tick \/ Approve

\* The program goes on and requests have a timeout; time passes.
Spec == Init /\ [][Next]_vars /\ WF_vars(Step) /\ WF_vars(Tick /\ sleep > 0)

-----------------------------------------------------------------------------
(* Properties.                                                             *)

\* Every request, after any redirects and failed images, goes to a URL of the
\* allow list, with an approval that was valid when it was last read: revoking
\* it stops the crawl within the pause before one request (require_live_crawl
\* before every hop, _pace between the check and the request).
RequestsAreApproved ==
  [][Send => call.target = "allowed" /\ (approved \/ revoked <= MinDelay)]_vars

\* A process that was refused twice in a row, or shown a captcha or a page it
\* cannot parse, makes no request any more, not even for the next image; one
\* that was refused before stays away as long as the site asked of it, up to the
\* cap (CrawlCircuit, the 429 branch of _request, the exceptions _store_media
\* passes over).  The next process of the script knows of neither.
RefusalsHonoured ==
  [][Send => seen.denials < Threshold /\ ~seen.fatal /\ owed = 0]_vars

\* The script comes to its end, over refusals, redirects, errors and retries,
\* unless the site reports more comments of one article for ever: that loop is
\* the one part of a command the program does not bound (_load_comments, the
\* total being what the last answer said; run_with_retry gives up at the last
\* attempt).
ScriptEnds == <>(script.pc = "ended") \/ <>[]more

\* docs/compliance-gate.md:36: "Stop the affected board immediately and do not
\* bypass controls when any of these occur" - a repeated 403 or 429, a captcha,
\* parser drift.  run_with_retry starts the command again, with a closed circuit.
StopConditionsStop == [][Send => ~stopped]_vars
=============================================================================
