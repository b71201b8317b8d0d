----------------------------- MODULE BoardSync ------------------------------
(***************************************************************************)
(* The listing of one board, its checkpoint (scheduler/planner.py) and the *)
(* programs that move it: crawl-live of cli.py as started by               *)
(* daily_incremental_sync.sh, run_full_backfill.sh and sync_live.sh.       *)
(*                                                                         *)
(* Listing pages are cut out of a list that changes under the crawler: a   *)
(* new article pushes all others one place down, a deleted one lets them   *)
(* move up.  What is stored of an article, and owners' denials, are the    *)
(* matter of SourceCorpus; boards share nothing but the crawl lock, so     *)
(* there is one board.                                                     *)
(***************************************************************************)
EXTENDS Integers, FiniteSets, SequencesExt

CONSTANTS
  Old,          \* articles on the site at first: 1..Old, the newest has Old
  MaxPosts,     \* bound on new articles
  MayDelete,    \* whether the site deletes an article
  PageSize,     \* articles on a listing page
  LatestMax,    \* DAILY_LATEST_MAX_SCAN_PAGES
  Target,       \* FULL_BACKFILL_TARGET_PAGE
  Batch,        \* FULL_BACKFILL_PAGE_BATCH
  Retries,      \* DAILY_CRAWL_RETRIES
  MaxFailures,  \* bound on crawls that fail
  Programs      \* the programs at work, of "daily", "backfill" and "live"

ASSUME SyncAssumption ==
  /\ {Old, MaxPosts, MaxFailures} \subseteq Nat
  /\ {PageSize, LatestMax, Target, Batch, Retries} \subseteq Nat \ {0}
  /\ Old > 0 /\ Batch <= Target /\ MayDelete \in BOOLEAN
  /\ Programs \subseteq {"daily", "backfill", "live"}

VARIABLES
  listing,     \* the board as the site shows it, newest first
  newest,      \* the last article posted
  stored,      \* articles in the database
  checkpoint,  \* boards.crawl_checkpoint
  lock,        \* holder of the crawl lock file, or "free"
  crawl,       \* crawl[p]: the crawl-live command p has started
  daily,       \* daily_incremental_sync.sh
  backfill,    \* run_full_backfill.sh
  failures,    \* crawls that failed so far
  gap,         \* a pass over the latest pages may have left articles out: it or
               \* a command of it failed after a commit, or the board moved a
               \* whole page under it
  moved        \* the site deleted an article

site == <<listing, newest, moved>>
scripts == <<daily, backfill, lock>>
vars == <<listing, newest, stored, checkpoint, lock, crawl, daily, backfill,
          failures, gap, moved>>

Articles == 1..(Old + MaxPosts)

\* next = 0: the key next_backfill_page is absent.
Checkpoint == [next : Nat, complete : BOOLEAN]

\* unseen: articles of the last page that were not stored; result: exit status.
\* asOf, for the properties: the newest article when the page was fetched.
Crawl == [stage : {"idle", "resume", "fetch", "commit"}, page : Nat,
          pages : 0..Batch, preserve : BOOLEAN,
          ids : SUBSET Articles, unseen : 0..PageSize,
          asOf : {0} \cup Articles, result : {"none", "done", "failed"}]

NoCrawl == [stage |-> "idle", page |-> 0, pages |-> 0, preserve |-> FALSE,
            ids |-> {}, unseen |-> 0, asOf |-> 0, result |-> "none"]

\* asOf, for the properties: that of the page before, or of the pass's start.
Daily == [pc : {"idle", "latest", "history"}, page : 1..LatestMax,
          attempt : 1..Retries, asOf : {0} \cup Articles]

Slice == [start : Nat \ {0}, pages : 1..Batch]

\* One type invariant: a listing in order of age, ages with a crawl at work.
TypeOK ==
  /\ listing \in Seq(Articles) /\ newest \in Articles
  /\ \A i, j \in DOMAIN listing : i < j => listing[i] > listing[j]
  /\ stored \subseteq Articles
  /\ checkpoint \in Checkpoint
  /\ lock \in {"free", "daily", "backfill"}
  /\ crawl \in [Programs -> Crawl]
  /\ daily \in Daily
  /\ backfill \in [pc : {"idle", "slices"}, slices : Seq(Slice)]
  /\ backfill.pc = "slices" => backfill.slices # <<>>
  /\ failures \in 0..MaxFailures
  /\ gap \in BOOLEAN /\ moved \in BOOLEAN

\* The board before its first crawl, or after one of its first page.
Init ==
  /\ listing = Reverse([i \in 1..Old |-> i]) /\ newest = Old
  /\ \/ checkpoint = [next |-> 0, complete |-> FALSE] /\ stored = {}
     \/ checkpoint = [next |-> 2, complete |-> FALSE]
        /\ stored = {listing[i] : i \in 1..(IF Old < PageSize THEN Old ELSE PageSize)}
  /\ lock = "free"
  /\ crawl = [p \in Programs |-> NoCrawl]
  /\ daily = [pc |-> "idle", page |-> 1, attempt |-> 1, asOf |-> 0]
  /\ backfill = [pc |-> "idle", slices |-> <<>>]
  /\ failures = 0
  /\ gap = FALSE /\ moved = FALSE

-----------------------------------------------------------------------------
(* The site.                                                               *)

Post ==
  /\ newest + 1 \in Articles
  /\ newest' = newest + 1
  /\ listing' = <<newest + 1>> \o listing
  /\ UNCHANGED <<stored, checkpoint, crawl, failures, gap, moved, scripts>>

Delete ==
  /\ MayDelete /\ ~moved
  /\ \E i \in DOMAIN listing : listing' = RemoveAt(listing, i)
  /\ moved' = TRUE
  /\ UNCHANGED <<newest, stored, checkpoint, crawl, failures, gap, scripts>>

OnPage(n) == {listing[i] : i \in {i \in DOMAIN listing :
                 (n - 1) * PageSize < i /\ i <= n * PageSize}}

-----------------------------------------------------------------------------
(* maple-chat crawl-live --start-page page --max-pages pages ...           *)

Started(page, pages, resume, preserve) ==
  [stage |-> IF resume THEN "resume" ELSE "fetch", page |-> page, pages |-> pages,
   preserve |-> preserve, ids |-> {}, unseen |-> 0, asOf |-> 0, result |-> "none"]

Running(p) == crawl[p].stage # "idle"

\* --resume reads the checkpoint before the first page, without a lock on it.
Resume(p) ==
  /\ crawl[p].stage = "resume"
  /\ crawl' = [crawl EXCEPT ![p] =
       IF checkpoint.complete THEN [NoCrawl EXCEPT !.result = "done"]
       ELSE [crawl[p] EXCEPT !.stage = "fetch",
              !.page = IF checkpoint.next = 0 THEN crawl[p].page ELSE checkpoint.next]]
  /\ UNCHANGED <<site, stored, checkpoint, failures, gap, scripts>>

\* The listing page is fetched and its articles compared with those stored.
Fetch(p) ==
  /\ crawl[p].stage = "fetch"
  /\ crawl' = [crawl EXCEPT ![p] =
       LET ids == OnPage(crawl[p].page)
       IN [crawl[p] EXCEPT !.stage = "commit", !.ids = ids,
                           !.unseen = Cardinality(ids \ stored), !.asOf = newest]]
  /\ UNCHANGED <<site, stored, checkpoint, failures, gap, scripts>>

\* Mutant: the next page is skipped.
MutSkipsAPage(c) ==
  IF c.preserve THEN checkpoint
  ELSE [next |-> c.page + 2, complete |-> c.ids = {}]

\* Mutant: the page just crawled is the next one.
MutStays(c) ==
  IF c.preserve THEN checkpoint
  ELSE [next |-> c.page, complete |-> c.ids = {}]

\* record_board_refresh leaves the position alone, record_board_progress sets it.
Recorded(c) ==
  IF c.preserve THEN checkpoint
  ELSE [next |-> c.page + 1, complete |-> c.ids = {}]

\* The page and the checkpoint are one transaction; an empty page ends the
\* command.
CommitPage(p) ==
  LET c == crawl[p]
      last == c.ids = {} \/ c.pages = 1
  IN /\ c.stage = "commit"
     /\ stored' = stored \cup c.ids
     /\ checkpoint' = Recorded(c)
     /\ crawl' = [crawl EXCEPT ![p] =
          IF last THEN [NoCrawl EXCEPT !.result = "done", !.unseen = c.unseen,
                                       !.asOf = c.asOf]
          ELSE Started(c.page + 1, c.pages - 1, FALSE, c.preserve)]
     /\ UNCHANGED <<site, failures, gap, scripts>>

\* The command fails at any point: the open transaction is gone, the pages
\* before it stay.  It may also die after its last commit, when the exit status
\* or the JSON the script reads is lost.
FailCrawl(p) ==
  /\ failures < MaxFailures
  /\ Running(p) \/ (crawl[p].result = "done" /\ p # "live")
  /\ failures' = failures + 1
  /\ crawl' = [crawl EXCEPT ![p] = [NoCrawl EXCEPT !.result = "failed"]]
  /\ gap' = (gap \/ (p = "daily" /\ daily.pc = "latest" /\ ~Running(p)))
  /\ UNCHANGED <<site, stored, checkpoint, scripts>>

-----------------------------------------------------------------------------
(* daily_incremental_sync.sh, with the lock held from its start to its end. *)

Crawls(p, c) == crawl' = [crawl EXCEPT ![p] = c]
LatestPage(n) == Started(n, 1, FALSE, TRUE)

StartDaily ==
  /\ "daily" \in Programs /\ daily.pc = "idle" /\ lock = "free"
  /\ lock' = "daily"
  /\ daily' = [pc |-> "latest", page |-> 1, attempt |-> 1, asOf |-> newest]
  /\ Crawls("daily", LatestPage(1))
  /\ UNCHANGED <<site, stored, checkpoint, backfill, failures, gap>>

EndDaily ==
  /\ lock' = "free"
  /\ daily' = [pc |-> "idle", page |-> 1, attempt |-> 1, asOf |-> 0]
  /\ Crawls("daily", NoCrawl)

Ended(p, result) == ~Running(p) /\ crawl[p].result = result

\* Since the page before this one, new articles filled a page: a listing page
\* fetched after them may show nothing but what the page before it showed.
Flooded == daily.page > 1 /\ crawl["daily"].asOf - daily.asOf >= PageSize

\* A latest page is in: go on to the next one until a page has nothing new.
\* Past the page bound the board counts as failed.
NextLatest ==
  /\ daily.pc = "latest" /\ Ended("daily", "done") /\ crawl["daily"].unseen > 0
  /\ IF daily.page = LatestMax
     THEN EndDaily /\ gap' = TRUE
     ELSE /\ daily' = [daily EXCEPT !.page = @ + 1, !.attempt = 1,
                                    !.asOf = crawl["daily"].asOf]
          /\ Crawls("daily", LatestPage(daily.page + 1))
          /\ gap' = (gap \/ Flooded)
          /\ UNCHANGED lock
  /\ UNCHANGED <<site, stored, checkpoint, backfill, failures>>

\* A page with nothing new is the boundary; then one historical page, at the
\* checkpoint.
Boundary ==
  /\ daily.pc = "latest" /\ Ended("daily", "done") /\ crawl["daily"].unseen = 0
  /\ gap' = (gap \/ Flooded)
  /\ IF checkpoint.complete \/ checkpoint.next > Target
     THEN EndDaily
     ELSE /\ daily' = [daily EXCEPT !.pc = "history", !.attempt = 1, !.asOf = 0]
          /\ Crawls("daily", Started(IF checkpoint.next = 0 THEN 1 ELSE checkpoint.next,
                                     1, TRUE, FALSE))
          /\ UNCHANGED lock
  /\ UNCHANGED <<site, stored, checkpoint, backfill, failures>>

EndHistory ==
  /\ daily.pc = "history" /\ Ended("daily", "done")
  /\ EndDaily
  /\ UNCHANGED <<site, stored, checkpoint, backfill, failures, gap>>

\* Mutant: one attempt too many.
MutRetryOnceMore ==
  /\ daily.pc # "idle" /\ Ended("daily", "failed")
  /\ IF daily.attempt <= Retries
     THEN /\ daily' = [daily EXCEPT !.attempt = @ + 1]
          /\ Crawls("daily", LatestPage(daily.page))
          /\ UNCHANGED <<lock, gap>>
     ELSE EndDaily /\ gap' = (gap \/ daily.pc = "latest")
  /\ UNCHANGED <<site, stored, checkpoint, backfill, failures>>

\* run_with_retry repeats whatever failed; a board that failed Retries times
\* is left for the next day.
RetryDaily ==
  /\ daily.pc # "idle" /\ Ended("daily", "failed")
  /\ IF daily.attempt < Retries
     THEN /\ daily' = [daily EXCEPT !.attempt = @ + 1]
          /\ Crawls("daily", IF daily.pc = "latest" THEN LatestPage(daily.page)
                              ELSE Started(1, 1, TRUE, FALSE))
          /\ UNCHANGED <<lock, gap>>
     ELSE EndDaily /\ gap' = (gap \/ daily.pc = "latest")
  /\ UNCHANGED <<site, stored, checkpoint, backfill, failures>>

-----------------------------------------------------------------------------
(* run_full_backfill.sh                                                    *)

\* plan_round_robin_backfill for one board: a slice per round of Batch pages,
\* from the checkpoint to the target page.
RoundsOver(next) == (next - 1) \div Batch

RoundsLeft(next) ==
  IF next > Target THEN 0 ELSE ((Target - 1) \div Batch + 1) - RoundsOver(next)

PlannedSlice(next, i) ==
  LET round == RoundsOver(next) + i
      start == IF i = 1 THEN next ELSE (round - 1) * Batch + 1
      end == IF round * Batch < Target THEN round * Batch ELSE Target
  IN [start |-> start, pages |-> end - start + 1]

PlannedSlices(next) == [i \in 1..RoundsLeft(next) |-> PlannedSlice(next, i)]

\* The schedule is made before the lock is taken.
PlanBackfill ==
  /\ "backfill" \in Programs /\ backfill.pc = "idle"
  /\ ~checkpoint.complete
  /\ LET next == IF checkpoint.next = 0 THEN 1 ELSE checkpoint.next
     IN /\ PlannedSlices(next) # <<>>
        /\ backfill' = [pc |-> "slices", slices |-> PlannedSlices(next)]
  /\ UNCHANGED <<site, stored, checkpoint, crawl, daily, lock, failures, gap>>

\* Mutant: the slice does not take the lock.
MutUnlockedSlice ==
  /\ backfill.pc = "slices" /\ crawl["backfill"] = NoCrawl
  /\ Crawls("backfill", Started(Head(backfill.slices).start,
                                 Head(backfill.slices).pages, TRUE, FALSE))
  /\ UNCHANGED <<site, stored, checkpoint, daily, backfill, lock, failures, gap>>

\* Each slice takes the lock and resumes at the checkpoint it finds then.
StartSlice ==
  /\ backfill.pc = "slices" /\ lock = "free" /\ crawl["backfill"] = NoCrawl
  /\ lock' = "backfill"
  /\ Crawls("backfill", Started(Head(backfill.slices).start,
                                 Head(backfill.slices).pages, TRUE, FALSE))
  /\ UNCHANGED <<site, stored, checkpoint, daily, backfill, failures, gap>>

\* A failed slice ends the script (set -e).
EndSlice ==
  /\ backfill.pc = "slices"
  /\ \/ /\ Ended("backfill", "done") /\ Len(backfill.slices) > 1
        /\ backfill' = [backfill EXCEPT !.slices = Tail(@)]
     \/ /\ Ended("backfill", "done") /\ Len(backfill.slices) = 1
        /\ backfill' = [pc |-> "idle", slices |-> <<>>]
     \/ /\ Ended("backfill", "failed")
        /\ backfill' = [pc |-> "idle", slices |-> <<>>]
  /\ lock' = IF lock = "backfill" THEN "free" ELSE lock
  /\ Crawls("backfill", NoCrawl)
  /\ UNCHANGED <<site, stored, checkpoint, daily, failures, gap>>

-----------------------------------------------------------------------------
(* sync_live.sh, which run_live_bot.sh runs at every start of the bot: the  *)
(* first page, without the lock and without --preserve-backfill-checkpoint. *)
SyncLive ==
  /\ "live" \in Programs /\ ~Running("live")
  /\ Crawls("live", Started(1, 1, FALSE, FALSE))
  /\ UNCHANGED <<site, stored, checkpoint, scripts, failures, gap>>

Command == \E p \in Programs : Resume(p) \/ Fetch(p) \/ CommitPage(p)

DailyScript == StartDaily \/ NextLatest \/ Boundary \/ EndHistory \/ RetryDaily

BackfillScript == PlanBackfill \/ StartSlice \/ EndSlice

Next ==
  \/ Post \/ Delete
  \/ Command
  \/ \E p \in Programs : FailCrawl(p)
  \/ DailyScript \/ BackfillScript

\* Commands have timeouts on every request and end; the daily loop starts its
\* script every day, and it gets the lock in turn (flock is not starved by a
\* script that plans anew only when someone calls it).
Spec ==
  /\ Init /\ [][Next]_vars
  /\ \A p \in Programs : WF_vars(Resume(p) \/ Fetch(p) \/ CommitPage(p))
  /\ WF_vars(NextLatest \/ Boundary \/ EndHistory \/ RetryDaily)
  /\ WF_vars(StartSlice) /\ WF_vars(EndSlice)
  /\ SF_vars(StartDaily)

\* A bot that is started meanwhile.
SpecWithLive == Init /\ [][Next \/ SyncLive]_vars

-----------------------------------------------------------------------------
(* Properties.                                                             *)

\* The first listing positions the checkpoint stands for.
Covered == IF checkpoint.complete THEN DOMAIN listing
           ELSE {i \in DOMAIN listing : i <= (checkpoint.next - 1) * PageSize}

Hole == \E i, j \in Covered : i < j /\ listing[i] \in stored /\ listing[j] \notin stored

\* What the checkpoint covers is in the database, up to articles newer than all
\* that is stored, which the next daily pass reaches first: new articles that
\* push others over the edge of a page, retries, and the two scripts taking
\* turns lose nothing - unless a pass over the latest pages is under way, was
\* given up, had a command fail after its last commit (whose retry takes its own
\* page for the boundary) or saw a page's worth of new articles between two of
\* its pages, or the site deleted an article (record_board_progress, the
\* known-ID boundary of daily_incremental_sync.sh).
NothingLost == Hole => gap \/ moved \/ daily.pc = "latest"

\* The checkpoint never goes back, and what is complete stays so: the scripts
\* read it and write it under one lock (run_full_backfill.sh, flock 9;
\* daily_incremental_sync.sh, flock 8).
BackfillNeverRewinds ==
  [][ /\ checkpoint'.next >= checkpoint.next
      /\ checkpoint.complete => checkpoint'.complete ]_vars

\* Day after day the backfill gets to its end: a page with no articles or the
\* target page.
BackfillEnds == <>[](checkpoint.complete \/ checkpoint.next > Target)

\* daily_incremental_sync.sh:127 calls a page with nothing new "the boundary
\* between new arrivals and data already stored", and lines 80-81 promise that
\* "a retry can therefore never commit page 1 and then incorrectly stop before a
\* failed page 2".  It does when the command commits page 1 and fails
\* afterwards: the retry finds page 1 stored; and a day later, when page 2
\* failed for good.
BoundaryIsSound == [][Boundary => ~Hole]_vars
=============================================================================
