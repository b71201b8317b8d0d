--------------------------- MODULE BoardSyncProofs --------------------------
(***************************************************************************)
(* Proofs about BoardSync.  For every page size, page bound, target, batch *)
(* and number of retries: the checkpoint never goes back, and what it      *)
(* stands for is in the database, but for articles newer than all that is  *)
(* stored.                                                                 *)
(***************************************************************************)
EXTENDS BoardSync, FiniteSetTheorems, SequenceTheorems, TLAPS

-----------------------------------------------------------------------------
(* The inductive invariant.                                                *)

\* The articles of the first k listing pages.
Reach(k) == k * PageSize

\* The oldest article of these when n was the newest.
Edge(n, k) == n + 1 - Reach(k)

\* Pages the checkpoint stands for, and the oldest article on them.
Pages == IF checkpoint.next = 0 THEN 0 ELSE checkpoint.next - 1
Floor == IF checkpoint.complete THEN 1 ELSE Edge(newest, Pages)

\* From article `from` on nothing is missing under an article that is stored.
Whole(from) ==
  \A a, b \in Articles : from <= b /\ b < a /\ a \in stored => b \in stored

\* The same below the seam and above it: the articles just under it may be
\* missing, a pass is on its way down to what was stored before.
Seamed(seam) ==
  \A a, b \in Articles :
    ((Floor <= b /\ a < seam) \/ seam <= b) /\ b < a /\ a \in stored => b \in stored

Clean == ~gap /\ ~moved

\* As long as the site deletes nothing the listing counts down from the newest.
SiteInv ==
  /\ \A i \in DOMAIN listing : listing[i] <= newest
  /\ ~moved => Len(listing) = newest /\ \A i \in 1..newest : listing[i] = newest + 1 - i
  /\ ~moved => \A a \in stored : a <= newest

\* Only the holder of the lock has a crawl, and the lock is held from the start
\* of the daily script to its end.
LockInv ==
  /\ daily.pc # "idle" <=> lock = "daily"
  /\ lock = "daily" => "daily" \in Programs
  /\ lock = "backfill" => "backfill" \in Programs /\ backfill.pc = "slices"
  /\ \A p \in Programs : crawl[p] # NoCrawl => p = lock

Latest(p) == p = "daily" /\ daily.pc = "latest"

\* A crawl of latest pages leaves the checkpoint alone; any other is at the page
\* after those the checkpoint stands for.
CommandInv(p) ==
  /\ Running(p) =>
       /\ crawl[p].page >= 1 /\ crawl[p].pages >= 1 /\ crawl[p].result = "none"
       /\ crawl[p].preserve <=> Latest(p)
       /\ Latest(p) => crawl[p].page = daily.page /\ crawl[p].pages = 1
  /\ crawl[p].stage = "resume" =>
       ~crawl[p].preserve /\ (checkpoint.next = 0 => crawl[p].page = 1)
  /\ crawl[p].stage \in {"fetch", "commit"} /\ ~crawl[p].preserve =>
       ~checkpoint.complete /\ crawl[p].page = Pages + 1
  /\ ~Running(p) /\ crawl[p].result = "done" /\ ~Latest(p) => checkpoint.next # 0

\* The first slice of a board without a checkpoint starts at its first page.
PlanInv ==
  /\ checkpoint.complete => checkpoint.next # 0
  /\ backfill.pc = "slices" =>
       /\ "backfill" \in Programs
       /\ checkpoint.next = 0 => Head(backfill.slices).start = 1

\* A page that was fetched holds the articles that were on it then, and nothing
\* is missing above it if it continues the checkpoint.
FetchInv(c) ==
  c.stage = "commit" =>
    /\ c.asOf \in Articles /\ c.asOf <= newest
    /\ ~moved => c.ids = {a \in Articles : Edge(c.asOf, c.page) <= a
                                           /\ a < Edge(c.asOf, c.page - 1)}
    /\ c.unseen = 0 => c.ids \subseteq stored
    /\ Clean /\ ~c.preserve => Whole(Edge(c.asOf, c.page - 1))

\* Between two passes over the latest pages nothing is missing.
KeptInv == Clean /\ daily.pc # "latest" => Whole(Floor)

\* Less than a page of new articles since the page before, or no page before.
Close(c) == daily.page = 1 \/ c.asOf - daily.asOf < PageSize

\* During a pass the seam is the lower edge of the last page that is in; a page
\* with nothing new closes it.
PassInv ==
  LET c == crawl["daily"]
  IN Clean /\ daily.pc = "latest" =>
       /\ daily.asOf <= newest
       /\ c.stage = "commit" \/ c.result = "done" =>
            daily.asOf <= c.asOf /\ c.asOf <= newest
       /\ c.result # "done" =>
            /\ Seamed(Edge(daily.asOf, daily.page - 1))
            /\ daily.page = 1 => \A a \in stored : a <= daily.asOf
       /\ c.result = "done" /\ Close(c) =>
            IF c.unseen > 0 THEN Seamed(Edge(c.asOf, daily.page)) ELSE Whole(Floor)

IInv ==
  /\ TypeOK
  /\ SiteInv
  /\ LockInv
  /\ \A p \in Programs : CommandInv(p) /\ FetchInv(crawl[p])
  /\ PlanInv
  /\ KeptInv
  /\ PassInv

-----------------------------------------------------------------------------
(* Listing pages.                                                          *)

\* The constants, one by one.
LEMMA Constants ==
    /\ Old \in Nat \ {0} /\ MaxPosts \in Nat /\ MaxFailures \in Nat
    /\ PageSize \in Nat \ {0} /\ LatestMax \in Nat \ {0} /\ Target \in Nat \ {0}
    /\ Batch \in Nat \ {0} /\ Retries \in Nat \ {0} /\ Batch <= Target
    /\ Programs \subseteq {"daily", "backfill", "live"}
    /\ Articles \subseteq Nat \ {0}
    /\ \A a, b \in Articles : \A x \in Nat \ {0} : x <= a => x \in Articles
  BY SyncAssumption DEF SyncAssumption, Articles

\* One more page reaches a page further.
LEMMA ReachFacts ==
    ASSUME NEW k \in Nat
    PROVE  /\ Reach(k) \in Nat /\ Reach(0) = 0
           /\ Reach(k + 1) = Reach(k) + PageSize
           /\ k >= 1 => Reach(k) = Reach(k - 1) + PageSize
<1>1. Reach(0) = 0 /\ Reach(k) \in Nat
  BY Constants DEF Reach
<1>2. Reach(k + 1) = Reach(k) + PageSize
  BY Constants DEF Reach
<1>3. k >= 1 => Reach(k) = Reach(k - 1) + PageSize
  <2> DEFINE m == k - 1
  <2>1. (m + 1) * PageSize = m * PageSize + PageSize \/ ~(m \in Nat)
      BY Constants
  <2> QED
      BY <2>1, Constants DEF Reach
<1> QED
  BY <1>1, <1>2, <1>3

\* The articles on page n, as long as the site deletes nothing.
LEMMA PageArticles ==
    ASSUME TypeOK, SiteInv, ~moved, NEW n \in Nat \ {0}
    PROVE  OnPage(n) = {a \in Articles : Edge(newest, n) <= a /\ a < Edge(newest, n - 1)}
<1> DEFINE lo == Reach(n - 1)
           hi == Reach(n)
<1>1. lo \in Nat /\ hi \in Nat /\ hi = n * PageSize /\ lo = (n - 1) * PageSize
  BY ReachFacts, n - 1 \in Nat DEF Reach
<1>2. newest \in Nat /\ Len(listing) = newest /\ DOMAIN listing = 1..newest
  BY Constants DEF TypeOK, SiteInv
<1>3. \A i \in 1..newest : listing[i] = newest + 1 - i /\ listing[i] \in Articles
  BY <1>2 DEF TypeOK, SiteInv
<1>4. OnPage(n) = {listing[i] : i \in {i \in 1..newest : lo < i /\ i <= hi}}
  BY <1>1, <1>2 DEF OnPage
<1> DEFINE S == {a \in Articles : newest + 1 - hi <= a /\ a < newest + 1 - lo}
<1>5. ASSUME NEW a \in OnPage(n)
      PROVE  a \in S
  <2>1. PICK i \in 1..newest : a = listing[i] /\ lo < i /\ i <= hi
      BY <1>4
  <2> QED
      BY <2>1, <1>1, <1>2, <1>3
<1>6. ASSUME NEW a \in S
      PROVE  a \in OnPage(n)
  <2>1. a \in Nat \ {0} /\ newest + 1 - a \in 1..newest
      BY <1>1, <1>2, Constants
  <2>2. listing[newest + 1 - a] = a
      BY <2>1, <1>2, <1>3
  <2> QED
      BY <2>1, <2>2, <1>1, <1>2, <1>4
<1>7. OnPage(n) = S
  BY <1>5, <1>6
<1> QED
  BY <1>7 DEF Edge

-----------------------------------------------------------------------------
(* What a page does to what is whole.                                      *)

\* The floor is a number, and it rises when articles are posted.
LEMMA FloorFacts ==
    ASSUME TypeOK
    PROVE  /\ newest \in Nat /\ Pages \in Nat
           /\ Floor \in Int /\ Edge(newest, Pages) \in Int
<1>1. newest \in Nat /\ Pages \in Nat
  BY Constants DEF TypeOK, Checkpoint, Pages
<1>2. Reach(Pages) \in Nat
  BY <1>1, ReachFacts
<1> QED
  BY <1>1, <1>2 DEF Edge, Floor

\* Edges are numbers; one page more is one page further down; the edge of no
\* page is above the newest article.
LEMMA EdgeFacts ==
    ASSUME NEW n \in Nat, NEW k \in Nat
    PROVE  /\ Edge(n, k) \in Int /\ Edge(n, k) <= n + 1 /\ Edge(n, 0) = n + 1
           /\ Edge(n, k + 1) = Edge(n, k) - PageSize
           /\ \A m \in Nat : Edge(m, k) - Edge(n, k) = m - n
<1>1. Reach(k) \in Nat /\ Reach(0) = 0 /\ Reach(k + 1) = Reach(k) + PageSize
  BY ReachFacts
<1> QED
  BY <1>1, Constants DEF Edge

\* A page that continues what is whole makes it whole further down.
LEMMA CommitHistory ==
    ASSUME TypeOK, TypeOK', NEW n \in Nat, NEW k \in Nat, n <= newest,
           NEW ids, ids = {a \in Articles : Edge(n, k + 1) <= a /\ a < Edge(n, k)},
           Whole(Edge(n, k)), stored' = stored \cup ids,
           NEW from \in Int, from >= Edge(n, k + 1)
    PROVE  Whole(from)'
<1>1. Edge(n, k) \in Int /\ Edge(n, k + 1) \in Int
  BY EdgeFacts, k + 1 \in Nat
<1>2. SUFFICES ASSUME NEW a \in Articles, NEW b \in Articles,
                      from <= b, b < a, a \in stored'
               PROVE  b \in stored'
  BY DEF Whole
<1>3. a \in Nat /\ b \in Nat
  BY Constants
<1>4. CASE b < Edge(n, k)
  BY <1>1, <1>2, <1>3, <1>4
<1>5. CASE Edge(n, k) <= b
  <2>1. a \in stored
      BY <1>1, <1>2, <1>3, <1>5
  <2> QED
      BY <2>1, <1>2, <1>5 DEF Whole
<1> QED
  BY <1>1, <1>3, <1>4, <1>5

\* An empty page is below all articles.
LEMMA EmptyPage ==
    ASSUME NEW n \in Articles, NEW k \in Nat,
           {a \in Articles : Edge(n, k + 1) <= a /\ a < Edge(n, k)} = {}
    PROVE  Edge(n, k) <= 1
<1> DEFINE e == Edge(n, k) - 1
<1>1. n \in Nat /\ Edge(n, k) \in Int /\ Edge(n, k) <= n + 1
      /\ Edge(n, k + 1) = Edge(n, k) - PageSize
  BY Constants, EdgeFacts
<1>2. SUFFICES ASSUME e >= 1
               PROVE  FALSE
  BY <1>1
<1>3. e \in Articles
  BY <1>1, <1>2, Constants
<1>4. Edge(n, k + 1) <= e /\ e < Edge(n, k)
  BY <1>1, Constants
<1> QED
  BY <1>3, <1>4

\* A latest page moves the seam to its own lower edge.
LEMMA CommitLatest ==
    ASSUME TypeOK, TypeOK', NEW n \in Nat, NEW d \in Nat, NEW k \in Nat, d <= n,
           NEW ids, ids = {a \in Articles : Edge(n, k + 1) <= a /\ a < Edge(n, k)},
           Seamed(Edge(d, k)), stored' = stored \cup ids, Floor' = Floor,
           n - d < PageSize \/ (k = 0 /\ \A a \in stored : a <= d)
    PROVE  Seamed(Edge(n, k + 1))'
<1>1. /\ Edge(n, k) \in Int /\ Edge(n, k + 1) \in Int /\ Edge(d, k) \in Int
      /\ Edge(n, k + 1) = Edge(n, k) - PageSize
      /\ Edge(n, k) - Edge(d, k) = n - d
      /\ Edge(d, 0) = d + 1
  <2>1. Edge(d, k) \in Int /\ Edge(d, 0) = d + 1
      BY EdgeFacts
  <2>2. /\ Edge(n, k) \in Int /\ Edge(n, k + 1) = Edge(n, k) - PageSize
        /\ Edge(n, k) - Edge(d, k) = n - d
      BY EdgeFacts
  <2> QED
      BY <2>1, <2>2, Constants
<1>2. Floor \in Int
  BY FloorFacts
<1>3. SUFFICES ASSUME NEW a \in Articles, NEW b \in Articles,
                      (Floor <= b /\ a < Edge(n, k + 1)) \/ Edge(n, k + 1) <= b,
                      b < a, a \in stored'
               PROVE  b \in stored'
  BY DEF Seamed
<1>4. a \in Nat /\ b \in Nat
  BY Constants
<1>5. CASE a < Edge(n, k + 1)
  <2>1. a \in stored
      BY <1>1, <1>3, <1>4, <1>5
  <2>2. Floor <= b
      BY <1>1, <1>2, <1>3, <1>4, <1>5
  <2>3. a < Edge(d, k)
      BY <2>1, <1>1, <1>4, <1>5, Constants
  <2> QED
      BY <2>1, <2>2, <2>3, <1>3 DEF Seamed
<1>6. CASE Edge(n, k + 1) <= b /\ b < Edge(n, k)
  BY <1>3, <1>6
<1>7. CASE Edge(n, k) <= b
  <2>1. a \in stored
      BY <1>1, <1>3, <1>4, <1>7
  <2>2. Edge(d, k) <= b
      BY <1>1, <1>4, <1>7
  <2> QED
      BY <2>1, <2>2, <1>3 DEF Seamed
<1> QED
  BY <1>1, <1>2, <1>3, <1>4, <1>5, <1>6, <1>7

\* A latest page with nothing new closes the seam above it.
LEMMA CloseSeam ==
    ASSUME TypeOK, NEW n \in Articles, NEW d \in Nat, NEW k \in Nat, d <= n,
           NEW ids, ids = {a \in Articles : Edge(n, k + 1) <= a /\ a < Edge(n, k)},
           ids \subseteq stored, Seamed(Edge(d, k)),
           n - d < PageSize \/ k = 0, k = 0 => \A a \in stored : a <= d
    PROVE  Whole(Floor)
<1>1. /\ n \in Nat /\ Edge(n, k) \in Int /\ Edge(n, k + 1) \in Int /\ Edge(d, k) \in Int
      /\ Edge(n, k + 1) = Edge(n, k) - PageSize
      /\ Edge(n, k) - Edge(d, k) = n - d
      /\ Edge(d, 0) = d + 1 /\ Edge(n, 0) = n + 1
      /\ Edge(n, k) <= n + 1
  BY EdgeFacts, Constants
<1>2. Floor \in Int
  BY FloorFacts
<1>3. SUFFICES ASSUME NEW a \in Articles, NEW b \in Articles,
                      Floor <= b, b < a, a \in stored
               PROVE  b \in stored
  BY DEF Whole
<1>4. a \in Nat /\ b \in Nat /\ a >= 1 /\ b >= 1
  BY Constants
<1>5. CASE a < Edge(d, k)
  BY <1>3, <1>5 DEF Seamed
<1>6. CASE Edge(d, k) <= b
  BY <1>3, <1>6 DEF Seamed
<1>7. CASE b < Edge(d, k) /\ Edge(d, k) <= a
  <2>1. k # 0
      BY <1>1, <1>3, <1>4, <1>7
  <2>2. n - d < PageSize /\ Edge(n, k + 1) < Edge(d, k)
      BY <2>1, <1>1, Constants
  <2>3. CASE Edge(n, k + 1) <= b
      BY <2>3, <1>1, <1>4, <1>7
  <2>4. CASE b < Edge(n, k + 1)
    <3> DEFINE x == Edge(n, k + 1)
    <3>1. x \in Articles
        BY <2>4, <1>1, <1>4, Constants
    <3>2. x \in stored
        BY <3>1, <1>1, Constants
    <3> QED
        BY <3>1, <3>2, <2>2, <2>4, <1>3 DEF Seamed
  <2> QED
      BY <2>3, <2>4, <1>1, <1>4
<1> QED
  BY <1>1, <1>4, <1>5, <1>6, <1>7

-----------------------------------------------------------------------------
(* Actions and the invariant's parts.                                      *)

\* Nothing is missing above a higher article either.
LEMMA WholeRises ==
    ASSUME NEW from \in Int, NEW to \in Int, from <= to, Whole(from)
    PROVE  Whole(to)
  BY Constants DEF Whole

LEMMA SeamedRises ==
    ASSUME NEW seam \in Int, Floor \in Int, Floor' \in Int, Floor <= Floor',
           stored' = stored, Seamed(seam)
    PROVE  Seamed(seam)'
<1>1. SUFFICES ASSUME NEW a \in Articles, NEW b \in Articles,
                      (Floor' <= b /\ a < seam) \/ seam <= b, b < a, a \in stored
               PROVE  b \in stored
  BY DEF Seamed
<1>2. a \in Nat /\ b \in Nat
  BY Constants
<1>3. (Floor <= b /\ a < seam) \/ seam <= b
  BY <1>1, <1>2
<1> QED
  BY <1>1, <1>3 DEF Seamed

\* What the checkpoint covers and what is whole depends on what is stored, on
\* the newest article and on the checkpoint.
LEMMA FloorStays ==
    ASSUME newest' = newest, checkpoint' = checkpoint, stored' = stored
    PROVE  /\ Pages' = Pages /\ Floor' = Floor
           /\ \A x : Whole(x) => Whole(x)'
           /\ \A x : Seamed(x) => Seamed(x)'
<1>1. Pages' = Pages /\ Floor' = Floor
  BY DEF Pages, Floor, Edge, Reach
<1>2. ASSUME NEW x, Whole(x)
      PROVE  Whole(x)'
  BY <1>2 DEF Whole
<1>3. ASSUME NEW x, Seamed(x)
      PROVE  Seamed(x)'
  BY <1>1, <1>3 DEF Seamed
<1> QED
  BY <1>1, <1>2, <1>3

\* An idle process has nothing to answer for.
LEMMA QuietCommands ==
    ASSUME NEW p \in Programs, crawl[p] = NoCrawl
    PROVE  CommandInv(p) /\ FetchInv(crawl[p])
  BY DEF CommandInv, FetchInv, NoCrawl, Running

\* All but the lock's holder are idle.
LEMMA Alone ==
    ASSUME LockInv, NEW p, p = lock \/ lock = "free"
    PROVE  \A q \in Programs \ {p} : crawl[q] = NoCrawl
<1>1. "free" \notin Programs
  BY Constants
<1> QED
  BY <1>1 DEF LockInv

\* The fields of the scripts and of the commands.
LEMMA Fields ==
    ASSUME TypeOK
    PROVE  /\ daily.pc \in {"idle", "latest", "history"} /\ daily.page \in 1..LatestMax
           /\ daily.attempt \in 1..Retries /\ daily.asOf \in Nat
           /\ daily = [pc |-> daily.pc, page |-> daily.page, attempt |-> daily.attempt,
                       asOf |-> daily.asOf]
           /\ checkpoint.next \in Nat /\ checkpoint.complete \in BOOLEAN
           /\ \A p \in Programs :
                /\ crawl[p] \in Crawl /\ crawl[p].page \in Nat /\ crawl[p].pages \in 0..Batch
                /\ crawl[p].preserve \in BOOLEAN /\ crawl[p].asOf \in Nat
                /\ crawl[p].unseen \in 0..PageSize /\ crawl[p].ids \in SUBSET Articles
                /\ crawl[p].asOf \in {0} \cup Articles
                /\ crawl[p].stage \in {"idle", "resume", "fetch", "commit"}
                /\ crawl[p].result \in {"none", "done", "failed"}
<1>1. \A x \in {0} \cup Articles : x \in Nat
  BY Constants
<1>2. daily \in Daily
  BY DEF TypeOK
<1>3. /\ daily.pc \in {"idle", "latest", "history"} /\ daily.page \in 1..LatestMax
      /\ daily.attempt \in 1..Retries /\ daily.asOf \in {0} \cup Articles
      /\ daily = [pc |-> daily.pc, page |-> daily.page, attempt |-> daily.attempt,
                  asOf |-> daily.asOf]
  BY <1>2 DEF Daily
<1>4. checkpoint.next \in Nat /\ checkpoint.complete \in BOOLEAN
  BY DEF TypeOK, Checkpoint
<1>5. ASSUME NEW p \in Programs
      PROVE  /\ crawl[p] \in Crawl /\ crawl[p].page \in Nat /\ crawl[p].pages \in 0..Batch
             /\ crawl[p].preserve \in BOOLEAN /\ crawl[p].asOf \in {0} \cup Articles
             /\ crawl[p].unseen \in 0..PageSize /\ crawl[p].ids \in SUBSET Articles
             /\ crawl[p].stage \in {"idle", "resume", "fetch", "commit"}
             /\ crawl[p].result \in {"none", "done", "failed"}
  <2>1. crawl[p] \in Crawl
      BY DEF TypeOK
  <2> QED
      BY <2>1 DEF Crawl
<1> QED
  BY <1>1, <1>3, <1>4, <1>5

\* An action that sets the crawl of one program: it alone is to be checked.
LEMMA OnlyCrawl ==
    ASSUME TypeOK, LockInv, NEW p \in Programs, p = lock \/ lock = "free",
           NEW STATE c, c \in Crawl, crawl' = [crawl EXCEPT ![p] = c]
    PROVE  /\ crawl' \in [Programs -> Crawl] /\ crawl'[p] = c
           /\ \A q \in Programs \ {p} : crawl'[q] = NoCrawl
           /\ CommandInv(p)' /\ FetchInv(crawl[p])' =>
                (\A q \in Programs : CommandInv(q) /\ FetchInv(crawl[q]))'
<1>1. crawl \in [Programs -> Crawl]
  BY DEF TypeOK
<1>2. \A q \in Programs \ {p} : crawl[q] = NoCrawl
  BY Alone
<1>3. crawl' \in [Programs -> Crawl] /\ crawl'[p] = c
  BY <1>1
<1>4. \A q \in Programs \ {p} : crawl'[q] = NoCrawl
  BY <1>1, <1>2
<1>5. ASSUME NEW q \in Programs \ {p}
      PROVE  CommandInv(q)' /\ FetchInv(crawl[q])'
  <2>1. crawl'[q] = NoCrawl
      BY <1>4
  <2> QED
      BY <2>1 DEF CommandInv, FetchInv, NoCrawl, Running
<1>6. CommandInv(p)' /\ FetchInv(crawl[p])' =>
        (\A q \in Programs : CommandInv(q) /\ FetchInv(crawl[q]))'
  BY <1>5
<1> QED
  BY <1>3, <1>4, <1>6

\* The command as a script starts it, at the first page or at the checkpoint.
Begun(c, stage, page, pages, preserve) ==
  /\ c \in Crawl /\ c.stage = stage /\ c.page = page /\ c.pages = pages
  /\ c.preserve = preserve /\ c.result = "none"

LEMMA StartedFacts ==
    ASSUME NEW STATE page, page \in Nat, NEW STATE pages, pages \in 0..Batch,
           NEW STATE preserve, preserve \in BOOLEAN
    PROVE  /\ Begun(Started(page, pages, TRUE, preserve), "resume", page, pages, preserve)
           /\ Begun(Started(page, pages, FALSE, preserve), "fetch", page, pages, preserve)
<1>1. 0 \in 0..PageSize /\ {} \in SUBSET Articles
  BY Constants
<1>2. Begun(Started(page, pages, TRUE, preserve), "resume", page, pages, preserve)
  BY <1>1 DEF Begun, Started, Crawl
<1>3. Begun(Started(page, pages, FALSE, preserve), "fetch", page, pages, preserve)
  BY <1>1 DEF Begun, Started, Crawl
<1> QED
  BY <1>2, <1>3

\* A command that has ended.
LEMMA EndedFacts ==
    /\ NoCrawl \in Crawl /\ NoCrawl.stage = "idle" /\ NoCrawl.result = "none"
    /\ LET failed == [NoCrawl EXCEPT !.result = "failed"]
       IN failed \in Crawl /\ failed.stage = "idle" /\ failed.result = "failed"
    /\ LET done == [NoCrawl EXCEPT !.result = "done"]
       IN done \in Crawl /\ done.stage = "idle" /\ done.result = "done"
<1>1. 0 \in 0..PageSize /\ 0 \in 0..Batch /\ {} \in SUBSET Articles
  BY Constants
<1> QED
  BY <1>1 DEF NoCrawl, Crawl

-----------------------------------------------------------------------------
(* The site.                                                               *)

LEMMA PostStep ==
    ASSUME IInv, Post
    PROVE  IInv'
<1> DEFINE head == <<newest + 1>>
           n == newest + 1
<1>1. TypeOK /\ SiteInv /\ newest \in Nat /\ n \in Articles
  BY Constants DEF IInv, TypeOK, Post
<1>2. listing \in Seq(Articles) /\ head \in Seq(Articles) /\ Len(head) = 1 /\ head[1] = n
  BY <1>1 DEF TypeOK
<1>3. /\ listing' \in Seq(Articles) /\ Len(listing') = Len(listing) + 1
      /\ \A i \in 1..(1 + Len(listing)) :
           listing'[i] = IF i <= 1 THEN n ELSE listing[i - 1]
  <2>1. listing' = head \o listing
      BY DEF Post
  <2>2. Len(listing) \in Nat
      BY <1>2, LenProperties
  <2>3. /\ head \o listing \in Seq(Articles)
        /\ Len(head \o listing) = 1 + Len(listing)
        /\ \A i \in 1..(1 + Len(listing)) :
             (head \o listing)[i] = IF i <= 1 THEN head[i] ELSE listing[i - 1]
      BY <1>2, ConcatProperties
  <2> QED
      BY <2>1, <2>2, <2>3, <1>2
<1>4. Len(listing) \in Nat /\ DOMAIN listing = 1..Len(listing)
      /\ DOMAIN listing' = 1..(1 + Len(listing))
      /\ \A i \in DOMAIN listing : listing[i] \in Nat /\ listing[i] <= newest
  <2>1. Len(listing) \in Nat /\ DOMAIN listing = 1..Len(listing)
        /\ DOMAIN listing' = 1..Len(listing') /\ listing' \in Seq(Articles)
      BY <1>2, <1>3, LenProperties
  <2>2. \A i \in DOMAIN listing : listing[i] \in Articles
      BY <1>2, <2>1, ElementOfSeq
  <2>3. \A i \in DOMAIN listing : listing[i] \in Nat /\ listing[i] <= newest
      BY <2>2, <1>1, Constants DEF SiteInv
  <2> QED
      BY <2>1, <2>3, <1>3
<1>5. \A i, j \in DOMAIN listing' : i < j => listing'[i] > listing'[j]
  <2> SUFFICES ASSUME NEW i \in DOMAIN listing', NEW j \in DOMAIN listing', i < j
               PROVE  listing'[i] > listing'[j]
      OBVIOUS
  <2>1. j - 1 \in DOMAIN listing /\ listing'[j] = listing[j - 1]
      BY <1>3, <1>4
  <2>2. CASE i = 1
      BY <2>1, <2>2, <1>1, <1>3, <1>4
  <2>3. CASE i > 1
    <3>1. i - 1 \in DOMAIN listing /\ listing'[i] = listing[i - 1] /\ i - 1 < j - 1
        BY <2>3, <1>3, <1>4
    <3> QED
        BY <2>1, <3>1, <1>1 DEF TypeOK
  <2> QED
      BY <2>2, <2>3, <1>4
<1>6. TypeOK'
  BY <1>1, <1>3, <1>5 DEF TypeOK, Post, scripts
<1>7. SiteInv'
  <2>1. \A i \in DOMAIN listing' : listing'[i] <= newest'
    <3> SUFFICES ASSUME NEW i \in DOMAIN listing'
                 PROVE  listing'[i] <= newest'
        OBVIOUS
    <3>1. CASE i = 1
        BY <3>1, <1>1, <1>3, <1>4 DEF Post
    <3>2. CASE i > 1
        BY <3>2, <1>1, <1>3, <1>4 DEF Post
    <3> QED
        BY <3>1, <3>2, <1>4
  <2>2. ~moved' => Len(listing') = newest'
                   /\ \A i \in 1..newest' : listing'[i] = newest' + 1 - i
    <3> SUFFICES ASSUME ~moved
                 PROVE  Len(listing') = n /\ \A i \in 1..n : listing'[i] = n + 1 - i
        BY DEF Post
    <3>1. Len(listing) = newest /\ \A i \in 1..newest : listing[i] = newest + 1 - i
        BY <1>1 DEF SiteInv
    <3> QED
        BY <3>1, <1>1, <1>3
  <2>3. ~moved' => \A a \in stored' : a <= newest'
      BY <1>1, Constants DEF SiteInv, TypeOK, Post
  <2> QED
      BY <2>1, <2>2, <2>3 DEF SiteInv
<1>8. LockInv' /\ PlanInv'
  BY DEF IInv, LockInv, PlanInv, Post, scripts
<1>9. Pages' = Pages /\ Floor \in Int /\ Floor' \in Int /\ Floor <= Floor'
  <2>1. Pages' = Pages /\ Pages \in Nat /\ Reach(Pages) \in Nat
      BY <1>1, FloorFacts, ReachFacts DEF Pages, Post
  <2> QED
      BY <2>1, <1>1 DEF Floor, Edge, Reach, Post
<1>10. \A x : Whole(x) => Whole(x)'
  BY DEF Whole, Post
<1>11. \A p \in Programs : CommandInv(p)' /\ FetchInv(crawl[p])'
  <2> SUFFICES ASSUME NEW p \in Programs
               PROVE  CommandInv(p)' /\ FetchInv(crawl[p])'
      OBVIOUS
  <2>1. CommandInv(p) /\ FetchInv(crawl[p]) /\ crawl[p] \in Crawl
      BY DEF IInv, TypeOK
  <2>2. CommandInv(p)'
      BY <2>1, <1>9 DEF CommandInv, Running, Latest, Post, scripts
  <2>3. FetchInv(crawl[p])'
    <3> SUFFICES ASSUME crawl[p].stage = "commit"
                 PROVE  FetchInv(crawl[p])'
        BY DEF FetchInv, Post
    <3>1. crawl[p].asOf \in Articles /\ crawl[p].asOf <= newest'
      <4>1. crawl[p].asOf \in Articles /\ crawl[p].asOf <= newest
          BY <2>1 DEF FetchInv
      <4>2. crawl[p].asOf \in Nat /\ newest' = newest + 1
          BY <4>1, Constants DEF Post
      <4> QED
          BY <4>1, <4>2, <1>1
    <3>2. ~moved => crawl[p].ids =
            {a \in Articles : Edge(crawl[p].asOf, crawl[p].page) <= a
                              /\ a < Edge(crawl[p].asOf, crawl[p].page - 1)}
        BY <2>1 DEF FetchInv
    <3>3. crawl[p].unseen = 0 => crawl[p].ids \subseteq stored
        BY <2>1 DEF FetchInv
    <3>4. Clean /\ ~crawl[p].preserve => Whole(Edge(crawl[p].asOf, crawl[p].page - 1))'
        BY <2>1, <1>10 DEF FetchInv, Whole, Post, Edge, Reach
    <3> QED
        BY <3>1, <3>2, <3>3, <3>4 DEF FetchInv, Clean, Post, Edge, Reach
  <2> QED
      BY <2>2, <2>3
<1>12. KeptInv'
  <2> SUFFICES ASSUME Clean, daily.pc # "latest"
               PROVE  Whole(Floor)'
      BY DEF KeptInv, Clean, Post, scripts
  <2>1. Whole(Floor)
      BY DEF IInv, KeptInv
  <2>2. Whole(Floor')
      BY <2>1, <1>9, Constants DEF Whole
  <2> QED
      BY <2>2 DEF Whole, Post
<1>13. PassInv'
  <2> DEFINE c == crawl["daily"]
  <2> SUFFICES ASSUME Clean, daily.pc = "latest"
               PROVE  PassInv'
      BY DEF PassInv, Clean, Post, scripts
  <2>1. daily.asOf \in Nat /\ daily.page \in Nat \ {0} /\ c \in Crawl
    <3>1. "daily" \in Programs
        BY DEF IInv, LockInv
    <3> QED
        BY <3>1, <1>1, Fields, Constants
  <2>2. c.asOf \in Nat
    <3>1. "daily" \in Programs
        BY DEF IInv, LockInv
    <3> QED
        BY <3>1, <1>1, Fields
  <2>3. daily.asOf <= newest' /\ (c.asOf <= newest => c.asOf <= newest')
      BY <2>1, <2>2, <1>1 DEF IInv, PassInv, Post
  <2>4. ASSUME NEW x \in Int, Seamed(x)
        PROVE  Seamed(x)'
      BY <2>4, <1>9, SeamedRises DEF Post
  <2>5. Edge(daily.asOf, daily.page - 1) \in Int /\ Edge(c.asOf, daily.page) \in Int
    <3>1. daily.page - 1 \in Nat /\ daily.page \in Nat
        BY <2>1
    <3> QED
        BY <2>1, <2>2, <3>1, EdgeFacts
  <2>6. Whole(Floor) => Whole(Floor)'
    <3>1. Whole(Floor) => Whole(Floor')
        BY <1>9, Constants DEF Whole
    <3> QED
        BY <3>1 DEF Whole, Post
  <2>7. Seamed(Edge(daily.asOf, daily.page - 1)) => Seamed(Edge(daily.asOf, daily.page - 1))'
      BY <2>4, <2>5 DEF Seamed, Post, scripts, Edge, Reach
  <2>8. Seamed(Edge(c.asOf, daily.page)) => Seamed(Edge(c.asOf, daily.page))'
      BY <2>4, <2>5 DEF Seamed, Post, scripts, Edge, Reach
  <2> QED
      BY <2>3, <2>6, <2>7, <2>8 DEF IInv, PassInv, Close, Post, scripts
<1> QED
  BY <1>6, <1>7, <1>8, <1>11, <1>12, <1>13 DEF IInv

\* Of a sequence from which place i is taken.
LEMMA Removed ==
    ASSUME NEW S, NEW s \in Seq(S), NEW i \in DOMAIN s
    PROVE  /\ RemoveAt(s, i) \in Seq(S)
           /\ DOMAIN RemoveAt(s, i) = 1..(Len(s) - 1)
           /\ \A j \in 1..(Len(s) - 1) :
                RemoveAt(s, i)[j] = IF j < i THEN s[j] ELSE s[j + 1]
<1> DEFINE s1 == SubSeq(s, 1, i - 1)
           s2 == SubSeq(s, i + 1, Len(s))
<1>1. Len(s) \in Nat /\ DOMAIN s = 1..Len(s) /\ i \in 1..Len(s)
      /\ \A j \in 1..Len(s) : s[j] \in S
  BY LenProperties, ElementOfSeq
<1>2. /\ s1 \in Seq(S) /\ Len(s1) = i - 1
      /\ \A j \in 1..(i - 1) : s1[j] = s[j]
  <2>1. 1 \in Int /\ i - 1 \in Int /\ \A j \in 1..(i - 1) : s[j] \in S
      BY <1>1
  <2>2. /\ s1 \in Seq(S) /\ Len(s1) = IF 1 <= i - 1 THEN (i - 1) - 1 + 1 ELSE 0
        /\ \A j \in 1..((i - 1) - 1 + 1) : s1[j] = s[1 + j - 1]
      BY <2>1, SubSeqProperties
  <2>3. \A j \in 1..(i - 1) : j \in 1..((i - 1) - 1 + 1) /\ 1 + j - 1 = j
      BY <1>1
  <2> QED
      BY <2>2, <2>3, <1>1
<1>3. /\ s2 \in Seq(S) /\ Len(s2) = Len(s) - i
      /\ \A j \in 1..(Len(s) - i) : s2[j] = s[i + j]
  <2>1. i + 1 \in Int /\ Len(s) \in Int /\ \A j \in (i + 1)..Len(s) : s[j] \in S
      BY <1>1
  <2>2. /\ s2 \in Seq(S)
        /\ Len(s2) = IF i + 1 <= Len(s) THEN Len(s) - (i + 1) + 1 ELSE 0
        /\ \A j \in 1..(Len(s) - (i + 1) + 1) : s2[j] = s[(i + 1) + j - 1]
      BY <2>1, SubSeqProperties
  <2>3. \A j \in 1..(Len(s) - i) : j \in 1..(Len(s) - (i + 1) + 1) /\ (i + 1) + j - 1 = i + j
      BY <1>1
  <2> QED
      BY <2>2, <2>3, <1>1
<1>4. /\ s1 \o s2 \in Seq(S) /\ Len(s1 \o s2) = Len(s1) + Len(s2)
      /\ \A j \in 1..(Len(s1) + Len(s2)) :
           (s1 \o s2)[j] = IF j <= Len(s1) THEN s1[j] ELSE s2[j - Len(s1)]
  BY <1>2, <1>3, ConcatProperties
<1>5. Len(s1) + Len(s2) = Len(s) - 1 /\ DOMAIN (s1 \o s2) = 1..Len(s1 \o s2)
  BY <1>1, <1>2, <1>3, <1>4, LenProperties
<1>6. ASSUME NEW j \in 1..(Len(s) - 1)
      PROVE  (s1 \o s2)[j] = IF j < i THEN s[j] ELSE s[j + 1]
  <2>1. CASE j < i
    <3>1. j \in 1..(i - 1) /\ j <= Len(s1) /\ j \in 1..(Len(s1) + Len(s2))
        BY <2>1, <1>1, <1>2, <1>5
    <3> QED
        BY <3>1, <2>1, <1>2, <1>4
  <2>2. CASE ~(j < i)
    <3> HIDE DEF s1, s2
    <3>1. j - (i - 1) \in 1..(Len(s) - i) /\ ~(j <= Len(s1))
          /\ j \in 1..(Len(s1) + Len(s2)) /\ i + (j - (i - 1)) = j + 1
      <4>1. Len(s1) = i - 1 /\ Len(s1) + Len(s2) = Len(s) - 1
          BY <1>2, <1>5
      <4> QED
          BY <4>1, <2>2, <1>1
    <3>2. (s1 \o s2)[j] = s2[j - (i - 1)]
        BY <3>1, <1>2, <1>4
    <3>3. s2[j - (i - 1)] = s[i + (j - (i - 1))]
        BY <3>1, <1>3
    <3> QED
        BY <3>1, <3>2, <3>3, <2>2
  <2> QED
      BY <2>1, <2>2
<1> QED
  BY <1>4, <1>5, <1>6 DEF RemoveAt

LEMMA DeleteStep ==
    ASSUME IInv, Delete
    PROVE  IInv'
<1>1. TypeOK /\ SiteInv /\ listing \in Seq(Articles)
  BY DEF IInv, TypeOK
<1>2. PICK i \in DOMAIN listing : listing' = RemoveAt(listing, i)
  BY DEF Delete
<1>3. /\ listing' \in Seq(Articles) /\ DOMAIN listing' = 1..(Len(listing) - 1)
      /\ \A j \in 1..(Len(listing) - 1) :
           listing'[j] = IF j < i THEN listing[j] ELSE listing[j + 1]
  BY <1>1, <1>2, Removed
<1>4. Len(listing) \in Nat /\ DOMAIN listing = 1..Len(listing)
  BY <1>1, LenProperties
<1> DEFINE old(j) == IF j < i THEN j ELSE j + 1
<1>5. \A j \in DOMAIN listing' : old(j) \in DOMAIN listing /\ listing'[j] = listing[old(j)]
  BY <1>3, <1>4
<1>6. \A j, k \in DOMAIN listing' : j < k => listing'[j] > listing'[k]
  <2> SUFFICES ASSUME NEW j \in DOMAIN listing', NEW k \in DOMAIN listing', j < k
               PROVE  listing'[j] > listing'[k]
      OBVIOUS
  <2>1. old(j) < old(k)
      BY <1>3, <1>4
  <2> QED
      BY <2>1, <1>1, <1>5 DEF TypeOK
<1>7. TypeOK'
  BY <1>1, <1>3, <1>6 DEF TypeOK, Delete, scripts
<1>8. \A j \in DOMAIN listing' : listing'[j] <= newest'
  BY <1>1, <1>5 DEF SiteInv, Delete
<1>9. SiteInv' /\ LockInv' /\ PlanInv' /\ KeptInv' /\ PassInv'
  BY <1>8 DEF IInv, SiteInv, LockInv, PlanInv, KeptInv, PassInv, Clean, Delete, scripts
<1>10. Pages' = Pages
  BY DEF Pages, Delete
<1>11. ASSUME NEW p \in Programs
       PROVE  CommandInv(p)' /\ FetchInv(crawl[p])'
  <2>1. CommandInv(p) /\ FetchInv(crawl[p])
      BY DEF IInv
  <2>2. CommandInv(p)'
      BY <2>1, <1>10 DEF CommandInv, Running, Latest, Delete, scripts
  <2>3. FetchInv(crawl[p])'
      BY <2>1 DEF FetchInv, Clean, Delete
  <2> QED
      BY <2>2, <2>3
<1> QED
  BY <1>7, <1>9, <1>11 DEF IInv

\* At first the listing is whole and nothing is stored, or its first page.
LEMMA InitIInv ==
    ASSUME Init
    PROVE  IInv
<1> DEFINE up == [i \in 1..Old |-> i]
           first == IF Old < PageSize THEN Old ELSE PageSize
<1>1. Old \in Nat \ {0} /\ up \in Seq(1..Old) /\ Len(up) = Old
  BY Constants
<1>2. /\ listing = [i \in 1..Old |-> up[(Old - i) + 1]]
  BY <1>1 DEF Init, Reverse
<1>3. \A i \in 1..Old : up[(Old - i) + 1] = Old + 1 - i /\ Old + 1 - i \in 1..Old
  BY <1>1
<1>4. listing = [i \in 1..Old |-> Old + 1 - i]
  BY <1>2, <1>3
<1>5. 1..Old \subseteq Articles /\ newest = Old /\ Old \in Articles
  BY <1>1, Constants DEF Articles, Init
<1>6. /\ listing \in Seq(Articles) /\ Len(listing) = Old /\ DOMAIN listing = 1..Old
      /\ \A i \in 1..Old : listing[i] = Old + 1 - i
  BY <1>1, <1>3, <1>4, <1>5
<1>7. \A i, j \in DOMAIN listing : i < j => listing[i] > listing[j]
  BY <1>1, <1>6
<1>8. first \in 1..Old /\ first <= PageSize /\ (first < PageSize => first = Old)
  BY <1>1, Constants
<1>9. stored \subseteq 1..Old /\ (checkpoint.next = 0 => stored = {})
      /\ (checkpoint.next # 0 => stored = {listing[i] : i \in 1..first})
      /\ checkpoint \in Checkpoint /\ ~checkpoint.complete
      /\ (checkpoint.next # 0 => checkpoint.next = 2)
  <2>1. CASE checkpoint = [next |-> 0, complete |-> FALSE] /\ stored = {}
      BY <2>1 DEF Checkpoint
  <2>2. CASE checkpoint = [next |-> 2, complete |-> FALSE]
             /\ stored = {listing[i] : i \in 1..first}
    <3>1. \A i \in 1..first : listing[i] \in 1..Old
        BY <1>1, <1>6, <1>8
    <3> QED
        BY <2>2, <3>1 DEF Checkpoint
  <2> QED
      BY <2>1, <2>2 DEF Init
<1>10. TypeOK
  <2>1. 0 \in 0..MaxFailures /\ 1 \in 1..LatestMax /\ 1 \in 1..Retries
      BY Constants
  <2>2. crawl \in [Programs -> Crawl]
      BY EndedFacts DEF Init
  <2>3. daily \in Daily
      BY <2>1 DEF Init, Daily
  <2>4. backfill \in [pc : {"idle", "slices"}, slices : Seq(Slice)] /\ backfill.pc = "idle"
      BY EmptySeq DEF Init
  <2> QED
      BY <2>1, <2>2, <2>3, <2>4, <1>5, <1>6, <1>7, <1>9 DEF Init, TypeOK
<1>11. SiteInv
  <2>1. \A i \in 1..Old : listing[i] <= Old /\ listing[i] = newest + 1 - i
      BY <1>1, <1>5, <1>6
  <2>2. \A a \in stored : a <= newest
      BY <1>1, <1>5, <1>9
  <2> QED
      BY <2>1, <2>2, <1>5, <1>6 DEF SiteInv
<1>12. LockInv /\ PlanInv /\ PassInv
  <2>1. daily.pc = "idle" /\ backfill.pc = "idle" /\ lock = "free"
        /\ \A p \in Programs : crawl[p] = NoCrawl
      BY DEF Init
  <2> QED
      BY <2>1, <1>9 DEF LockInv, PlanInv, PassInv
<1>13. \A p \in Programs : CommandInv(p) /\ FetchInv(crawl[p])
  BY QuietCommands DEF Init
<1>14. KeptInv
  <2> SUFFICES ASSUME NEW a \in Articles, NEW b \in Articles,
                      Floor <= b, b < a, a \in stored
               PROVE  b \in stored
      BY DEF KeptInv, Whole
  <2>1. checkpoint.next = 2 /\ stored = {listing[i] : i \in 1..first} /\ Pages = 1
      BY <1>9 DEF Pages
  <2>2. Floor = Old + 1 - PageSize
    <3>1. Reach(1) = PageSize
        BY Constants DEF Reach
    <3> QED
        BY <3>1, <2>1, <1>5, <1>9 DEF Floor, Edge
  <2>3. b \in Nat \ {0} /\ a \in 1..Old
      BY <1>9, Constants
  <2>4. Old + 1 - b \in 1..first
      BY <2>2, <2>3, <1>1, <1>8, Constants
  <2>5. listing[Old + 1 - b] = b
      BY <2>3, <2>4, <1>1, <1>6, <1>8
  <2> QED
      BY <2>1, <2>4, <2>5
<1> QED
  BY <1>10, <1>11, <1>12, <1>13, <1>14 DEF IInv

-----------------------------------------------------------------------------
(* crawl-live.                                                             *)

\* Who runs a command holds the lock; only the daily script does during its run.
LEMMA Holder ==
    ASSUME IInv, NEW p \in Programs, Running(p) \/ crawl[p].result # "none"
    PROVE  /\ p = lock /\ p \in {"daily", "backfill"}
           /\ p = "daily" <=> daily.pc # "idle"
           /\ daily.pc = "latest" => Latest(p)
<1>1. crawl[p] # NoCrawl
  BY EndedFacts DEF Running
<1>2. p = lock /\ (daily.pc # "idle" <=> lock = "daily")
  BY <1>1 DEF IInv, LockInv
<1>3. p \in {"daily", "backfill", "live"} /\ lock \in {"free", "daily", "backfill"}
  BY Constants DEF IInv, TypeOK
<1>4. p \in {"daily", "backfill"}
  BY <1>2, <1>3
<1> QED
  BY <1>2, <1>4 DEF Latest

\* A command that goes on or ends leaves the lock where it is.
LEMMA LockStays ==
    ASSUME LockInv, NEW p \in Programs, p = lock,
           \A q \in Programs \ {p} : crawl'[q] = NoCrawl,
           daily'.pc = daily.pc, lock' = lock, backfill'.pc = backfill.pc
    PROVE  LockInv'
  BY DEF LockInv

LEMMA ResumeStep ==
    ASSUME IInv, NEW p \in Programs, Resume(p)
    PROVE  IInv'
<1> DEFINE n == IF checkpoint.next = 0 THEN crawl[p].page ELSE checkpoint.next
           c == IF checkpoint.complete THEN [NoCrawl EXCEPT !.result = "done"]
                ELSE [crawl[p] EXCEPT !.stage = "fetch", !.page = n]
<1>1. /\ TypeOK /\ LockInv /\ CommandInv(p) /\ Running(p)
      /\ crawl[p].stage = "resume" /\ ~crawl[p].preserve /\ ~Latest(p)
      /\ checkpoint.next = 0 => crawl[p].page = 1
      /\ crawl[p].pages >= 1 /\ crawl[p].result = "none"
  BY DEF IInv, Resume, CommandInv, Running
<1>2. p = lock /\ daily.pc # "latest"
  BY <1>1, Holder
<1>3. crawl' = [crawl EXCEPT ![p] = c]
  BY <1>1 DEF Resume, TypeOK
<1>4. n \in Nat \ {0} /\ n = Pages + 1
  BY <1>1, Fields DEF Pages
<1>5. /\ c \in Crawl
      /\ checkpoint.complete => c.stage = "idle" /\ c.result = "done"
      /\ ~checkpoint.complete =>
           /\ c.stage = "fetch" /\ c.page = n /\ c.pages = crawl[p].pages
           /\ c.preserve = crawl[p].preserve /\ c.result = "none"
  <2>1. CASE checkpoint.complete
      BY <2>1, EndedFacts
  <2>2. CASE ~checkpoint.complete
    <3>1. crawl[p] \in Crawl
        BY <1>1, Fields
    <3> QED
        BY <2>2, <3>1, <1>1, <1>4 DEF Crawl
  <2> QED
      BY <2>1, <2>2
<1> HIDE DEF c, n
<1>6. /\ crawl' \in [Programs -> Crawl] /\ crawl'[p] = c
      /\ \A q \in Programs \ {p} : crawl'[q] = NoCrawl
      /\ CommandInv(p)' /\ FetchInv(crawl[p])' =>
           (\A q \in Programs : CommandInv(q) /\ FetchInv(crawl[q]))'
  BY <1>1, <1>2, <1>3, <1>5, OnlyCrawl
<1>7. /\ newest' = newest /\ checkpoint' = checkpoint /\ stored' = stored
      /\ daily' = daily /\ backfill' = backfill /\ lock' = lock
      /\ listing' = listing /\ moved' = moved /\ gap' = gap /\ failures' = failures
  BY DEF Resume, site, scripts
<1>8. TypeOK'
  BY <1>1, <1>6, <1>7 DEF TypeOK
<1>9. SiteInv' /\ PlanInv'
  BY <1>7 DEF IInv, SiteInv, PlanInv
<1>10. LockInv'
  BY <1>1, <1>2, <1>6, <1>7, LockStays
<1>11. CommandInv(p)'
  <2>1. Pages' = Pages /\ ~Latest(p)' /\ (checkpoint.complete => checkpoint.next # 0)
      BY <1>1, <1>7 DEF Pages, Latest, IInv, PlanInv
  <2> QED
      BY <2>1, <1>1, <1>4, <1>5, <1>6, <1>7 DEF CommandInv, Running
<1>12. FetchInv(crawl[p])'
  BY <1>5, <1>6 DEF FetchInv
<1>13. KeptInv'
  BY <1>7, FloorStays DEF IInv, KeptInv, Clean
<1>14. PassInv'
  BY <1>2, <1>7 DEF PassInv
<1> QED
  BY <1>6, <1>8, <1>9, <1>10, <1>11, <1>12, <1>13, <1>14 DEF IInv

\* A page holds so many articles.
LEMMA PageSmall ==
    ASSUME TypeOK, NEW n \in Nat \ {0}
    PROVE  /\ OnPage(n) \subseteq Articles /\ IsFiniteSet(OnPage(n))
           /\ Cardinality(OnPage(n) \ stored) \in 0..PageSize
           /\ Cardinality(OnPage(n) \ stored) = 0 => OnPage(n) \subseteq stored
<1> DEFINE lo == (n - 1) * PageSize
           hi == n * PageSize
           Places == {i \in DOMAIN listing : lo < i /\ i <= hi}
           Page == OnPage(n)
           place == [i \in Places |-> listing[i]]
<1>1. lo \in Nat /\ hi = lo + PageSize /\ PageSize \in Nat
  <2>1. Reach(n) \in Nat /\ n - 1 \in Nat
      BY ReachFacts
  <2>2. Reach(n - 1) \in Nat /\ Reach(n) = Reach(n - 1) + PageSize
      BY <2>1, ReachFacts
  <2> QED
      BY <2>2, Constants DEF Reach
<1> HIDE DEF lo, hi
<1>2. DOMAIN listing = 1..Len(listing) /\ Len(listing) \in Nat
      /\ \A i \in DOMAIN listing : listing[i] \in Articles
  BY LenProperties, ElementOfSeq DEF TypeOK
<1>3. Page = {listing[i] : i \in Places}
  BY DEF OnPage, lo, hi
<1>4. IsFiniteSet((lo + 1)..hi) /\ Cardinality((lo + 1)..hi) = PageSize
  <2>1. lo + 1 \in Int /\ hi \in Int
      BY <1>1
  <2>2. IsFiniteSet((lo + 1)..hi)
        /\ Cardinality((lo + 1)..hi) = IF lo + 1 > hi THEN 0 ELSE hi - (lo + 1) + 1
      BY <2>1, FS_Interval
  <2> QED
      BY <2>2, <1>1, Constants
<1>5. Places \in SUBSET ((lo + 1)..hi)
  BY <1>1, <1>2
<1>6. IsFiniteSet(Places) /\ Cardinality(Places) <= PageSize
  BY <1>4, <1>5, FS_Subset
<1>7. place \in Surjection(Places, Page)
  BY <1>3 DEF Surjection
<1>8. IsFiniteSet(Page) /\ Cardinality(Page) <= Cardinality(Places)
  BY <1>6, <1>7, FS_Surjection
<1>9. Page \ stored \in SUBSET Page
  OBVIOUS
<1>10. IsFiniteSet(Page \ stored) /\ Cardinality(Page \ stored) <= Cardinality(Page)
  BY <1>8, <1>9, FS_Subset
<1>11. Cardinality(Page \ stored) \in Nat /\ Cardinality(Page) \in Nat
       /\ Cardinality(Places) \in Nat
  BY <1>6, <1>8, <1>10, FS_CardinalityType
<1>12. Cardinality(Page \ stored) = 0 => Page \ stored = {}
  BY <1>10, FS_EmptySet
<1>13. Page \subseteq Articles
  BY <1>2, <1>3
<1> QED
  BY <1>1, <1>6, <1>8, <1>10, <1>11, <1>12, <1>13

LEMMA FetchStep ==
    ASSUME IInv, NEW p \in Programs, Fetch(p)
    PROVE  IInv'
<1> DEFINE old == crawl[p]
           page == OnPage(old.page)
           c == [old EXCEPT !.stage = "commit", !.ids = page,
                            !.unseen = Cardinality(page \ stored), !.asOf = newest]
<1>1. /\ TypeOK /\ SiteInv /\ LockInv /\ CommandInv(p) /\ Running(p)
      /\ old.stage = "fetch" /\ old.pages >= 1 /\ old.page >= 1 /\ old.result = "none"
      /\ old.page \in Nat \ {0} /\ old.preserve \in BOOLEAN
  <2>1. crawl[p].page \in Nat /\ crawl[p].preserve \in BOOLEAN
      BY Fields DEF IInv
  <2> QED
      BY <2>1 DEF IInv, Fetch, CommandInv, Running
<1>2. p = lock /\ (daily.pc = "latest" => Latest(p))
  BY <1>1, Holder
<1>3. crawl' = [crawl EXCEPT ![p] = c]
  BY <1>1 DEF Fetch, TypeOK
<1>4. /\ page \subseteq Articles
      /\ Cardinality(page \ stored) \in 0..PageSize
      /\ Cardinality(page \ stored) = 0 => page \subseteq stored
  BY <1>1, PageSmall
<1> HIDE DEF page
<1>5. /\ c \in Crawl
      /\ c.stage = "commit" /\ c.page = old.page /\ c.pages = old.pages
      /\ c.preserve = old.preserve /\ c.result = "none"
      /\ c.ids = page /\ c.unseen = Cardinality(page \ stored) /\ c.asOf = newest
  <2>1. old \in Crawl /\ newest \in {0} \cup Articles
      BY <1>1, Fields DEF TypeOK
  <2> QED
      BY <2>1, <1>1, <1>4 DEF Crawl
<1> HIDE DEF c
<1>6. /\ crawl' \in [Programs -> Crawl] /\ crawl'[p] = c
      /\ \A q \in Programs \ {p} : crawl'[q] = NoCrawl
      /\ CommandInv(p)' /\ FetchInv(crawl[p])' =>
           (\A q \in Programs : CommandInv(q) /\ FetchInv(crawl[q]))'
  BY <1>1, <1>2, <1>3, <1>5, OnlyCrawl
<1>7. /\ newest' = newest /\ checkpoint' = checkpoint /\ stored' = stored
      /\ daily' = daily /\ backfill' = backfill /\ lock' = lock
      /\ listing' = listing /\ moved' = moved /\ gap' = gap /\ failures' = failures
  BY DEF Fetch, site, scripts
<1>8. TypeOK'
  BY <1>1, <1>6, <1>7 DEF TypeOK
<1>9. SiteInv' /\ PlanInv'
  BY <1>7 DEF IInv, SiteInv, PlanInv
<1>10. LockInv'
  BY <1>1, <1>2, <1>6, <1>7, LockStays
<1>11. Pages' = Pages /\ Latest(p)' = Latest(p)
  BY <1>7 DEF Pages, Latest
<1>12. CommandInv(p)'
  BY <1>1, <1>5, <1>6, <1>7, <1>11 DEF CommandInv, Running
<1>13. FetchInv(crawl[p])'
  <2>1. newest \in Articles /\ newest \in Nat
      BY <1>1, Constants DEF TypeOK
  <2>2. ~moved => page = {a \in Articles : Edge(newest, old.page) <= a
                                           /\ a < Edge(newest, old.page - 1)}
      BY <1>1, PageArticles DEF page
  <2>3. Clean /\ ~old.preserve => Whole(Edge(newest, old.page - 1))
    <3> SUFFICES ASSUME Clean, ~old.preserve
                 PROVE  Whole(Edge(newest, old.page - 1))
        OBVIOUS
    <3>1. ~Latest(p) /\ ~checkpoint.complete /\ old.page = Pages + 1
        BY <1>1 DEF CommandInv
    <3>2. Floor = Edge(newest, Pages) /\ Pages = old.page - 1
        BY <3>1, <1>1, FloorFacts DEF Floor
    <3> QED
        BY <3>1, <3>2, <1>2 DEF IInv, KeptInv
  <2>4. (Clean /\ ~crawl[p].preserve => Whole(Edge(crawl[p].asOf, crawl[p].page - 1)))'
      BY <2>3, <1>5, <1>6, <1>7 DEF Clean, Whole, Edge, Reach
  <2>5. (~moved => crawl[p].ids =
           {a \in Articles : Edge(crawl[p].asOf, crawl[p].page) <= a
                             /\ a < Edge(crawl[p].asOf, crawl[p].page - 1)})'
      BY <2>2, <1>5, <1>6, <1>7 DEF Edge, Reach
  <2>6. (crawl[p].asOf \in Articles /\ crawl[p].asOf <= newest)'
      BY <2>1, <1>5, <1>6, <1>7
  <2>7. (crawl[p].unseen = 0 => crawl[p].ids \subseteq stored)'
      BY <1>4, <1>5, <1>6, <1>7
  <2> QED
      BY <2>4, <2>5, <2>6, <2>7 DEF FetchInv
<1>14. KeptInv'
  BY <1>7, FloorStays DEF IInv, KeptInv, Clean
<1>15. PassInv'
  <2> SUFFICES ASSUME Clean, daily.pc = "latest"
               PROVE  PassInv'
      BY <1>7 DEF PassInv, Clean
  <2>1. p = "daily"
      BY <1>2 DEF Latest
  <2>2. /\ daily.asOf <= newest
        /\ Seamed(Edge(daily.asOf, daily.page - 1))
        /\ daily.page = 1 => \A a \in stored : a <= daily.asOf
      BY <2>1, <1>1 DEF IInv, PassInv
  <2>3. Seamed(Edge(daily.asOf, daily.page - 1))'
      BY <2>2, <1>7, FloorStays DEF Seamed, Edge, Reach
  <2>4. newest \in Nat
      BY <1>1, FloorFacts
  <2> QED
      BY <2>1, <2>2, <2>3, <2>4, <1>5, <1>6, <1>7 DEF PassInv
<1> QED
  BY <1>6, <1>8, <1>9, <1>10, <1>12, <1>13, <1>14, <1>15 DEF IInv

LEMMA CommitStep ==
    ASSUME IInv, NEW p \in Programs, CommitPage(p)
    PROVE  IInv'
<1> DEFINE old == crawl[p]
           last == old.ids = {} \/ old.pages = 1
           done == [NoCrawl EXCEPT !.result = "done", !.unseen = old.unseen,
                                   !.asOf = old.asOf]
           c == IF last THEN done ELSE Started(old.page + 1, old.pages - 1, FALSE, old.preserve)
<1>1. /\ TypeOK /\ SiteInv /\ LockInv /\ CommandInv(p) /\ FetchInv(old) /\ Running(p)
      /\ old.stage = "commit" /\ old.pages >= 1 /\ old.page >= 1 /\ old.result = "none"
      /\ old.page \in Nat \ {0} /\ old.preserve \in BOOLEAN
      /\ old.pages \in 0..Batch /\ old.unseen \in 0..PageSize /\ old.unseen \in Nat
      /\ old.asOf \in Articles /\ old.asOf \in Nat /\ old.ids \in SUBSET Articles
      /\ old.preserve <=> Latest(p)
  <2>1. crawl[p].page \in Nat /\ crawl[p].preserve \in BOOLEAN /\ crawl[p].pages \in 0..Batch
        /\ crawl[p].unseen \in 0..PageSize /\ crawl[p].asOf \in Nat
        /\ crawl[p].ids \in SUBSET Articles
      BY Fields DEF IInv
  <2>2. CommandInv(p) /\ FetchInv(crawl[p]) /\ crawl[p].stage = "commit" /\ Running(p)
      BY DEF IInv, CommitPage, Running
  <2> QED
      BY <2>1, <2>2 DEF IInv, CommandInv, FetchInv
<1>2. p = lock /\ (daily.pc = "latest" => Latest(p))
  BY <1>1, Holder
<1>3. /\ crawl' = [crawl EXCEPT ![p] = c] /\ stored' = stored \cup old.ids
      /\ checkpoint' = Recorded(old)
  BY DEF CommitPage
<1>4. /\ done \in Crawl /\ done.stage = "idle" /\ done.result = "done"
      /\ done.unseen = old.unseen /\ done.asOf = old.asOf
  <2>1. 0 \in 0..Batch /\ {} \in SUBSET Articles /\ old.asOf \in {0} \cup Articles
      BY <1>1, Constants
  <2> QED
      BY <2>1, <1>1 DEF NoCrawl, Crawl
<1>5. /\ c \in Crawl
      /\ last => c.stage = "idle" /\ c.result = "done"
                 /\ c.unseen = old.unseen /\ c.asOf = old.asOf
      /\ ~last => c.stage = "fetch" /\ c.page = old.page + 1 /\ c.pages = old.pages - 1
                  /\ c.pages >= 1 /\ c.preserve = old.preserve /\ c.result = "none"
  <2>1. CASE last
      BY <2>1, <1>4
  <2>2. CASE ~last
    <3>1. old.page + 1 \in Nat /\ old.pages - 1 \in 0..Batch /\ old.pages - 1 >= 1
        BY <2>2, <1>1, Constants
    <3>2. Begun(Started(old.page + 1, old.pages - 1, FALSE, old.preserve),
                "fetch", old.page + 1, old.pages - 1, old.preserve)
        BY <3>1, <1>1, StartedFacts
    <3> QED
        BY <2>2, <3>1, <3>2 DEF Begun
  <2> QED
      BY <2>1, <2>2
<1> HIDE DEF c, done
<1>6. /\ crawl' \in [Programs -> Crawl] /\ crawl'[p] = c
      /\ \A q \in Programs \ {p} : crawl'[q] = NoCrawl
      /\ CommandInv(p)' /\ FetchInv(crawl[p])' =>
           (\A q \in Programs : CommandInv(q) /\ FetchInv(crawl[q]))'
  BY <1>1, <1>2, <1>3, <1>5, OnlyCrawl
<1>7. /\ newest' = newest /\ failures' = failures
      /\ daily' = daily /\ backfill' = backfill /\ lock' = lock
      /\ listing' = listing /\ moved' = moved /\ gap' = gap
  BY DEF CommitPage, site, scripts
<1>8. /\ Latest(p) => checkpoint' = checkpoint
      /\ ~Latest(p) => /\ checkpoint'.next = old.page + 1
                       /\ checkpoint'.complete <=> old.ids = {}
                       /\ ~checkpoint.complete /\ old.page = Pages + 1
      /\ checkpoint' \in Checkpoint
  <2>1. old.page + 1 \in Nat
      BY <1>1
  <2>2. ~Latest(p) => ~checkpoint.complete /\ old.page = Pages + 1
      BY <1>1 DEF CommandInv
  <2> QED
      BY <2>1, <2>2, <1>1, <1>3 DEF Recorded, Checkpoint, TypeOK
<1>9. TypeOK'
  <2>1. stored' \subseteq Articles
      BY <1>1, <1>3 DEF TypeOK
  <2> QED
      BY <2>1, <1>1, <1>6, <1>7, <1>8 DEF TypeOK
<1>10. Edge(old.asOf, old.page - 1) \in Int /\ Edge(old.asOf, old.page) \in Int
       /\ Edge(old.asOf, old.page - 1) <= old.asOf + 1
  <2>1. old.page - 1 \in Nat /\ old.page \in Nat
      BY <1>1
  <2> QED
      BY <2>1, <1>1, EdgeFacts
<1>11. SiteInv'
  <2>1. ~moved' => \A a \in stored' : a <= newest'
    <3> SUFFICES ASSUME ~moved, NEW a \in old.ids
                 PROVE  a <= newest
        BY <1>1, <1>3, <1>7 DEF SiteInv
    <3>1. a < Edge(old.asOf, old.page - 1) /\ a \in Nat /\ old.asOf <= newest
          /\ newest \in Nat
        BY <1>1, Constants DEF FetchInv, TypeOK
    <3> QED
        BY <3>1, <1>1, <1>10
  <2> QED
      BY <2>1, <1>1, <1>7 DEF SiteInv
<1>12. LockInv'
  BY <1>1, <1>2, <1>6, <1>7, LockStays
<1>13. Latest(p)' = Latest(p) /\ checkpoint.next \in Nat
  BY <1>1, <1>7, Fields DEF Latest
<1>14. PlanInv'
  <2>1. ~Latest(p) => checkpoint'.next # 0
      BY <1>1, <1>8
  <2> QED
      BY <2>1, <1>7, <1>8 DEF IInv, PlanInv
<1>15. CommandInv(p)'
  <2>1. CASE Latest(p)
    <3>1. last
        BY <2>1, <1>1 DEF CommandInv
    <3> QED
        BY <3>1, <2>1, <1>5, <1>6, <1>13 DEF CommandInv, Running
  <2>2. CASE ~Latest(p)
    <3>1. checkpoint'.next # 0 /\ Pages' = old.page
        BY <2>2, <1>1, <1>8 DEF Pages
    <3> QED
        BY <3>1, <2>2, <1>1, <1>5, <1>6, <1>8, <1>13 DEF CommandInv, Running
  <2> QED
      BY <2>1, <2>2
<1>16. FetchInv(crawl[p])'
  BY <1>5, <1>6 DEF FetchInv
<1>17. KeptInv'
  <2> SUFFICES ASSUME Clean, daily.pc # "latest"
               PROVE  Whole(Floor)'
      BY <1>7 DEF KeptInv, Clean
  <2>1. ~Latest(p)
      BY DEF Latest
  <2>2. PICK n \in Nat : n = old.asOf
      BY <1>1
  <2>3. PICK k \in Nat : k + 1 = old.page
    <3>1. old.page - 1 \in Nat /\ (old.page - 1) + 1 = old.page
        BY <1>1
    <3> QED
        BY <3>1
  <2>4. PICK ids : ids = old.ids
      OBVIOUS
  <2>5. old.page - 1 = k
      BY <2>3
  <2>6. /\ n <= newest /\ Whole(Edge(n, k))
        /\ ids = {a \in Articles : Edge(n, k + 1) <= a /\ a < Edge(n, k)}
      BY <2>1, <2>2, <2>3, <2>4, <2>5, <1>1 DEF FetchInv, Clean
  <2>7. newest \in Nat /\ k + 1 \in Nat /\ Edge(newest, k + 1) \in Int
        /\ Edge(n, k + 1) \in Int /\ Edge(newest, k + 1) - Edge(n, k + 1) = newest - n
    <3>1. newest \in Nat /\ k + 1 \in Nat
        BY <1>1, FloorFacts
    <3> QED
        BY <3>1, EdgeFacts
  <2>8. PICK from \in Int : from = IF ids = {} THEN 1 ELSE Edge(newest, k + 1)
      BY <2>7
  <2>9. Floor' = from
    <3>1. Pages' = k + 1
        BY <2>1, <2>3, <1>1, <1>8 DEF Pages
    <3> QED
        BY <3>1, <2>1, <2>4, <2>8, <1>7, <1>8 DEF Floor, Edge, Reach
  <2>10. from >= Edge(n, k + 1)
    <3>1. CASE ids = {}
      <4>1. n \in Articles
          BY <2>2, <1>1
      <4>2. Edge(n, k) <= 1 /\ Edge(n, k + 1) = Edge(n, k) - PageSize /\ Edge(n, k) \in Int
          BY <3>1, <4>1, <2>6, EmptyPage, EdgeFacts
      <4> QED
          BY <3>1, <4>2, <2>8, Constants
    <3>2. CASE ids # {}
        BY <3>2, <2>6, <2>7, <2>8
    <3> QED
        BY <3>1, <3>2
  <2>11. stored' = stored \cup ids
      BY <2>4, <1>3
  <2>12. Whole(from)'
      BY <2>6, <2>10, <2>11, <1>1, <1>9, CommitHistory
  <2> QED
      BY <2>9, <2>12 DEF Whole
<1>18. PassInv'
  <2> SUFFICES ASSUME Clean, daily.pc = "latest"
               PROVE  PassInv'
      BY <1>7 DEF PassInv, Clean
  <2>1. Latest(p) /\ p = "daily" /\ old.page = daily.page /\ old.pages = 1
      BY <1>1, <1>2 DEF Latest, CommandInv
  <2>2. /\ daily.asOf <= newest /\ daily.asOf <= old.asOf /\ old.asOf <= newest
        /\ Seamed(Edge(daily.asOf, daily.page - 1))
        /\ daily.page = 1 => \A a \in stored : a <= daily.asOf
      BY <2>1, <1>1 DEF IInv, PassInv
  <2>3. c.result = "done" /\ c.unseen = old.unseen /\ c.asOf = old.asOf
      BY <2>1, <1>5
  <2>4. checkpoint' = checkpoint /\ Floor' = Floor
    <3>1. checkpoint' = checkpoint
        BY <2>1, <1>8
    <3> QED
        BY <3>1, <1>7 DEF Floor, Pages, Edge, Reach
  <2>5. PICK n \in Nat : n = old.asOf
      BY <1>1
  <2>6. PICK d \in Nat : d = daily.asOf
      BY <1>1, Fields
  <2>7. PICK k \in Nat : k + 1 = daily.page
    <3>1. old.page - 1 \in Nat /\ (old.page - 1) + 1 = daily.page
        BY <2>1, <1>1
    <3> QED
        BY <3>1
  <2>8. PICK ids : ids = old.ids
      OBVIOUS
  <2>9. /\ ids = {a \in Articles : Edge(n, k + 1) <= a /\ a < Edge(n, k)}
        /\ Seamed(Edge(d, k)) /\ d <= n /\ n \in Articles
        /\ stored' = stored \cup ids
        /\ k = 0 => \A a \in stored : a <= d
    <3>1. daily.page - 1 = k /\ (k = 0 => daily.page = 1)
        BY <2>7
    <3> QED
        BY <3>1, <2>1, <2>2, <2>5, <2>6, <2>7, <2>8, <1>1, <1>3 DEF FetchInv, Clean
  <2>11. ASSUME n - d < PageSize \/ k = 0, old.unseen = 0
         PROVE  Whole(Floor)'
    <3>1. ids \subseteq stored
        BY <2>8, <2>11, <1>1 DEF FetchInv
    <3>2. Whole(Floor)
        BY <3>1, <2>9, <2>11, <1>1, CloseSeam
    <3>3. stored' = stored
        BY <3>1, <2>9
    <3> QED
        BY <3>2, <3>3, <2>4 DEF Whole
  <2>12. ASSUME n - d < PageSize \/ k = 0
         PROVE  Seamed(Edge(n, k + 1))'
      BY <2>4, <2>9, <2>12, <1>1, <1>9, CommitLatest
  <2>13. ASSUME Seamed(Edge(n, k + 1))'
         PROVE  Seamed(Edge(crawl["daily"].asOf, daily.page))'
      BY <2>13, <2>1, <2>3, <2>5, <2>7, <1>6, <1>7 DEF Seamed, Edge, Reach
  <2>14. crawl'["daily"] = c
      BY <2>1, <1>6
  <2>15. Close(crawl["daily"])' => n - d < PageSize \/ k = 0
      BY <2>14, <2>3, <2>5, <2>6, <2>7, <1>7 DEF Close
  <2> QED
      BY <2>2, <2>3, <2>11, <2>12, <2>13, <2>14, <2>15, <1>1, <1>7 DEF PassInv
<1> QED
  BY <1>6, <1>9, <1>11, <1>12, <1>14, <1>15, <1>16, <1>17, <1>18 DEF IInv

LEMMA FailStep ==
    ASSUME IInv, NEW p \in Programs, FailCrawl(p)
    PROVE  IInv'
<1> DEFINE c == [NoCrawl EXCEPT !.result = "failed"]
<1>1. TypeOK /\ LockInv /\ CommandInv(p) /\ (Running(p) => crawl[p].result = "none")
  BY DEF IInv, CommandInv
<1>2. p = lock /\ (daily.pc = "latest" => Latest(p))
  BY <1>1, Holder DEF FailCrawl
<1>3. crawl' = [crawl EXCEPT ![p] = c]
  BY DEF FailCrawl
<1>4. c \in Crawl /\ c.stage = "idle" /\ c.result = "failed"
  BY EndedFacts
<1> HIDE DEF c
<1>5. /\ crawl' \in [Programs -> Crawl] /\ crawl'[p] = c
      /\ \A q \in Programs \ {p} : crawl'[q] = NoCrawl
      /\ CommandInv(p)' /\ FetchInv(crawl[p])' =>
           (\A q \in Programs : CommandInv(q) /\ FetchInv(crawl[q]))'
  BY <1>1, <1>2, <1>3, <1>4, OnlyCrawl
<1>6. /\ newest' = newest /\ checkpoint' = checkpoint /\ stored' = stored
      /\ daily' = daily /\ backfill' = backfill /\ lock' = lock
      /\ listing' = listing /\ moved' = moved
      /\ failures' \in 0..MaxFailures /\ gap' \in BOOLEAN /\ (~gap' => ~gap)
      /\ gap' \/ ~Latest(p) \/ Running(p)
  <2>1. failures < MaxFailures /\ failures' = failures + 1 /\ failures \in 0..MaxFailures
      BY <1>1 DEF FailCrawl, TypeOK
  <2>2. failures' \in 0..MaxFailures
      BY <2>1, Constants
  <2> QED
      BY <2>2, <1>1 DEF FailCrawl, site, scripts, Latest, TypeOK
<1>7. TypeOK'
  BY <1>1, <1>5, <1>6 DEF TypeOK
<1>8. SiteInv' /\ PlanInv'
  BY <1>6 DEF IInv, SiteInv, PlanInv
<1>9. LockInv'
  BY <1>1, <1>2, <1>5, <1>6, LockStays
<1>10. CommandInv(p)' /\ FetchInv(crawl[p])'
  BY <1>4, <1>5 DEF CommandInv, FetchInv, Running
<1>11. KeptInv'
  BY <1>6, FloorStays DEF IInv, KeptInv, Clean
<1>12. PassInv'
  <2> SUFFICES ASSUME ~gap', ~moved, daily.pc = "latest"
               PROVE  PassInv'
      BY <1>6 DEF PassInv, Clean
  <2>1. p = "daily" /\ crawl["daily"].result = "none" /\ Clean
      BY <1>1, <1>2, <1>6 DEF Latest, Clean
  <2>2. /\ daily.asOf <= newest
        /\ Seamed(Edge(daily.asOf, daily.page - 1))
        /\ daily.page = 1 => \A a \in stored : a <= daily.asOf
      BY <2>1 DEF IInv, PassInv
  <2>3. Seamed(Edge(daily.asOf, daily.page - 1))'
      BY <2>2, <1>6, FloorStays DEF Seamed, Edge, Reach
  <2> QED
      BY <2>1, <2>2, <2>3, <1>4, <1>5, <1>6 DEF PassInv
<1> QED
  BY <1>5, <1>7, <1>8, <1>9, <1>10, <1>11, <1>12 DEF IInv

-----------------------------------------------------------------------------
(* daily_incremental_sync.sh                                               *)

\* The crawl of the daily script is set, with the lock taken or let go.
LEMMA DailyFrame ==
    ASSUME IInv, "daily" \in Programs, lock \in {"daily", "free"},
           NEW STATE c, c \in Crawl, Crawls("daily", c),
           \/ lock' = "daily" /\ daily'.pc # "idle"
           \/ lock' = "free" /\ daily'.pc = "idle" /\ c = NoCrawl,
           daily' \in Daily, gap' \in BOOLEAN,
           UNCHANGED <<site, stored, checkpoint, backfill, failures>>
    PROVE  /\ TypeOK' /\ SiteInv' /\ LockInv' /\ PlanInv'
           /\ crawl'["daily"] = c
           /\ CommandInv("daily")' /\ FetchInv(crawl["daily"])' =>
                (\A q \in Programs : CommandInv(q) /\ FetchInv(crawl[q]))'
           /\ newest' = newest /\ checkpoint' = checkpoint /\ stored' = stored
           /\ moved' = moved /\ Floor' = Floor
<1>1. TypeOK /\ LockInv
  BY DEF IInv
<1>2. /\ crawl' \in [Programs -> Crawl] /\ crawl'["daily"] = c
      /\ \A q \in Programs \ {"daily"} : crawl'[q] = NoCrawl
      /\ CommandInv("daily")' /\ FetchInv(crawl["daily"])' =>
           (\A q \in Programs : CommandInv(q) /\ FetchInv(crawl[q]))'
  <2>1. "daily" = lock \/ lock = "free"
      OBVIOUS
  <2>2. crawl' = [crawl EXCEPT !["daily"] = c]
      BY DEF Crawls
  <2> QED
      BY <2>1, <2>2, <1>1, OnlyCrawl
<1>3. /\ newest' = newest /\ checkpoint' = checkpoint /\ stored' = stored
      /\ moved' = moved /\ listing' = listing /\ backfill' = backfill /\ failures' = failures
  BY DEF site
<1>4. TypeOK'
  BY <1>1, <1>2, <1>3 DEF TypeOK
<1>5. SiteInv' /\ PlanInv'
  BY <1>3 DEF IInv, SiteInv, PlanInv
<1>6. LockInv'
  BY <1>1, <1>2 DEF LockInv
<1>7. Floor' = Floor
  BY <1>3, FloorStays
<1> QED
  BY <1>2, <1>3, <1>4, <1>5, <1>6, <1>7

\* The script ends: nothing is missing, or the pass left articles out.
LEMMA DailyEnds ==
    ASSUME IInv, lock = "daily", EndDaily, gap' \in BOOLEAN,
           UNCHANGED <<site, stored, checkpoint, backfill, failures>>,
           ~gap' /\ ~moved => Whole(Floor)
    PROVE  IInv'
<1>1. "daily" \in Programs /\ NoCrawl \in Crawl
  BY EndedFacts DEF IInv, LockInv
<1>2. daily' \in Daily /\ daily'.pc = "idle" /\ lock' = "free" /\ Crawls("daily", NoCrawl)
  <2>1. 1 \in 1..LatestMax /\ 1 \in 1..Retries
      BY Constants
  <2> QED
      BY <2>1 DEF EndDaily, Daily
<1>3. /\ TypeOK' /\ SiteInv' /\ LockInv' /\ PlanInv'
      /\ crawl'["daily"] = NoCrawl
      /\ CommandInv("daily")' /\ FetchInv(crawl["daily"])' =>
           (\A q \in Programs : CommandInv(q) /\ FetchInv(crawl[q]))'
      /\ newest' = newest /\ checkpoint' = checkpoint /\ stored' = stored
      /\ moved' = moved /\ Floor' = Floor
  BY <1>1, <1>2, DailyFrame
<1>4. CommandInv("daily")' /\ FetchInv(crawl["daily"])'
  BY <1>3, EndedFacts DEF CommandInv, FetchInv, Running
<1>5. KeptInv'
  BY <1>3 DEF KeptInv, Clean, Whole
<1>6. PassInv'
  BY <1>2 DEF PassInv
<1> QED
  BY <1>3, <1>4, <1>5, <1>6 DEF IInv

\* The script starts a latest page.
LEMMA LatestStarts ==
    ASSUME IInv, "daily" \in Programs, lock \in {"daily", "free"}, lock' = "daily",
           NEW n \in 1..LatestMax, Crawls("daily", LatestPage(n)),
           daily' \in Daily, daily'.pc = "latest", daily'.page = n, gap' \in BOOLEAN,
           NEW d \in Nat, daily'.asOf = d,
           UNCHANGED <<site, stored, checkpoint, backfill, failures>>,
           ~gap' /\ ~moved =>
             /\ d <= newest /\ Seamed(Edge(d, n - 1))
             /\ n = 1 => \A a \in stored : a <= d
    PROVE  IInv'
<1> DEFINE c == LatestPage(n)
<1>1. Begun(c, "fetch", n, 1, TRUE) /\ n \in Nat \ {0}
  <2>1. n \in Nat \ {0} /\ n \in Nat /\ 1 \in 0..Batch
      BY Constants
  <2> QED
    <3>1. TRUE \in BOOLEAN
        OBVIOUS
    <3>2. Begun(Started(n, 1, FALSE, TRUE), "fetch", n, 1, TRUE)
        BY <2>1, <3>1, StartedFacts
    <3>3. c = Started(n, 1, FALSE, TRUE)
        BY DEF LatestPage
    <3> QED
        BY <2>1, <3>2, <3>3
<1> HIDE DEF c
<1>2. Crawls("daily", c) /\ c \in Crawl /\ daily'.pc # "idle"
  BY <1>1 DEF c, Begun
<1>3. /\ TypeOK' /\ SiteInv' /\ LockInv' /\ PlanInv'
      /\ crawl'["daily"] = c
      /\ CommandInv("daily")' /\ FetchInv(crawl["daily"])' =>
           (\A q \in Programs : CommandInv(q) /\ FetchInv(crawl[q]))'
      /\ newest' = newest /\ checkpoint' = checkpoint /\ stored' = stored
      /\ moved' = moved /\ Floor' = Floor
  BY <1>2, DailyFrame
<1>4. CommandInv("daily")' /\ FetchInv(crawl["daily"])'
  BY <1>1, <1>3 DEF CommandInv, FetchInv, Running, Latest, Begun
<1>5. KeptInv'
  BY DEF KeptInv
<1>6. PassInv'
  <2> SUFFICES ASSUME ~gap', ~moved
               PROVE  PassInv'
      BY <1>3 DEF PassInv, Clean
  <2>1. Seamed(Edge(daily.asOf, daily.page - 1))'
      BY <1>3 DEF Seamed, Edge, Reach
  <2> QED
      BY <2>1, <1>1, <1>3 DEF PassInv, Begun
<1> QED
  BY <1>3, <1>4, <1>5, <1>6 DEF IInv

\* The script starts a historical page, with nothing missing.
LEMMA HistoryStarts ==
    ASSUME IInv, lock = "daily", lock' = "daily",
           NEW STATE n, n \in Nat \ {0}, Crawls("daily", Started(n, 1, TRUE, FALSE)),
           checkpoint.next = 0 => n = 1,
           daily' \in Daily, daily'.pc = "history", gap' \in BOOLEAN,
           UNCHANGED <<site, stored, checkpoint, backfill, failures>>,
           ~gap' /\ ~moved => Whole(Floor)
    PROVE  IInv'
<1> DEFINE c == Started(n, 1, TRUE, FALSE)
<1>1. Begun(c, "resume", n, 1, FALSE) /\ "daily" \in Programs
  <2>1. n \in Nat /\ 1 \in 0..Batch
      BY Constants
  <2> QED
      BY <2>1, StartedFacts DEF IInv, LockInv
<1> HIDE DEF c
<1>2. Crawls("daily", c) /\ c \in Crawl /\ daily'.pc # "idle" /\ lock \in {"daily", "free"}
  BY <1>1 DEF c, Begun
<1>3. /\ TypeOK' /\ SiteInv' /\ LockInv' /\ PlanInv'
      /\ crawl'["daily"] = c
      /\ CommandInv("daily")' /\ FetchInv(crawl["daily"])' =>
           (\A q \in Programs : CommandInv(q) /\ FetchInv(crawl[q]))'
      /\ newest' = newest /\ checkpoint' = checkpoint /\ stored' = stored
      /\ moved' = moved /\ Floor' = Floor
  BY <1>1, <1>2, DailyFrame
<1>4. CommandInv("daily")' /\ FetchInv(crawl["daily"])'
  BY <1>1, <1>3 DEF CommandInv, FetchInv, Running, Latest, Begun
<1>5. KeptInv'
  BY <1>3 DEF KeptInv, Clean, Whole
<1>6. PassInv'
  BY DEF PassInv
<1> QED
  BY <1>3, <1>4, <1>5, <1>6 DEF IInv

LEMMA StartDailyStep ==
    ASSUME IInv, StartDaily
    PROVE  IInv'
<1>1. "daily" \in Programs /\ lock = "free" /\ lock' = "daily" /\ daily.pc = "idle"
      /\ Crawls("daily", LatestPage(1)) /\ gap' = gap /\ gap \in BOOLEAN
      /\ UNCHANGED <<site, stored, checkpoint, backfill, failures>>
  BY DEF StartDaily, IInv, TypeOK
<1>2. newest \in Nat /\ Floor \in Int /\ newest \in {0} \cup Articles
  BY FloorFacts DEF IInv, TypeOK
<1>3. PICK d \in Nat : d = newest
  BY <1>2
<1>4. daily' \in Daily /\ daily'.pc = "latest" /\ daily'.page = 1 /\ daily'.asOf = d
  <2>1. 1 \in 1..LatestMax /\ 1 \in 1..Retries
      BY Constants
  <2> QED
      BY <2>1, <1>2, <1>3 DEF StartDaily, Daily
<1>5. ~gap' /\ ~moved =>
        /\ d <= newest /\ Seamed(Edge(d, 1 - 1))
        /\ 1 = 1 => \A a \in stored : a <= d
  <2> SUFFICES ASSUME Clean
               PROVE  Seamed(Edge(d, 0)) /\ \A a \in stored : a <= d
      BY <1>1, <1>3 DEF Clean
  <2>1. \A a \in stored : a <= d
      BY <1>3 DEF IInv, SiteInv, Clean
  <2>2. Edge(d, 0) = d + 1
      BY EdgeFacts
  <2>3. Whole(Floor)
      BY <1>1 DEF IInv, KeptInv
  <2>4. ASSUME NEW a \in Articles, NEW b \in Articles, b < a, a \in stored,
               (Floor <= b /\ a < d + 1) \/ d + 1 <= b
        PROVE  b \in stored
    <3>1. a \in Nat /\ b \in Nat /\ a <= d
        BY <2>1, <2>4, Constants
    <3>2. Floor <= b
        BY <3>1, <2>4
    <3> QED
        BY <3>2, <2>3, <2>4 DEF Whole
  <2> QED
      BY <2>1, <2>2, <2>4 DEF Seamed
<1>6. 1 \in 1..LatestMax /\ lock \in {"daily", "free"} /\ gap' \in BOOLEAN
  BY <1>1, Constants
<1> QED
  BY <1>1, <1>4, <1>5, <1>6, LatestStarts

\* What the daily script knows when a latest page is over.
LEMMA DuringPass ==
    ASSUME IInv, daily.pc = "latest"
    PROVE  /\ lock = "daily" /\ "daily" \in Programs /\ daily \in Daily
           /\ gap \in BOOLEAN /\ daily.page \in 1..LatestMax /\ daily.page \in Nat
           /\ daily.asOf \in Nat /\ crawl["daily"].asOf \in Nat
           /\ crawl["daily"].asOf \in {0} \cup Articles
           /\ crawl["daily"].unseen \in Nat /\ daily.attempt \in 1..Retries
<1>1. lock = "daily" /\ "daily" \in Programs /\ TypeOK
  BY DEF IInv, LockInv
<1>2. daily.asOf \in Nat /\ daily.page \in 1..LatestMax /\ daily.attempt \in 1..Retries
      /\ crawl["daily"].asOf \in Nat /\ crawl["daily"].unseen \in 0..PageSize
      /\ crawl["daily"].asOf \in {0} \cup Articles
  BY <1>1, Fields
<1> QED
  BY <1>1, <1>2, Constants DEF TypeOK

LEMMA NextLatestStep ==
    ASSUME IInv, NextLatest
    PROVE  IInv'
<1> DEFINE c == crawl["daily"]
<1>1. /\ daily.pc = "latest" /\ c.result = "done" /\ c.unseen > 0
      /\ UNCHANGED <<site, stored, checkpoint, backfill, failures>>
  BY DEF NextLatest, Ended
<1>2. /\ lock = "daily" /\ "daily" \in Programs /\ daily \in Daily
      /\ gap \in BOOLEAN /\ daily.page \in 1..LatestMax /\ daily.page \in Nat
      /\ daily.asOf \in Nat /\ c.asOf \in Nat /\ c.asOf \in {0} \cup Articles
  BY <1>1, DuringPass
<1>3. CASE daily.page = LatestMax
  <2>1. EndDaily /\ gap' = TRUE
      BY <1>3 DEF NextLatest
  <2> QED
      BY <2>1, <1>1, <1>2, DailyEnds
<1>4. CASE daily.page # LatestMax
  <2>1. /\ daily' = [daily EXCEPT !.page = daily.page + 1, !.attempt = 1, !.asOf = c.asOf]
        /\ Crawls("daily", LatestPage(daily.page + 1))
        /\ gap' = (gap \/ Flooded) /\ lock' = lock
      BY <1>4 DEF NextLatest
  <2>2. PICK n \in 1..LatestMax : n = daily.page + 1
      BY <1>2, <1>4, Constants
  <2>3. PICK d \in Nat : d = c.asOf
      BY <1>2
  <2>4. daily' \in Daily /\ daily'.pc = "latest" /\ daily'.page = n /\ daily'.asOf = d
    <3>1. 1 \in 1..Retries
        BY Constants
    <3> QED
        BY <3>1, <2>1, <2>2, <2>3, <1>1, <1>2 DEF Daily
  <2>5. gap' \in BOOLEAN /\ (~gap' => ~gap /\ Close(c))
    <3>1. ~Flooded => Close(c)
        BY <1>2, Constants DEF Flooded, Close
    <3> QED
        BY <3>1, <2>1, <1>2 DEF Flooded
  <2>6. n - 1 = daily.page /\ n # 1
      BY <2>2, <1>2
  <2>7. ~gap' /\ ~moved =>
          /\ d <= newest /\ Seamed(Edge(d, n - 1))
          /\ n = 1 => \A a \in stored : a <= d
      BY <2>3, <2>5, <2>6, <1>1 DEF IInv, PassInv, Clean
  <2>8. Crawls("daily", LatestPage(n))
      BY <2>1, <2>2
  <2> QED
      BY <2>1, <2>4, <2>5, <2>7, <2>8, <1>1, <1>2, LatestStarts
<1> QED
  BY <1>3, <1>4

LEMMA BoundaryStep ==
    ASSUME IInv, Boundary
    PROVE  IInv'
<1> DEFINE c == crawl["daily"]
           n == IF checkpoint.next = 0 THEN 1 ELSE checkpoint.next
<1>1. /\ daily.pc = "latest" /\ c.result = "done" /\ c.unseen = 0
      /\ gap' = (gap \/ Flooded)
      /\ UNCHANGED <<site, stored, checkpoint, backfill, failures>>
  BY DEF Boundary, Ended
<1>2. /\ lock = "daily" /\ "daily" \in Programs /\ daily \in Daily
      /\ gap \in BOOLEAN /\ daily.page \in 1..LatestMax /\ daily.page \in Nat
      /\ daily.asOf \in Nat /\ c.asOf \in Nat
  BY <1>1, DuringPass
<1>3. gap' \in BOOLEAN /\ (~gap' => ~gap /\ Close(c))
  <2>1. ~Flooded => Close(c)
      BY <1>2, Constants DEF Flooded, Close
  <2> QED
      BY <2>1, <1>1, <1>2 DEF Flooded
<1>4. ~gap' /\ ~moved => Whole(Floor)
  BY <1>1, <1>3 DEF IInv, PassInv, Clean
<1>5. CASE checkpoint.complete \/ checkpoint.next > Target
  <2>1. EndDaily
      BY <1>5 DEF Boundary
  <2> QED
      BY <2>1, <1>1, <1>2, <1>3, <1>4, DailyEnds
<1>6. CASE ~(checkpoint.complete \/ checkpoint.next > Target)
  <2>1. /\ daily' = [daily EXCEPT !.pc = "history", !.attempt = 1, !.asOf = 0]
        /\ Crawls("daily", Started(n, 1, TRUE, FALSE)) /\ lock' = lock
      BY <1>6 DEF Boundary
  <2>2. daily' \in Daily /\ daily'.pc = "history"
    <3>1. 1 \in 1..Retries
        BY Constants
    <3> QED
        BY <3>1, <2>1, <1>2 DEF Daily
  <2>3. n \in Nat \ {0} /\ (checkpoint.next = 0 => n = 1)
      BY Fields DEF IInv
  <2> HIDE DEF n
  <2> QED
      BY <2>1, <2>2, <2>3, <1>1, <1>2, <1>3, <1>4, HistoryStarts
<1> QED
  BY <1>5, <1>6

LEMMA EndHistoryStep ==
    ASSUME IInv, EndHistory
    PROVE  IInv'
<1>1. /\ daily.pc = "history" /\ EndDaily /\ gap' = gap
      /\ UNCHANGED <<site, stored, checkpoint, backfill, failures>>
  BY DEF EndHistory
<1>2. lock = "daily" /\ gap' \in BOOLEAN /\ (~gap' /\ ~moved => Whole(Floor))
  BY <1>1 DEF IInv, LockInv, TypeOK, KeptInv, Clean
<1> QED
  BY <1>1, <1>2, DailyEnds

LEMMA RetryDailyStep ==
    ASSUME IInv, RetryDaily
    PROVE  IInv'
<1>1. /\ crawl["daily"].result = "failed" /\ crawl["daily"].result # "none"
      /\ UNCHANGED <<site, stored, checkpoint, backfill, failures>>
  BY DEF RetryDaily, Ended
<1>2. /\ lock = "daily" /\ "daily" \in Programs /\ daily \in Daily /\ gap \in BOOLEAN
      /\ daily.page \in 1..LatestMax /\ daily.asOf \in Nat /\ daily.attempt \in 1..Retries
  <2>1. TypeOK /\ lock = "daily" /\ "daily" \in Programs
      BY DEF RetryDaily, IInv, LockInv
  <2> QED
      BY <2>1, Fields DEF TypeOK
<1>3. CASE ~(daily.attempt < Retries)
  <2>1. EndDaily /\ gap' = (gap \/ daily.pc = "latest")
      BY <1>3 DEF RetryDaily
  <2>2. gap' \in BOOLEAN /\ (~gap' /\ ~moved => Whole(Floor))
      BY <2>1, <1>2 DEF IInv, KeptInv, Clean
  <2> QED
      BY <2>1, <2>2, <1>1, <1>2, DailyEnds
<1>4. CASE daily.attempt < Retries /\ daily.pc = "latest"
  <2>1. /\ daily' = [daily EXCEPT !.attempt = daily.attempt + 1]
        /\ Crawls("daily", LatestPage(daily.page)) /\ lock' = lock /\ gap' = gap
      BY <1>4 DEF RetryDaily
  <2>2. daily' \in Daily /\ daily'.pc = "latest" /\ daily'.page = daily.page
        /\ daily'.asOf = daily.asOf
    <3>1. daily.attempt + 1 \in 1..Retries
        BY <1>2, <1>4, Constants
    <3> QED
        BY <3>1, <2>1, <1>2, <1>4 DEF Daily
  <2>3. PICK n \in 1..LatestMax : n = daily.page
      BY <1>2
  <2>4. PICK d \in Nat : d = daily.asOf
      BY <1>2
  <2>5. ~gap' /\ ~moved =>
          /\ d <= newest /\ Seamed(Edge(d, n - 1))
          /\ n = 1 => \A a \in stored : a <= d
      BY <2>1, <2>3, <2>4, <1>1, <1>4 DEF IInv, PassInv, Clean
  <2>6. Crawls("daily", LatestPage(n)) /\ daily'.page = n /\ daily'.asOf = d
        /\ gap' \in BOOLEAN /\ lock' = "daily" /\ lock \in {"daily", "free"}
      BY <2>1, <2>2, <2>3, <2>4, <1>2
  <2> QED
      BY <2>2, <2>5, <2>6, <1>1, <1>2, LatestStarts
<1>5. CASE daily.attempt < Retries /\ daily.pc # "latest"
  <2>1. /\ daily' = [daily EXCEPT !.attempt = daily.attempt + 1]
        /\ Crawls("daily", Started(1, 1, TRUE, FALSE)) /\ lock' = lock /\ gap' = gap
      BY <1>5 DEF RetryDaily
  <2>2. daily' \in Daily /\ daily'.pc = "history"
    <3>1. daily.attempt + 1 \in 1..Retries
        BY <1>2, <1>5, Constants
    <3>2. daily.pc = "history"
        BY <1>2, <1>5 DEF RetryDaily, Daily
    <3> QED
        BY <3>1, <3>2, <2>1, <1>2 DEF Daily
  <2>3. ~gap' /\ ~moved => Whole(Floor)
      BY <2>1, <1>5 DEF IInv, KeptInv, Clean
  <2>4. gap' \in BOOLEAN /\ lock' = "daily" /\ 1 \in Nat \ {0}
      BY <2>1, <1>2
  <2> QED
      BY <2>1, <2>2, <2>3, <2>4, <1>1, <1>2, HistoryStarts
<1> QED
  BY <1>3, <1>4, <1>5

-----------------------------------------------------------------------------
(* run_full_backfill.sh                                                    *)

\* Dividing leaves less than the divisor.
LEMMA Division ==
    ASSUME NEW a \in Nat, NEW b \in Nat \ {0}
    PROVE  /\ a \div b \in Nat
           /\ (a \div b) * b <= a /\ a < (a \div b + 1) * b
<1>1. a \div b \in Int /\ (a \div b) * b <= a /\ a < (a \div b) * b + b
  BY SMTT(30)
<1>2. a \div b \in Nat
  BY <1>1, SMTT(30)
<1> QED
  BY <1>1, <1>2, SMTT(30)

\* The plan is a sequence of slices; for a board without a checkpoint it starts
\* at the first page.
LEMMA Plan ==
    ASSUME NEW next \in Nat \ {0}
    PROVE  /\ PlannedSlices(next) \in Seq(Slice)
           /\ PlannedSlices(next) # <<>> => Head(PlannedSlices(next)).start = next
<1> DEFINE over == RoundsOver(next)
           all == (Target - 1) \div Batch + 1
           rounds == RoundsLeft(next)
           e(i) == PlannedSlice(next, i)
<1>1. PlannedSlices(next) = [i \in 1..rounds |-> e(i)]
  BY DEF PlannedSlices
<1>2. /\ next - 1 \in Nat /\ Target - 1 \in Nat /\ Batch \in Nat \ {0} /\ Target \in Nat
      /\ Batch <= Target
  BY Constants
<1>3. over \in Nat /\ over * Batch <= next - 1 /\ next - 1 < (over + 1) * Batch
  BY <1>2, Division DEF RoundsOver
<1>4. all \in Nat /\ (all - 1) * Batch <= Target - 1 /\ Target - 1 < all * Batch
  <2> DEFINE q == (Target - 1) \div Batch
  <2>1. q \in Nat /\ q * Batch <= Target - 1 /\ Target - 1 < (q + 1) * Batch
      BY <1>2, Division
  <2> HIDE DEF q
  <2>2. q + 1 \in Nat /\ (q + 1) - 1 = q
      BY <2>1
  <2>3. (q + 1) \in Nat /\ ((q + 1) - 1) * Batch <= Target - 1 /\ Target - 1 < (q + 1) * Batch
      BY <2>1, <2>2
  <2> QED
      BY <2>3 DEF q
<1>5. rounds = IF next > Target THEN 0 ELSE all - over
  BY DEF RoundsLeft
<1> HIDE DEF over, all, rounds
<1>6. rounds \in Nat
  <2>1. ASSUME next <= Target
        PROVE  over <= all
    <3>1. over * Batch < all * Batch
        BY <2>1, <1>2, <1>3, <1>4
    <3> QED
        BY <3>1, <1>2, <1>3, <1>4
  <2> QED
      BY <2>1, <1>2, <1>3, <1>4, <1>5
<1>7. ASSUME NEW i \in 1..rounds
      PROVE  e(i) \in Slice /\ (i = 1 => e(i).start = next)
  <2> DEFINE lo == ((over + i) - 1) * Batch
             hi == (over + i) * Batch
             start == IF i = 1 THEN next ELSE lo + 1
             end == IF hi < Target THEN hi ELSE Target
  <2>1. next <= Target /\ i \in Nat \ {0} /\ over + i <= all
      BY <1>2, <1>3, <1>4, <1>5, <1>6
  <2>2. lo \in Nat /\ hi = lo + Batch
    <3>1. PICK k \in Nat : k = (over + i) - 1
        BY <2>1, <1>3
    <3>2. over + i = k + 1
        BY <3>1, <2>1, <1>3
    <3>3. k * Batch \in Nat /\ (k + 1) * Batch = k * Batch + Batch
        BY <3>1, <1>2
    <3> QED
        BY <3>1, <3>2, <3>3
  <2>3. lo <= Target - 1
    <3>1. (over + i) - 1 <= all - 1 /\ (over + i) - 1 \in Nat /\ all - 1 \in Nat
        BY <2>1, <1>3, <1>4
    <3>2. lo <= (all - 1) * Batch
        BY <3>1, <1>2
    <3>3. lo \in Nat /\ (all - 1) * Batch \in Nat
        BY <2>2, <3>1, <1>2
    <3> QED
        BY <3>2, <3>3, <1>2, <1>4
  <2>4. i = 1 => lo <= next - 1 /\ next <= hi
    <3> SUFFICES ASSUME i = 1
                 PROVE  lo <= next - 1 /\ next <= hi
        OBVIOUS
    <3>1. hi = (over + 1) * Batch /\ lo = over * Batch
        BY <1>3
    <3> QED
        BY <3>1, <2>2, <1>2, <1>3
  <2>5. e(i) = [start |-> start, pages |-> end - start + 1]
      BY DEF PlannedSlice, over
  <2> HIDE DEF lo, hi, e
  <2>6. /\ start \in Nat \ {0} /\ end \in Nat
        /\ end - start + 1 \in 1..Batch /\ (i = 1 => start = next)
    <3>1. CASE i = 1
        BY <3>1, <2>1, <2>2, <2>4, <1>2
    <3>2. CASE i # 1
        BY <3>2, <2>1, <2>2, <2>3, <1>2
    <3> QED
        BY <3>1, <3>2
  <2> HIDE DEF start, end
  <2> QED
      BY <2>5, <2>6 DEF Slice
<1> HIDE DEF e
<1>8. [i \in 1..rounds |-> e(i)] \in Seq(Slice)
  BY <1>6, <1>7, IsASeq
<1>9. ASSUME PlannedSlices(next) # <<>>
      PROVE  Head(PlannedSlices(next)).start = next
  <2>1. rounds >= 1
    <3>1. Len(PlannedSlices(next)) = rounds
        BY <1>1, <1>6
    <3>2. Len(PlannedSlices(next)) \in Nat \ {0}
        BY <1>1, <1>8, <1>9, EmptySeq
    <3> QED
        BY <3>1, <3>2
  <2>2. 1 \in 1..rounds /\ PlannedSlices(next)[1] = e(1)
      BY <2>1, <1>1, <1>6
  <2>3. e(1).start = next
      BY <2>2, <1>7
  <2>4. Head(PlannedSlices(next)) = PlannedSlices(next)[1]
      BY <1>1, <1>8, <1>9
  <2> QED
      BY <2>2, <2>3, <2>4
<1> QED
  BY <1>1, <1>8, <1>9

LEMMA PlanBackfillStep ==
    ASSUME IInv, PlanBackfill
    PROVE  IInv'
<1> DEFINE n == IF checkpoint.next = 0 THEN 1 ELSE checkpoint.next
<1>1. /\ TypeOK /\ "backfill" \in Programs /\ backfill.pc = "idle"
      /\ PlannedSlices(n) # <<>>
      /\ backfill' = [pc |-> "slices", slices |-> PlannedSlices(n)]
  BY DEF PlanBackfill, IInv
<1>2. n \in Nat \ {0} /\ (checkpoint.next = 0 => n = 1)
  BY <1>1, Fields
<1> HIDE DEF n
<1>3. PlannedSlices(n) \in Seq(Slice) /\ Head(PlannedSlices(n)).start = n
  <2>1. PICK m \in Nat \ {0} : m = n
      BY <1>2
  <2> QED
      BY <2>1, <1>1, Plan
<1>4. backfill' \in [pc : {"idle", "slices"}, slices : Seq(Slice)]
      /\ backfill'.pc = "slices" /\ backfill'.slices = PlannedSlices(n)
  BY <1>1, <1>3
<1>5. /\ newest' = newest /\ checkpoint' = checkpoint /\ stored' = stored
      /\ daily' = daily /\ lock' = lock /\ crawl' = crawl /\ failures' = failures
      /\ listing' = listing /\ moved' = moved /\ gap' = gap
  BY DEF PlanBackfill, site
<1>6. TypeOK'
  BY <1>1, <1>4, <1>5 DEF TypeOK
<1>7. SiteInv'
  BY <1>5 DEF IInv, SiteInv
<1>8. LockInv'
  BY <1>1, <1>4, <1>5 DEF IInv, LockInv
<1>9. PlanInv'
  BY <1>1, <1>2, <1>3, <1>4, <1>5 DEF IInv, PlanInv
<1>10. Pages' = Pages /\ Floor' = Floor
       /\ (\A x : Whole(x) => Whole(x)') /\ (\A x : Seamed(x) => Seamed(x)')
  BY <1>5, FloorStays
<1>11. ASSUME NEW p \in Programs
       PROVE  CommandInv(p)' /\ FetchInv(crawl[p])'
  <2>1. CommandInv(p) /\ FetchInv(crawl[p])
      BY DEF IInv
  <2>2. CommandInv(p)'
      BY <2>1, <1>5, <1>10 DEF CommandInv, Running, Latest
  <2>3. FetchInv(crawl[p])'
      BY <2>1, <1>5 DEF FetchInv, Clean, Whole, Edge, Reach
  <2> QED
      BY <2>2, <2>3
<1>12. KeptInv'
  BY <1>5, <1>10 DEF IInv, KeptInv, Clean
<1>13. PassInv'
  <2>1. PassInv
      BY DEF IInv
  <2> QED
      BY <2>1, <1>5, <1>10 DEF PassInv, Close, Clean, Seamed, Whole, Edge, Reach
<1> QED
  BY <1>6, <1>7, <1>8, <1>9, <1>11, <1>12, <1>13 DEF IInv

\* The backfill sets its crawl and takes or lets go of the lock.
LEMMA BackfillFrame ==
    ASSUME IInv, backfill.pc = "slices", lock \in {"backfill", "free"},
           NEW STATE c, c \in Crawl, Crawls("backfill", c),
           \/ lock' = "backfill" /\ backfill'.pc = "slices"
           \/ lock' = "free" /\ c = NoCrawl,
           backfill' \in [pc : {"idle", "slices"}, slices : Seq(Slice)],
           backfill'.pc = "slices" =>
             /\ backfill'.slices # <<>>
             /\ checkpoint.next = 0 => Head(backfill'.slices).start = 1,
           UNCHANGED <<site, stored, checkpoint, daily, failures, gap>>,
           crawl'["backfill"] = c =>
             CommandInv("backfill")' /\ FetchInv(crawl["backfill"])'
    PROVE  IInv'
<1>1. TypeOK /\ LockInv /\ "backfill" \in Programs /\ daily.pc = "idle"
  BY DEF IInv, LockInv, PlanInv
<1>2. /\ crawl' \in [Programs -> Crawl] /\ crawl'["backfill"] = c
      /\ \A q \in Programs \ {"backfill"} : crawl'[q] = NoCrawl
      /\ CommandInv("backfill")' /\ FetchInv(crawl["backfill"])' =>
           (\A q \in Programs : CommandInv(q) /\ FetchInv(crawl[q]))'
  <2>1. crawl' = [crawl EXCEPT !["backfill"] = c]
      BY DEF Crawls
  <2> QED
      BY <2>1, <1>1, OnlyCrawl
<1>3. /\ newest' = newest /\ checkpoint' = checkpoint /\ stored' = stored
      /\ daily' = daily /\ failures' = failures
      /\ listing' = listing /\ moved' = moved /\ gap' = gap
  BY DEF site
<1>4. TypeOK'
  BY <1>1, <1>2, <1>3 DEF TypeOK
<1>5. SiteInv'
  BY <1>3 DEF IInv, SiteInv
<1>6. PlanInv'
  BY <1>1, <1>3 DEF IInv, PlanInv
<1>7. LockInv'
  BY <1>1, <1>2, <1>3 DEF LockInv
<1>8. KeptInv'
  BY <1>3, FloorStays DEF IInv, KeptInv, Clean
<1>9. PassInv'
  BY <1>1, <1>3 DEF PassInv
<1> QED
  BY <1>2, <1>4, <1>5, <1>6, <1>7, <1>8, <1>9 DEF IInv

\* What is planned.
LEMMA FirstSlice ==
    ASSUME IInv, backfill.pc = "slices"
    PROVE  /\ backfill.slices \in Seq(Slice) /\ backfill.slices # <<>>
           /\ backfill = [pc |-> "slices", slices |-> backfill.slices]
           /\ Head(backfill.slices).start \in Nat \ {0}
           /\ Head(backfill.slices).pages \in 1..Batch
           /\ checkpoint.next = 0 => Head(backfill.slices).start = 1
<1>1. backfill \in [pc : {"idle", "slices"}, slices : Seq(Slice)] /\ backfill.slices # <<>>
  BY DEF IInv, TypeOK
<1>2. backfill.slices \in Seq(Slice)
      /\ backfill = [pc |-> "slices", slices |-> backfill.slices]
  BY <1>1
<1>3. Head(backfill.slices) \in Slice
  BY <1>1, <1>2, HeadTailProperties
<1> QED
  BY <1>1, <1>2, <1>3 DEF Slice, IInv, PlanInv

LEMMA StartSliceStep ==
    ASSUME IInv, StartSlice
    PROVE  IInv'
<1> DEFINE s == Head(backfill.slices)
           c == Started(s.start, s.pages, TRUE, FALSE)
<1>1. /\ backfill.pc = "slices" /\ lock = "free" /\ lock' = "backfill"
      /\ Crawls("backfill", c) /\ backfill' = backfill
      /\ UNCHANGED <<site, stored, checkpoint, daily, failures, gap>>
  BY DEF StartSlice
<1>2. /\ backfill.slices # <<>> /\ s.start \in Nat \ {0} /\ s.pages \in 1..Batch
      /\ checkpoint.next = 0 => s.start = 1
      /\ backfill \in [pc : {"idle", "slices"}, slices : Seq(Slice)]
  BY <1>1, FirstSlice DEF IInv, TypeOK
<1> HIDE DEF s
<1>3. Begun(c, "resume", s.start, s.pages, FALSE)
  <2>1. s.start \in Nat /\ s.pages \in 0..Batch
      BY <1>2, Constants
  <2> QED
      BY <2>1, StartedFacts
<1> HIDE DEF c
<1>4. ASSUME crawl'["backfill"] = c
      PROVE  CommandInv("backfill")' /\ FetchInv(crawl["backfill"])'
  BY <1>1, <1>2, <1>3, <1>4 DEF CommandInv, FetchInv, Running, Latest, Begun
<1>5. c \in Crawl
  BY <1>3 DEF Begun
<1>6. backfill'.pc = "slices" =>
        /\ backfill'.slices # <<>>
        /\ checkpoint.next = 0 => Head(backfill'.slices).start = 1
  BY <1>1, <1>2 DEF s
<1> QED
  BY <1>1, <1>2, <1>4, <1>5, <1>6, BackfillFrame

LEMMA EndSliceStep ==
    ASSUME IInv, EndSlice
    PROVE  IInv'
<1> DEFINE c == crawl["backfill"]
<1>1. /\ backfill.pc = "slices" /\ ~Running("backfill") /\ c.result # "none"
      /\ Crawls("backfill", NoCrawl)
      /\ UNCHANGED <<site, stored, checkpoint, daily, failures, gap>>
  BY DEF EndSlice, Ended
<1>2. "backfill" \in Programs /\ CommandInv("backfill")
  BY <1>1 DEF IInv, PlanInv
<1>3. lock = "backfill" /\ lock' = "free" /\ ~Latest("backfill")
  <2>1. lock = "backfill"
      BY <1>1, <1>2, Holder
  <2> QED
      BY <2>1 DEF EndSlice, Latest
<1>4. ASSUME crawl'["backfill"] = NoCrawl
      PROVE  CommandInv("backfill")' /\ FetchInv(crawl["backfill"])'
  BY <1>4, EndedFacts DEF CommandInv, FetchInv, Running
<1>5. /\ backfill.slices \in Seq(Slice) /\ backfill.slices # <<>>
      /\ backfill = [pc |-> "slices", slices |-> backfill.slices]
  BY <1>1, FirstSlice
<1>6. /\ backfill' \in [pc : {"idle", "slices"}, slices : Seq(Slice)]
      /\ backfill'.pc = "slices" =>
           /\ backfill'.slices # <<>>
           /\ checkpoint.next = 0 => Head(backfill'.slices).start = 1
  <2>1. CASE Ended("backfill", "done") /\ Len(backfill.slices) > 1
             /\ backfill' = [backfill EXCEPT !.slices = Tail(backfill.slices)]
    <3>1. Tail(backfill.slices) \in Seq(Slice)
          /\ Len(Tail(backfill.slices)) = Len(backfill.slices) - 1
        BY <1>5, HeadTailProperties
    <3>2. Len(backfill.slices) \in Nat
        BY <1>5, LenProperties
    <3>3. Tail(backfill.slices) # <<>>
      <4>1. Len(Tail(backfill.slices)) > 0
          BY <2>1, <3>1, <3>2
      <4>2. Len(<<>>) = 0
          BY EmptySeq
      <4> QED
          BY <4>1, <4>2
    <3>4. checkpoint.next # 0
        BY <2>1, <1>1, <1>2, <1>3 DEF CommandInv, Ended
    <3>5. backfill' = [pc |-> "slices", slices |-> Tail(backfill.slices)]
      <4>1. PICK s : s = backfill.slices
          OBVIOUS
      <4>2. PICK t : t = Tail(backfill.slices)
          OBVIOUS
      <4>3. backfill = [pc |-> "slices", slices |-> s]
            /\ backfill' = [backfill EXCEPT !.slices = t]
          BY <2>1, <4>1, <4>2, <1>5
      <4>4. backfill' = [pc |-> "slices", slices |-> t]
          BY <4>3
      <4> QED
          BY <4>2, <4>4
    <3> QED
        BY <3>1, <3>3, <3>4, <3>5
  <2>2. CASE backfill' = [pc |-> "idle", slices |-> <<>>]
      BY <2>2, EmptySeq
  <2> QED
      BY <2>1, <2>2 DEF EndSlice
<1>7. NoCrawl \in Crawl
  BY EndedFacts
<1> QED
  BY <1>1, <1>3, <1>4, <1>6, <1>7, BackfillFrame

-----------------------------------------------------------------------------
(* The invariant, and what follows from it.                                *)

LEMMA StutterStep ==
    ASSUME IInv, UNCHANGED vars
    PROVE  IInv'
<1>1. /\ listing' = listing /\ newest' = newest /\ stored' = stored
      /\ checkpoint' = checkpoint /\ lock' = lock /\ crawl' = crawl /\ daily' = daily
      /\ backfill' = backfill /\ failures' = failures /\ gap' = gap /\ moved' = moved
  BY DEF vars
<1>2. TypeOK' /\ SiteInv' /\ LockInv' /\ PlanInv'
  BY <1>1 DEF IInv, TypeOK, SiteInv, LockInv, PlanInv
<1>3. Pages' = Pages /\ Floor' = Floor
      /\ (\A x : Whole(x) => Whole(x)') /\ (\A x : Seamed(x) => Seamed(x)')
  BY <1>1, FloorStays
<1>4. ASSUME NEW p \in Programs
      PROVE  CommandInv(p)' /\ FetchInv(crawl[p])'
  <2>1. CommandInv(p) /\ FetchInv(crawl[p])
      BY DEF IInv
  <2>2. CommandInv(p)'
      BY <2>1, <1>1, <1>3 DEF CommandInv, Running, Latest
  <2>3. FetchInv(crawl[p])'
      BY <2>1, <1>1 DEF FetchInv, Clean, Whole, Edge, Reach
  <2> QED
      BY <2>2, <2>3
<1>5. KeptInv'
  BY <1>1, <1>3 DEF IInv, KeptInv, Clean
<1>6. PassInv'
  <2>1. PassInv
      BY DEF IInv
  <2> QED
      BY <2>1, <1>1, <1>3 DEF PassInv, Close, Clean, Seamed, Whole, Edge, Reach
<1> QED
  BY <1>2, <1>4, <1>5, <1>6 DEF IInv

LEMMA NextIInv ==
    ASSUME IInv, [Next]_vars
    PROVE  IInv'
<1>1. CASE Post
  BY <1>1, PostStep
<1>2. CASE Delete
  BY <1>2, DeleteStep
<1>3. CASE Command
  <2>1. PICK p \in Programs : Resume(p) \/ Fetch(p) \/ CommitPage(p)
      BY <1>3 DEF Command
  <2> QED
      BY <2>1, ResumeStep, FetchStep, CommitStep
<1>4. CASE \E p \in Programs : FailCrawl(p)
  BY <1>4, FailStep
<1>5. CASE DailyScript
  BY <1>5, StartDailyStep, NextLatestStep, BoundaryStep, EndHistoryStep, RetryDailyStep
  DEF DailyScript
<1>6. CASE BackfillScript
  BY <1>6, PlanBackfillStep, StartSliceStep, EndSliceStep DEF BackfillScript
<1>7. CASE UNCHANGED vars
  BY <1>7, StutterStep
<1> QED
  BY <1>1, <1>2, <1>3, <1>4, <1>5, <1>6, <1>7 DEF Next

\* The invariant holds in every state the scripts, their commands, failures and
\* the site can lead to.
THEOREM InductiveInvariant == Spec => []IInv
<1>1. Init => IInv
  BY InitIInv
<1>2. IInv /\ [Next]_vars => IInv'
  BY NextIInv
<1> QED
  BY <1>1, <1>2, PTL DEF Spec

\* The state keeps its type: a listing in order of age, pages and attempts
\* within the bounds of the scripts, a plan that is never empty.
THEOREM TypeCorrect == Spec => []TypeOK
<1>1. IInv => TypeOK
  BY DEF IInv
<1> QED
  BY <1>1, InductiveInvariant, PTL

\* Whatever the page size and however many articles are posted while the
\* scripts take turns, fail and retry, what the checkpoint covers is stored but
\* for articles newer than all that is - unless a pass over the latest pages is
\* under way or may have left articles out, or the site deleted one.
THEOREM NothingIsLost == Spec => []NothingLost
<1>1. IInv => NothingLost
  <2> SUFFICES ASSUME IInv, Clean, daily.pc # "latest"
               PROVE  ~Hole
      BY DEF NothingLost, Clean
  <2>1. Whole(Floor)
      BY DEF IInv, KeptInv
  <2>2. /\ newest \in Nat /\ listing \in Seq(Articles) /\ DOMAIN listing = 1..newest
        /\ \A i \in 1..newest : listing[i] = newest + 1 - i /\ listing[i] \in Articles
    <3>1. newest \in Nat /\ listing \in Seq(Articles)
        BY FloorFacts DEF IInv, TypeOK
    <3>2. Len(listing) = newest /\ \A i \in 1..newest : listing[i] = newest + 1 - i
        BY DEF IInv, SiteInv, Clean
    <3> QED
        BY <3>1, <3>2, LenProperties, ElementOfSeq
  <2>3. ASSUME NEW i \in Covered
        PROVE  i \in 1..newest /\ Floor <= listing[i]
    <3>1. i \in 1..newest /\ listing[i] = newest + 1 - i
        BY <2>2 DEF Covered
    <3>2. CASE checkpoint.complete
        BY <3>1, <3>2, <2>2 DEF Floor
    <3>3. CASE ~checkpoint.complete
      <4>1. i <= (checkpoint.next - 1) * PageSize /\ checkpoint.next \in Nat
          BY <3>3, Fields DEF Covered, IInv
      <4>2. checkpoint.next # 0
        <5>1. (0 - 1) * PageSize <= 0
            BY Constants
        <5> QED
            BY <5>1, <4>1, <3>1, Constants
      <4>3. Pages = checkpoint.next - 1 /\ Pages \in Nat /\ Reach(Pages) \in Nat
          BY <4>1, <4>2, ReachFacts DEF Pages
      <4>4. i <= Reach(Pages)
          BY <4>1, <4>3 DEF Reach
      <4> QED
          BY <4>3, <4>4, <3>1, <3>3, <2>2 DEF Floor, Edge
    <3> QED
        BY <3>1, <3>2, <3>3
  <2>4. ASSUME NEW i \in Covered, NEW j \in Covered, i < j,
               listing[i] \in stored, listing[j] \notin stored
        PROVE  FALSE
    <3>1. /\ i \in 1..newest /\ j \in 1..newest /\ Floor <= listing[j]
        BY <2>3
    <3>2. listing[j] < listing[i] /\ listing[i] \in Articles /\ listing[j] \in Articles
        BY <3>1, <2>2, <2>4
    <3> QED
        BY <3>1, <3>2, <2>1, <2>4 DEF Whole
  <2> QED
      BY <2>4 DEF Hole
<1> QED
  BY <1>1, InductiveInvariant, PTL

\* The checkpoint never goes back, and what is complete stays complete: only
\* the holder of the lock writes it, at the page after those it stands for.
THEOREM CheckpointNeverRewinds == Spec => BackfillNeverRewinds
<1>1. IInv /\ [Next]_vars =>
        [ /\ checkpoint'.next >= checkpoint.next
          /\ checkpoint.complete => checkpoint'.complete ]_vars
  <2> SUFFICES ASSUME IInv, [Next]_vars
               PROVE  /\ checkpoint'.next >= checkpoint.next
                      /\ checkpoint.complete => checkpoint'.complete
      OBVIOUS
  <2>1. checkpoint.next \in Nat
      BY Fields DEF IInv
  <2>2. CASE checkpoint' = checkpoint
      BY <2>1, <2>2
  <2>3. CASE \E p \in Programs : CommitPage(p)
    <3>1. PICK p \in Programs : CommitPage(p)
        BY <2>3
    <3>2. checkpoint' = Recorded(crawl[p]) /\ crawl[p].stage = "commit"
        BY <3>1 DEF CommitPage
    <3>3. CASE crawl[p].preserve
        BY <3>2, <3>3, <2>1 DEF Recorded
    <3>4. CASE ~crawl[p].preserve
      <4>1. ~checkpoint.complete /\ crawl[p].page = Pages + 1
          BY <3>2, <3>4 DEF IInv, CommandInv
      <4>2. checkpoint'.next = crawl[p].page + 1
          BY <3>2, <3>4 DEF Recorded
      <4> QED
          BY <4>1, <4>2, <2>1 DEF Pages
    <3> QED
        BY <3>3, <3>4
  <2>4. (\E p \in Programs : CommitPage(p)) \/ checkpoint' = checkpoint
      BY DEF Next, Command, DailyScript, BackfillScript, Post, Delete, Resume, Fetch,
         FailCrawl, StartDaily, NextLatest, Boundary, EndHistory, RetryDaily, EndDaily,
         PlanBackfill, StartSlice, EndSlice, vars
  <2> QED
      BY <2>2, <2>3, <2>4
<1> QED
  BY <1>1, InductiveInvariant, PTL DEF Spec, BackfillNeverRewinds

=============================================================================
