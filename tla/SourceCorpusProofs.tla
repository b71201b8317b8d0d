------------------------- MODULE SourceCorpusProofs -------------------------
(***************************************************************************)
(* Proofs about SourceCorpus.  For any comments, images and texts, any     *)
(* number of crawlers, index runs and owner's commands at once, any size   *)
(* of a batch and any number of edits and denials: search offers one text  *)
(* of a source, the text of its row, and none of an excluded article, and  *)
(* a start repairs what the races of a denial left behind.                 *)
(***************************************************************************)
EXTENDS SourceCorpus, FiniteSetTheorems, TLAPS

-----------------------------------------------------------------------------
(* The inductive invariant.                                                *)

Chunks == Sources \X Content

\* Stages of the three kinds of transactions.
ExcludeStages ==
    {"exclude_article", "exclude_chunks", "exclude_embeddings", "exclude_comments",
     "exclude_media"}
CrawlStages ==
    {"idle", "upsert_article", "insert_article", "children", "failed", "commit"}
        \cup ExcludeStages
OwnStages ==
    {"idle", "insert_denylist", "add_denylist", "commit"} \cup ExcludeStages
IndexStages ==
    {"idle", "next_source", "stale_chunks", "stale_embeddings", "write_chunks", "commit"}

\* An exclusion that has switched off its chunks.
AfterChunks ==
    {"exclude_embeddings", "exclude_comments", "exclude_media", "add_denylist", "commit"}

Hidden == {"DENIED", "DELETED"}

\* What is stored stays stored; what is to be indexed has a text, but for an
\* article denied in the meantime.
HasText(s, version) ==
    version.status \in {ReadyStatus(s), IndexedStatus(s)} /\ version.body = Empty =>
        s = Article /\ denied.val

SourceInv(s) ==
    /\ Stored(source[s].val) => Stored(source[s].work)
    /\ source[s].lock # NoTxn => Stored(source[s].work)
    /\ HasText(s, source[s].val) /\ HasText(s, source[s].work)
    /\ s = Article /\ source[s].val.status = "DENIED" => denied.val

\* Chunks belong to stored sources.  An index run writes those of sources it has
\* locked, and switches on that of the source's text; others switch off.
ChunkInv(x) ==
    /\ chunk[x].val # "absent" => Stored(source[x[1]].val)
    /\ chunk[x].lock # NoTxn => chunk[x].work # "absent"
    /\ chunk[x].lock \in Indexers =>
         /\ source[x[1]].lock = chunk[x].lock
         /\ chunk[x].work = "on" => x[2] = source[x[1]].work.body
    /\ chunk[x].lock \in Crawlers \cup Owners =>
         chunk[x].val # "absent" /\ chunk[x].work = "off"

\* A source has one chunk that is on.
OneOn == \A x, y \in Chunks : chunk[x].val = "on" /\ chunk[y].val = "on" /\ x[1] = y[1] => x = y

\* A transaction without locks, or without locked chunks.
LocksNone(t) == \A s \in Sources : source[s].lock # t
LocksNoChunk(t) == \A x \in Chunks : chunk[x].lock # t

\* A crawl leaves INDEXED a row it did not change only.
CrawlInv(t) ==
    /\ tx[t].pc \in CrawlStages /\ ~tx[t].owner
    /\ tx[t].pc \in {"idle", "upsert_article", "insert_article"} => LocksNone(t)
    /\ tx[t].pc \notin AfterChunks => LocksNoChunk(t)
    /\ \A s \in Sources :
         source[s].lock = t /\ source[s].work.status = IndexedStatus(s) =>
            source[s].work.body = source[s].val.body /\ source[s].val.status = IndexedStatus(s)
    /\ source[Article].lock = t /\ source[Article].work.status = "DENIED" =>
            source[Article].val.status = "DENIED"
    /\ tx[t].pc \in ExcludeStages =>
         source[Article].lock = t /\ Stored(source[Article].val)
    /\ tx[t].pc = "exclude_article" =>
         tx[t].loaded = source[Article].work /\ source[Article].work = source[Article].val
    /\ tx[t].pc \in ExcludeStages \ {"exclude_article"} =>
         source[Article].work.status = "DELETED"

\* The sources of the chunks it switched off are excluded with them.
SweepInv(t) ==
    \A x \in Chunks : chunk[x].lock = t =>
        /\ x[1] = Article => source[Article].lock = t /\ source[Article].work.status = "DELETED"
        /\ x[1] \in Comments =>
             /\ tx[t].pc = "exclude_comments" /\ tx[t].open => <<x[1], Empty>> \in tx[t].matched
             /\ tx[t].pc \in {"exclude_media", "commit"} =>
                  source[x[1]].lock = t /\ source[x[1]].work.status \in Hidden
        /\ x[1] \in Media =>
             /\ tx[t].pc = "exclude_media" /\ tx[t].open => <<x[1], Empty>> \in tx[t].matched
             /\ tx[t].pc = "commit" =>
                  source[x[1]].lock = t /\ source[x[1]].work.status = "excluded"

OwnInv(t) ==
    /\ tx[t].pc \in OwnStages
    /\ tx[t].pc \in ExcludeStages => tx[t].owner /\ Stored(source[Article].val)
    /\ tx[t].pc \in {"idle", "exclude_article", "insert_denylist"} => LocksNone(t)
    /\ tx[t].pc \notin AfterChunks => LocksNoChunk(t)
    /\ tx[t].pc = "exclude_article" /\ tx[t].loaded.status = "DENIED" => denied.val
    /\ tx[t].pc = "commit" => denied.val \/ denied.lock = t

\* An exclusion that is about to hide the article has all its chunks.
HideInv(t) ==
    source[Article].lock = t /\ source[Article].work.status \in Hidden
        /\ source[Article].val.status \notin Hidden =>
      /\ tx[t].pc \in {"exclude_chunks"} \cup AfterChunks
      /\ \A c \in Content : chunk[<<Article, c>>].val # "absent" =>
           /\ tx[t].pc = "exclude_chunks" /\ tx[t].open => <<Article, c>> \in tx[t].matched
           /\ tx[t].pc \in AfterChunks => chunk[<<Article, c>>].lock = t

\* Every chunk of a source but that of its text is off, or is not there.
Replaced(t, s) ==
    /\ source[s].work.status = IndexedStatus(s)
    /\ \A c \in Content \ {source[s].work.body} :
         \/ chunk[<<s, c>>].val = "absent"
         \/ chunk[<<s, c>>].lock = t /\ chunk[<<s, c>>].work = "off"

Written(t, s) ==
    LET x == <<s, source[s].work.body>>
    IN source[s].work.body # Empty => chunk[x].lock = t /\ chunk[x].work = "on"

\* Sources of a batch, done but for those still to come.
IndexInv(t) ==
    /\ tx[t].pc \in IndexStages
    /\ tx[t].pc = "idle" => LocksNone(t)
    /\ \A s \in Sources : source[s].lock = t =>
         source[s].val.status = ReadyStatus(s) /\ source[s].work.body = source[s].val.body
    /\ tx[t].pc \in {"next_source", "stale_chunks", "stale_embeddings"} =>
         \A x \in Chunks : chunk[x].lock = t => chunk[x].val # "absent" /\ chunk[x].work = "off"
    /\ tx[t].pc \in {"next_source", "stale_chunks", "stale_embeddings", "write_chunks"} =>
         tx[t].todo \subseteq Mine(t)
    /\ tx[t].pc \in {"stale_chunks", "stale_embeddings"} =>
         tx[t].now \in Mine(t) \ tx[t].todo /\ source[tx[t].now].work.status = IndexedStatus(tx[t].now)
    /\ tx[t].pc = "stale_chunks" /\ tx[t].open =>
         tx[t].matched = {x \in StaleChunks(t) : chunk[x].val # "absent"}
    /\ tx[t].pc = "next_source" => \A s \in Mine(t) \ tx[t].todo : Replaced(t, s)
    /\ tx[t].pc = "stale_chunks" => \A s \in Mine(t) \ (tx[t].todo \cup {tx[t].now}) : Replaced(t, s)
    /\ tx[t].pc = "stale_embeddings" => \A s \in Mine(t) \ tx[t].todo : Replaced(t, s)
    /\ tx[t].pc \in {"write_chunks", "commit"} => \A s \in Mine(t) : Replaced(t, s)
    /\ tx[t].pc = "write_chunks" =>
         /\ \A s \in tx[t].todo : source[s].work.body # Empty
         /\ \A s \in Mine(t) \ tx[t].todo : Written(t, s)
    /\ tx[t].pc = "commit" => \A s \in Mine(t) : Written(t, s)

\* An UPDATE is open while it waits only, with rows of its own that are there.
OpenInv(t) ==
    /\ tx[t].open => tx[t].pc \in UpdateStages
    /\ tx[t].open /\ tx[t].pc = "exclude_chunks" =>
         \A x \in tx[t].matched : x \in Chunks /\ chunk[x].val # "absent"
    /\ tx[t].open /\ tx[t].pc = "exclude_comments" => tx[t].matched \subseteq Comments \X {Empty}
    /\ tx[t].open /\ tx[t].pc = "exclude_media" => tx[t].matched \subseteq Media \X {Empty}

\* A starting process runs alone, and undoes what an active entry forbids.
AloneInv ==
    startup # NoTxn =>
      /\ startup \in Owners
      /\ \A u \in Txns \ {startup} : tx[u].pc = "idle"
      /\ tx[startup].pc \in ExcludeStages \cup {"add_denylist", "commit"}
      /\ denied.val /\ Stored(source[Article].val)
      /\ tx[startup].loaded = source[Article].val

\* It denies the article, switches off every chunk and denies every comment.
RepairArticle(t) ==
    tx[t].pc # "exclude_article" =>
        View(t, source[Article]).status = "DENIED" /\ View(t, source[Article]).body = Empty

RepairChunks(t) ==
    \A x \in Chunks : chunk[x].val # "absent" =>
      /\ tx[t].pc = "exclude_chunks" /\ tx[t].open => x \in tx[t].matched
      /\ tx[t].pc \in AfterChunks => chunk[x].lock = t

RepairComments(t) ==
    /\ \A s \in Comments : Stored(source[s].val) =>
         /\ tx[t].pc = "exclude_comments" /\ tx[t].open => <<s, Empty>> \in tx[t].matched
         /\ tx[t].pc \in {"exclude_media", "add_denylist", "commit"} =>
              source[s].lock = t /\ source[s].work.status = "DENIED"
    /\ \A s \in Comments : source[s].lock = t => Stored(source[s].val)
    /\ tx[t].pc = "exclude_comments" /\ tx[t].open =>
         \A x \in tx[t].matched : Stored(source[x[1]].val)

RepairInv ==
    startup # NoTxn =>
        RepairArticle(startup) /\ RepairChunks(startup) /\ RepairComments(startup)

\* What holds of a transaction, by its kind.
Local(t) ==
    /\ t \in Crawlers => CrawlInv(t) /\ SweepInv(t)
    /\ t \in Owners => OwnInv(t)
    /\ t \in Crawlers \cup Owners => HideInv(t)
    /\ t \in Indexers => IndexInv(t)
    /\ OpenInv(t)

\* What search offers.
FoundInv == OneOn /\ IndexedIsSearchable /\ ExcludedArticleHidden

IInv ==
    /\ TypeOK
    /\ denied.lock # NoTxn => denied.work = TRUE
    /\ \A s \in Sources : SourceInv(s)
    /\ \A x \in Chunks : ChunkInv(x)
    /\ FoundInv
    /\ \A t \in Txns : Local(t)
    /\ AloneInv /\ RepairInv

-----------------------------------------------------------------------------
(* Constants, rows and transactions.                                       *)

LEMMA Constants ==
    /\ Article \notin Children /\ Comments \cap Media = {} /\ Empty \notin Content
    /\ Sources = {Article} \cup Comments \cup Media /\ Article \in Sources
    /\ Article \notin Comments /\ Article \notin Media
    /\ NoTxn \notin Txns /\ NoTxn \notin Crawlers /\ NoTxn \notin Indexers /\ NoTxn \notin Owners
    /\ Crawlers \cap Indexers = {} /\ Crawlers \cap Owners = {} /\ Indexers \cap Owners = {}
    /\ Txns = Crawlers \cup Indexers \cup Owners
    /\ MaxCrawls \in Nat /\ MaxDenials \in Nat
  BY CorpusAssumption DEF CorpusAssumption, Children, Sources, Txns

\* What each operation of RowLocks makes of a row.
LEMMA RowFacts ==
    ASSUME NEW V, NEW r \in Row(V, Txns), NEW t \in Txns
    PROVE  /\ r.val \in V /\ r.work \in V /\ r.lock \in Txns \cup {NoTxn}
           /\ View(t, r) \in V
           /\ \A v \in V : /\ Write(t, r, v) \in Row(V, Txns)
                           /\ Write(t, r, v).val = r.val /\ Write(t, r, v).work = v
                           /\ Write(t, r, v).lock = t
  BY DEF Row, Write, View

LEMMA HoldFacts ==
    ASSUME NEW V, NEW r \in Row(V, Txns), NEW t \in Txns
    PROVE  /\ Hold(t, r) \in Row(V, Txns)
           /\ Hold(t, r).val = r.val /\ Hold(t, r).work = View(t, r) /\ Hold(t, r).lock = t
  BY RowFacts DEF Hold

LEMMA EndFacts ==
    ASSUME NEW V, NEW r \in Row(V, Txns), NEW t \in Txns
    PROVE  /\ CommitRow(t, r) \in Row(V, Txns)
           /\ r.lock # t => CommitRow(t, r) = r
           /\ r.lock = t => /\ CommitRow(t, r).val = r.work /\ CommitRow(t, r).work = r.work
                            /\ CommitRow(t, r).lock = NoTxn
           /\ RollbackRow(t, r) \in Row(V, Txns)
           /\ r.lock # t => RollbackRow(t, r) = r
           /\ r.lock = t => /\ RollbackRow(t, r).val = r.val /\ RollbackRow(t, r).work = r.val
                            /\ RollbackRow(t, r).lock = NoTxn
<1>1. r.val \in V /\ r.work \in V
  BY DEF Row
<1>2. \A v \in V : /\ Settled(v) \in Row(V, Txns)
                   /\ Settled(v).val = v /\ Settled(v).work = v /\ Settled(v).lock = NoTxn
  BY DEF Row, Settled
<1> QED
  BY <1>1, <1>2 DEF CommitRow, RollbackRow

\* The statuses of a source of kind s.
StatusOf(s) == IF s \in Media THEN MediaStatus ELSE TextStatus

\* The fields of the state, one by one.
LEMMA Fields ==
    ASSUME TypeOK
    PROVE  /\ \A s \in Sources :
                /\ source[s] \in Row(SourceVersion, Txns)
                /\ source[s].val \in SourceVersion /\ source[s].work \in SourceVersion
                /\ source[s].lock \in Txns \cup {NoTxn}
                /\ source[s].val.status \in StatusOf(s) /\ source[s].work.status \in StatusOf(s)
                /\ source[s].val.body \in Content \cup {Empty}
                /\ source[s].work.body \in Content \cup {Empty}
           /\ \A x \in Chunks :
                /\ chunk[x] \in Row(Flags, Txns) /\ embedding[x] \in Row(Flags, Txns)
                /\ chunk[x].lock \in Txns \cup {NoTxn}
                /\ chunk[x].val \in Flags /\ chunk[x].work \in Flags
           /\ denied \in Row(BOOLEAN, Txns) /\ denied.val \in BOOLEAN /\ denied.work \in BOOLEAN
           /\ denied.lock \in Txns \cup {NoTxn}
           /\ tx \in [Txns -> TxState]
           /\ \A t \in Txns :
                /\ tx[t] \in TxState /\ tx[t].pc \in Stages /\ tx[t].todo \subseteq Sources
                /\ tx[t].now \in Sources /\ tx[t].loaded \in SourceVersion
                /\ tx[t].owner \in BOOLEAN /\ tx[t].open \in BOOLEAN
                /\ tx[t].matched \subseteq Pairs
<1>1. \A s \in Sources :
        /\ source[s] \in Row(SourceVersion, Txns)
        /\ source[s].val \in SourceVersion /\ source[s].work \in SourceVersion
        /\ source[s].lock \in Txns \cup {NoTxn}
  BY DEF TypeOK, Row
<1>2. \A s \in Sources :
        /\ source[s].val.status \in StatusOf(s) /\ source[s].work.status \in StatusOf(s)
  BY DEF TypeOK, StatusOf
<1>3. \A s \in Sources :
        /\ source[s].val.body \in Content \cup {Empty}
        /\ source[s].work.body \in Content \cup {Empty}
  BY <1>1 DEF SourceVersion
<1>4. \A x \in Chunks :
        /\ chunk[x] \in Row(Flags, Txns) /\ embedding[x] \in Row(Flags, Txns)
        /\ chunk[x].lock \in Txns \cup {NoTxn}
        /\ chunk[x].val \in Flags /\ chunk[x].work \in Flags
  BY DEF TypeOK, Row, Chunks
<1>5. /\ denied \in Row(BOOLEAN, Txns) /\ denied.val \in BOOLEAN /\ denied.work \in BOOLEAN
      /\ denied.lock \in Txns \cup {NoTxn}
  BY DEF TypeOK, Row
<1>6. /\ tx \in [Txns -> TxState]
      /\ \A t \in Txns :
           /\ tx[t] \in TxState /\ tx[t].pc \in Stages /\ tx[t].todo \subseteq Sources
           /\ tx[t].now \in Sources /\ tx[t].loaded \in SourceVersion
           /\ tx[t].owner \in BOOLEAN /\ tx[t].open \in BOOLEAN
           /\ tx[t].matched \subseteq Pairs
  BY DEF TypeOK, TxState
<1> QED
  BY <1>1, <1>2, <1>3, <1>4, <1>5, <1>6

\* The statuses a source can get.
LEMMA StatusFacts ==
    ASSUME NEW s \in Sources
    PROVE  /\ ReadyStatus(s) \in StatusOf(s) /\ IndexedStatus(s) \in StatusOf(s)
           /\ ReadyStatus(s) # "absent" /\ IndexedStatus(s) # "absent"
           /\ ReadyStatus(s) # IndexedStatus(s)
           /\ ReadyStatus(s) \notin Hidden /\ IndexedStatus(s) \notin Hidden
           /\ IndexedStatus(s) # "excluded" /\ ReadyStatus(s) # "excluded"
           /\ s \notin Media => {"SANITIZED", "DELETED", "DENIED"} \subseteq StatusOf(s)
           /\ s \in Media => {"ocr_ready", "rejected", "excluded"} \subseteq StatusOf(s)
           /\ StatusOf(s) \subseteq TextStatus \cup MediaStatus
  BY DEF ReadyStatus, IndexedStatus, StatusOf, TextStatus, MediaStatus, Hidden


-----------------------------------------------------------------------------
(* What a step of one transaction leaves to the others.                    *)

KeepsRows(t) ==
    /\ \A s \in Sources : \A u \in Txns \ {t} :
         source[s].lock = u \/ source'[s].lock = u => source'[s] = source[s]
    /\ \A s \in Sources : Stored(source[s].val) => Stored(source'[s].val)

KeepsChunks(t) ==
    /\ \A x \in Chunks : \A u \in Txns \ {t} :
         chunk[x].lock = u \/ chunk'[x].lock = u => chunk'[x] = chunk[x]
    /\ \A x \in Chunks : chunk[x].val # "absent" => chunk'[x].val # "absent"
    /\ \A x \in Chunks :
         chunk[x].val = "absent" /\ chunk'[x].val # "absent" => source[x[1]].lock = t

KeepsDenied(t) ==
    /\ \A u \in Txns \ {t} : denied.lock = u => denied' = denied
    /\ denied.val => denied'.val

\* No step of t changes what is another transaction's.
Apart(t) ==
    /\ KeepsRows(t) /\ KeepsChunks(t) /\ KeepsDenied(t)
    /\ \A u \in Txns \ {t} : tx'[u] = tx[u]

LEMMA CrawlApart ==
    ASSUME TypeOK, NEW t \in Txns, Apart(t), NEW u \in Crawlers, u # t, CrawlInv(u), SweepInv(u)
    PROVE  CrawlInv(u)' /\ SweepInv(u)'
<1>1. u \in Txns \ {t} /\ tx'[u] = tx[u] /\ Article \in Sources
  BY Constants DEF Apart
<1>2. \A s \in Sources : source[s].lock = u \/ source'[s].lock = u => source'[s] = source[s]
  BY <1>1 DEF Apart, KeepsRows
<1>3. \A x \in Chunks : chunk[x].lock = u \/ chunk'[x].lock = u => chunk'[x] = chunk[x]
  BY <1>1 DEF Apart, KeepsChunks
<1>4. Stored(source[Article].val) => Stored(source'[Article].val)
  BY <1>1 DEF Apart, KeepsRows
<1>5. \A x \in Chunks : x[1] \in Sources
  BY DEF Chunks
<1>6. LocksNone(u) => LocksNone(u)'
  BY <1>2 DEF LocksNone
<1>7. LocksNoChunk(u) => LocksNoChunk(u)'
  BY <1>3 DEF LocksNoChunk
<1>8. CrawlInv(u)'
  <2>1. tx'[u].pc \in CrawlStages /\ ~tx'[u].owner
    BY <1>1 DEF CrawlInv
  <2>2. /\ tx'[u].pc \in {"idle", "upsert_article", "insert_article"} => LocksNone(u)'
        /\ tx'[u].pc \notin AfterChunks => LocksNoChunk(u)'
    BY <1>1, <1>6, <1>7 DEF CrawlInv
  <2>3. \A s \in Sources :
          source'[s].lock = u /\ source'[s].work.status = IndexedStatus(s) =>
            source'[s].work.body = source'[s].val.body /\ source'[s].val.status = IndexedStatus(s)
    BY <1>2 DEF CrawlInv
  <2>4. source'[Article].lock = u /\ source'[Article].work.status = "DENIED" =>
          source'[Article].val.status = "DENIED"
    BY <1>1, <1>2 DEF CrawlInv
  <2>5. tx'[u].pc \in ExcludeStages => source'[Article] = source[Article]
    BY <1>1, <1>2 DEF CrawlInv
  <2> QED
    BY <1>1, <2>1, <2>2, <2>3, <2>4, <2>5 DEF CrawlInv, ExcludeStages
<1>9. SweepInv(u)'
  BY <1>1, <1>2, <1>3, <1>5 DEF SweepInv
<1> QED
  BY <1>8, <1>9

LEMMA OwnApart ==
    ASSUME TypeOK, NEW t \in Txns, Apart(t), NEW u \in Owners, u # t, OwnInv(u)
    PROVE  OwnInv(u)'
<1>1. u \in Txns \ {t} /\ tx'[u] = tx[u] /\ Article \in Sources
  BY Constants DEF Apart
<1>2. LocksNone(u) => LocksNone(u)'
  BY <1>1 DEF LocksNone, Apart, KeepsRows
<1>3. LocksNoChunk(u) => LocksNoChunk(u)'
  BY <1>1 DEF LocksNoChunk, Apart, KeepsChunks
<1>4. Stored(source[Article].val) => Stored(source'[Article].val)
  BY <1>1 DEF Apart, KeepsRows
<1>5. /\ denied.val => denied'.val
      /\ denied.lock = u => denied'.lock = u
  BY <1>1 DEF Apart, KeepsDenied
<1> QED
  BY <1>1, <1>2, <1>3, <1>4, <1>5 DEF OwnInv

LEMMA HideApart ==
    ASSUME TypeOK, NEW t \in Txns, Apart(t), NEW u \in Txns, u # t, HideInv(u), OpenInv(u)
    PROVE  HideInv(u)' /\ OpenInv(u)'
<1>1. u \in Txns \ {t} /\ tx'[u] = tx[u] /\ Article \in Sources
  BY Constants DEF Apart
<1>2. source[Article].lock = u \/ source'[Article].lock = u => source'[Article] = source[Article]
  BY <1>1 DEF Apart, KeepsRows
<1>3. \A x \in Chunks : chunk[x].lock = u \/ chunk'[x].lock = u => chunk'[x] = chunk[x]
  BY <1>1 DEF Apart, KeepsChunks
<1>4. \A x \in Chunks : chunk[x].val # "absent" => chunk'[x].val # "absent"
  BY DEF Apart, KeepsChunks
<1>5. \A x \in Chunks :
        chunk[x].val = "absent" /\ chunk'[x].val # "absent" => source[x[1]].lock = t
  BY DEF Apart, KeepsChunks
<1>6. \A c \in Content : <<Article, c>> \in Chunks /\ <<Article, c>>[1] = Article
  BY <1>1 DEF Chunks
<1>7. HideInv(u)'
  <2> SUFFICES ASSUME source'[Article].lock = u, source'[Article].work.status \in Hidden,
                      source'[Article].val.status \notin Hidden
               PROVE  /\ tx'[u].pc \in {"exclude_chunks"} \cup AfterChunks
                      /\ \A c \in Content : chunk'[<<Article, c>>].val # "absent" =>
                           /\ tx'[u].pc = "exclude_chunks" /\ tx'[u].open =>
                                <<Article, c>> \in tx'[u].matched
                           /\ tx'[u].pc \in AfterChunks => chunk'[<<Article, c>>].lock = u
    BY DEF HideInv
  <2>1. source'[Article] = source[Article]
    BY <1>2
  <2>2. /\ tx[u].pc \in {"exclude_chunks"} \cup AfterChunks
        /\ \A c \in Content : chunk[<<Article, c>>].val # "absent" =>
             /\ tx[u].pc = "exclude_chunks" /\ tx[u].open => <<Article, c>> \in tx[u].matched
             /\ tx[u].pc \in AfterChunks => chunk[<<Article, c>>].lock = u
    BY <2>1 DEF HideInv
  <2>3. \A c \in Content :
          chunk'[<<Article, c>>].val # "absent" => chunk[<<Article, c>>].val # "absent"
    BY <1>5, <1>6, <2>1
  <2> QED
    BY <1>1, <1>3, <1>6, <2>2, <2>3
<1>8. OpenInv(u)'
  BY <1>1, <1>4 DEF OpenInv
<1> QED
  BY <1>7, <1>8

LEMMA IndexApart ==
    ASSUME TypeOK, NEW t \in Txns, Apart(t), NEW u \in Indexers, u # t, IndexInv(u)
    PROVE  IndexInv(u)'
<1>1. u \in Txns \ {t} /\ tx'[u] = tx[u]
  BY Constants DEF Apart
<1>2. \A s \in Sources : source[s].lock = u \/ source'[s].lock = u => source'[s] = source[s]
  BY <1>1 DEF Apart, KeepsRows
<1>3. \A x \in Chunks : chunk[x].lock = u \/ chunk'[x].lock = u => chunk'[x] = chunk[x]
  BY <1>1 DEF Apart, KeepsChunks
<1>4. \A x \in Chunks : source[x[1]].lock = u => (chunk'[x].val = "absent" <=> chunk[x].val = "absent")
  BY <1>1 DEF Apart, KeepsChunks
<1>5. Mine(u)' = Mine(u)
  BY <1>2 DEF Mine
<1>6. \A s \in Mine(u) : s \in Sources /\ source[s].lock = u /\ source'[s] = source[s]
  BY <1>2 DEF Mine
<1>7. \A s \in Mine(u), c \in Content : <<s, c>> \in Chunks /\ <<s, c>>[1] = s
  BY <1>6 DEF Chunks
<1>8. \A s \in Mine(u) : Replaced(u, s) => Replaced(u, s)'
  BY <1>3, <1>4, <1>6, <1>7 DEF Replaced
<1>9. \A s \in Mine(u) : Written(u, s) => Written(u, s)'
  <2> SUFFICES ASSUME NEW s \in Mine(u), Written(u, s), source[s].work.body # Empty
               PROVE  LET x == <<s, source[s].work.body>>
                      IN chunk'[x].lock = u /\ chunk'[x].work = "on"
    BY <1>6 DEF Written
  <2>1. <<s, source[s].work.body>> \in Chunks
    BY <1>6, <1>7, Fields
  <2> QED
    BY <1>3, <2>1 DEF Written
<1>10. tx[u].now \in Mine(u) =>
         {x \in StaleChunks(u) : chunk[x].val # "absent"}'
           = {x \in StaleChunks(u) : chunk[x].val # "absent"}
  <2> SUFFICES ASSUME tx[u].now \in Mine(u)
               PROVE  {x \in StaleChunks(u)' : chunk'[x].val # "absent"}
                        = {x \in StaleChunks(u) : chunk[x].val # "absent"}
    OBVIOUS
  <2>1. StaleChunks(u)' = StaleChunks(u)
    BY <1>1, <1>6 DEF StaleChunks, View
  <2>2. \A x \in StaleChunks(u) : x \in Chunks /\ source[x[1]].lock = u
    BY <1>6 DEF StaleChunks, Chunks
  <2> QED
    BY <1>4, <2>1, <2>2
<1>11. tx[u].pc = "idle" => LocksNone(u)'
  BY <1>2 DEF LocksNone, IndexInv
<1>12. tx[u].pc = "stale_chunks" => tx[u].now \in Mine(u)
  BY DEF IndexInv
<1>13. \A s \in Sources : source'[s].lock = u =>
         source'[s].val.status = ReadyStatus(s) /\ source'[s].work.body = source'[s].val.body
  BY <1>2 DEF IndexInv
<1>14. tx[u].pc \in {"next_source", "stale_chunks", "stale_embeddings"} =>
         \A x \in Chunks : chunk'[x].lock = u => chunk'[x].val # "absent" /\ chunk'[x].work = "off"
  BY <1>3 DEF IndexInv
<1>15. tx[u].pc \in {"stale_chunks", "stale_embeddings"} =>
         source'[tx[u].now].work.status = IndexedStatus(tx[u].now)
  BY <1>6 DEF IndexInv
<1>16. tx[u].pc = "write_chunks" => \A s \in tx[u].todo : source'[s].work.body # Empty
  BY <1>6 DEF IndexInv
<1>17. tx[u].pc = "stale_chunks" /\ tx[u].open =>
         tx[u].matched = {x \in StaleChunks(u) : chunk[x].val # "absent"}'
  BY <1>10, <1>12 DEF IndexInv
<1>18. /\ tx[u].pc = "next_source" => \A s \in Mine(u) \ tx[u].todo : Replaced(u, s)'
       /\ tx[u].pc = "stale_chunks" =>
            \A s \in Mine(u) \ (tx[u].todo \cup {tx[u].now}) : Replaced(u, s)'
       /\ tx[u].pc = "stale_embeddings" => \A s \in Mine(u) \ tx[u].todo : Replaced(u, s)'
       /\ tx[u].pc \in {"write_chunks", "commit"} => \A s \in Mine(u) : Replaced(u, s)'
  BY <1>8 DEF IndexInv
<1>19. /\ tx[u].pc = "write_chunks" => \A s \in Mine(u) \ tx[u].todo : Written(u, s)'
       /\ tx[u].pc = "commit" => \A s \in Mine(u) : Written(u, s)'
  BY <1>9 DEF IndexInv
<1>20. /\ tx[u].pc \in IndexStages
       /\ tx[u].pc \in {"next_source", "stale_chunks", "stale_embeddings", "write_chunks"} =>
            tx[u].todo \subseteq Mine(u)
       /\ tx[u].pc \in {"stale_chunks", "stale_embeddings"} => tx[u].now \in Mine(u) \ tx[u].todo
  BY DEF IndexInv
<1> QED
  BY <1>1, <1>5, <1>11, <1>13, <1>14, <1>15, <1>16, <1>17, <1>18, <1>19, <1>20 DEF IndexInv

\* The step of another transaction leaves what holds of this one.
LEMMA LocalApart ==
    ASSUME TypeOK, NEW t \in Txns, Apart(t), NEW u \in Txns, u # t, Local(u)
    PROVE  Local(u)'
<1>1. u \in Crawlers => CrawlInv(u)' /\ SweepInv(u)'
  BY CrawlApart DEF Local
<1>2. u \in Owners => OwnInv(u)'
  BY OwnApart DEF Local
<1>3. u \in Indexers => IndexInv(u)'
  BY IndexApart DEF Local
<1>4. (u \in Crawlers \cup Owners => HideInv(u)') /\ OpenInv(u)'
  <2>1. OpenInv(u)'
    <3>1. /\ tx'[u] = tx[u]
          /\ \A x \in Chunks : chunk[x].val # "absent" => chunk'[x].val # "absent"
      BY DEF Apart, KeepsChunks
    <3> QED
      BY <3>1 DEF OpenInv, Local
  <2>2. u \in Crawlers \cup Owners => HideInv(u)'
    BY HideApart DEF Local
  <2> QED
    BY <2>1, <2>2
<1> QED
  BY <1>1, <1>2, <1>3, <1>4 DEF Local

-----------------------------------------------------------------------------
(* Steps that publish nothing: a transaction locks rows and prepares their *)
(* next versions.                                                          *)

QuietRow(t, s) ==
    \/ source'[s] = source[s]
    \/ /\ source[s].lock \in {t, NoTxn} /\ source'[s].lock = t
       /\ source'[s].val = source[s].val
       /\ Stored(source'[s].work) /\ HasText(s, source'[s].work)

QuietRows(t) ==
    /\ \A s \in Sources : QuietRow(t, s)
    /\ t \in Indexers => \A s \in Sources :
         source[s].lock = t => source'[s].work.body = source[s].work.body

QuietChunk(t, x) ==
    \/ chunk'[x] = chunk[x]
    \/ /\ chunk[x].lock \in {t, NoTxn} /\ chunk'[x].lock = t
       /\ chunk'[x].val = chunk[x].val /\ chunk'[x].work \in {"on", "off"}
       /\ t \in Indexers =>
            /\ source'[x[1]].lock = t
            /\ chunk'[x].work = "on" => x[2] = source'[x[1]].work.body
       /\ t \in Crawlers \cup Owners => chunk[x].val # "absent" /\ chunk'[x].work = "off"

QuietDenied(t) ==
    \/ denied' = denied
    \/ /\ denied.lock \in {t, NoTxn} /\ denied'.lock = t
       /\ denied'.val = denied.val /\ denied'.work = TRUE

Quiet(t) ==
    /\ QuietRows(t) /\ (\A x \in Chunks : QuietChunk(t, x)) /\ QuietDenied(t)
    /\ \A u \in Txns \ {t} : tx'[u] = tx[u]

LEMMA QuietVals ==
    ASSUME NEW t \in Txns, Quiet(t)
    PROVE  /\ \A s \in Sources : source'[s].val = source[s].val
           /\ \A x \in Chunks : chunk'[x].val = chunk[x].val
           /\ denied'.val = denied.val
<1>1. \A s \in Sources : source'[s].val = source[s].val
  BY DEF Quiet, QuietRows, QuietRow
<1>2. \A x \in Chunks : chunk'[x].val = chunk[x].val
  BY DEF Quiet, QuietChunk
<1>3. denied'.val = denied.val
  BY DEF Quiet, QuietDenied
<1> QED
  BY <1>1, <1>2, <1>3

LEMMA QuietApart ==
    ASSUME NEW t \in Txns, Quiet(t)
    PROVE  Apart(t)
<1>1. t # NoTxn /\ NoTxn \notin Txns
  BY Constants
<1>2. KeepsRows(t)
  <2>1. \A s \in Sources : \A u \in Txns \ {t} :
          source[s].lock = u \/ source'[s].lock = u => source'[s] = source[s]
    BY <1>1 DEF Quiet, QuietRows, QuietRow
  <2> QED
    BY <2>1, QuietVals DEF KeepsRows
<1>3. KeepsChunks(t)
  <2>1. \A x \in Chunks : \A u \in Txns \ {t} :
          chunk[x].lock = u \/ chunk'[x].lock = u => chunk'[x] = chunk[x]
    BY <1>1 DEF Quiet, QuietChunk
  <2> QED
    BY <2>1, QuietVals DEF KeepsChunks
<1>4. KeepsDenied(t)
  <2>1. \A u \in Txns \ {t} : denied.lock = u => denied' = denied
    BY <1>1 DEF Quiet, QuietDenied
  <2> QED
    BY <2>1, QuietVals DEF KeepsDenied
<1> QED
  BY <1>2, <1>3, <1>4 DEF Apart, Quiet

LEMMA QuietRowsInv ==
    ASSUME NEW t \in Txns, Quiet(t), NEW s \in Sources, SourceInv(s)
    PROVE  SourceInv(s)'
<1>1. source'[s].val = source[s].val /\ denied'.val = denied.val
  BY QuietVals
<1>2. QuietRow(t, s)
  BY DEF Quiet, QuietRows
<1>3. CASE source'[s] = source[s]
  BY <1>1, <1>3 DEF SourceInv, HasText
<1>4. CASE source'[s] # source[s]
  <2>1. Stored(source'[s].work) /\ HasText(s, source'[s].work)
    BY <1>2, <1>4 DEF QuietRow
  <2> QED
    BY <1>1, <2>1 DEF SourceInv, HasText
<1> QED
  BY <1>3, <1>4

LEMMA QuietChunksInv ==
    ASSUME NEW t \in Txns, Quiet(t), NEW x \in Chunks, ChunkInv(x)
    PROVE  ChunkInv(x)'
<1>1. x[1] \in Sources
  BY DEF Chunks
<1>2. source'[x[1]].val = source[x[1]].val /\ chunk'[x].val = chunk[x].val
  BY <1>1, QuietVals
<1>3. QuietChunk(t, x)
  BY DEF Quiet
<1>4. /\ t \notin Crawlers \/ t \notin Indexers
      /\ t \notin Owners \/ t \notin Indexers
      /\ t # NoTxn /\ NoTxn \notin Txns /\ Indexers \subseteq Txns
  BY Constants
<1>5. CASE chunk'[x] # chunk[x]
  <2>1. /\ chunk'[x].lock = t /\ chunk'[x].work \in {"on", "off"}
        /\ t \in Indexers =>
             /\ source'[x[1]].lock = t
             /\ chunk'[x].work = "on" => x[2] = source'[x[1]].work.body
        /\ t \in Crawlers \cup Owners => chunk[x].val # "absent" /\ chunk'[x].work = "off"
    BY <1>3, <1>5 DEF QuietChunk
  <2> QED
    BY <1>2, <2>1 DEF ChunkInv
<1>6. CASE chunk'[x] = chunk[x]
  <2>1. chunk[x].lock \in Indexers =>
          /\ source'[x[1]].lock = source[x[1]].lock
          /\ source'[x[1]].work.body = source[x[1]].work.body
    <3> SUFFICES ASSUME chunk[x].lock \in Indexers
                 PROVE  /\ source'[x[1]].lock = source[x[1]].lock
                        /\ source'[x[1]].work.body = source[x[1]].work.body
      OBVIOUS
    <3>1. source[x[1]].lock = chunk[x].lock
      BY DEF ChunkInv
    <3>2. CASE chunk[x].lock = t
      <4>1. QuietRow(t, x[1]) /\ source'[x[1]].work.body = source[x[1]].work.body
        BY <1>1, <3>1, <3>2 DEF Quiet, QuietRows
      <4> QED
        BY <3>1, <3>2, <4>1 DEF QuietRow
    <3>3. CASE chunk[x].lock # t
      <4>1. chunk[x].lock \in Txns \ {t}
        BY <1>4, <3>3
      <4>2. source'[x[1]] = source[x[1]]
        BY <1>1, <3>1, <4>1, QuietApart DEF Apart, KeepsRows
      <4> QED
        BY <4>2
    <3> QED
      BY <3>2, <3>3
  <2> QED
    BY <1>2, <1>6, <2>1 DEF ChunkInv
<1> QED
  BY <1>5, <1>6

\* What search offers is a matter of what is committed.
LEMMA SameFound ==
    ASSUME FoundInv,
           \A s \in Sources : source'[s].val = source[s].val,
           \A x \in Chunks : chunk'[x].val = chunk[x].val,
           denied'.val = denied.val
    PROVE  FoundInv'
<1>1. /\ \A s \in Sources : source'[s].val = source[s].val
      /\ \A x \in Chunks : chunk'[x].val = chunk[x].val
      /\ denied'.val = denied.val
  OBVIOUS
<1>2. OneOn'
  BY <1>1 DEF FoundInv, OneOn
<1>3. \A s \in Sources : Searchable(s)' = Searchable(s)
  BY <1>1 DEF Searchable, Chunks
<1>4. IndexedIsSearchable'
  BY <1>1, <1>3 DEF FoundInv, IndexedIsSearchable
<1>5. ExcludedArticleHidden'
  BY <1>1, <1>3, Constants DEF FoundInv, ExcludedArticleHidden
<1> QED
  BY <1>2, <1>4, <1>5 DEF FoundInv

DeniedInv == denied.lock # NoTxn => denied.work = TRUE

\* All that holds, but what is t's own and what is a start's.
LEMMA QuietStep ==
    ASSUME IInv, NEW t \in Txns, Quiet(t), TypeOK', Local(t)', AloneInv', RepairInv'
    PROVE  IInv'
<1>1. TypeOK /\ FoundInv /\ DeniedInv
  BY DEF IInv, DeniedInv
<1>2. DeniedInv'
  BY <1>1 DEF DeniedInv, Quiet, QuietDenied
<1>3. \A s \in Sources : SourceInv(s)'
  BY QuietRowsInv DEF IInv
<1>4. \A x \in Chunks : ChunkInv(x)'
  BY QuietChunksInv DEF IInv
<1>5. FoundInv'
  BY <1>1, QuietVals, SameFound
<1>6. \A u \in Txns : Local(u)'
  BY <1>1, QuietApart, LocalApart DEF IInv
<1> QED
  BY <1>2, <1>3, <1>4, <1>5, <1>6 DEF IInv, DeniedInv

\* While a process starts, no crawl and no index run does anything.
LEMMA NotStarting ==
    ASSUME IInv, NEW t \in Txns, t \notin Owners, tx[t].pc # "idle"
    PROVE  startup = NoTxn
<1>1. startup # NoTxn => startup \in Owners /\ \A u \in Txns \ {startup} : tx[u].pc = "idle"
  BY DEF IInv, AloneInv
<1> QED
  BY <1>1

LEMMA NoStart ==
    ASSUME startup' = NoTxn
    PROVE  AloneInv' /\ RepairInv'
BY DEF AloneInv, RepairInv

-----------------------------------------------------------------------------
(* How a step changes the state.                                           *)

SourceOK ==
    /\ source \in [Sources -> Row(SourceVersion, Txns)]
    /\ \A s \in Sources :
         {source[s].val.status, source[s].work.status} \subseteq
            IF s \in Media THEN MediaStatus ELSE TextStatus

TablesOK ==
    /\ chunk \in [Sources \X Content -> Row(Flags, Txns)]
    /\ embedding \in [Sources \X Content -> Row(Flags, Txns)]

CountsOK ==
    /\ startup \in Owners \cup {NoTxn}
    /\ crawls \in 0..MaxCrawls
    /\ denials \in 0..MaxDenials

LEMMA TypeParts ==
    TypeOK <=> /\ SourceOK /\ TablesOK /\ denied \in Row(BOOLEAN, Txns)
               /\ tx \in [Txns -> TxState] /\ CountsOK
BY DEF TypeOK, SourceOK, TablesOK, CountsOK

LEMMA TypeNext ==
    ASSUME SourceOK', TablesOK', (denied \in Row(BOOLEAN, Txns))', (tx \in [Txns -> TxState])',
           CountsOK'
    PROVE  TypeOK'
BY DEF TypeOK, SourceOK, TablesOK, CountsOK

LEMMA SameParts ==
    /\ SourceOK /\ UNCHANGED source => SourceOK'
    /\ TablesOK /\ UNCHANGED <<chunk, embedding>> => TablesOK'
    /\ CountsOK /\ UNCHANGED others => CountsOK'
<1>1. SourceOK /\ UNCHANGED source => SourceOK'
  BY DEF SourceOK
<1>2. TablesOK /\ UNCHANGED <<chunk, embedding>> => TablesOK'
  BY DEF TablesOK
<1>3. CountsOK /\ UNCHANGED others => CountsOK'
  BY DEF CountsOK, others
<1> QED
  BY <1>1, <1>2, <1>3

\* One row is written.
LEMMA WriteSource ==
    ASSUME SourceOK, NEW t \in Txns, NEW s \in Sources, NEW v \in SourceVersion,
           v.status \in StatusOf(s),
           source' = [source EXCEPT ![s] = Write(t, source[s], v)]
    PROVE  /\ SourceOK'
           /\ \A r \in Sources : r # s => source'[r] = source[r]
           /\ source'[s].val = source[s].val /\ source'[s].work = v /\ source'[s].lock = t
<1>1. source[s] \in Row(SourceVersion, Txns)
  BY DEF SourceOK
<1>2. /\ Write(t, source[s], v) \in Row(SourceVersion, Txns)
      /\ Write(t, source[s], v).val = source[s].val
      /\ Write(t, source[s], v).work = v
      /\ Write(t, source[s], v).lock = t
  BY <1>1 DEF Row, Write
<1>3. /\ source' \in [Sources -> Row(SourceVersion, Txns)]
      /\ source'[s] = Write(t, source[s], v)
      /\ \A r \in Sources : r # s => source'[r] = source[r]
  BY <1>2 DEF SourceOK
<1>4. \A r \in Sources : source'[r].val.status = source[r].val.status
  BY <1>2, <1>3
<1>5. \A r \in Sources :
        source'[r].work.status = IF r = s THEN v.status ELSE source[r].work.status
  BY <1>2, <1>3
<1>6. SourceOK'
  BY <1>3, <1>4, <1>5 DEF SourceOK, StatusOf
<1> QED
  BY <1>2, <1>3, <1>6

\* The pc of t changes, and nothing else of its state.
LEMMA GotoFacts ==
    ASSUME TypeOK, NEW t \in Txns, NEW stage \in Stages, Goto(t, stage)
    PROVE  /\ tx' \in [Txns -> TxState] /\ \A u \in Txns \ {t} : tx'[u] = tx[u]
           /\ tx'[t].pc = stage /\ tx'[t].todo = tx[t].todo /\ tx'[t].now = tx[t].now
           /\ tx'[t].loaded = tx[t].loaded /\ tx'[t].owner = tx[t].owner
           /\ tx'[t].open = tx[t].open /\ tx'[t].matched = tx[t].matched
BY DEF TypeOK, TxState, Goto

\* A quiet step that writes at most one row.
LEMMA QuietNoRow ==
    ASSUME NEW t \in Txns, source' = source
    PROVE  QuietRows(t)
BY DEF QuietRows, QuietRow

LEMMA QuietOneRow ==
    ASSUME NEW t \in Txns, t \notin Indexers, NEW s \in Sources, Free(t, source[s]),
           \A r \in Sources : r # s => source'[r] = source[r],
           source'[s].val = source[s].val, source'[s].lock = t,
           Stored(source'[s].work), HasText(s, source'[s].work)
    PROVE  QuietRows(t)
BY DEF QuietRows, QuietRow, Free

LEMMA QuietNoTable ==
    ASSUME NEW t \in Txns, QuietRows(t), UNCHANGED <<chunk, denied>>,
           \A u \in Txns \ {t} : tx'[u] = tx[u]
    PROVE  Quiet(t)
BY DEF Quiet, QuietChunk, QuietDenied

-----------------------------------------------------------------------------
(* The crawler, up to an exclusion.                                        *)

Early == {"idle", "upsert_article", "insert_article", "children", "failed"}

\* What a crawl has prepared that hides or indexes is as it was.
Unharmed(t) ==
    \A s \in Sources : source[s].lock = t =>
      /\ source[s].work.status = IndexedStatus(s) =>
           source[s].work.body = source[s].val.body /\ source[s].val.status = IndexedStatus(s)
      /\ s = Article /\ source[s].work.status \in Hidden => source[s].val.status \in Hidden
      /\ s = Article /\ source[s].work.status = "DENIED" => source[s].val.status = "DENIED"

LEMMA EarlyCrawl ==
    ASSUME IInv, NEW t \in Crawlers, tx[t].pc \in Early
    PROVE  /\ t \in Txns /\ t \notin Indexers /\ t \notin Owners
           /\ ~tx[t].owner /\ ~tx[t].open /\ LocksNoChunk(t) /\ Unharmed(t)
           /\ tx[t].pc \in {"idle", "upsert_article", "insert_article"} => LocksNone(t)
<1>1. t \in Txns /\ t \notin Indexers /\ t \notin Owners
  BY Constants
<1>2. CrawlInv(t) /\ HideInv(t) /\ OpenInv(t)
  BY <1>1 DEF IInv, Local
<1>3. ~tx[t].owner
  BY <1>2 DEF CrawlInv
<1>4. ~tx[t].open
  BY <1>2 DEF OpenInv, Early, UpdateStages
<1>5. LocksNoChunk(t)
  BY <1>2 DEF CrawlInv, Early, AfterChunks
<1>6. tx[t].pc \in {"idle", "upsert_article", "insert_article"} => LocksNone(t)
  BY <1>2 DEF CrawlInv
<1>7. tx[t].pc \notin {"exclude_chunks"} \cup AfterChunks
  BY DEF Early, AfterChunks
<1>8. source[Article].lock = t /\ source[Article].work.status \in Hidden =>
        source[Article].val.status \in Hidden
  BY <1>2, <1>7 DEF HideInv
<1>9. Unharmed(t)
  BY <1>2, <1>8 DEF CrawlInv, Unharmed
<1> QED
  BY <1>1, <1>3, <1>4, <1>5, <1>6, <1>9

LEMMA EarlyLocal ==
    ASSUME NEW t \in Crawlers, tx'[t].pc \in (Early \cup {"commit"}) \ {"idle"},
           ~tx'[t].owner, ~tx'[t].open, LocksNoChunk(t)', Unharmed(t)',
           tx'[t].pc \in {"upsert_article", "insert_article"} => LocksNone(t)'
    PROVE  Local(t)'
<1>1. t \notin Indexers /\ t \notin Owners /\ Article \in Sources
  BY Constants
<1>2. tx'[t].pc \in CrawlStages /\ tx'[t].pc \notin ExcludeStages /\ tx'[t].pc # "idle"
  BY DEF Early, CrawlStages, ExcludeStages
<1>3. CrawlInv(t)'
  BY <1>1, <1>2 DEF CrawlInv, Unharmed, ExcludeStages
<1>4. SweepInv(t)'
  BY DEF SweepInv, LocksNoChunk
<1>5. HideInv(t)'
  BY <1>1 DEF HideInv, Unharmed
<1>6. OpenInv(t)'
  BY DEF OpenInv
<1> QED
  BY <1>1, <1>3, <1>4, <1>5, <1>6 DEF Local

\* A crawl that locks and prepares at most one row.
LEMMA EarlyStep ==
    ASSUME IInv, NEW t \in Crawlers, tx[t].pc \in Early,
           tx[t].pc # "idle" \/ startup = NoTxn, startup' = startup, QuietRows(t),
           UNCHANGED <<chunk, embedding, denied>>, SourceOK', CountsOK', tx' \in [Txns -> TxState],
           \A u \in Txns \ {t} : tx'[u] = tx[u],
           tx'[t].pc \in (Early \cup {"commit"}) \ {"idle"},
           tx'[t].owner = tx[t].owner, tx'[t].open = tx[t].open, Unharmed(t)',
           tx'[t].pc \in {"upsert_article", "insert_article"} => LocksNone(t)'
    PROVE  IInv'
<1>1. /\ t \in Txns /\ t \notin Owners
      /\ ~tx[t].owner /\ ~tx[t].open /\ LocksNoChunk(t)
  BY EarlyCrawl
<1>2. TypeOK'
  <2>1. TablesOK' /\ denied' \in Row(BOOLEAN, Txns)
    BY TypeParts, SameParts DEF IInv
  <2> QED
    BY <2>1, TypeNext
<1>3. Quiet(t)
  BY <1>1, QuietNoTable
<1>4. LocksNoChunk(t)'
  BY <1>1 DEF LocksNoChunk
<1>5. ~tx'[t].owner /\ ~tx'[t].open
  BY <1>1
<1>6. Local(t)'
  BY <1>4, <1>5, EarlyLocal
<1>7. startup' = NoTxn
  BY <1>1, NotStarting
<1> QED
  BY <1>1, <1>2, <1>3, <1>6, <1>7, NoStart, QuietStep

\* The counters and the start are as they were.
LEMMA SameCounts ==
    ASSUME IInv, UNCHANGED others
    PROVE  CountsOK' /\ startup' = startup
BY TypeParts, SameParts DEF IInv, others

LEMMA BeginCrawlStep ==
    ASSUME IInv, NEW t \in Crawlers, BeginCrawl(t)
    PROVE  IInv'
<1>1. /\ tx[t].pc = "idle" /\ startup = NoTxn /\ startup' = startup /\ Goto(t, "upsert_article")
      /\ UNCHANGED <<source, chunk, embedding, denied, startup, denials>>
      /\ crawls < MaxCrawls /\ crawls' = crawls + 1
  BY DEF BeginCrawl, MayBegin
<1>2. TypeOK /\ t \in Txns /\ MaxCrawls \in Nat
  BY Constants DEF IInv
<1>3. CountsOK'
  BY <1>1, <1>2, TypeParts DEF CountsOK
<1>4. SourceOK' /\ QuietRows(t)
  BY <1>1, <1>2, TypeParts, SameParts, QuietNoRow
<1>5. /\ tx' \in [Txns -> TxState] /\ (\A u \in Txns \ {t} : tx'[u] = tx[u])
      /\ tx'[t].pc = "upsert_article"
      /\ tx'[t].owner = tx[t].owner /\ tx'[t].open = tx[t].open
  BY <1>1, <1>2, GotoFacts DEF Stages
<1>6. Unharmed(t) /\ LocksNone(t)
  BY <1>1, EarlyCrawl DEF Early
<1>7. Unharmed(t)' /\ LocksNone(t)'
  BY <1>1, <1>6 DEF Unharmed, LocksNone
<1>8. tx[t].pc \in Early /\ tx'[t].pc \in (Early \cup {"commit"}) \ {"idle"}
  BY <1>1, <1>5 DEF Early
<1> QED
  BY <1>1, <1>3, <1>4, <1>5, <1>7, <1>8, EarlyStep

LEMMA MissArticleStep ==
    ASSUME IInv, NEW t \in Crawlers, MissArticle(t)
    PROVE  IInv'
<1>1. /\ tx[t].pc = "upsert_article" /\ Goto(t, "insert_article")
      /\ UNCHANGED <<source, chunk, embedding, denied>> /\ UNCHANGED others
  BY DEF MissArticle
<1>2. TypeOK /\ t \in Txns
  BY Constants DEF IInv
<1>3. CountsOK' /\ startup' = startup
  BY <1>1, SameCounts
<1>4. SourceOK' /\ QuietRows(t)
  BY <1>1, <1>2, TypeParts, SameParts, QuietNoRow
<1>5. /\ tx' \in [Txns -> TxState] /\ (\A u \in Txns \ {t} : tx'[u] = tx[u])
      /\ tx'[t].pc = "insert_article"
      /\ tx'[t].owner = tx[t].owner /\ tx'[t].open = tx[t].open
  BY <1>1, <1>2, GotoFacts DEF Stages
<1>6. Unharmed(t) /\ LocksNone(t)
  BY <1>1, EarlyCrawl DEF Early
<1>7. Unharmed(t)' /\ LocksNone(t)'
  BY <1>1, <1>6 DEF Unharmed, LocksNone
<1>8. tx[t].pc \in Early /\ tx'[t].pc \in (Early \cup {"commit"}) \ {"idle"}
  BY <1>1, <1>5 DEF Early
<1> QED
  BY <1>1, <1>3, <1>4, <1>5, <1>7, <1>8, EarlyStep

LEMMA EndChildrenStep ==
    ASSUME IInv, NEW t \in Crawlers, EndChildren(t)
    PROVE  IInv'
<1>1. /\ tx[t].pc = "children" /\ Goto(t, "commit")
      /\ UNCHANGED <<source, chunk, embedding, denied>> /\ UNCHANGED others
  BY DEF EndChildren
<1>2. TypeOK /\ t \in Txns
  BY Constants DEF IInv
<1>3. CountsOK' /\ startup' = startup
  BY <1>1, SameCounts
<1>4. SourceOK' /\ QuietRows(t)
  BY <1>1, <1>2, TypeParts, SameParts, QuietNoRow
<1>5. /\ tx' \in [Txns -> TxState] /\ (\A u \in Txns \ {t} : tx'[u] = tx[u])
      /\ tx'[t].pc = "commit"
      /\ tx'[t].owner = tx[t].owner /\ tx'[t].open = tx[t].open
  BY <1>1, <1>2, GotoFacts DEF Stages
<1>6. Unharmed(t)
  BY <1>1, EarlyCrawl DEF Early
<1>7. Unharmed(t)'
  BY <1>1, <1>6 DEF Unharmed
<1>8. tx[t].pc \in Early /\ tx'[t].pc \in (Early \cup {"commit"}) \ {"idle"}
  BY <1>1, <1>5 DEF Early
<1> QED
  BY <1>1, <1>3, <1>4, <1>5, <1>7, <1>8, EarlyStep

LEMMA EarlyWrite ==
    ASSUME IInv, NEW t \in Crawlers, tx[t].pc \in Early,
           NEW s \in Sources, Free(t, source[s]), NEW v \in SourceVersion, v.status \in StatusOf(s),
           source' = [source EXCEPT ![s] = Write(t, source[s], v)],
           Stored(v), HasText(s, v),
           v.status = IndexedStatus(s) =>
             v.body = source[s].val.body /\ source[s].val.status = IndexedStatus(s),
           s = Article /\ v.status \in Hidden => source[s].val.status = v.status
    PROVE  SourceOK' /\ QuietRows(t) /\ Unharmed(t)'
<1>1. t \in Txns /\ t \notin Indexers /\ Unharmed(t) /\ SourceOK
  BY EarlyCrawl, TypeParts DEF IInv
<1>2. /\ SourceOK'
      /\ \A r \in Sources : r # s => source'[r] = source[r]
      /\ source'[s].val = source[s].val /\ source'[s].work = v /\ source'[s].lock = t
  BY <1>1, WriteSource
<1>3. QuietRows(t)
  BY <1>1, <1>2, QuietOneRow
<1>4. Unharmed(t)'
  <2> SUFFICES ASSUME NEW r \in Sources, source'[r].lock = t
               PROVE  /\ source'[r].work.status = IndexedStatus(r) =>
                           /\ source'[r].work.body = source'[r].val.body
                           /\ source'[r].val.status = IndexedStatus(r)
                      /\ r = Article /\ source'[r].work.status \in Hidden =>
                           source'[r].val.status \in Hidden
                      /\ r = Article /\ source'[r].work.status = "DENIED" =>
                           source'[r].val.status = "DENIED"
    BY DEF Unharmed
  <2>1. CASE r = s
    BY <1>2, <2>1 DEF Hidden
  <2>2. CASE r # s
    <3>1. source'[r] = source[r]
      BY <1>2, <2>2
    <3> QED
      BY <1>1, <3>1 DEF Unharmed
  <2> QED
    BY <2>1, <2>2
<1> QED
  BY <1>2, <1>3, <1>4

\* Before its first write a crawl reads what is committed, and may hold it.
LEMMA EarlyHold ==
    ASSUME IInv, NEW t \in Crawlers, tx[t].pc \in {"idle", "upsert_article", "insert_article"},
           Free(t, source[Article]), Stored(source[Article].val),
           source' = [source EXCEPT ![Article] = Hold(t, source[Article])]
    PROVE  SourceOK' /\ QuietRows(t) /\ Unharmed(t)'
<1>1. tx[t].pc \in Early
  BY DEF Early
<1>2. View(t, source[Article]) = source[Article].val
  BY <1>1, EarlyCrawl, Constants DEF View, LocksNone
<1>3. source' = [source EXCEPT ![Article] = Write(t, source[Article], source[Article].val)]
  BY <1>2 DEF Hold
<1>4. /\ source[Article].val \in SourceVersion /\ source[Article].val.status \in StatusOf(Article)
      /\ Article \in Sources
  BY Fields, Constants DEF IInv
<1>5. HasText(Article, source[Article].val)
  BY <1>4 DEF IInv, SourceInv
<1> QED
  BY <1>1, <1>3, <1>4, <1>5, EarlyWrite

\* The state of t becomes r.
LEMMA TxSet ==
    ASSUME TypeOK, NEW t \in Txns, NEW r \in TxState, tx' = [tx EXCEPT ![t] = r]
    PROVE  tx' \in [Txns -> TxState] /\ tx'[t] = r /\ \A u \in Txns \ {t} : tx'[u] = tx[u]
BY DEF TypeOK

LEMMA ChildrenFacts ==
    ASSUME TypeOK, NEW t \in Txns, ToChildren(t)
    PROVE  /\ tx' \in [Txns -> TxState] /\ \A u \in Txns \ {t} : tx'[u] = tx[u]
           /\ tx'[t].pc = "children"
           /\ tx'[t].owner = tx[t].owner /\ tx'[t].open = tx[t].open
<1> DEFINE r == [tx[t] EXCEPT !.pc = "children", !.todo = Children]
<1>1. Children \subseteq Sources
  BY DEF Sources
<1>2. r \in TxState /\ r.pc = "children" /\ r.owner = tx[t].owner /\ r.open = tx[t].open
  <2>1. tx[t] \in TxState
    BY Fields
  <2> QED
    BY <1>1, <2>1 DEF TxState, Stages
<1>3. tx' = [tx EXCEPT ![t] = r]
  BY DEF ToChildren
<1> HIDE DEF r
<1> QED
  BY <1>2, <1>3, TxSet

\* An article observed with text c.
LEMMA Observed ==
    ASSUME TypeOK, NEW c \in Content, NEW events \in SUBSET Content
    PROVE  LET v == [status |-> "SANITIZED", body |-> c, emitted |-> events]
           IN /\ v \in SourceVersion /\ v.status \in StatusOf(Article)
              /\ Stored(v) /\ HasText(Article, v)
              /\ v.status # IndexedStatus(Article) /\ v.status \notin Hidden
<1>1. Article \notin Media /\ Empty \notin Content
  BY Constants
<1> QED
  BY <1>1 DEF SourceVersion, TextStatus, MediaStatus, StatusOf, Stored, HasText, IndexedStatus,
        Hidden

LEMMA InsertArticleStep ==
    ASSUME IInv, NEW t \in Crawlers, InsertArticle(t)
    PROVE  IInv'
<1>1. /\ tx[t].pc = "insert_article" /\ Free(t, source[Article]) /\ ToChildren(t)
      /\ UNCHANGED <<chunk, embedding, denied>> /\ UNCHANGED others
  BY DEF InsertArticle
<1>2. TypeOK /\ t \in Txns /\ tx[t].pc \in Early /\ Article \in Sources
  BY <1>1, Constants DEF IInv, Early
<1>3. SourceOK' /\ QuietRows(t) /\ Unharmed(t)'
  <2>1. CASE Stored(source[Article].val)
    <3>1. source' = [source EXCEPT ![Article] = Hold(t, source[Article])]
      BY <2>1 DEF InsertArticle
    <3> QED
      BY <1>1, <2>1, <3>1, EarlyHold
  <2>2. CASE ~Stored(source[Article].val)
    <3>1. PICK c \in Content :
            source' = [source EXCEPT ![Article] =
              Write(t, source[Article], [status |-> "SANITIZED", body |-> c, emitted |-> {c}])]
      BY <2>2 DEF InsertArticle
    <3> DEFINE v == [status |-> "SANITIZED", body |-> c, emitted |-> {c}]
    <3>2. /\ v \in SourceVersion /\ v.status \in StatusOf(Article)
          /\ Stored(v) /\ HasText(Article, v)
          /\ v.status # IndexedStatus(Article) /\ v.status \notin Hidden
      BY <1>2, Observed
    <3>3. source' = [source EXCEPT ![Article] = Write(t, source[Article], v)]
      BY <3>1
    <3> HIDE DEF v
    <3> QED
      BY <1>1, <1>2, <3>2, <3>3, EarlyWrite
  <2> QED
    BY <2>1, <2>2
<1>4. /\ tx' \in [Txns -> TxState] /\ (\A u \in Txns \ {t} : tx'[u] = tx[u])
      /\ tx'[t].pc = "children"
      /\ tx'[t].owner = tx[t].owner /\ tx'[t].open = tx[t].open
  BY <1>1, <1>2, ChildrenFacts
<1>5. CountsOK' /\ startup' = startup
  BY <1>1, SameCounts
<1>6. tx'[t].pc \in (Early \cup {"commit"}) \ {"idle"}
  BY <1>4 DEF Early
<1> QED
  BY <1>1, <1>2, <1>3, <1>4, <1>5, <1>6, EarlyStep

LEMMA ModifyArticleStep ==
    ASSUME IInv, NEW t \in Crawlers, ModifyArticle(t)
    PROVE  IInv'
<1>1. /\ tx[t].pc = "upsert_article" /\ Free(t, source[Article]) /\ Stored(source[Article].val)
      /\ UNCHANGED <<chunk, embedding, denied>> /\ UNCHANGED others
  BY DEF ModifyArticle
<1>2. TypeOK /\ t \in Txns /\ tx[t].pc \in Early /\ Article \in Sources
  BY <1>1, Constants DEF IInv, Early
<1>3. CountsOK' /\ startup' = startup
  BY <1>1, SameCounts
<1> DEFINE old == View(t, source[Article])
<1>4. old \in SourceVersion
  BY <1>2, Fields, RowFacts
<1>5. PICK c \in Content :
        \/ /\ source' = [source EXCEPT ![Article] = Hold(t, source[Article])]
           /\ ToChildren(t) \/ Goto(t, "failed")
        \/ /\ source' = [source EXCEPT ![Article] =
                Write(t, source[Article],
                      [status |-> "SANITIZED", body |-> c, emitted |-> old.emitted \cup {c}])]
           /\ ToChildren(t)
  BY DEF ModifyArticle
<1>6. SourceOK' /\ QuietRows(t) /\ Unharmed(t)'
  <2>1. CASE source' = [source EXCEPT ![Article] = Hold(t, source[Article])]
    BY <1>1, <2>1, EarlyHold
  <2>2. CASE source' # [source EXCEPT ![Article] = Hold(t, source[Article])]
    <3> DEFINE v == [status |-> "SANITIZED", body |-> c, emitted |-> old.emitted \cup {c}]
    <3>1. old.emitted \cup {c} \in SUBSET Content
      BY <1>4 DEF SourceVersion
    <3>2. /\ v \in SourceVersion /\ v.status \in StatusOf(Article)
          /\ Stored(v) /\ HasText(Article, v)
          /\ v.status # IndexedStatus(Article) /\ v.status \notin Hidden
      BY <1>2, <3>1, Observed
    <3>3. source' = [source EXCEPT ![Article] = Write(t, source[Article], v)]
      BY <1>5, <2>2
    <3> HIDE DEF v
    <3> QED
      BY <1>1, <1>2, <3>2, <3>3, EarlyWrite
  <2> QED
    BY <2>1, <2>2
<1>7. /\ tx' \in [Txns -> TxState] /\ (\A u \in Txns \ {t} : tx'[u] = tx[u])
      /\ tx'[t].pc \in {"children", "failed"}
      /\ tx'[t].owner = tx[t].owner /\ tx'[t].open = tx[t].open
  <2>1. CASE ToChildren(t)
    BY <1>2, <2>1, ChildrenFacts
  <2>2. CASE Goto(t, "failed")
    BY <1>2, <2>2, GotoFacts DEF Stages
  <2> QED
    BY <1>5, <2>1, <2>2
<1>8. tx'[t].pc \in (Early \cup {"commit"}) \ {"idle"}
  BY <1>7 DEF Early
<1> QED
  BY <1>1, <1>2, <1>3, <1>6, <1>7, <1>8, EarlyStep

\* A child's new version: stored, with a text or not to be indexed.
LEMMA ChildFacts ==
    ASSUME NEW s \in Children, NEW old \in SourceVersion, NEW v \in ChildVersions(s, old)
    PROVE  /\ v \in SourceVersion /\ v.status \in StatusOf(s)
           /\ Stored(v) /\ HasText(s, v) /\ v.status # IndexedStatus(s)
<1>1. /\ Empty \notin Content /\ Comments \cap Media = {}
      /\ s \in Comments \/ s \in Media
  BY Constants DEF Children
<1>2. CASE s \in Comments
  <2>1. \/ \E c \in Content : v = [old EXCEPT !.status = "SANITIZED", !.body = c]
        \/ v = [old EXCEPT !.status = "DELETED", !.body = Empty]
    BY <1>2 DEF ChildVersions
  <2>2. v \in SourceVersion
    BY <2>1 DEF SourceVersion, TextStatus
  <2>3. (v.status = "SANITIZED" /\ v.body \in Content) \/ v.status = "DELETED"
    BY <2>1 DEF SourceVersion
  <2> QED
    BY <1>1, <1>2, <2>2, <2>3
    DEF StatusOf, TextStatus, Stored, HasText, ReadyStatus, IndexedStatus
<1>3. CASE s \in Media
  <2>1. \/ v.status = "ocr_ready" /\ v.body \in Content /\ v \in SourceVersion
        \/ v.status = "rejected" /\ v \in SourceVersion
    <3>1. \/ \E c \in Content : v = [old EXCEPT !.status = "ocr_ready", !.body = c]
          \/ v = [old EXCEPT !.status = "rejected"]
      BY <1>1, <1>3 DEF ChildVersions
    <3> QED
      BY <3>1 DEF SourceVersion, MediaStatus
  <2> QED
    BY <1>1, <1>3, <2>1
    DEF StatusOf, MediaStatus, Stored, HasText, ReadyStatus, IndexedStatus
<1> QED
  BY <1>1, <1>2, <1>3

LEMMA TodoFacts ==
    ASSUME TypeOK, NEW t \in Txns, NEW todo \in SUBSET Sources, tx' = [tx EXCEPT ![t].todo = todo]
    PROVE  /\ tx' \in [Txns -> TxState] /\ \A u \in Txns \ {t} : tx'[u] = tx[u]
           /\ tx'[t].pc = tx[t].pc /\ tx'[t].todo = todo
           /\ tx'[t].owner = tx[t].owner /\ tx'[t].open = tx[t].open
<1> DEFINE r == [tx[t] EXCEPT !.todo = todo]
<1>1. /\ r \in TxState /\ r.pc = tx[t].pc /\ r.todo = todo
      /\ r.owner = tx[t].owner /\ r.open = tx[t].open
  <2>1. tx[t] \in TxState
    BY Fields
  <2> QED
    BY <2>1 DEF TxState
<1>2. tx' = [tx EXCEPT ![t] = r]
  OBVIOUS
<1> HIDE DEF r
<1> QED
  BY <1>1, <1>2, TxSet

LEMMA UpsertChildStep ==
    ASSUME IInv, NEW t \in Crawlers, NEW s \in Children, UpsertChild(t, s)
    PROVE  IInv'
<1>1. /\ tx[t].pc = "children"
      /\ \/ UNCHANGED source
         \/ /\ Free(t, source[s])
            /\ \E v \in ChildVersions(s, View(t, source[s])) :
                  source' = [source EXCEPT ![s] = Write(t, source[s], v)]
      /\ tx' = [tx EXCEPT ![t].todo = tx[t].todo \ {s}]
      /\ UNCHANGED <<chunk, embedding, denied>> /\ UNCHANGED others
  BY DEF UpsertChild
<1>2. /\ TypeOK /\ t \in Txns /\ tx[t].pc \in Early
      /\ s \in Sources /\ s # Article
  BY <1>1, Constants DEF IInv, Early, Sources
<1>3. CountsOK' /\ startup' = startup
  BY <1>1, SameCounts
<1>4. SourceOK' /\ QuietRows(t) /\ Unharmed(t)'
  <2>1. CASE UNCHANGED source
    <3>1. SourceOK' /\ QuietRows(t)
      BY <1>2, <2>1, TypeParts, SameParts, QuietNoRow
    <3>2. Unharmed(t)
      BY <1>2, EarlyCrawl
    <3>3. Unharmed(t)'
      BY <2>1, <3>2 DEF Unharmed
    <3> QED
      BY <3>1, <3>3
  <2>2. CASE ~UNCHANGED source
    <3>1. Free(t, source[s])
      BY <1>1, <2>2
    <3>2. PICK v \in ChildVersions(s, View(t, source[s])) :
            source' = [source EXCEPT ![s] = Write(t, source[s], v)]
      BY <1>1, <2>2
    <3>3. View(t, source[s]) \in SourceVersion
      BY <1>2, Fields, RowFacts
    <3>4. /\ v \in SourceVersion /\ v.status \in StatusOf(s)
          /\ Stored(v) /\ HasText(s, v) /\ v.status # IndexedStatus(s)
      BY <3>3, ChildFacts
    <3> QED
      BY <1>2, <3>1, <3>2, <3>4, EarlyWrite
  <2> QED
    BY <2>1, <2>2
<1>5. /\ tx' \in [Txns -> TxState] /\ (\A u \in Txns \ {t} : tx'[u] = tx[u])
      /\ tx'[t].pc = "children"
      /\ tx'[t].owner = tx[t].owner /\ tx'[t].open = tx[t].open
  <2>1. tx[t].todo \ {s} \in SUBSET Sources
    BY <1>2, Fields
  <2> QED
    BY <1>1, <1>2, <2>1, TodoFacts
<1>6. tx'[t].pc \in (Early \cup {"commit"}) \ {"idle"}
  BY <1>5 DEF Early
<1> QED
  BY <1>1, <1>2, <1>3, <1>4, <1>5, <1>6, EarlyStep

-----------------------------------------------------------------------------
(* An exclusion, by a crawl or by the owner.                               *)

LEMMA Excluder ==
    ASSUME IInv, NEW t \in Txns, tx[t].pc \in ExcludeStages
    PROVE  /\ t \in Crawlers \cup Owners /\ t \notin Indexers
           /\ t \in Crawlers => t \notin Owners
           /\ t \in Crawlers => CrawlInv(t) /\ SweepInv(t) /\ ~tx[t].owner
           /\ t \in Owners => OwnInv(t) /\ tx[t].owner
           /\ HideInv(t) /\ OpenInv(t)
<1>1. Local(t)
  BY DEF IInv
<1>2. /\ t \in Crawlers \/ t \in Owners \/ t \in Indexers
      /\ t \in Crawlers => t \notin Owners
  BY Constants
<1>3. t \notin Indexers
  BY <1>1 DEF Local, IndexInv, IndexStages, ExcludeStages
<1>4. t \in Crawlers => CrawlInv(t) /\ SweepInv(t)
  BY <1>1 DEF Local
<1>5. t \in Crawlers => ~tx[t].owner
  BY <1>4 DEF CrawlInv
<1>6. t \in Owners => OwnInv(t)
  BY <1>1 DEF Local
<1>7. t \in Owners => tx[t].owner
  BY <1>6 DEF OwnInv
<1> QED
  BY <1>1, <1>2, <1>3, <1>4, <1>5, <1>6, <1>7 DEF Local

\* A process that starts is the only one that does something.
LEMMA OurStart ==
    ASSUME IInv, NEW t \in Txns, tx[t].pc # "idle", startup # NoTxn
    PROVE  /\ startup = t /\ t \in Owners /\ denied.val /\ Stored(source[Article].val)
           /\ tx[t].pc \in ExcludeStages \cup {"add_denylist", "commit"}
           /\ tx[t].loaded = source[Article].val
           /\ RepairArticle(t) /\ RepairChunks(t) /\ RepairComments(t)
<1>1. /\ startup \in Owners /\ \A u \in Txns \ {startup} : tx[u].pc = "idle"
      /\ denied.val /\ Stored(source[Article].val)
      /\ tx[startup].pc \in ExcludeStages \cup {"add_denylist", "commit"}
      /\ tx[startup].loaded = source[Article].val
  BY DEF IInv, AloneInv
<1>2. startup = t
  BY <1>1
<1> QED
  BY <1>1, <1>2 DEF IInv, RepairInv

LEMMA StartStep ==
    ASSUME IInv, NEW t \in Txns, tx[t].pc # "idle", Quiet(t), startup' = startup,
           startup = t => /\ tx'[t].pc \in ExcludeStages \cup {"add_denylist", "commit"}
                          /\ tx'[t].loaded = tx[t].loaded
                          /\ RepairArticle(t)' /\ RepairChunks(t)' /\ RepairComments(t)'
    PROVE  AloneInv' /\ RepairInv'
<1>1. CASE startup = NoTxn
  BY <1>1, NoStart
<1>2. CASE startup # NoTxn
  <2>1. /\ startup = t /\ t \in Owners /\ denied.val /\ Stored(source[Article].val)
        /\ tx[t].loaded = source[Article].val
    BY <1>2, OurStart
  <2>2. \A u \in Txns \ {startup} : tx'[u].pc = "idle"
    BY <1>2, <2>1 DEF IInv, AloneInv, Quiet
  <2>3. denied'.val /\ Stored(source'[Article].val) /\ tx'[t].loaded = source'[Article].val
    BY <2>1, QuietVals, Constants
  <2>4. AloneInv'
    BY <2>1, <2>2, <2>3 DEF AloneInv
  <2>5. RepairInv'
    BY <2>1 DEF RepairInv
  <2> QED
    BY <2>4, <2>5
<1> QED
  BY <1>1, <1>2

\* The step of an exclusion: what is left to show.
LEMMA ExcludeStep ==
    ASSUME IInv, NEW t \in Txns, tx[t].pc \in ExcludeStages, Quiet(t), UNCHANGED others,
           SourceOK', TablesOK', denied' = denied, tx' \in [Txns -> TxState],
           t \in Crawlers => CrawlInv(t)' /\ SweepInv(t)',
           t \in Owners => OwnInv(t)',
           HideInv(t)', OpenInv(t)',
           startup = t => /\ tx'[t].pc \in ExcludeStages \cup {"add_denylist", "commit"}
                          /\ tx'[t].loaded = tx[t].loaded
                          /\ RepairArticle(t)' /\ RepairChunks(t)' /\ RepairComments(t)'
    PROVE  IInv'
<1>1. CountsOK' /\ startup' = startup
  BY SameCounts
<1>2. TypeOK'
  <2>1. denied' \in Row(BOOLEAN, Txns)
    BY TypeParts DEF IInv
  <2> QED
    BY <1>1, <2>1, TypeNext
<1>3. Local(t)'
  BY Excluder DEF Local
<1>4. tx[t].pc # "idle"
  BY DEF ExcludeStages
<1>5. AloneInv' /\ RepairInv'
  BY <1>1, <1>4, StartStep
<1> QED
  BY <1>2, <1>3, <1>5, QuietStep

\* The rows an exclusion's statements find when they begin.
LEMMA ExcludeMatched ==
    ASSUME IInv, NEW t \in Txns, tx[t].pc \in ExcludeStages \ {"exclude_article"}
    PROVE  LET found == {x \in Matches(t) : Visible(t, x)}
           IN /\ found \subseteq Pairs
              /\ tx[t].pc = "exclude_chunks" => found = {x \in Chunks : chunk[x].val # "absent"}
              /\ tx[t].pc = "exclude_comments" =>
                   found = {x \in Comments \X {Empty} : Stored(View(t, source[x[1]]))}
              /\ tx[t].pc = "exclude_media" =>
                   found = {x \in Media \X {Empty} : Stored(View(t, source[x[1]]))}
<1> DEFINE found == {x \in Matches(t) : Visible(t, x)}
<1>1. /\ Chunks \subseteq Pairs /\ Comments \X {Empty} \subseteq Pairs
      /\ Media \X {Empty} \subseteq Pairs
  BY DEF Chunks, Pairs, Sources, Children
<1>2. CASE tx[t].pc = "exclude_chunks"
  <2>1. LocksNoChunk(t)
    BY <1>2, Excluder DEF CrawlInv, OwnInv, AfterChunks
  <2>2. \A x \in Chunks : View(t, chunk[x]) = chunk[x].val
    BY <2>1 DEF LocksNoChunk, View
  <2>3. Matches(t) = Chunks
    BY <1>2 DEF Matches, ExcludedChunks, Chunks
  <2>4. \A x \in Chunks : Visible(t, x) <=> View(t, chunk[x]) # "absent"
    BY <1>2 DEF Visible
  <2> QED
    BY <1>1, <1>2, <2>2, <2>3, <2>4
<1>3. CASE tx[t].pc = "exclude_embeddings"
  BY <1>1, <1>3 DEF Matches, ExcludedChunks, Chunks
<1>4. CASE tx[t].pc = "exclude_comments"
  BY <1>1, <1>4 DEF Matches, Visible
<1>5. CASE tx[t].pc = "exclude_media"
  BY <1>1, <1>5 DEF Matches, Visible
<1> QED
  BY <1>2, <1>3, <1>4, <1>5 DEF ExcludeStages

\* A statement begins.
LEMMA OpenFacts ==
    ASSUME TypeOK, NEW t \in Txns, NEW found \in SUBSET Pairs,
           tx' = [tx EXCEPT ![t].open = TRUE, ![t].matched = found]
    PROVE  /\ tx' \in [Txns -> TxState] /\ \A u \in Txns \ {t} : tx'[u] = tx[u]
           /\ tx'[t].pc = tx[t].pc /\ tx'[t].todo = tx[t].todo /\ tx'[t].now = tx[t].now
           /\ tx'[t].loaded = tx[t].loaded /\ tx'[t].owner = tx[t].owner
           /\ tx'[t].open = TRUE /\ tx'[t].matched = found
<1> DEFINE r == [tx[t] EXCEPT !.open = TRUE, !.matched = found]
<1>1. /\ r \in TxState
      /\ r.pc = tx[t].pc /\ r.todo = tx[t].todo /\ r.now = tx[t].now
      /\ r.loaded = tx[t].loaded /\ r.owner = tx[t].owner
      /\ r.open = TRUE /\ r.matched = found
  <2>1. tx[t] \in TxState
    BY Fields
  <2> QED
    BY <2>1 DEF TxState
<1>2. tx' = [tx EXCEPT ![t] = r]
  OBVIOUS
<1> HIDE DEF r
<1> QED
  BY <1>1, <1>2, TxSet

\* A statement ends.
LEMMA CloseFacts ==
    ASSUME TypeOK, NEW t \in Txns, StageAfter(t) \in Stages, EndUpdate(t)
    PROVE  /\ tx' \in [Txns -> TxState] /\ \A u \in Txns \ {t} : tx'[u] = tx[u]
           /\ tx'[t].pc = StageAfter(t) /\ tx'[t].todo = tx[t].todo /\ tx'[t].now = tx[t].now
           /\ tx'[t].loaded = tx[t].loaded /\ tx'[t].owner = tx[t].owner
           /\ tx'[t].open = FALSE
<1> DEFINE r == [tx[t] EXCEPT !.pc = StageAfter(t), !.open = FALSE, !.matched = {}]
<1>1. /\ r \in TxState
      /\ r.pc = StageAfter(t) /\ r.todo = tx[t].todo /\ r.now = tx[t].now
      /\ r.loaded = tx[t].loaded /\ r.owner = tx[t].owner
      /\ r.open = FALSE
  <2>1. tx[t] \in TxState /\ {} \in SUBSET Pairs
    BY Fields
  <2> QED
    BY <2>1 DEF TxState
<1>2. tx' = [tx EXCEPT ![t] = r]
  BY DEF EndUpdate
<1> HIDE DEF r
<1> QED
  BY <1>1, <1>2, TxSet

LEMMA BeginExcludeStep ==
    ASSUME IInv, NEW t \in Txns, tx[t].pc \in ExcludeStages, BeginUpdate(t)
    PROVE  IInv'
<1> DEFINE found == {x \in Matches(t) : Visible(t, x)}
<1>1. /\ tx[t].pc \in UpdateStages /\ tx' = [tx EXCEPT ![t].open = TRUE, ![t].matched = found]
      /\ UNCHANGED <<source, chunk, embedding, denied>> /\ UNCHANGED others
  BY DEF BeginUpdate
<1>2. TypeOK /\ SourceOK /\ TablesOK
  BY TypeParts DEF IInv
<1>3. tx[t].pc \in ExcludeStages \ {"exclude_article"}
  BY <1>1 DEF UpdateStages
<1>4. /\ found \subseteq Pairs
      /\ tx[t].pc = "exclude_chunks" => found = {x \in Chunks : chunk[x].val # "absent"}
      /\ tx[t].pc = "exclude_comments" =>
           found = {x \in Comments \X {Empty} : Stored(View(t, source[x[1]]))}
      /\ tx[t].pc = "exclude_media" =>
           found = {x \in Media \X {Empty} : Stored(View(t, source[x[1]]))}
  BY <1>3, ExcludeMatched
<1> HIDE DEF found
<1>5. /\ tx' \in [Txns -> TxState] /\ (\A u \in Txns \ {t} : tx'[u] = tx[u])
      /\ tx'[t].pc = tx[t].pc /\ tx'[t].loaded = tx[t].loaded
      /\ tx'[t].owner = tx[t].owner /\ tx'[t].open = TRUE /\ tx'[t].matched = found
  BY <1>1, <1>2, <1>4, OpenFacts
<1>6. SourceOK' /\ TablesOK' /\ Quiet(t)
  BY <1>1, <1>2, <1>5, SameParts, QuietNoRow, QuietNoTable
<1>7. /\ t \in Crawlers => CrawlInv(t) /\ SweepInv(t) /\ ~tx[t].owner
      /\ t \in Owners => OwnInv(t) /\ tx[t].owner
      /\ HideInv(t) /\ t \in Crawlers \cup Owners
  BY Excluder
<1>8. LocksNone(t)' <=> LocksNone(t)
  BY <1>1 DEF LocksNone
<1>9. LocksNoChunk(t)' <=> LocksNoChunk(t)
  BY <1>1 DEF LocksNoChunk
<1>10. t \in Crawlers => CrawlInv(t)'
  BY <1>1, <1>5, <1>7, <1>8, <1>9 DEF CrawlInv
<1>11. t \in Owners => OwnInv(t)'
  BY <1>1, <1>5, <1>7, <1>8, <1>9 DEF OwnInv
<1>12. \A s \in Sources : Stored(source[s].val) => Stored(View(t, source[s]))
  BY DEF IInv, SourceInv, View
<1>13. \A x \in Chunks : chunk[x].lock = t => Stored(source[x[1]].val) /\ x[1] \in Sources
  BY <1>7 DEF IInv, ChunkInv, Chunks
<1>14. t \in Crawlers => SweepInv(t)'
  <2> SUFFICES ASSUME t \in Crawlers, NEW x \in Chunks, chunk[x].lock = t
               PROVE  /\ x[1] = Article =>
                           source[Article].lock = t /\ source[Article].work.status = "DELETED"
                      /\ x[1] \in Comments =>
                           /\ tx[t].pc = "exclude_comments" => <<x[1], Empty>> \in found
                           /\ tx[t].pc \in {"exclude_media", "commit"} =>
                                source[x[1]].lock = t /\ source[x[1]].work.status \in Hidden
                      /\ x[1] \in Media =>
                           /\ tx[t].pc = "exclude_media" => <<x[1], Empty>> \in found
                           /\ tx[t].pc = "commit" =>
                                source[x[1]].lock = t /\ source[x[1]].work.status = "excluded"
    BY <1>1, <1>5 DEF SweepInv
  <2>1. Stored(View(t, source[x[1]]))
    BY <1>12, <1>13
  <2>2. <<x[1], Empty>>[1] = x[1]
    OBVIOUS
  <2>3. x[1] \in Comments /\ tx[t].pc = "exclude_comments" => <<x[1], Empty>> \in found
    BY <1>4, <2>1, <2>2
  <2>4. x[1] \in Media /\ tx[t].pc = "exclude_media" => <<x[1], Empty>> \in found
    BY <1>4, <2>1, <2>2
  <2> QED
    BY <1>7, <2>3, <2>4 DEF SweepInv
<1>15. HideInv(t)'
  <2>1. \A c \in Content : <<Article, c>> \in Chunks
    BY Constants DEF Chunks
  <2> QED
    BY <1>1, <1>4, <1>5, <1>7, <2>1 DEF HideInv
<1>16. OpenInv(t)'
  <2>1. tx[t].pc = "exclude_chunks" => \A x \in found : x \in Chunks /\ chunk[x].val # "absent"
    BY <1>4
  <2>2. tx[t].pc = "exclude_comments" => found \subseteq Comments \X {Empty}
    BY <1>4
  <2>3. tx[t].pc = "exclude_media" => found \subseteq Media \X {Empty}
    BY <1>4
  <2> QED
    BY <1>1, <1>5, <2>1, <2>2, <2>3 DEF OpenInv
<1>17. ASSUME startup = t
       PROVE  RepairArticle(t)' /\ RepairChunks(t)' /\ RepairComments(t)'
  <2>1. RepairArticle(t) /\ RepairChunks(t) /\ RepairComments(t)
    BY <1>3, <1>17, OurStart, Constants DEF ExcludeStages
  <2>2. RepairArticle(t)'
    BY <1>1, <1>5, <2>1 DEF RepairArticle
  <2>3. RepairChunks(t)'
    BY <1>1, <1>4, <1>5, <2>1 DEF RepairChunks
  <2>4. \A s \in Comments : s \in Sources /\ <<s, Empty>>[1] = s
    BY Constants
  <2>5. tx[t].pc = "exclude_comments" =>
          \A s \in Comments : Stored(source[s].val) => <<s, Empty>> \in found
    BY <1>4, <1>12, <2>4
  <2>6. tx[t].pc = "exclude_comments" => \A x \in found : Stored(source[x[1]].val)
    <3> SUFFICES ASSUME tx[t].pc = "exclude_comments", NEW x \in found
                 PROVE  Stored(source[x[1]].val)
      OBVIOUS
    <3>1. x[1] \in Comments /\ Stored(View(t, source[x[1]]))
      BY <1>4
    <3> QED
      BY <2>1, <3>1 DEF RepairComments, View
  <2>7. RepairComments(t)'
    BY <1>1, <1>5, <2>1, <2>5, <2>6 DEF RepairComments
  <2> QED
    BY <2>2, <2>3, <2>7
<1> QED
  BY <1>1, <1>3, <1>5, <1>6, <1>10, <1>11, <1>14, <1>15, <1>16, <1>17, ExcludeStep

\* The chunks of the sources are switched off.
LEMMA ExcludeChunksStep ==
    ASSUME IInv, NEW t \in Txns, tx[t].pc = "exclude_chunks", UpdateChunks(t)
    PROVE  IInv'
<1>1. /\ tx[t].open /\ (\A x \in tx[t].matched : Free(t, chunk[x]))
      /\ chunk' = Deactivate(t, chunk) /\ EndUpdate(t)
      /\ UNCHANGED <<source, embedding, denied>> /\ UNCHANGED others
  BY DEF UpdateChunks
<1>2. /\ TypeOK /\ SourceOK /\ TablesOK /\ tx[t].pc \in ExcludeStages
      /\ StageAfter(t) = "exclude_embeddings"
  BY TypeParts DEF IInv, ExcludeStages, StageAfter
<1>3. /\ tx' \in [Txns -> TxState] /\ (\A u \in Txns \ {t} : tx'[u] = tx[u])
      /\ tx'[t].pc = "exclude_embeddings" /\ tx'[t].loaded = tx[t].loaded
      /\ tx'[t].owner = tx[t].owner /\ tx'[t].open = FALSE
  BY <1>1, <1>2, CloseFacts DEF Stages, UpdateStages
<1>4. /\ t \in Crawlers => CrawlInv(t) /\ SweepInv(t) /\ ~tx[t].owner
      /\ t \in Owners => OwnInv(t) /\ tx[t].owner
      /\ HideInv(t) /\ OpenInv(t)
      /\ t \in Crawlers \cup Owners /\ t \notin Indexers
  BY <1>2, Excluder
<1>5. \A x \in tx[t].matched : x \in Chunks /\ chunk[x].val # "absent"
  BY <1>1, <1>4 DEF OpenInv
<1>6. \A x \in Chunks : /\ x \in tx[t].matched => chunk'[x] = Write(t, chunk[x], "off")
                        /\ x \notin tx[t].matched => chunk'[x] = chunk[x]
  BY <1>1 DEF Deactivate, Chunks
<1>7. \A x \in Chunks : /\ Write(t, chunk[x], "off") \in Row(Flags, Txns)
                        /\ Write(t, chunk[x], "off").val = chunk[x].val
                        /\ Write(t, chunk[x], "off").work = "off"
                        /\ Write(t, chunk[x], "off").lock = t
  <2>1. \A x \in Chunks : chunk[x] \in Row(Flags, Txns)
    BY <1>2, Fields
  <2>2. "off" \in Flags
    BY DEF Flags
  <2> QED
    BY <2>1, <2>2 DEF Row, Write
<1>8. SourceOK' /\ TablesOK'
  <2>1. \A x \in Chunks : chunk'[x] \in Row(Flags, Txns)
    BY <1>2, <1>6, <1>7, Fields
  <2>2. chunk' \in [Sources \X Content -> Row(Flags, Txns)]
    BY <1>1, <2>1 DEF Deactivate, Chunks
  <2> QED
    BY <1>1, <1>2, <2>2, SameParts DEF TablesOK
<1>9. Quiet(t)
  <2>1. \A x \in Chunks : QuietChunk(t, x)
    BY <1>1, <1>4, <1>5, <1>6, <1>7 DEF QuietChunk, Free
  <2> QED
    BY <1>1, <1>3, <2>1, QuietNoRow DEF Quiet, QuietDenied
<1>10. t \in Crawlers => CrawlInv(t)'
  BY <1>1, <1>2, <1>3, <1>4 DEF CrawlInv, CrawlStages, ExcludeStages, AfterChunks
<1>11. t \in Crawlers => SweepInv(t)'
  <2>1. t \in Crawlers => source[Article].lock = t /\ source[Article].work.status = "DELETED"
    BY <1>2, <1>4 DEF CrawlInv, ExcludeStages
  <2> QED
    BY <1>1, <1>3, <2>1 DEF SweepInv
<1>12. t \in Owners => OwnInv(t)'
  BY <1>1, <1>2, <1>3, <1>4 DEF OwnInv, OwnStages, ExcludeStages, AfterChunks
<1>13. HideInv(t)'
  <2>1. \A c \in Content : <<Article, c>> \in Chunks
    BY Constants DEF Chunks
  <2>2. \A c \in Content : chunk'[<<Article, c>>].val = chunk[<<Article, c>>].val
    BY <1>6, <1>7, <2>1
  <2>3. source[Article].lock = t /\ source[Article].work.status \in Hidden
          /\ source[Article].val.status \notin Hidden =>
        \A c \in Content : chunk[<<Article, c>>].val # "absent" => chunk'[<<Article, c>>].lock = t
    BY <1>1, <1>2, <1>4, <1>6, <1>7, <2>1 DEF HideInv
  <2> QED
    BY <1>1, <1>3, <2>2, <2>3 DEF HideInv, AfterChunks
<1>14. OpenInv(t)'
  BY <1>3 DEF OpenInv
<1>15. ASSUME startup = t
       PROVE  RepairArticle(t)' /\ RepairChunks(t)' /\ RepairComments(t)'
  <2>1. RepairArticle(t) /\ RepairChunks(t) /\ RepairComments(t)
    BY <1>2, <1>15, OurStart, Constants DEF ExcludeStages
  <2>2. RepairArticle(t)'
    BY <1>1, <1>2, <2>1 DEF RepairArticle
  <2>3. RepairChunks(t)'
    <3>1. \A x \in Chunks : chunk'[x].val # "absent" => x \in tx[t].matched
      BY <1>1, <1>2, <1>6, <2>1 DEF RepairChunks
    <3> QED
      BY <1>3, <1>6, <1>7, <3>1 DEF RepairChunks
  <2>4. RepairComments(t)'
    BY <1>1, <1>3, <2>1 DEF RepairComments
  <2> QED
    BY <2>2, <2>3, <2>4
<1>16. tx'[t].pc \in ExcludeStages \cup {"add_denylist", "commit"}
  BY <1>3 DEF ExcludeStages
<1>17. denied' = denied
  BY <1>1
<1> QED
  BY <1>1, <1>2, <1>3, <1>8, <1>9, <1>10, <1>11, <1>12, <1>13, <1>14, <1>15, <1>16, <1>17,
     ExcludeStep

\* Their vectors are.
LEMMA ExcludeEmbeddingsStep ==
    ASSUME IInv, NEW t \in Txns, tx[t].pc = "exclude_embeddings", UpdateEmbeddings(t)
    PROVE  IInv'
<1>1. /\ tx[t].open /\ embedding' = Deactivate(t, embedding) /\ EndUpdate(t)
      /\ UNCHANGED <<source, chunk, denied>> /\ UNCHANGED others
  BY DEF UpdateEmbeddings
<1>2. /\ TypeOK /\ SourceOK /\ TablesOK /\ tx[t].pc \in ExcludeStages
      /\ StageAfter(t) = "exclude_comments"
  BY TypeParts DEF IInv, ExcludeStages, StageAfter
<1>3. /\ tx' \in [Txns -> TxState] /\ (\A u \in Txns \ {t} : tx'[u] = tx[u])
      /\ tx'[t].pc = "exclude_comments" /\ tx'[t].loaded = tx[t].loaded
      /\ tx'[t].owner = tx[t].owner /\ tx'[t].open = FALSE
  BY <1>1, <1>2, CloseFacts DEF Stages, UpdateStages
<1>4. /\ t \in Crawlers => CrawlInv(t) /\ SweepInv(t) /\ ~tx[t].owner
      /\ t \in Owners => OwnInv(t) /\ tx[t].owner
      /\ HideInv(t) /\ t \in Crawlers \cup Owners
  BY <1>2, Excluder
<1>5. SourceOK' /\ TablesOK' /\ Quiet(t)
  <2>1. \A x \in Chunks : Deactivate(t, embedding)[x] \in Row(Flags, Txns)
    BY <1>2, Fields, RowFacts DEF Deactivate, Chunks, Flags
  <2>2. embedding' \in [Sources \X Content -> Row(Flags, Txns)]
    BY <1>1, <2>1 DEF Deactivate, Chunks
  <2> QED
    BY <1>1, <1>2, <1>3, <2>2, SameParts, QuietNoRow, QuietNoTable DEF TablesOK
<1>6. t \in Crawlers => CrawlInv(t)'
  BY <1>1, <1>2, <1>3, <1>4 DEF CrawlInv, CrawlStages, ExcludeStages, AfterChunks
<1>7. t \in Crawlers => SweepInv(t)'
  BY <1>1, <1>3, <1>4 DEF SweepInv
<1>8. t \in Owners => OwnInv(t)'
  BY <1>1, <1>2, <1>3, <1>4 DEF OwnInv, OwnStages, ExcludeStages, AfterChunks
<1>9. HideInv(t)' /\ OpenInv(t)'
  BY <1>1, <1>2, <1>3, <1>4 DEF HideInv, OpenInv, AfterChunks
<1>10. ASSUME startup = t
       PROVE  RepairArticle(t)' /\ RepairChunks(t)' /\ RepairComments(t)'
  <2>1. RepairArticle(t) /\ RepairChunks(t) /\ RepairComments(t)
    BY <1>2, <1>10, OurStart, Constants DEF ExcludeStages
  <2>2. RepairArticle(t)'
    BY <1>1, <1>2, <2>1 DEF RepairArticle
  <2>3. RepairChunks(t)'
    BY <1>1, <1>2, <1>3, <2>1 DEF RepairChunks, AfterChunks
  <2>4. RepairComments(t)'
    BY <1>1, <1>3, <2>1 DEF RepairComments
  <2> QED
    BY <2>2, <2>3, <2>4
<1>11. tx'[t].pc \in ExcludeStages \cup {"add_denylist", "commit"} /\ denied' = denied
  BY <1>1, <1>3 DEF ExcludeStages
<1> QED
  BY <1>1, <1>2, <1>3, <1>5, <1>6, <1>7, <1>8, <1>9, <1>10, <1>11, ExcludeStep

\* A comment or an image that is excluded.
LEMMA ExcludedFacts ==
    ASSUME TypeOK, NEW t \in Txns, NEW s \in Children
    PROVE  LET v == ExcludedChild(t, s)
           IN /\ v \in SourceVersion /\ v.status \in StatusOf(s)
              /\ Stored(v) /\ HasText(s, v) /\ v.status # IndexedStatus(s)
              /\ s \in Media => v.status = "excluded"
              /\ s \in Comments => v.status = IF tx[t].owner THEN "DENIED" ELSE "DELETED"
<1> DEFINE v == ExcludedChild(t, s)
<1>1. View(t, source[s]) \in SourceVersion /\ Comments \cap Media = {}
  BY Fields, RowFacts, Constants DEF Sources
<1>2. /\ v \in SourceVersion
      /\ v.status = IF s \in Media THEN "excluded" ELSE IF tx[t].owner THEN "DENIED" ELSE "DELETED"
  BY <1>1 DEF ExcludedChild, SourceVersion, TextStatus, MediaStatus
<1> HIDE DEF v
<1>3. /\ v.status \in {"excluded", "DENIED", "DELETED"}
      /\ s \in Media => v.status = "excluded"
      /\ s \notin Media => v.status \in {"DENIED", "DELETED"}
  BY <1>2
<1>4. /\ v.status \in StatusOf(s) /\ Stored(v) /\ HasText(s, v) /\ v.status # IndexedStatus(s)
  BY <1>3 DEF StatusOf, TextStatus, MediaStatus, Stored, HasText, ReadyStatus, IndexedStatus
<1>5. s \in Comments => v.status = IF tx[t].owner THEN "DENIED" ELSE "DELETED"
  BY <1>1, <1>2
<1> QED
  BY <1>2, <1>3, <1>4, <1>5 DEF v

LEMMA ExcludedRows ==
    ASSUME IInv, NEW t \in Txns, tx[t].pc \in {"exclude_comments", "exclude_media"},
           UpdateChildren(t)
    PROVE  /\ SourceOK' /\ QuietRows(t)
           /\ \A s \in Sources : source'[s].val = source[s].val
           /\ \A s \in Sources : <<s, Empty>> \notin tx[t].matched => source'[s] = source[s]
           /\ \A s \in Sources : <<s, Empty>> \in tx[t].matched =>
                /\ \/ s \in Comments /\ tx[t].pc = "exclude_comments"
                   \/ s \in Media /\ tx[t].pc = "exclude_media"
                /\ source'[s].lock = t /\ source'[s].work.status # IndexedStatus(s)
                /\ s \in Media => source'[s].work.status = "excluded"
                /\ s \in Comments =>
                     source'[s].work.status = IF tx[t].owner THEN "DENIED" ELSE "DELETED"
<1>1. /\ tx[t].open /\ (\A x \in tx[t].matched : Free(t, source[x[1]]))
      /\ source' = [s \in Sources |-> IF <<s, Empty>> \in tx[t].matched
                                      THEN Write(t, source[s], ExcludedChild(t, s))
                                      ELSE source[s]]
  BY DEF UpdateChildren
<1>2. TypeOK /\ SourceOK /\ tx[t].pc \in ExcludeStages
  BY TypeParts DEF IInv, ExcludeStages
<1>3. OpenInv(t) /\ t \notin Indexers
  BY <1>2, Excluder
<1>4. \A s \in Sources : <<s, Empty>> \in tx[t].matched =>
        \/ s \in Comments /\ tx[t].pc = "exclude_comments"
        \/ s \in Media /\ tx[t].pc = "exclude_media"
  BY <1>1, <1>3 DEF OpenInv
<1>5. \A s \in Sources :
        /\ <<s, Empty>> \in tx[t].matched => source'[s] = Write(t, source[s], ExcludedChild(t, s))
        /\ <<s, Empty>> \notin tx[t].matched => source'[s] = source[s]
  BY <1>1
<1>6. \A s \in Sources : <<s, Empty>> \in tx[t].matched =>
        /\ source'[s] \in Row(SourceVersion, Txns)
        /\ source'[s].val = source[s].val /\ source'[s].lock = t
        /\ source'[s].work = ExcludedChild(t, s) /\ Free(t, source[s])
        /\ Stored(source'[s].work) /\ HasText(s, source'[s].work)
        /\ source'[s].work.status \in StatusOf(s)
        /\ source'[s].work.status # IndexedStatus(s)
        /\ s \in Media => source'[s].work.status = "excluded"
        /\ s \in Comments =>
             source'[s].work.status = IF tx[t].owner THEN "DENIED" ELSE "DELETED"
  <2> SUFFICES ASSUME NEW s \in Sources, <<s, Empty>> \in tx[t].matched
               PROVE  /\ source'[s] \in Row(SourceVersion, Txns)
                      /\ source'[s].val = source[s].val /\ source'[s].lock = t
                      /\ source'[s].work = ExcludedChild(t, s) /\ Free(t, source[s])
                      /\ Stored(source'[s].work) /\ HasText(s, source'[s].work)
                      /\ source'[s].work.status \in StatusOf(s)
                      /\ source'[s].work.status # IndexedStatus(s)
                      /\ s \in Media => source'[s].work.status = "excluded"
                      /\ s \in Comments =>
                           source'[s].work.status = IF tx[t].owner THEN "DENIED" ELSE "DELETED"
    OBVIOUS
  <2> DEFINE v == ExcludedChild(t, s)
  <2>1. s \in Children
    BY <1>4 DEF Children
  <2>2. /\ v \in SourceVersion /\ v.status \in StatusOf(s)
        /\ Stored(v) /\ HasText(s, v) /\ v.status # IndexedStatus(s)
        /\ s \in Media => v.status = "excluded"
        /\ s \in Comments => v.status = IF tx[t].owner THEN "DENIED" ELSE "DELETED"
    BY <1>2, <2>1, ExcludedFacts
  <2>3. source'[s] = Write(t, source[s], v)
    BY <1>5
  <2> HIDE DEF v
  <2>4. source[s] \in Row(SourceVersion, Txns)
    BY <1>2, Fields
  <2>5. /\ source'[s] \in Row(SourceVersion, Txns) /\ source'[s].val = source[s].val
        /\ source'[s].lock = t /\ source'[s].work = v
    BY <2>2, <2>3, <2>4 DEF Row, Write
  <2>6. Free(t, source[s])
    <3>1. <<s, Empty>>[1] = s
      OBVIOUS
    <3> QED
      BY <1>1, <3>1
  <2> QED
    BY <2>2, <2>5, <2>6 DEF v
<1>7. \A s \in Sources : source'[s].val = source[s].val
  BY <1>5, <1>6
<1>8. QuietRows(t)
  <2>1. \A s \in Sources : QuietRow(t, s)
    BY <1>5, <1>6 DEF QuietRow, Free
  <2> QED
    BY <1>3, <2>1 DEF QuietRows
<1>9. SourceOK'
  <2>1. source' \in [Sources -> Row(SourceVersion, Txns)]
    <3>1. \A s \in Sources : source'[s] \in Row(SourceVersion, Txns)
      BY <1>2, <1>5, <1>6, Fields
    <3> QED
      BY <1>1, <3>1
  <2>2. \A s \in Sources :
          source'[s].val.status \in StatusOf(s) /\ source'[s].work.status \in StatusOf(s)
    BY <1>2, <1>5, <1>6, Fields
  <2> QED
    BY <2>1, <2>2 DEF SourceOK, StatusOf
<1> QED
  BY <1>4, <1>5, <1>6, <1>7, <1>8, <1>9

LEMMA ExcludeChildrenStep ==
    ASSUME IInv, NEW t \in Txns, tx[t].pc \in {"exclude_comments", "exclude_media"},
           UpdateChildren(t)
    PROVE  IInv'
<1>1. /\ tx[t].open /\ EndUpdate(t)
      /\ UNCHANGED <<chunk, embedding>> /\ denied' = denied /\ UNCHANGED others
  BY DEF UpdateChildren
<1>2. TypeOK /\ SourceOK /\ TablesOK /\ tx[t].pc \in ExcludeStages
  BY TypeParts DEF IInv, ExcludeStages
<1>3. /\ SourceOK' /\ QuietRows(t)
      /\ \A s \in Sources : source'[s].val = source[s].val
      /\ \A s \in Sources : <<s, Empty>> \notin tx[t].matched => source'[s] = source[s]
      /\ \A s \in Sources : <<s, Empty>> \in tx[t].matched =>
           /\ \/ s \in Comments /\ tx[t].pc = "exclude_comments"
              \/ s \in Media /\ tx[t].pc = "exclude_media"
           /\ source'[s].lock = t /\ source'[s].work.status # IndexedStatus(s)
           /\ s \in Media => source'[s].work.status = "excluded"
           /\ s \in Comments =>
                source'[s].work.status = IF tx[t].owner THEN "DENIED" ELSE "DELETED"
  BY ExcludedRows
<1>4. /\ t \in Crawlers => CrawlInv(t) /\ SweepInv(t) /\ ~tx[t].owner
      /\ t \in Owners => OwnInv(t) /\ tx[t].owner
      /\ HideInv(t) /\ t \in Crawlers \cup Owners
  BY <1>2, Excluder
<1>5. /\ tx[t].pc = "exclude_comments" => StageAfter(t) = "exclude_media"
      /\ tx[t].pc = "exclude_media" =>
           /\ t \in Owners => StageAfter(t) = "add_denylist"
           /\ t \in Crawlers => StageAfter(t) = "commit"
      /\ StageAfter(t) \in Stages
  BY <1>4 DEF StageAfter, Stages, UpdateStages
<1>6. /\ tx' \in [Txns -> TxState] /\ (\A u \in Txns \ {t} : tx'[u] = tx[u])
      /\ tx'[t].pc = StageAfter(t) /\ tx'[t].loaded = tx[t].loaded
      /\ tx'[t].owner = tx[t].owner /\ tx'[t].open = FALSE
  BY <1>1, <1>2, <1>5, CloseFacts
<1>7. /\ tx'[t].pc \in AfterChunks /\ tx[t].pc \in AfterChunks
      /\ tx'[t].pc \in ExcludeStages \cup {"add_denylist", "commit"}
      /\ tx'[t].pc \notin {"idle", "exclude_article", "exclude_chunks", "exclude_comments",
                           "upsert_article", "insert_article", "insert_denylist"}
  BY <1>4, <1>5, <1>6 DEF AfterChunks, ExcludeStages
<1>8. source'[Article] = source[Article]
  BY <1>3, Constants
<1>9. TablesOK' /\ Quiet(t)
  BY <1>1, <1>2, <1>3, <1>6, SameParts, QuietNoTable
<1>10. t \in Crawlers => CrawlInv(t)'
  <2> SUFFICES ASSUME t \in Crawlers
               PROVE  CrawlInv(t)'
    OBVIOUS
  <2>1. tx'[t].pc \in CrawlStages /\ ~tx'[t].owner
    <3>1. tx'[t].pc \in {"exclude_media", "commit"}
      BY <1>4, <1>5, <1>6
    <3> QED
      BY <1>4, <1>6, <3>1 DEF CrawlStages, ExcludeStages
  <2>2. \A s \in Sources :
          source'[s].lock = t /\ source'[s].work.status = IndexedStatus(s) =>
            source'[s].work.body = source'[s].val.body /\ source'[s].val.status = IndexedStatus(s)
    BY <1>3, <1>4 DEF CrawlInv
  <2>3. source'[Article].lock = t /\ Stored(source'[Article].val)
          /\ source'[Article].work.status = "DELETED"
    BY <1>2, <1>4, <1>8 DEF CrawlInv, ExcludeStages
  <2> QED
    BY <1>7, <2>1, <2>2, <2>3 DEF CrawlInv, ExcludeStages
<1>11. t \in Crawlers => SweepInv(t)'
  <2> SUFFICES ASSUME t \in Crawlers, NEW x \in Chunks, chunk[x].lock = t
               PROVE  /\ x[1] = Article =>
                           source'[Article].lock = t /\ source'[Article].work.status = "DELETED"
                      /\ x[1] \in Comments =>
                           source'[x[1]].lock = t /\ source'[x[1]].work.status \in Hidden
                      /\ x[1] \in Media /\ tx'[t].pc = "commit" =>
                           source'[x[1]].lock = t /\ source'[x[1]].work.status = "excluded"
    BY <1>1, <1>6, <1>7 DEF SweepInv
  <2>1. x[1] \in Sources /\ Comments \cap Media = {}
    BY Constants DEF Chunks
  <2>2. x[1] \in Comments => source'[x[1]].lock = t /\ source'[x[1]].work.status \in Hidden
    <3>1. CASE tx[t].pc = "exclude_comments"
      BY <1>1, <1>3, <1>4, <2>1, <3>1 DEF SweepInv, Hidden
    <3>2. CASE tx[t].pc = "exclude_media"
      BY <1>3, <1>4, <2>1, <3>2 DEF SweepInv
    <3> QED
      BY <3>1, <3>2
  <2>3. x[1] \in Media /\ tx'[t].pc = "commit" =>
          source'[x[1]].lock = t /\ source'[x[1]].work.status = "excluded"
    <3>1. CASE tx[t].pc = "exclude_comments"
      BY <1>5, <1>6, <3>1
    <3>2. CASE tx[t].pc = "exclude_media"
      BY <1>1, <1>3, <1>4, <2>1, <3>2 DEF SweepInv
    <3> QED
      BY <3>1, <3>2
  <2> QED
    BY <1>4, <1>8, <2>2, <2>3 DEF SweepInv
<1>12. t \in Owners => OwnInv(t)'
  <2> SUFFICES ASSUME t \in Owners
               PROVE  OwnInv(t)'
    OBVIOUS
  <2>1. tx'[t].pc \in {"exclude_media", "add_denylist"}
    BY <1>4, <1>5, <1>6
  <2>2. tx'[t].owner /\ Stored(source'[Article].val)
    BY <1>2, <1>4, <1>6, <1>8 DEF OwnInv
  <2> QED
    BY <1>7, <2>1, <2>2 DEF OwnInv, OwnStages, ExcludeStages
<1>13. HideInv(t)' /\ OpenInv(t)'
  BY <1>1, <1>4, <1>6, <1>7, <1>8 DEF HideInv, OpenInv
<1>14. ASSUME startup = t
       PROVE  RepairArticle(t)' /\ RepairChunks(t)' /\ RepairComments(t)'
  <2>1. RepairArticle(t) /\ RepairChunks(t) /\ RepairComments(t) /\ t \in Owners
    BY <1>2, <1>14, OurStart, Constants DEF ExcludeStages
  <2>2. RepairArticle(t)'
    <3>1. tx[t].pc # "exclude_article"
      OBVIOUS
    <3> QED
      BY <1>8, <2>1, <3>1 DEF RepairArticle, View
  <2>3. RepairChunks(t)'
    BY <1>1, <1>6, <1>7, <2>1 DEF RepairChunks
  <2>4. \A s \in Comments : s \in Sources /\ s \notin Media
    BY Constants
  <2>5. \A s \in Comments : Stored(source[s].val) =>
          source'[s].lock = t /\ source'[s].work.status = "DENIED"
    <3>1. CASE tx[t].pc = "exclude_comments"
      BY <1>1, <1>3, <1>4, <2>1, <2>4, <3>1 DEF RepairComments
    <3>2. CASE tx[t].pc = "exclude_media"
      BY <1>3, <2>1, <2>4, <3>2 DEF RepairComments
    <3> QED
      BY <3>1, <3>2
  <2>6. \A s \in Comments : source'[s].lock = t => Stored(source[s].val)
    <3> SUFFICES ASSUME NEW s \in Comments, source'[s].lock = t
                 PROVE  Stored(source[s].val)
      OBVIOUS
    <3>1. CASE <<s, Empty>> \in tx[t].matched
      <4>1. tx[t].pc = "exclude_comments" /\ <<s, Empty>>[1] = s
        BY <1>3, <2>4, <3>1
      <4> QED
        BY <1>1, <2>1, <3>1, <4>1 DEF RepairComments
    <3>2. CASE <<s, Empty>> \notin tx[t].matched
      BY <1>3, <2>1, <2>4, <3>2 DEF RepairComments
    <3> QED
      BY <3>1, <3>2
  <2>7. RepairComments(t)'
    <3>1. \A s \in Comments : source'[s].val = source[s].val
      BY <1>3, <2>4
    <3> QED
      BY <1>6, <1>7, <2>5, <2>6, <3>1 DEF RepairComments
  <2> QED
    BY <2>2, <2>3, <2>7
<1> QED
  BY <1>1, <1>2, <1>3, <1>6, <1>7, <1>9, <1>10, <1>11, <1>12, <1>13, <1>14, ExcludeStep

\* The article as an exclusion leaves it: for a crawl it is what it loaded and
\* locked, for the owner what is committed, which may have changed since.
LEMMA ExcludedArticle ==
    ASSUME IInv, NEW t \in Txns, ExcludeArticle(t)
    PROVE  /\ SourceOK' /\ QuietRows(t)
           /\ \A s \in Sources : s # Article => source'[s] = source[s]
           /\ source'[Article].val = source[Article].val
           /\ t \in Crawlers =>
                source'[Article].lock = t /\ source'[Article].work.status = "DELETED"
           /\ startup = t =>
                /\ View(t, source'[Article]).status = "DENIED"
                /\ View(t, source'[Article]).body = Empty
<1> DEFINE loaded == tx[t].loaded
           status == IF tx[t].owner THEN "DENIED" ELSE "DELETED"
           old == View(t, source[Article])
           new == [old EXCEPT !.status = IF loaded.status = status THEN old.status ELSE status,
                              !.body = IF loaded.body = Empty THEN old.body ELSE Empty]
<1>1. tx[t].pc = "exclude_article" /\ tx[t].pc \in ExcludeStages
  BY DEF ExcludeArticle, ExcludeStages
<1>2. \/ loaded.status = status /\ loaded.body = Empty /\ source' = source
      \/ /\ Free(t, source[Article])
         /\ source' = [source EXCEPT ![Article] = Write(t, source[Article], new)]
  BY DEF ExcludeArticle
<1>3. TypeOK /\ SourceOK /\ Article \in Sources /\ Article \notin Media
  BY TypeParts, Constants DEF IInv
<1>4. /\ t \in Crawlers => CrawlInv(t) /\ ~tx[t].owner
      /\ t \in Owners => OwnInv(t) /\ tx[t].owner
      /\ t \in Crawlers \cup Owners /\ t \notin Indexers
      /\ t \in Crawlers => t \notin Owners
  BY <1>1, Excluder
<1>5. t \in Crawlers => /\ source[Article].lock = t /\ old = source[Article].work
                        /\ loaded = old /\ old = source[Article].val
  BY <1>1, <1>4 DEF CrawlInv, View
<1>6. t \in Owners => source[Article].lock # t /\ old = source[Article].val
  BY <1>1, <1>3, <1>4 DEF OwnInv, LocksNone, View
<1>7. /\ old \in SourceVersion /\ old.status \in StatusOf(Article)
      /\ Stored(old) /\ HasText(Article, old)
  <2>1. old = source[Article].val
    BY <1>4, <1>5, <1>6
  <2>2. source[Article].val \in SourceVersion /\ source[Article].val.status \in StatusOf(Article)
    BY <1>3, Fields
  <2>3. HasText(Article, source[Article].val)
    BY <1>3 DEF IInv, SourceInv
  <2>4. Stored(source[Article].val)
    BY <1>1, <1>4 DEF CrawlInv, OwnInv
  <2> QED
    BY <2>1, <2>2, <2>3, <2>4
<1>8. /\ new \in SourceVersion
      /\ new.status = IF loaded.status = status THEN old.status ELSE status
      /\ new.body = IF loaded.body = Empty THEN old.body ELSE Empty
  BY <1>7 DEF SourceVersion, TextStatus
<1>9. /\ new.status \in StatusOf(Article) /\ Stored(new) /\ HasText(Article, new)
  <2>1. CASE loaded.status # status
    <3>1. new.status \in {"DENIED", "DELETED"}
      BY <1>8, <2>1
    <3> QED
      BY <1>3, <3>1 DEF StatusOf, TextStatus, Stored, HasText, ReadyStatus, IndexedStatus
  <2>2. CASE loaded.status = status
    <3>1. new.status = old.status
      BY <1>8, <2>2
    <3>2. new.status \in StatusOf(Article) /\ Stored(new)
      BY <1>7, <3>1 DEF Stored
    <3>3. CASE t \in Owners
      <4>1. denied.val
        BY <1>1, <1>4, <2>2, <3>3 DEF OwnInv
      <4> QED
        BY <3>2, <4>1 DEF HasText
    <3>4. CASE t \in Crawlers
      <4>1. new.status = "DELETED"
        BY <1>4, <1>5, <2>2, <3>1, <3>4
      <4> QED
        BY <1>3, <3>2, <4>1 DEF HasText, ReadyStatus, IndexedStatus
    <3> QED
      BY <1>4, <3>3, <3>4
  <2> QED
    BY <2>1, <2>2
<1>10. startup = t => tx[t].loaded = source[Article].val /\ t \in Owners
  BY <1>1, OurStart, Constants
<1> HIDE DEF new
<1>11. CASE loaded.status = status /\ loaded.body = Empty /\ source' = source
  <2>1. SourceOK' /\ QuietRows(t)
    BY <1>3, <1>11, SameParts, QuietNoRow
  <2>2. t \in Crawlers =>
          source'[Article].lock = t /\ source'[Article].work.status = "DELETED"
    BY <1>4, <1>5, <1>11
  <2>3. startup = t => /\ View(t, source'[Article]).status = "DENIED"
                       /\ View(t, source'[Article]).body = Empty
    BY <1>4, <1>6, <1>10, <1>11
  <2> QED
    BY <1>11, <2>1, <2>2, <2>3
<1>12. CASE /\ Free(t, source[Article])
            /\ source' = [source EXCEPT ![Article] = Write(t, source[Article], new)]
  <2>1. /\ SourceOK'
        /\ \A r \in Sources : r # Article => source'[r] = source[r]
        /\ source'[Article].val = source[Article].val /\ source'[Article].work = new
        /\ source'[Article].lock = t
    BY <1>3, <1>8, <1>9, <1>12, WriteSource
  <2>2. QuietRows(t)
    BY <1>3, <1>4, <1>9, <1>12, <2>1, QuietOneRow
  <2>3. t \in Crawlers => new.status = "DELETED"
    BY <1>4, <1>5, <1>8
  <2>4. View(t, source'[Article]) = new
    BY <2>1 DEF View
  <2>5. startup = t => new.status = "DENIED" /\ new.body = Empty
    BY <1>4, <1>6, <1>8, <1>10
  <2> QED
    BY <2>1, <2>2, <2>3, <2>4, <2>5
<1> QED
  BY <1>2, <1>11, <1>12

LEMMA ExcludeArticleStep ==
    ASSUME IInv, NEW t \in Txns, ExcludeArticle(t)
    PROVE  IInv'
<1>1. /\ tx[t].pc = "exclude_article" /\ Goto(t, "exclude_chunks")
      /\ UNCHANGED <<chunk, embedding>> /\ denied' = denied /\ UNCHANGED others
  BY DEF ExcludeArticle
<1>2. TypeOK /\ TablesOK /\ tx[t].pc \in ExcludeStages /\ Article \in Sources
  BY <1>1, TypeParts, Constants DEF IInv, ExcludeStages
<1>3. /\ SourceOK' /\ QuietRows(t)
      /\ \A s \in Sources : s # Article => source'[s] = source[s]
      /\ source'[Article].val = source[Article].val
      /\ t \in Crawlers =>
           source'[Article].lock = t /\ source'[Article].work.status = "DELETED"
      /\ startup = t => /\ View(t, source'[Article]).status = "DENIED"
                        /\ View(t, source'[Article]).body = Empty
  BY ExcludedArticle
<1>4. /\ tx' \in [Txns -> TxState] /\ (\A u \in Txns \ {t} : tx'[u] = tx[u])
      /\ tx'[t].pc = "exclude_chunks" /\ tx'[t].loaded = tx[t].loaded
      /\ tx'[t].owner = tx[t].owner /\ tx'[t].open = tx[t].open
  BY <1>1, <1>2, GotoFacts DEF Stages, UpdateStages
<1>5. /\ t \in Crawlers => CrawlInv(t) /\ SweepInv(t) /\ ~tx[t].owner
      /\ t \in Owners => OwnInv(t) /\ tx[t].owner
      /\ OpenInv(t) /\ t \in Crawlers \cup Owners
  BY <1>2, Excluder
<1>6. ~tx[t].open /\ ~tx'[t].open
  BY <1>1, <1>4, <1>5 DEF OpenInv, UpdateStages
<1>7. LocksNoChunk(t) /\ LocksNoChunk(t)'
  <2>1. LocksNoChunk(t)
    BY <1>1, <1>5 DEF CrawlInv, OwnInv, AfterChunks
  <2> QED
    BY <1>1, <2>1 DEF LocksNoChunk
<1>8. TablesOK' /\ Quiet(t)
  BY <1>1, <1>2, <1>3, <1>4, SameParts, QuietNoTable
<1>9. t \in Crawlers => CrawlInv(t)'
  <2> SUFFICES ASSUME t \in Crawlers
               PROVE  CrawlInv(t)'
    OBVIOUS
  <2>1. IndexedStatus(Article) # "DELETED"
    BY DEF IndexedStatus
  <2>2. \A s \in Sources :
          source'[s].lock = t /\ source'[s].work.status = IndexedStatus(s) =>
            source'[s].work.body = source'[s].val.body /\ source'[s].val.status = IndexedStatus(s)
    BY <1>3, <1>5, <2>1 DEF CrawlInv
  <2>3. Stored(source'[Article].val)
    BY <1>1, <1>3, <1>5 DEF CrawlInv, ExcludeStages
  <2> QED
    BY <1>3, <1>4, <1>5, <1>7, <2>2, <2>3 DEF CrawlInv, CrawlStages, ExcludeStages
<1>10. t \in Crawlers => SweepInv(t)'
  BY <1>7 DEF SweepInv, LocksNoChunk
<1>11. t \in Owners => OwnInv(t)'
  <2> SUFFICES ASSUME t \in Owners
               PROVE  OwnInv(t)'
    OBVIOUS
  <2>1. Stored(source'[Article].val)
    BY <1>1, <1>3, <1>5 DEF OwnInv, ExcludeStages
  <2> QED
    BY <1>4, <1>5, <1>7, <2>1 DEF OwnInv, OwnStages, ExcludeStages
<1>12. HideInv(t)' /\ OpenInv(t)'
  BY <1>4, <1>6 DEF HideInv, OpenInv, AfterChunks
<1>13. ASSUME startup = t
       PROVE  RepairArticle(t)' /\ RepairChunks(t)' /\ RepairComments(t)'
  <2>1. RepairComments(t)
    BY <1>2, <1>13, OurStart, Constants DEF ExcludeStages
  <2>2. RepairArticle(t)'
    BY <1>3, <1>13 DEF RepairArticle
  <2>3. RepairChunks(t)'
    BY <1>4, <1>6 DEF RepairChunks, AfterChunks
  <2>4. \A s \in Comments : source'[s] = source[s]
    BY <1>3, Constants
  <2>5. RepairComments(t)'
    BY <1>4, <2>1, <2>4 DEF RepairComments
  <2> QED
    BY <2>2, <2>3, <2>5
<1>14. tx'[t].pc \in ExcludeStages \cup {"add_denylist", "commit"}
  BY <1>4 DEF ExcludeStages
<1> QED
  BY <1>1, <1>2, <1>3, <1>4, <1>8, <1>9, <1>10, <1>11, <1>12, <1>13, <1>14, ExcludeStep

\* The state of a transaction that begins with an exclusion.
LEMMA LoadFacts ==
    ASSUME TypeOK, NEW t \in Txns, NEW owner \in BOOLEAN, NEW loaded \in SourceVersion,
           tx' = [tx EXCEPT ![t].pc = "exclude_article", ![t].owner = owner,
                            ![t].loaded = loaded]
    PROVE  /\ tx' \in [Txns -> TxState] /\ \A u \in Txns \ {t} : tx'[u] = tx[u]
           /\ tx'[t].pc = "exclude_article" /\ tx'[t].loaded = loaded
           /\ tx'[t].owner = owner /\ tx'[t].open = tx[t].open
<1> DEFINE r == [tx[t] EXCEPT !.pc = "exclude_article", !.owner = owner, !.loaded = loaded]
<1>1. /\ r \in TxState /\ r.pc = "exclude_article" /\ r.loaded = loaded
      /\ r.owner = owner /\ r.open = tx[t].open
  <2>1. tx[t] \in TxState
    BY Fields
  <2> QED
    BY <2>1 DEF TxState, Stages
<1>2. tx' = [tx EXCEPT ![t] = r]
  OBVIOUS
<1> HIDE DEF r
<1> QED
  BY <1>1, <1>2, TxSet

LEMMA CrawlUnavailableStep ==
    ASSUME IInv, NEW t \in Crawlers, CrawlUnavailable(t)
    PROVE  IInv'
<1>1. /\ tx[t].pc = "idle" /\ startup = NoTxn /\ startup' = startup
      /\ crawls < MaxCrawls /\ crawls' = crawls + 1 /\ denials' = denials
      /\ Stored(source[Article].val) /\ Free(t, source[Article])
      /\ source' = [source EXCEPT ![Article] = Hold(t, source[Article])]
      /\ tx' = [tx EXCEPT ![t].pc = "exclude_article", ![t].owner = FALSE,
                          ![t].loaded = View(t, source[Article])]
      /\ UNCHANGED <<chunk, embedding, denied>>
  BY DEF CrawlUnavailable, MayBegin
<1>2. /\ TypeOK /\ SourceOK /\ TablesOK /\ CountsOK /\ t \in Txns /\ MaxCrawls \in Nat
      /\ t \notin Indexers /\ t \notin Owners /\ Article \in Sources /\ tx[t].pc \in Early
      /\ denied \in Row(BOOLEAN, Txns)
  BY <1>1, TypeParts, Constants DEF IInv, Early
<1>3. ~tx[t].open /\ LocksNoChunk(t) /\ LocksNone(t) /\ Unharmed(t)
  BY <1>1, <1>2, EarlyCrawl
<1>4. View(t, source[Article]) = source[Article].val /\ source[Article].val \in SourceVersion
  BY <1>2, <1>3, Fields DEF View, LocksNone
<1>5. SourceOK' /\ QuietRows(t) /\ Unharmed(t)'
  BY <1>1, EarlyHold
<1>6. /\ \A s \in Sources : s # Article => source'[s] = source[s]
      /\ source'[Article].val = source[Article].val
      /\ source'[Article].work = source[Article].val /\ source'[Article].lock = t
  BY <1>1, <1>2, <1>4, Fields DEF Hold, Write, SourceOK, Row
<1>7. /\ tx' \in [Txns -> TxState] /\ (\A u \in Txns \ {t} : tx'[u] = tx[u])
      /\ tx'[t].pc = "exclude_article" /\ tx'[t].loaded = source[Article].val
      /\ tx'[t].owner = FALSE /\ tx'[t].open = tx[t].open
  <2>1. tx' = [tx EXCEPT ![t].pc = "exclude_article", ![t].owner = FALSE,
                         ![t].loaded = source[Article].val]
    BY <1>1, <1>4
  <2> QED
    BY <1>2, <1>4, <2>1, LoadFacts
<1>8. TypeOK'
  <2>1. CountsOK'
    BY <1>1, <1>2 DEF CountsOK
  <2>2. TablesOK' /\ denied' \in Row(BOOLEAN, Txns)
    BY <1>1, <1>2, SameParts
  <2> QED
    BY <1>5, <1>7, <2>1, <2>2, TypeNext
<1>9. Quiet(t)
  BY <1>1, <1>2, <1>5, <1>7, QuietNoTable
<1>10. LocksNoChunk(t)'
  BY <1>1, <1>3 DEF LocksNoChunk
<1>11. CrawlInv(t)'
  <2>1. tx'[t].pc \in CrawlStages /\ tx'[t].pc \in ExcludeStages /\ ~tx'[t].owner
    BY <1>7 DEF CrawlStages, ExcludeStages
  <2> QED
    BY <1>1, <1>2, <1>5, <1>6, <1>7, <1>10, <2>1 DEF CrawlInv, Unharmed
<1>12. SweepInv(t)'
  BY <1>10 DEF SweepInv, LocksNoChunk
<1>13. HideInv(t)' /\ OpenInv(t)'
  BY <1>3, <1>6, <1>7 DEF HideInv, OpenInv
<1>14. Local(t)'
  BY <1>2, <1>11, <1>12, <1>13 DEF Local
<1>15. startup' = NoTxn
  BY <1>1
<1> QED
  BY <1>2, <1>8, <1>9, <1>14, <1>15, NoStart, QuietStep

-----------------------------------------------------------------------------
(* The owner's commands.                                                   *)

LEMMA Owner ==
    ASSUME IInv, NEW t \in Owners
    PROVE  /\ t \in Txns /\ t \notin Crawlers /\ t \notin Indexers
           /\ OwnInv(t) /\ HideInv(t) /\ OpenInv(t)
BY Constants DEF IInv, Local

LEMMA OwnerLocal ==
    ASSUME NEW t \in Owners, OwnInv(t)', HideInv(t)', OpenInv(t)'
    PROVE  Local(t)'
BY Constants DEF Local

LEMMA DenyArticleStep ==
    ASSUME IInv, NEW t \in Owners, DenyArticle(t)
    PROVE  IInv'
<1>1. /\ tx[t].pc = "idle" /\ startup = NoTxn /\ startup' = startup
      /\ denials < MaxDenials /\ denials' = denials + 1 /\ crawls' = crawls
      /\ UNCHANGED <<source, chunk, embedding, denied>>
  BY DEF DenyArticle, MayBegin
<1>2. /\ TypeOK /\ SourceOK /\ TablesOK /\ CountsOK /\ t \in Txns /\ MaxDenials \in Nat
      /\ Article \in Sources /\ denied \in Row(BOOLEAN, Txns)
      /\ OwnInv(t) /\ OpenInv(t)
  BY TypeParts, Constants, Owner DEF IInv
<1>3. ~tx[t].open /\ LocksNone(t) /\ LocksNoChunk(t)
  BY <1>1, <1>2 DEF OwnInv, OpenInv, UpdateStages, AfterChunks
<1>4. LocksNone(t)' /\ LocksNoChunk(t)'
  BY <1>1, <1>3 DEF LocksNone, LocksNoChunk
<1>5. /\ tx' \in [Txns -> TxState] /\ (\A u \in Txns \ {t} : tx'[u] = tx[u])
      /\ \/ /\ Stored(source[Article].val)
            /\ tx'[t].pc = "exclude_article" /\ tx'[t].owner = TRUE
            /\ tx'[t].loaded = source[Article].val
         \/ tx'[t].pc = "insert_denylist"
      /\ tx'[t].open = tx[t].open
  <2>1. CASE Stored(source[Article].val)
    <3>1. tx' = [tx EXCEPT ![t].pc = "exclude_article", ![t].owner = TRUE,
                           ![t].loaded = source[Article].val]
      BY <2>1 DEF DenyArticle
    <3>2. source[Article].val \in SourceVersion
      BY <1>2, Fields
    <3> QED
      BY <1>2, <2>1, <3>1, <3>2, LoadFacts
  <2>2. CASE ~Stored(source[Article].val)
    <3>1. Goto(t, "insert_denylist")
      BY <2>2 DEF DenyArticle
    <3> QED
      BY <1>2, <3>1, GotoFacts DEF Stages
  <2> QED
    BY <2>1, <2>2
<1>6. TypeOK'
  <2>1. CountsOK'
    BY <1>1, <1>2 DEF CountsOK
  <2>2. SourceOK' /\ TablesOK' /\ denied' \in Row(BOOLEAN, Txns)
    BY <1>1, <1>2, SameParts
  <2> QED
    BY <1>5, <2>1, <2>2, TypeNext
<1>7. Quiet(t)
  BY <1>1, <1>2, <1>5, QuietNoRow, QuietNoTable
<1>8. OwnInv(t)'
  <2>1. source[Article].val.status = "DENIED" => denied.val
    BY <1>2 DEF IInv, SourceInv
  <2>2. CASE tx'[t].pc = "exclude_article"
    BY <1>1, <1>4, <1>5, <2>1, <2>2 DEF OwnInv, OwnStages, ExcludeStages
  <2>3. CASE tx'[t].pc = "insert_denylist"
    BY <1>1, <1>4, <2>3 DEF OwnInv, OwnStages, ExcludeStages
  <2> QED
    BY <1>5, <2>2, <2>3
<1>9. HideInv(t)' /\ OpenInv(t)'
  BY <1>2, <1>3, <1>4, <1>5 DEF HideInv, OpenInv, LocksNone
<1>10. startup' = NoTxn
  BY <1>1
<1> QED
  BY <1>2, <1>6, <1>7, <1>8, <1>9, <1>10, OwnerLocal, NoStart, QuietStep

\* A start begins: nothing is locked.
LEMMA ReconcileStep ==
    ASSUME IInv, NEW t \in Owners, Reconcile(t)
    PROVE  IInv'
<1>1. /\ (\A u \in Txns : tx[u].pc = "idle") /\ startup' = t
      /\ denials < MaxDenials /\ denials' = denials + 1 /\ crawls' = crawls
      /\ denied.val /\ Stored(source[Article].val)
      /\ UNCHANGED <<source, chunk, embedding, denied>>
      /\ tx' = [tx EXCEPT ![t].pc = "exclude_article", ![t].owner = TRUE,
                          ![t].loaded = source[Article].val]
  BY DEF Reconcile
<1>2. /\ TypeOK /\ SourceOK /\ TablesOK /\ CountsOK /\ t \in Txns /\ MaxDenials \in Nat
      /\ Article \in Sources /\ denied \in Row(BOOLEAN, Txns)
      /\ OwnInv(t) /\ OpenInv(t) /\ t # NoTxn
  BY TypeParts, Constants, Owner DEF IInv
<1>3. ~tx[t].open /\ LocksNone(t) /\ LocksNoChunk(t)
  BY <1>1, <1>2 DEF OwnInv, OpenInv, UpdateStages, AfterChunks
<1>4. LocksNone(t)' /\ LocksNoChunk(t)'
  BY <1>1, <1>3 DEF LocksNone, LocksNoChunk
<1>5. /\ tx' \in [Txns -> TxState] /\ (\A u \in Txns \ {t} : tx'[u] = tx[u])
      /\ tx'[t].pc = "exclude_article" /\ tx'[t].owner = TRUE
      /\ tx'[t].loaded = source[Article].val /\ tx'[t].open = tx[t].open
  <2>1. source[Article].val \in SourceVersion
    BY <1>2, Fields
  <2> QED
    BY <1>1, <1>2, <2>1, LoadFacts
<1>6. TypeOK'
  <2>1. CountsOK'
    BY <1>1, <1>2 DEF CountsOK
  <2>2. SourceOK' /\ TablesOK' /\ denied' \in Row(BOOLEAN, Txns)
    BY <1>1, <1>2, SameParts
  <2> QED
    BY <1>5, <2>1, <2>2, TypeNext
<1>7. Quiet(t)
  BY <1>1, <1>2, <1>5, QuietNoRow, QuietNoTable
<1>8. OwnInv(t)'
  BY <1>1, <1>4, <1>5 DEF OwnInv, OwnStages, ExcludeStages
<1>9. HideInv(t)' /\ OpenInv(t)'
  BY <1>2, <1>3, <1>4, <1>5 DEF HideInv, OpenInv, LocksNone
<1>10. AloneInv'
  <2>1. \A u \in Txns \ {t} : tx'[u].pc = "idle"
    BY <1>1, <1>5
  <2> QED
    BY <1>1, <1>5, <2>1 DEF AloneInv, ExcludeStages
<1>11. RepairInv'
  <2>1. RepairArticle(t)' /\ RepairChunks(t)'
    BY <1>3, <1>5 DEF RepairArticle, RepairChunks, AfterChunks
  <2>2. RepairComments(t)'
    <3>1. \A s \in Comments : source'[s].lock # t
      BY <1>4, Constants DEF LocksNone
    <3> QED
      BY <1>5, <3>1 DEF RepairComments
  <2> QED
    BY <1>1, <2>1, <2>2 DEF RepairInv
<1> QED
  BY <1>2, <1>6, <1>7, <1>8, <1>9, <1>10, <1>11, OwnerLocal, QuietStep

\* The denylist row is written, by one command or another.
LEMMA DenylistRow ==
    ASSUME denied \in Row(BOOLEAN, Txns), NEW t \in Txns, denied' = Write(t, denied, TRUE)
    PROVE  /\ denied' \in Row(BOOLEAN, Txns) /\ denied'.val = denied.val
           /\ denied'.work = TRUE /\ denied'.lock = t
BY DEF Row, Write

LEMMA AddDenylistStep ==
    ASSUME IInv, NEW t \in Owners, AddDenylist(t)
    PROVE  IInv'
<1>1. /\ tx[t].pc = "add_denylist" /\ Free(t, denied) /\ denied' = Write(t, denied, TRUE)
      /\ Goto(t, "commit") /\ UNCHANGED <<source, chunk, embedding>> /\ UNCHANGED others
  BY DEF AddDenylist
<1>2. /\ TypeOK /\ SourceOK /\ TablesOK /\ denied \in Row(BOOLEAN, Txns) /\ t \in Txns
      /\ OwnInv(t) /\ HideInv(t) /\ OpenInv(t)
  BY TypeParts, Owner DEF IInv
<1>3. /\ tx' \in [Txns -> TxState] /\ (\A u \in Txns \ {t} : tx'[u] = tx[u])
      /\ tx'[t].pc = "commit" /\ tx'[t].loaded = tx[t].loaded /\ tx'[t].open = tx[t].open
  BY <1>1, <1>2, GotoFacts DEF Stages
<1>4. /\ denied' \in Row(BOOLEAN, Txns) /\ denied'.val = denied.val
      /\ denied'.work = TRUE /\ denied'.lock = t
  BY <1>1, <1>2, DenylistRow
<1>5. SourceOK' /\ TablesOK' /\ CountsOK' /\ startup' = startup
  BY <1>1, <1>2, SameParts, SameCounts
<1>6. TypeOK'
  BY <1>3, <1>4, <1>5, TypeNext
<1>7. Quiet(t)
  <2>1. QuietDenied(t)
    BY <1>1, <1>4 DEF QuietDenied, Free
  <2> QED
    BY <1>1, <1>2, <1>3, <2>1, QuietNoRow DEF Quiet, QuietChunk
<1>8. ~tx[t].open
  BY <1>1, <1>2 DEF OpenInv, UpdateStages
<1>9. OwnInv(t)'
  BY <1>3, <1>4 DEF OwnInv, OwnStages, ExcludeStages, AfterChunks
<1>10. HideInv(t)' /\ OpenInv(t)'
  BY <1>1, <1>2, <1>3, <1>8 DEF HideInv, OpenInv, AfterChunks
<1>11. ASSUME startup = t
       PROVE  RepairArticle(t)' /\ RepairChunks(t)' /\ RepairComments(t)'
  <2>1. RepairArticle(t) /\ RepairChunks(t) /\ RepairComments(t)
    BY <1>1, <1>2, <1>11, OurStart, Constants
  <2>2. RepairArticle(t)'
    BY <1>1, <2>1 DEF RepairArticle
  <2>3. RepairChunks(t)'
    BY <1>1, <1>3, <2>1 DEF RepairChunks, AfterChunks
  <2>4. RepairComments(t)'
    BY <1>1, <1>3, <2>1 DEF RepairComments
  <2> QED
    BY <2>2, <2>3, <2>4
<1>12. AloneInv' /\ RepairInv'
  BY <1>1, <1>2, <1>3, <1>5, <1>7, <1>11, StartStep
<1> QED
  BY <1>2, <1>6, <1>7, <1>9, <1>10, <1>12, OwnerLocal, QuietStep

LEMMA InsertDenylistStep ==
    ASSUME IInv, NEW t \in Owners, InsertDenylist(t)
    PROVE  IInv'
<1>1. /\ tx[t].pc = "insert_denylist" /\ Goto(t, "commit")
      /\ \/ denied.val /\ denied' = denied
         \/ Free(t, denied) /\ denied' = Write(t, denied, TRUE)
      /\ UNCHANGED <<source, chunk, embedding>> /\ UNCHANGED others
  BY DEF InsertDenylist
<1>2. /\ TypeOK /\ SourceOK /\ TablesOK /\ denied \in Row(BOOLEAN, Txns) /\ t \in Txns
      /\ OwnInv(t) /\ OpenInv(t) /\ Article \in Sources
  BY TypeParts, Owner, Constants DEF IInv
<1>3. /\ tx' \in [Txns -> TxState] /\ (\A u \in Txns \ {t} : tx'[u] = tx[u])
      /\ tx'[t].pc = "commit" /\ tx'[t].open = tx[t].open
  BY <1>1, <1>2, GotoFacts DEF Stages
<1>4. denied' \in Row(BOOLEAN, Txns) /\ QuietDenied(t) /\ (denied'.val \/ denied'.lock = t)
  <2>1. CASE denied.val /\ denied' = denied
    BY <1>2, <2>1 DEF QuietDenied
  <2>2. CASE Free(t, denied) /\ denied' = Write(t, denied, TRUE)
    <3>1. /\ denied' \in Row(BOOLEAN, Txns) /\ denied'.val = denied.val
          /\ denied'.work = TRUE /\ denied'.lock = t
      BY <1>2, <2>2, DenylistRow
    <3> QED
      BY <2>2, <3>1 DEF QuietDenied, Free
  <2> QED
    BY <1>1, <2>1, <2>2
<1>5. SourceOK' /\ TablesOK' /\ CountsOK' /\ startup' = startup
  BY <1>1, <1>2, SameParts, SameCounts
<1>6. TypeOK'
  BY <1>3, <1>4, <1>5, TypeNext
<1>7. Quiet(t)
  BY <1>1, <1>2, <1>3, <1>4, QuietNoRow DEF Quiet, QuietChunk
<1>8. ~tx[t].open /\ LocksNone(t)
  BY <1>1, <1>2 DEF OpenInv, UpdateStages, OwnInv
<1>9. OwnInv(t)'
  BY <1>3, <1>4 DEF OwnInv, OwnStages, ExcludeStages, AfterChunks
<1>10. HideInv(t)' /\ OpenInv(t)'
  BY <1>1, <1>2, <1>3, <1>8 DEF HideInv, OpenInv, LocksNone
<1>11. startup' = NoTxn
  <2>1. tx[t].pc \notin {"idle"} \cup ExcludeStages \cup {"add_denylist", "commit"}
    BY <1>1 DEF ExcludeStages
  <2> QED
    BY <1>2, <1>5, <2>1, OurStart
<1> QED
  BY <1>2, <1>6, <1>7, <1>9, <1>10, <1>11, OwnerLocal, NoStart, QuietStep

-----------------------------------------------------------------------------
(* An index run.                                                           *)

LEMMA Indexer ==
    ASSUME IInv, NEW t \in Indexers
    PROVE  /\ t \in Txns /\ t \notin Crawlers /\ t \notin Owners /\ t # NoTxn
           /\ IndexInv(t) /\ OpenInv(t)
BY Constants DEF IInv, Local

\* The stages of an index run are no other's.
LEMMA IndexerOnly ==
    ASSUME IInv, NEW t \in Txns,
           tx[t].pc \in {"next_source", "stale_chunks", "stale_embeddings", "write_chunks"}
    PROVE  t \in Indexers
<1>1. t \in Crawlers => tx[t].pc \in CrawlStages
  BY DEF IInv, Local, CrawlInv
<1>2. t \in Owners => tx[t].pc \in OwnStages
  BY DEF IInv, Local, OwnInv
<1> QED
  BY <1>1, <1>2, Constants DEF CrawlStages, OwnStages, ExcludeStages

\* It keeps the texts of the rows it holds.
LEMMA IndexStep ==
    ASSUME IInv, NEW t \in Indexers, tx[t].pc # "idle" \/ startup = NoTxn, UNCHANGED others,
           Quiet(t), SourceOK', TablesOK', denied' = denied, tx' \in [Txns -> TxState],
           IndexInv(t)', OpenInv(t)'
    PROVE  IInv'
<1>1. t \in Txns /\ t \notin Crawlers /\ t \notin Owners
  BY Indexer
<1>2. CountsOK' /\ startup' = startup /\ denied' \in Row(BOOLEAN, Txns)
  BY SameCounts, TypeParts DEF IInv
<1>3. TypeOK'
  BY <1>2, TypeNext
<1>4. Local(t)'
  BY <1>1 DEF Local
<1>5. startup' = NoTxn
  BY <1>1, <1>2, NotStarting
<1> QED
  BY <1>1, <1>3, <1>4, <1>5, NoStart, QuietStep

\* The state of a run that takes a batch.
LEMMA BatchFacts ==
    ASSUME TypeOK, NEW t \in Txns, NEW stage \in Stages, NEW todo \in SUBSET Sources,
           tx' = [tx EXCEPT ![t].pc = stage, ![t].todo = todo]
    PROVE  /\ tx' \in [Txns -> TxState] /\ \A u \in Txns \ {t} : tx'[u] = tx[u]
           /\ tx'[t].pc = stage /\ tx'[t].todo = todo /\ tx'[t].open = tx[t].open
<1> DEFINE r == [tx[t] EXCEPT !.pc = stage, !.todo = todo]
<1>1. r \in TxState /\ r.pc = stage /\ r.todo = todo /\ r.open = tx[t].open
  <2>1. tx[t] \in TxState
    BY Fields
  <2> QED
    BY <2>1 DEF TxState
<1>2. tx' = [tx EXCEPT ![t] = r]
  OBVIOUS
<1> HIDE DEF r
<1> QED
  BY <1>1, <1>2, TxSet

\* Rows that are ready and free, taken as they are.
LEMMA HeldRows ==
    ASSUME IInv, NEW t \in Indexers, LocksNone(t), NEW batch \in SUBSET Sources,
           \A s \in batch : source[s].lock = NoTxn /\ source[s].val.status = ReadyStatus(s),
           source' = [s \in Sources |-> IF s \in batch THEN Hold(t, source[s]) ELSE source[s]]
    PROVE  /\ SourceOK' /\ QuietRows(t) /\ Mine(t)' = batch
           /\ \A s \in batch : /\ source'[s].val = source[s].val
                               /\ source'[s].work = source[s].val
<1>1. TypeOK /\ SourceOK /\ t \in Txns /\ t # NoTxn
  BY TypeParts, Indexer DEF IInv
<1>2. \A s \in Sources : source[s] \in Row(SourceVersion, Txns)
  BY <1>1, Fields
<1>3. \A s \in batch : source'[s] = Hold(t, source[s])
  OBVIOUS
<1>4. \A s \in batch : /\ source'[s] \in Row(SourceVersion, Txns)
                       /\ source'[s].val = source[s].val
                       /\ source'[s].work = View(t, source[s]) /\ source'[s].lock = t
  BY <1>1, <1>2, <1>3, HoldFacts
<1>5. \A s \in batch : View(t, source[s]) = source[s].val
  BY <1>1 DEF View
<1>6. \A s \in Sources : s \notin batch => source'[s] = source[s]
  OBVIOUS
<1>7. SourceOK'
  <2>1. source' \in [Sources -> Row(SourceVersion, Txns)]
    BY <1>2, <1>4, <1>6
  <2>2. \A s \in Sources :
          source[s].val.status \in StatusOf(s) /\ source[s].work.status \in StatusOf(s)
    BY <1>1, Fields
  <2>3. \A s \in Sources :
          source'[s].val.status \in StatusOf(s) /\ source'[s].work.status \in StatusOf(s)
    BY <1>4, <1>5, <1>6, <2>2
  <2> QED
    BY <2>1, <2>3 DEF SourceOK, StatusOf
<1>8. QuietRows(t)
  <2>1. \A s \in batch : Stored(source[s].val) /\ HasText(s, source[s].val)
    BY StatusFacts DEF IInv, SourceInv, Stored
  <2>2. \A s \in Sources : QuietRow(t, s)
    BY <1>4, <1>5, <1>6, <2>1 DEF QuietRow
  <2> QED
    BY <2>2 DEF QuietRows, LocksNone
<1>9. Mine(t)' = batch
  BY <1>4, <1>6 DEF Mine, LocksNone
<1> QED
  BY <1>4, <1>5, <1>7, <1>8, <1>9

LEMMA BeginBatchStep ==
    ASSUME IInv, NEW t \in Indexers, BeginBatch(t)
    PROVE  IInv'
<1>1. /\ tx[t].pc = "idle" /\ startup = NoTxn
      /\ UNCHANGED <<chunk, embedding>> /\ denied' = denied /\ UNCHANGED others
  BY DEF BeginBatch, MayBegin
<1>2. PICK kind \in {{Article}, Comments, Media} : \E batch \in SUBSET Eligible(kind) \ {{}} :
        /\ source' = [s \in Sources |-> IF s \in batch THEN Hold(t, source[s]) ELSE source[s]]
        /\ tx' = [tx EXCEPT ![t].pc = "next_source", ![t].todo = batch]
  BY DEF BeginBatch
<1>3. PICK batch \in SUBSET Eligible(kind) \ {{}} :
        /\ source' = [s \in Sources |-> IF s \in batch THEN Hold(t, source[s]) ELSE source[s]]
        /\ tx' = [tx EXCEPT ![t].pc = "next_source", ![t].todo = batch]
  BY <1>2
<1>4. TypeOK /\ TablesOK /\ t \in Txns /\ IndexInv(t) /\ OpenInv(t)
  BY TypeParts, Indexer DEF IInv
<1>5. LocksNone(t) /\ ~tx[t].open
  BY <1>1, <1>4 DEF IndexInv, OpenInv, UpdateStages
<1>6. /\ batch \in SUBSET Sources
      /\ \A s \in batch : source[s].lock = NoTxn /\ source[s].val.status = ReadyStatus(s)
  <2>1. kind \subseteq Sources
    BY Constants
  <2> QED
    BY <2>1 DEF Eligible
<1>7. /\ SourceOK' /\ QuietRows(t) /\ Mine(t)' = batch
      /\ \A s \in batch : source'[s].val = source[s].val /\ source'[s].work = source[s].val
  BY <1>3, <1>5, <1>6, HeldRows
<1>8. /\ tx' \in [Txns -> TxState] /\ (\A u \in Txns \ {t} : tx'[u] = tx[u])
      /\ tx'[t].pc = "next_source" /\ tx'[t].todo = batch /\ tx'[t].open = tx[t].open
  BY <1>3, <1>4, <1>6, BatchFacts DEF Stages
<1>9. TablesOK' /\ Quiet(t)
  BY <1>1, <1>4, <1>7, <1>8, SameParts, QuietNoTable
<1>10. IndexInv(t)'
  <2>1. \A x \in Chunks : chunk[x].lock # t
    BY <1>5 DEF IInv, ChunkInv, LocksNone, Chunks
  <2>2. \A s \in Sources : source'[s].lock = t =>
          source'[s].val.status = ReadyStatus(s) /\ source'[s].work.body = source'[s].val.body
    <3>1. \A s \in Sources : source'[s].lock = t => s \in batch
      BY <1>7 DEF Mine
    <3> QED
      BY <1>6, <1>7, <3>1
  <2>3. tx'[t].todo \subseteq Mine(t)' /\ Mine(t)' \ tx'[t].todo = {}
    BY <1>7, <1>8
  <2> QED
    BY <1>1, <1>8, <2>1, <2>2, <2>3 DEF IndexInv, IndexStages
<1>11. OpenInv(t)'
  BY <1>5, <1>8 DEF OpenInv
<1> QED
  BY <1>1, <1>7, <1>8, <1>9, <1>10, <1>11, IndexStep

LEMMA NextSourceStep ==
    ASSUME IInv, NEW t \in Indexers, NextSource(t)
    PROVE  IInv'
<1>1. /\ tx[t].pc = "next_source"
      /\ UNCHANGED <<chunk, embedding>> /\ denied' = denied /\ UNCHANGED others
  BY DEF NextSource
<1>2. TypeOK /\ SourceOK /\ TablesOK /\ t \in Txns /\ IndexInv(t) /\ OpenInv(t)
  BY TypeParts, Indexer DEF IInv
<1>3. ~tx[t].open
  BY <1>1, <1>2 DEF OpenInv, UpdateStages
<1>4. /\ \A s \in Sources : source[s].lock = t =>
           source[s].val.status = ReadyStatus(s) /\ source[s].work.body = source[s].val.body
      /\ \A x \in Chunks : chunk[x].lock = t => chunk[x].val # "absent" /\ chunk[x].work = "off"
      /\ tx[t].todo \subseteq Mine(t)
      /\ \A s \in Mine(t) \ tx[t].todo : Replaced(t, s)
  BY <1>1, <1>2 DEF IndexInv
<1>5. CASE tx[t].todo = {}
  <2> DEFINE todo == {s \in Mine(t) : source[s].work.body # Empty}
  <2>1. source' = source /\ tx' = [tx EXCEPT ![t].pc = "write_chunks", ![t].todo = todo]
    BY <1>5 DEF NextSource
  <2>2. todo \in SUBSET Sources /\ todo \subseteq Mine(t)
    BY DEF Mine
  <2>3. \A s \in Mine(t) \ todo : Written(t, s)
    BY DEF Written
  <2>4. \A s \in todo : source[s].work.body # Empty
    OBVIOUS
  <2> HIDE DEF todo
  <2>5. /\ tx' \in [Txns -> TxState] /\ (\A u \in Txns \ {t} : tx'[u] = tx[u])
        /\ tx'[t].pc = "write_chunks" /\ tx'[t].todo = todo /\ tx'[t].open = tx[t].open
    BY <1>2, <2>1, <2>2, BatchFacts DEF Stages
  <2>6. SourceOK' /\ TablesOK' /\ Quiet(t)
    BY <1>1, <1>2, <2>1, <2>5, SameParts, QuietNoRow, QuietNoTable
  <2>7. IndexInv(t)'
    <3>1. Mine(t)' = Mine(t)
      BY <2>1 DEF Mine
    <3>2. \A s \in Mine(t) : Replaced(t, s)'
      BY <1>1, <1>4, <1>5, <2>1 DEF Replaced
    <3>3. \A s \in Mine(t) \ todo : Written(t, s)'
      BY <1>1, <2>1, <2>3 DEF Written
    <3> QED
      BY <1>4, <2>1, <2>2, <2>4, <2>5, <3>1, <3>2, <3>3 DEF IndexInv, IndexStages
  <2>8. OpenInv(t)'
    BY <1>3, <2>5 DEF OpenInv
  <2> QED
    BY <1>1, <2>5, <2>6, <2>7, <2>8, IndexStep
<1>6. CASE tx[t].todo # {}
  <2>1. PICK s \in tx[t].todo :
          /\ source' = [source EXCEPT ![s] =
               Write(t, source[s], [source[s].work EXCEPT !.status = IndexedStatus(s)])]
          /\ tx' = [tx EXCEPT ![t].pc = "stale_chunks", ![t].now = s,
                              ![t].todo = tx[t].todo \ {s}]
    BY <1>6 DEF NextSource
  <2>2. s \in Mine(t) /\ s \in Sources /\ source[s].lock = t
    BY <1>4 DEF Mine
  <2> DEFINE v == [source[s].work EXCEPT !.status = IndexedStatus(s)]
  <2>3. /\ v \in SourceVersion /\ v.status = IndexedStatus(s) /\ v.body = source[s].work.body
    <3>1. source[s].work \in SourceVersion
      BY <1>2, <2>2, Fields
    <3>2. IndexedStatus(s) \in TextStatus \cup MediaStatus
      BY <2>2, StatusFacts
    <3> QED
      BY <3>1, <3>2 DEF SourceVersion
  <2>4. source' = [source EXCEPT ![s] = Write(t, source[s], v)]
    BY <2>1
  <2> HIDE DEF v
  <2>5. /\ SourceOK'
        /\ \A r \in Sources : r # s => source'[r] = source[r]
        /\ source'[s].val = source[s].val /\ source'[s].work = v /\ source'[s].lock = t
    <3>1. v.status \in StatusOf(s)
      BY <2>2, <2>3, StatusFacts
    <3> QED
      BY <1>2, <2>2, <2>3, <2>4, <3>1, WriteSource
  <2>6. Stored(v) /\ HasText(s, v)
    <3>1. Stored(v)
      BY <2>2, <2>3, StatusFacts DEF Stored
    <3>2. HasText(s, source[s].val)
      BY <2>2 DEF IInv, SourceInv
    <3>3. v.body = source[s].val.body /\ source[s].val.status = ReadyStatus(s)
      BY <1>4, <2>2, <2>3
    <3> QED
      BY <3>1, <3>2, <3>3 DEF HasText
  <2>7. QuietRows(t)
    <3>1. \A r \in Sources : QuietRow(t, r)
      BY <2>2, <2>5, <2>6 DEF QuietRow
    <3>2. \A r \in Sources : source[r].lock = t => source'[r].work.body = source[r].work.body
      BY <2>3, <2>5
    <3> QED
      BY <3>1, <3>2 DEF QuietRows
  <2>8. /\ tx' \in [Txns -> TxState] /\ (\A u \in Txns \ {t} : tx'[u] = tx[u])
        /\ tx'[t].pc = "stale_chunks" /\ tx'[t].now = s /\ tx'[t].todo = tx[t].todo \ {s}
        /\ tx'[t].open = tx[t].open
    <3> DEFINE r == [tx[t] EXCEPT !.pc = "stale_chunks", !.now = s, !.todo = tx[t].todo \ {s}]
    <3>1. /\ r \in TxState /\ r.pc = "stale_chunks" /\ r.now = s
          /\ r.todo = tx[t].todo \ {s} /\ r.open = tx[t].open
      <4>1. tx[t] \in TxState /\ tx[t].todo \ {s} \in SUBSET Sources
        BY <1>2, Fields
      <4> QED
        BY <2>2, <4>1 DEF TxState, Stages, UpdateStages
    <3>2. tx' = [tx EXCEPT ![t] = r]
      BY <2>1
    <3> HIDE DEF r
    <3> QED
      BY <1>2, <3>1, <3>2, TxSet
  <2>9. TablesOK' /\ Quiet(t)
    BY <1>1, <1>2, <2>7, <2>8, SameParts, QuietNoTable
  <2>10. IndexInv(t)'
    <3>1. Mine(t)' = Mine(t)
      BY <2>2, <2>5 DEF Mine
    <3>2. \A r \in Sources : source'[r].lock = t =>
            source'[r].val.status = ReadyStatus(r) /\ source'[r].work.body = source'[r].val.body
      BY <1>4, <2>2, <2>3, <2>5
    <3>3. \A r \in Mine(t) \ (tx'[t].todo \cup {s}) : Replaced(t, r)'
      <4>1. \A r \in Mine(t) \ (tx'[t].todo \cup {s}) : Replaced(t, r) /\ source'[r] = source[r]
        BY <1>4, <2>5, <2>8 DEF Mine
      <4> QED
        BY <1>1, <4>1 DEF Replaced
    <3>4. tx'[t].todo \subseteq Mine(t) /\ s \in Mine(t) \ tx'[t].todo
      BY <1>4, <2>2, <2>8
    <3>5. source'[s].work.status = IndexedStatus(s)
      BY <2>3, <2>5
    <3>6. ~tx'[t].open
      BY <1>3, <2>8
    <3> QED
      BY <1>1, <1>4, <2>8, <3>1, <3>2, <3>3, <3>4, <3>5, <3>6 DEF IndexInv, IndexStages
  <2>11. OpenInv(t)'
    BY <1>3, <2>8 DEF OpenInv
  <2> QED
    BY <1>1, <2>5, <2>8, <2>9, <2>10, <2>11, IndexStep
<1> QED
  BY <1>5, <1>6

LEMMA EndBatchStep ==
    ASSUME IInv, NEW t \in Indexers, EndBatch(t)
    PROVE  IInv'
<1>1. /\ tx[t].pc = "write_chunks" /\ tx[t].todo = {} /\ Goto(t, "commit")
      /\ UNCHANGED <<source, chunk, embedding>> /\ denied' = denied /\ UNCHANGED others
  BY DEF EndBatch
<1>2. TypeOK /\ SourceOK /\ TablesOK /\ t \in Txns /\ IndexInv(t) /\ OpenInv(t)
  BY TypeParts, Indexer DEF IInv
<1>3. /\ tx' \in [Txns -> TxState] /\ (\A u \in Txns \ {t} : tx'[u] = tx[u])
      /\ tx'[t].pc = "commit" /\ tx'[t].open = tx[t].open
  BY <1>1, <1>2, GotoFacts DEF Stages
<1>4. SourceOK' /\ TablesOK' /\ Quiet(t)
  BY <1>1, <1>2, <1>3, SameParts, QuietNoRow, QuietNoTable
<1>5. IndexInv(t)'
  <2>1. Mine(t)' = Mine(t)
    BY <1>1 DEF Mine
  <2>2. \A s \in Mine(t) : Replaced(t, s)' /\ Written(t, s)'
    BY <1>1, <1>2 DEF IndexInv, Replaced, Written
  <2>3. \A s \in Sources : source'[s].lock = t =>
          source'[s].val.status = ReadyStatus(s) /\ source'[s].work.body = source'[s].val.body
    BY <1>1, <1>2 DEF IndexInv
  <2> QED
    BY <1>3, <2>1, <2>2, <2>3 DEF IndexInv, IndexStages
<1>6. OpenInv(t)'
  BY <1>1, <1>2, <1>3 DEF OpenInv, UpdateStages
<1> QED
  BY <1>1, <1>3, <1>4, <1>5, <1>6, IndexStep

\* The chunks of the source that its text does not yield.
LEMMA StaleFacts ==
    ASSUME IInv, NEW t \in Indexers, tx[t].pc \in {"stale_chunks", "stale_embeddings"}
    PROVE  /\ tx[t].now \in Sources /\ source[tx[t].now].lock = t
           /\ StaleChunks(t) = {tx[t].now} \X (Content \ {source[tx[t].now].work.body})
           /\ StaleChunks(t) \subseteq Chunks /\ \A x \in StaleChunks(t) : x[1] = tx[t].now
<1>1. tx[t].now \in Sources /\ source[tx[t].now].lock = t
  BY Indexer DEF IndexInv, Mine
<1>2. StaleChunks(t) = {tx[t].now} \X (Content \ {source[tx[t].now].work.body})
  BY <1>1 DEF StaleChunks, View
<1> QED
  BY <1>1, <1>2 DEF Chunks

LEMMA BeginStaleStep ==
    ASSUME IInv, NEW t \in Indexers, tx[t].pc \in {"stale_chunks", "stale_embeddings"},
           BeginUpdate(t)
    PROVE  IInv'
<1> DEFINE found == {x \in Matches(t) : Visible(t, x)}
<1>1. /\ tx' = [tx EXCEPT ![t].open = TRUE, ![t].matched = found]
      /\ UNCHANGED <<source, chunk, embedding>> /\ denied' = denied /\ UNCHANGED others
  BY DEF BeginUpdate
<1>2. TypeOK /\ SourceOK /\ TablesOK /\ t \in Txns /\ IndexInv(t) /\ OpenInv(t)
  BY TypeParts, Indexer DEF IInv
<1>3. Matches(t) = StaleChunks(t)
  BY DEF Matches
<1>4. found \in SUBSET Pairs
  BY <1>3, StaleFacts DEF Chunks, Pairs
<1>5. tx[t].pc = "stale_chunks" => found = {x \in StaleChunks(t) : chunk[x].val # "absent"}
  <2> SUFFICES ASSUME tx[t].pc = "stale_chunks"
               PROVE  found = {x \in StaleChunks(t) : chunk[x].val # "absent"}
    OBVIOUS
  <2>1. \A x \in Chunks : View(t, chunk[x]) # "absent" <=> chunk[x].val # "absent"
    BY <1>2 DEF IndexInv, View
  <2>2. \A x \in StaleChunks(t) : Visible(t, x) <=> View(t, chunk[x]) # "absent"
    BY DEF Visible
  <2> QED
    BY <1>3, <2>1, <2>2, StaleFacts
<1> HIDE DEF found
<1>6. /\ tx' \in [Txns -> TxState] /\ (\A u \in Txns \ {t} : tx'[u] = tx[u])
      /\ tx'[t].pc = tx[t].pc /\ tx'[t].todo = tx[t].todo /\ tx'[t].now = tx[t].now
      /\ tx'[t].open = TRUE /\ tx'[t].matched = found
  BY <1>1, <1>2, <1>4, OpenFacts
<1>7. SourceOK' /\ TablesOK' /\ Quiet(t)
  BY <1>1, <1>2, <1>6, SameParts, QuietNoRow, QuietNoTable
<1>8. IndexInv(t)'
  <2>1. Mine(t)' = Mine(t)
    BY <1>1 DEF Mine
  <2>2. \A s \in Sources : Replaced(t, s)' <=> Replaced(t, s)
    BY <1>1 DEF Replaced
  <2>3. StaleChunks(t)' = StaleChunks(t)
    BY <1>1, <1>6 DEF StaleChunks
  <2>4. tx'[t].pc = "stale_chunks" =>
          tx'[t].matched = {x \in StaleChunks(t) : chunk[x].val # "absent"}'
    BY <1>1, <1>5, <1>6, <2>3
  <2>5. Mine(t) \subseteq Sources
    BY DEF Mine
  <2> QED
    BY <1>1, <1>2, <1>6, <2>1, <2>2, <2>4, <2>5 DEF IndexInv
<1>9. OpenInv(t)'
  BY <1>6 DEF OpenInv, UpdateStages
<1> QED
  BY <1>1, <1>6, <1>7, <1>8, <1>9, IndexStep

\* They are switched off: what stays on is the chunk of the text.
LEMMA StaleChunksStep ==
    ASSUME IInv, NEW t \in Indexers, tx[t].pc = "stale_chunks", UpdateChunks(t)
    PROVE  IInv'
<1>1. /\ tx[t].open /\ (\A x \in tx[t].matched : Free(t, chunk[x]))
      /\ chunk' = Deactivate(t, chunk) /\ EndUpdate(t)
      /\ UNCHANGED <<source, embedding>> /\ denied' = denied /\ UNCHANGED others
  BY DEF UpdateChunks
<1>2. /\ TypeOK /\ SourceOK /\ TablesOK /\ t \in Txns /\ IndexInv(t)
      /\ t \notin Crawlers /\ t \notin Owners
      /\ StageAfter(t) = "stale_embeddings"
  BY TypeParts, Indexer DEF IInv, StageAfter
<1>3. /\ tx' \in [Txns -> TxState] /\ (\A u \in Txns \ {t} : tx'[u] = tx[u])
      /\ tx'[t].pc = "stale_embeddings" /\ tx'[t].todo = tx[t].todo /\ tx'[t].now = tx[t].now
      /\ tx'[t].open = FALSE
  BY <1>1, <1>2, CloseFacts DEF Stages, UpdateStages
<1> DEFINE now == tx[t].now
<1>4. /\ now \in Mine(t) \ tx[t].todo /\ now \in Sources /\ source[now].lock = t
      /\ source[now].work.status = IndexedStatus(now)
      /\ tx[t].todo \subseteq Mine(t)
      /\ tx[t].matched = {x \in StaleChunks(t) : chunk[x].val # "absent"}
      /\ \A s \in Mine(t) \ (tx[t].todo \cup {now}) : Replaced(t, s)
      /\ \A x \in Chunks : chunk[x].lock = t => chunk[x].val # "absent" /\ chunk[x].work = "off"
      /\ \A s \in Sources : source[s].lock = t =>
           source[s].val.status = ReadyStatus(s) /\ source[s].work.body = source[s].val.body
  BY <1>1, <1>2, StaleFacts DEF IndexInv
<1>5. /\ \A x \in tx[t].matched : x \in Chunks /\ chunk[x].val # "absent" /\ x[1] = now
      /\ \A c \in Content \ {source[now].work.body} :
           chunk[<<now, c>>].val # "absent" => <<now, c>> \in tx[t].matched
  BY <1>4, StaleFacts
<1>6. \A x \in Chunks : /\ x \in tx[t].matched => chunk'[x] = Write(t, chunk[x], "off")
                        /\ x \notin tx[t].matched => chunk'[x] = chunk[x]
  BY <1>1 DEF Deactivate, Chunks
<1>7. \A x \in Chunks : /\ chunk[x] \in Row(Flags, Txns)
                        /\ Write(t, chunk[x], "off") \in Row(Flags, Txns)
                        /\ Write(t, chunk[x], "off").val = chunk[x].val
                        /\ Write(t, chunk[x], "off").work = "off"
                        /\ Write(t, chunk[x], "off").lock = t
  <2>1. \A x \in Chunks : chunk[x] \in Row(Flags, Txns)
    BY <1>2, Fields
  <2>2. "off" \in Flags
    BY DEF Flags
  <2> QED
    BY <1>2, <2>1, <2>2 DEF Row, Write
<1>8. SourceOK' /\ TablesOK'
  <2>1. \A x \in Chunks : chunk'[x] \in Row(Flags, Txns)
    BY <1>6, <1>7
  <2>2. chunk' \in [Sources \X Content -> Row(Flags, Txns)]
    BY <1>1, <2>1 DEF Deactivate, Chunks
  <2> QED
    BY <1>1, <1>2, <2>2, SameParts DEF TablesOK
<1>9. Quiet(t)
  <2>1. \A x \in Chunks : QuietChunk(t, x)
    BY <1>1, <1>2, <1>4, <1>5, <1>6, <1>7 DEF QuietChunk, Free
  <2> QED
    BY <1>1, <1>2, <1>3, <2>1, QuietNoRow DEF Quiet, QuietDenied
<1>10. \A s \in Mine(t) \ tx[t].todo : Replaced(t, s)'
  <2> SUFFICES ASSUME NEW s \in Mine(t) \ tx[t].todo
               PROVE  /\ source[s].work.status = IndexedStatus(s)
                      /\ \A c \in Content \ {source[s].work.body} :
                           \/ chunk'[<<s, c>>].val = "absent"
                           \/ chunk'[<<s, c>>].lock = t /\ chunk'[<<s, c>>].work = "off"
    BY <1>1 DEF Replaced
  <2>1. s \in Sources /\ \A c \in Content : <<s, c>> \in Chunks /\ <<s, c>>[1] = s
    BY DEF Mine, Chunks
  <2>2. CASE s = now
    BY <1>4, <1>5, <1>6, <1>7, <2>1, <2>2
  <2>3. CASE s # now
    <3>1. \A c \in Content : chunk'[<<s, c>>] = chunk[<<s, c>>]
      BY <1>5, <1>6, <2>1, <2>3
    <3>2. Replaced(t, s)
      BY <1>4, <2>3
    <3> QED
      BY <3>1, <3>2 DEF Replaced
  <2> QED
    BY <2>2, <2>3
<1>11. \A x \in Chunks : chunk'[x].lock = t => chunk'[x].val # "absent" /\ chunk'[x].work = "off"
  BY <1>4, <1>5, <1>6, <1>7
<1>12. IndexInv(t)'
  <2>1. Mine(t)' = Mine(t)
    BY <1>1 DEF Mine
  <2> QED
    BY <1>1, <1>3, <1>4, <1>10, <1>11, <2>1 DEF IndexInv, IndexStages
<1>13. OpenInv(t)'
  BY <1>3 DEF OpenInv
<1> QED
  BY <1>1, <1>3, <1>8, <1>9, <1>12, <1>13, IndexStep

LEMMA StaleEmbeddingsStep ==
    ASSUME IInv, NEW t \in Indexers, tx[t].pc = "stale_embeddings", UpdateEmbeddings(t)
    PROVE  IInv'
<1>1. /\ embedding' = Deactivate(t, embedding) /\ EndUpdate(t)
      /\ UNCHANGED <<source, chunk>> /\ denied' = denied /\ UNCHANGED others
  BY DEF UpdateEmbeddings
<1>2. /\ TypeOK /\ SourceOK /\ TablesOK /\ t \in Txns /\ IndexInv(t)
      /\ StageAfter(t) = "next_source"
  BY TypeParts, Indexer DEF IInv, StageAfter
<1>3. /\ tx' \in [Txns -> TxState] /\ (\A u \in Txns \ {t} : tx'[u] = tx[u])
      /\ tx'[t].pc = "next_source" /\ tx'[t].todo = tx[t].todo /\ tx'[t].open = FALSE
  BY <1>1, <1>2, CloseFacts DEF Stages
<1>4. SourceOK' /\ TablesOK' /\ Quiet(t)
  <2>1. \A x \in Chunks : Deactivate(t, embedding)[x] \in Row(Flags, Txns)
    BY <1>2, Fields, RowFacts DEF Deactivate, Chunks, Flags
  <2>2. embedding' \in [Sources \X Content -> Row(Flags, Txns)]
    BY <1>1, <2>1 DEF Deactivate, Chunks
  <2>3. UNCHANGED <<chunk, denied>>
    BY <1>1
  <2> QED
    BY <1>1, <1>2, <1>3, <2>2, <2>3, SameParts, QuietNoRow, QuietNoTable DEF TablesOK
<1>5. IndexInv(t)'
  <2>1. Mine(t)' = Mine(t) /\ Mine(t) \subseteq Sources
    BY <1>1 DEF Mine
  <2>2. \A s \in Mine(t) \ tx[t].todo : Replaced(t, s)'
    BY <1>1, <1>2 DEF IndexInv, Replaced
  <2> QED
    BY <1>1, <1>2, <1>3, <2>1, <2>2 DEF IndexInv, IndexStages
<1>6. OpenInv(t)'
  BY <1>3 DEF OpenInv
<1> QED
  BY <1>1, <1>3, <1>4, <1>5, <1>6, IndexStep

LEMMA WriteChunkStep ==
    ASSUME IInv, NEW t \in Indexers, NEW s \in Sources, WriteChunk(t, s)
    PROVE  IInv'
<1> DEFINE x == <<s, source[s].work.body>>
<1>1. /\ tx[t].pc = "write_chunks" /\ s \in tx[t].todo /\ Free(t, chunk[x])
      /\ chunk' = [chunk EXCEPT ![x] = Write(t, chunk[x], "on")]
      /\ embedding' = IF embedding[x].val = "absent"
                      THEN [embedding EXCEPT ![x] = Write(t, embedding[x], "on")]
                      ELSE embedding
      /\ tx' = [tx EXCEPT ![t].todo = tx[t].todo \ {s}]
      /\ source' = source /\ denied' = denied /\ UNCHANGED others
  BY DEF WriteChunk
<1>2. /\ TypeOK /\ SourceOK /\ TablesOK /\ t \in Txns /\ IndexInv(t) /\ OpenInv(t)
      /\ t \notin Crawlers /\ t \notin Owners
  BY TypeParts, Indexer DEF IInv
<1>3. /\ tx[t].todo \subseteq Mine(t) /\ (\A r \in tx[t].todo : source[r].work.body # Empty)
      /\ \A r \in Mine(t) : Replaced(t, r)
      /\ \A r \in Mine(t) \ tx[t].todo : Written(t, r)
      /\ \A r \in Sources : source[r].lock = t =>
           source[r].val.status = ReadyStatus(r) /\ source[r].work.body = source[r].val.body
  BY <1>1, <1>2 DEF IndexInv
<1>4. source[s].lock = t /\ source[s].work.body \in Content /\ x \in Chunks
  <2>1. source[s].lock = t
    BY <1>1, <1>3 DEF Mine
  <2>2. source[s].work.body \in Content
    BY <1>1, <1>2, <1>3, Fields
  <2> QED
    BY <2>1, <2>2 DEF Chunks
<1>5. x[1] = s /\ x[2] = source[s].work.body
  OBVIOUS
<1>6. \A r \in Sources, c \in Content : /\ <<r, c>> \in Chunks
                                        /\ <<r, c>> = x <=> r = s /\ c = source[s].work.body
  BY DEF Chunks
<1>7. tx' \in [Txns -> TxState] /\ (\A u \in Txns \ {t} : tx'[u] = tx[u])
      /\ tx'[t].pc = tx[t].pc /\ tx'[t].todo = tx[t].todo \ {s} /\ tx'[t].open = tx[t].open
  <2>1. tx[t].todo \ {s} \in SUBSET Sources
    BY <1>2, Fields
  <2> QED
    BY <1>1, <1>2, <2>1, TodoFacts
<1> HIDE DEF x
<1>8. \A r \in Row(Flags, Txns) : /\ Write(t, r, "on") \in Row(Flags, Txns)
                                  /\ Write(t, r, "on").val = r.val
                                  /\ Write(t, r, "on").work = "on" /\ Write(t, r, "on").lock = t
  <2>1. "on" \in Flags
    BY DEF Flags
  <2> QED
    BY <1>2, <2>1 DEF Row, Write
<1>9. /\ chunk[x] \in Row(Flags, Txns) /\ embedding[x] \in Row(Flags, Txns)
  BY <1>2, <1>4, Fields
<1>10. SourceOK' /\ TablesOK'
  <2>1. chunk' \in [Sources \X Content -> Row(Flags, Txns)]
    BY <1>1, <1>2, <1>8, <1>9 DEF TablesOK
  <2>2. embedding' \in [Sources \X Content -> Row(Flags, Txns)]
    <3>1. Write(t, embedding[x], "on") \in Row(Flags, Txns)
      BY <1>8, <1>9
    <3> QED
      BY <1>1, <1>2, <3>1 DEF TablesOK
  <2> QED
    BY <1>1, <1>2, <2>1, <2>2, SameParts DEF TablesOK
<1>11. /\ \A y \in Chunks : y # x => chunk'[y] = chunk[y]
       /\ chunk'[x].val = chunk[x].val /\ chunk'[x].work = "on" /\ chunk'[x].lock = t
  <2>1. chunk'[x] = Write(t, chunk[x], "on") /\ \A y \in Chunks : y # x => chunk'[y] = chunk[y]
    BY <1>1, <1>2, <1>4 DEF TablesOK, Chunks
  <2> QED
    BY <1>8, <1>9, <2>1
<1>12. Quiet(t)
  <2>1. \A y \in Chunks : QuietChunk(t, y)
    BY <1>1, <1>2, <1>4, <1>5, <1>11 DEF QuietChunk, Free
  <2> QED
    BY <1>1, <1>2, <1>7, <2>1, QuietNoRow DEF Quiet, QuietDenied
<1>13. Mine(t)' = Mine(t) /\ Mine(t) \subseteq Sources
  BY <1>1 DEF Mine
<1>14. \A r \in Mine(t) : Replaced(t, r)'
  <2> SUFFICES ASSUME NEW r \in Mine(t)
               PROVE  /\ source[r].work.status = IndexedStatus(r)
                      /\ \A c \in Content \ {source[r].work.body} :
                           \/ chunk'[<<r, c>>].val = "absent"
                           \/ chunk'[<<r, c>>].lock = t /\ chunk'[<<r, c>>].work = "off"
    BY <1>1 DEF Replaced
  <2>1. \A c \in Content \ {source[r].work.body} : chunk'[<<r, c>>] = chunk[<<r, c>>]
    BY <1>6, <1>11, <1>13
  <2>2. Replaced(t, r)
    BY <1>3
  <2> QED
    BY <2>1, <2>2 DEF Replaced
<1>15. \A r \in Mine(t) \ tx'[t].todo : Written(t, r)'
  <2> SUFFICES ASSUME NEW r \in Mine(t) \ tx'[t].todo, source[r].work.body # Empty
               PROVE  /\ chunk'[<<r, source[r].work.body>>].lock = t
                      /\ chunk'[<<r, source[r].work.body>>].work = "on"
    BY <1>1 DEF Written
  <2>1. r \in Sources /\ source[r].work.body \in Content
    BY <1>2, <1>13, Fields
  <2>2. CASE r = s
    BY <1>11, <2>2 DEF x
  <2>3. CASE r # s
    <3>1. Written(t, r)
      BY <1>3, <1>7, <2>3
    <3>2. chunk'[<<r, source[r].work.body>>] = chunk[<<r, source[r].work.body>>]
      BY <1>6, <1>11, <2>1, <2>3
    <3> QED
      BY <3>1, <3>2 DEF Written
  <2> QED
    BY <2>2, <2>3
<1>16. IndexInv(t)'
  BY <1>1, <1>3, <1>7, <1>13, <1>14, <1>15 DEF IndexInv, IndexStages
<1>17. OpenInv(t)'
  BY <1>1, <1>2, <1>7 DEF OpenInv, UpdateStages
<1> QED
  BY <1>1, <1>7, <1>10, <1>12, <1>16, <1>17, IndexStep

-----------------------------------------------------------------------------
(* The end of a transaction.                                               *)

\* Nothing is left of a transaction that ended.
LEMMA EndedLocal ==
    ASSUME NEW t \in Txns, tx'[t] = Idle, LocksNone(t)', LocksNoChunk(t)'
    PROVE  Local(t)'
<1>1. tx'[t].pc = "idle" /\ tx'[t].owner = FALSE /\ tx'[t].open = FALSE
  BY DEF Idle
<1>2. (\A s \in Sources : source'[s].lock # t) /\ Article \in Sources
  BY Constants DEF LocksNone
<1>3. \A x \in Chunks : chunk'[x].lock # t
  BY DEF LocksNoChunk
<1>4. CrawlInv(t)'
  BY <1>1, <1>2 DEF CrawlInv, CrawlStages, ExcludeStages
<1>5. SweepInv(t)'
  BY <1>3 DEF SweepInv
<1>6. OwnInv(t)'
  BY <1>1 DEF OwnInv, OwnStages, ExcludeStages
<1>7. HideInv(t)' /\ OpenInv(t)'
  BY <1>1, <1>2 DEF HideInv, OpenInv
<1>8. IndexInv(t)'
  BY <1>1, <1>2, <1>3 DEF IndexInv, IndexStages
<1> QED
  BY <1>4, <1>5, <1>6, <1>7, <1>8 DEF Local

LEMMA EndStep ==
    ASSUME IInv, NEW t \in Txns, tx[t].pc # "idle", Apart(t), TypeOK',
           tx'[t] = Idle, LocksNone(t)', LocksNoChunk(t)',
           startup' = IF startup = t THEN NoTxn ELSE startup,
           DeniedInv', \A s \in Sources : SourceInv(s)', \A x \in Chunks : ChunkInv(x)', FoundInv'
    PROVE  IInv'
<1>1. \A u \in Txns : Local(u)'
  <2>1. Local(t)'
    BY EndedLocal
  <2>2. \A u \in Txns : u # t => Local(u)'
    BY LocalApart DEF IInv
  <2> QED
    BY <2>1, <2>2
<1>2. startup' = NoTxn
  BY OurStart
<1>3. AloneInv' /\ RepairInv'
  BY <1>2, NoStart
<1> QED
  BY <1>1, <1>3 DEF IInv, DeniedInv

\* The types, when every row is what it was or what its transaction made of it.
LEMMA EndedType ==
    ASSUME TypeOK, NEW t \in Txns,
           source' \in [Sources -> Row(SourceVersion, Txns)],
           \A s \in Sources : \/ source'[s].val = source[s].val
                              \/ source'[s].val = source[s].work,
           \A s \in Sources : \/ source'[s].work = source[s].val
                              \/ source'[s].work = source[s].work,
           TablesOK', denied' \in Row(BOOLEAN, Txns),
           tx' = [tx EXCEPT ![t] = Idle],
           startup' = IF startup = t THEN NoTxn ELSE startup, UNCHANGED <<crawls, denials>>
    PROVE  /\ TypeOK'
           /\ tx'[t] = Idle /\ \A u \in Txns \ {t} : tx'[u] = tx[u]
<1>1. SourceOK'
  <2>1. \A s \in Sources :
          source'[s].val.status \in StatusOf(s) /\ source'[s].work.status \in StatusOf(s)
    BY Fields
  <2> QED
    BY <2>1 DEF SourceOK, StatusOf
<1>2. Idle \in TxState
  <2>1. NoSource \in SourceVersion
    BY DEF NoSource, SourceVersion, TextStatus
  <2> QED
    BY <2>1, Constants DEF Idle, TxState, Stages
<1>3. /\ tx' \in [Txns -> TxState]
      /\ tx'[t] = Idle /\ \A u \in Txns \ {t} : tx'[u] = tx[u]
  BY <1>2, TxSet
<1>4. CountsOK'
  BY TypeParts DEF CountsOK
<1> QED
  BY <1>1, <1>3, <1>4, TypeNext

LEMMA AbortStep ==
    ASSUME IInv, NEW t \in Txns, Abort(t)
    PROVE  IInv'
<1>1. /\ tx[t].pc # "idle" /\ tx' = [tx EXCEPT ![t] = Idle]
      /\ source' = [s \in Sources |-> RollbackRow(t, source[s])]
      /\ chunk' = [x \in Sources \X Content |-> RollbackRow(t, chunk[x])]
      /\ embedding' = [x \in Sources \X Content |-> RollbackRow(t, embedding[x])]
      /\ denied' = RollbackRow(t, denied)
      /\ startup' = IF startup = t THEN NoTxn ELSE startup
      /\ UNCHANGED <<crawls, denials>>
  BY DEF Abort
<1>2. TypeOK /\ t # NoTxn /\ NoTxn \notin Txns /\ FoundInv
  BY Constants DEF IInv
<1>3. \A s \in Sources :
        /\ source[s] \in Row(SourceVersion, Txns) /\ source'[s] = RollbackRow(t, source[s])
  BY <1>1, <1>2, Fields
<1>4. \A s \in Sources :
        /\ source'[s] \in Row(SourceVersion, Txns) /\ source'[s].val = source[s].val
        /\ source[s].lock # t => source'[s] = source[s]
        /\ source[s].lock = t => source'[s].work = source[s].val /\ source'[s].lock = NoTxn
  BY <1>3, EndFacts
<1>5. \A x \in Chunks :
        /\ chunk[x] \in Row(Flags, Txns) /\ chunk'[x] = RollbackRow(t, chunk[x])
        /\ embedding[x] \in Row(Flags, Txns) /\ embedding'[x] = RollbackRow(t, embedding[x])
  BY <1>1, <1>2, Fields DEF Chunks
<1>6. \A x \in Chunks :
        /\ chunk'[x] \in Row(Flags, Txns) /\ embedding'[x] \in Row(Flags, Txns)
        /\ chunk'[x].val = chunk[x].val
        /\ chunk[x].lock # t => chunk'[x] = chunk[x]
        /\ chunk[x].lock = t => chunk'[x].lock = NoTxn
  BY <1>5, EndFacts
<1>7. /\ denied' \in Row(BOOLEAN, Txns) /\ denied'.val = denied.val
      /\ denied.lock # t => denied' = denied
      /\ denied.lock = t => denied'.lock = NoTxn
  BY <1>1, <1>2, Fields, EndFacts
<1>8. /\ TypeOK'
      /\ tx'[t] = Idle /\ \A u \in Txns \ {t} : tx'[u] = tx[u]
  <2>1. source' \in [Sources -> Row(SourceVersion, Txns)]
    BY <1>1, <1>4
  <2>2. TablesOK'
    BY <1>1, <1>6 DEF TablesOK, Chunks
  <2> QED
    BY <1>1, <1>2, <1>4, <1>7, <2>1, <2>2, EndedType
<1>9. LocksNone(t)' /\ LocksNoChunk(t)'
  BY <1>2, <1>4, <1>6 DEF LocksNone, LocksNoChunk
<1>10. Apart(t)
  <2>1. KeepsRows(t)
    BY <1>2, <1>4 DEF KeepsRows
  <2>2. KeepsChunks(t)
    BY <1>2, <1>6 DEF KeepsChunks
  <2>3. KeepsDenied(t)
    BY <1>2, <1>7 DEF KeepsDenied
  <2> QED
    BY <1>8, <2>1, <2>2, <2>3 DEF Apart
<1>11. DeniedInv'
  BY <1>2, <1>7 DEF IInv, DeniedInv
<1>12. \A s \in Sources : SourceInv(s)'
  <2> SUFFICES ASSUME NEW s \in Sources
               PROVE  SourceInv(s)'
    OBVIOUS
  <2>1. SourceInv(s)
    BY DEF IInv
  <2>2. CASE source[s].lock = t
    BY <1>2, <1>4, <1>7, <2>1, <2>2 DEF SourceInv, HasText
  <2>3. CASE source[s].lock # t
    BY <1>4, <1>7, <2>1, <2>3 DEF SourceInv, HasText
  <2> QED
    BY <2>2, <2>3
<1>13. \A x \in Chunks : ChunkInv(x)'
  <2> SUFFICES ASSUME NEW x \in Chunks
               PROVE  ChunkInv(x)'
    OBVIOUS
  <2>1. ChunkInv(x) /\ x[1] \in Sources
    BY DEF IInv, Chunks
  <2>2. /\ source'[x[1]].val = source[x[1]].val /\ chunk'[x].val = chunk[x].val
        /\ NoTxn \notin Indexers /\ NoTxn \notin Crawlers \cup Owners
    BY <1>4, <1>6, <2>1, Constants
  <2>3. CASE chunk[x].lock = t
    BY <1>6, <2>1, <2>2, <2>3 DEF ChunkInv
  <2>4. CASE chunk[x].lock # t
    <3>1. chunk'[x] = chunk[x]
      BY <1>6, <2>4
    <3>2. chunk[x].lock \in Indexers => source'[x[1]] = source[x[1]]
      BY <1>4, <2>1, <2>4 DEF ChunkInv
    <3> QED
      BY <2>1, <2>2, <3>1, <3>2 DEF ChunkInv
  <2> QED
    BY <2>3, <2>4
<1>14. FoundInv'
  BY <1>2, <1>4, <1>6, <1>7, SameFound
<1> QED
  BY <1>1, <1>8, <1>9, <1>10, <1>11, <1>12, <1>13, <1>14, EndStep

\* A commit publishes what the transaction prepared.
LEMMA Committed ==
    ASSUME IInv, NEW t \in Txns, Commit(t)
    PROVE  /\ TypeOK' /\ tx'[t] = Idle /\ \A u \in Txns \ {t} : tx'[u] = tx[u]
           /\ \A s \in Sources :
                /\ source[s].lock # t => source'[s] = source[s]
                /\ source[s].lock = t => /\ source'[s].val = source[s].work
                                         /\ source'[s].work = source[s].work
                                         /\ source'[s].lock = NoTxn
           /\ \A x \in Chunks :
                /\ chunk[x].lock # t => chunk'[x] = chunk[x]
                /\ chunk[x].lock = t => chunk'[x].val = chunk[x].work /\ chunk'[x].lock = NoTxn
           /\ denied.lock # t => denied' = denied
           /\ denied.lock = t => denied'.val = denied.work /\ denied'.lock = NoTxn
<1>1. /\ tx[t].pc = "commit" /\ tx' = [tx EXCEPT ![t] = Idle]
      /\ source' = [s \in Sources |-> CommitRow(t, source[s])]
      /\ chunk' = [x \in Sources \X Content |-> CommitRow(t, chunk[x])]
      /\ embedding' = [x \in Sources \X Content |-> CommitRow(t, embedding[x])]
      /\ denied' = CommitRow(t, denied)
      /\ startup' = IF startup = t THEN NoTxn ELSE startup
      /\ UNCHANGED <<crawls, denials>>
  BY DEF Commit
<1>2. TypeOK
  BY DEF IInv
<1>3. \A s \in Sources :
        /\ source[s] \in Row(SourceVersion, Txns) /\ source'[s] = CommitRow(t, source[s])
  BY <1>1, <1>2, Fields
<1>4. \A s \in Sources :
        /\ source'[s] \in Row(SourceVersion, Txns)
        /\ source[s].lock # t => source'[s] = source[s]
        /\ source[s].lock = t => /\ source'[s].val = source[s].work
                                 /\ source'[s].work = source[s].work
                                 /\ source'[s].lock = NoTxn
  BY <1>3, EndFacts
<1>5. \A x \in Chunks :
        /\ chunk[x] \in Row(Flags, Txns) /\ chunk'[x] = CommitRow(t, chunk[x])
        /\ embedding[x] \in Row(Flags, Txns) /\ embedding'[x] = CommitRow(t, embedding[x])
  BY <1>1, <1>2, Fields DEF Chunks
<1>6. \A x \in Chunks :
        /\ chunk'[x] \in Row(Flags, Txns) /\ embedding'[x] \in Row(Flags, Txns)
        /\ chunk[x].lock # t => chunk'[x] = chunk[x]
        /\ chunk[x].lock = t => chunk'[x].val = chunk[x].work /\ chunk'[x].lock = NoTxn
  BY <1>5, EndFacts
<1>7. /\ denied' \in Row(BOOLEAN, Txns)
      /\ denied.lock # t => denied' = denied
      /\ denied.lock = t => denied'.val = denied.work /\ denied'.lock = NoTxn
  BY <1>1, <1>2, Fields, EndFacts
<1>8. /\ TypeOK'
      /\ tx'[t] = Idle /\ \A u \in Txns \ {t} : tx'[u] = tx[u]
  <2>1. source' \in [Sources -> Row(SourceVersion, Txns)]
    BY <1>1, <1>4
  <2>2. TablesOK'
    BY <1>1, <1>6 DEF TablesOK, Chunks
  <2>3. \A s \in Sources : source'[s].val = source[s].val \/ source'[s].val = source[s].work
    BY <1>4
  <2>4. \A s \in Sources : source'[s].work = source[s].val \/ source'[s].work = source[s].work
    BY <1>4
  <2> QED
    BY <1>1, <1>2, <1>7, <2>1, <2>2, <2>3, <2>4, EndedType
<1> QED
  BY <1>4, <1>6, <1>7, <1>8

\* What each kind of transaction has prepared when it commits.
LEMMA Prepared ==
    ASSUME IInv, NEW t \in Txns, tx[t].pc = "commit"
    PROVE  /\ t \in Crawlers => CrawlInv(t) /\ SweepInv(t) /\ HideInv(t)
           /\ t \in Owners => (denied.val \/ denied.lock = t) /\ HideInv(t)
           /\ t \in Indexers => \A s \in Sources : source[s].lock = t =>
                /\ Replaced(t, s) /\ Written(t, s) /\ source[s].work.body = source[s].val.body
           /\ t \in Crawlers \/ t \in Owners \/ t \in Indexers
<1>1. Local(t)
  BY DEF IInv
<1>2. t \in Indexers => \A s \in Sources : source[s].lock = t =>
        Replaced(t, s) /\ Written(t, s) /\ source[s].work.body = source[s].val.body
  BY <1>1 DEF Local, IndexInv, Mine
<1>3. t \in Owners => denied.val \/ denied.lock = t
  BY <1>1 DEF Local, OwnInv
<1> QED
  BY <1>1, <1>2, <1>3, Constants DEF Local

\* A chunk that is on was on, or an index run has written the text of its source.
LEMMA SwitchedOn ==
    ASSUME IInv, NEW t \in Txns, Commit(t), NEW x \in Chunks, chunk'[x].val = "on"
    PROVE  \/ chunk[x].lock # t /\ chunk[x].val = "on"
           \/ /\ t \in Indexers /\ chunk[x].lock = t /\ source[x[1]].lock = t
              /\ x[2] = source[x[1]].work.body
<1>1. ChunkInv(x)
  BY DEF IInv
<1>2. CASE chunk[x].lock # t
  BY <1>2, Committed
<1>3. CASE chunk[x].lock = t
  <2>1. chunk[x].work = "on"
    BY <1>3, Committed
  <2>2. t \in Indexers
    BY <1>1, <1>3, <2>1, Constants DEF ChunkInv
  <2> QED
    BY <1>1, <1>3, <2>1, <2>2 DEF ChunkInv
<1> QED
  BY <1>2, <1>3

LEMMA CommitApart ==
    ASSUME IInv, NEW t \in Txns, Commit(t)
    PROVE  Apart(t)
<1>1. t # NoTxn /\ NoTxn \notin Txns
  BY Constants
<1>2. KeepsRows(t)
  <2>1. \A s \in Sources : \A u \in Txns \ {t} :
          source[s].lock = u \/ source'[s].lock = u => source'[s] = source[s]
    BY <1>1, Committed
  <2>2. \A s \in Sources : Stored(source[s].val) => Stored(source'[s].val)
    BY Committed DEF IInv, SourceInv
  <2> QED
    BY <2>1, <2>2 DEF KeepsRows
<1>3. KeepsChunks(t)
  <2>1. \A x \in Chunks : \A u \in Txns \ {t} :
          chunk[x].lock = u \/ chunk'[x].lock = u => chunk'[x] = chunk[x]
    BY <1>1, Committed
  <2>2. \A x \in Chunks : chunk[x].val # "absent" => chunk'[x].val # "absent"
    <3>1. \A x \in Chunks : chunk[x].lock = t => chunk[x].work # "absent"
      BY <1>1 DEF IInv, ChunkInv
    <3>2. \A x \in Chunks : /\ chunk[x].lock # t => chunk'[x] = chunk[x]
                            /\ chunk[x].lock = t => chunk'[x].val = chunk[x].work
      BY Committed
    <3> QED
      BY <3>1, <3>2
  <2>3. \A x \in Chunks :
          chunk[x].val = "absent" /\ chunk'[x].val # "absent" => source[x[1]].lock = t
    <3> SUFFICES ASSUME NEW x \in Chunks, chunk[x].val = "absent", chunk'[x].val # "absent"
                 PROVE  source[x[1]].lock = t
      OBVIOUS
    <3>1. chunk[x].lock = t
      BY Committed
    <3>2. t \in Indexers
      BY <3>1, Constants DEF IInv, ChunkInv
    <3> QED
      BY <3>1, <3>2 DEF IInv, ChunkInv
  <2> QED
    BY <2>1, <2>2, <2>3 DEF KeepsChunks
<1>4. KeepsDenied(t)
  <2>1. \A u \in Txns \ {t} : denied.lock = u => denied' = denied
    BY Committed
  <2>2. denied.val => denied'.val
    BY <1>1, Committed DEF IInv
  <2> QED
    BY <2>1, <2>2 DEF KeepsDenied
<1> QED
  BY <1>2, <1>3, <1>4, Committed DEF Apart

\* The owner's commit leaves an active entry.
LEMMA CommitDenies ==
    ASSUME IInv, NEW t \in Owners, Commit(t)
    PROVE  denied'.val
<1>1. t \in Txns /\ t # NoTxn /\ tx[t].pc = "commit"
  BY Constants DEF Commit
<1>2. CASE denied.lock = t
  <2>1. denied.work = TRUE
    BY <1>1, <1>2 DEF IInv
  <2> QED
    BY <1>1, <1>2, <2>1, Committed
<1>3. CASE denied.lock # t
  <2>1. denied.val
    BY <1>1, <1>3, Prepared
  <2>2. denied' = denied
    BY <1>1, <1>3, Committed
  <2> QED
    BY <2>1, <2>2
<1> QED
  BY <1>2, <1>3

LEMMA CommitSources ==
    ASSUME IInv, NEW t \in Txns, Commit(t), NEW s \in Sources
    PROVE  SourceInv(s)'
<1>1. SourceInv(s) /\ (denied.val => denied'.val) /\ t # NoTxn /\ tx[t].pc = "commit"
  BY CommitApart, Constants DEF IInv, Apart, KeepsDenied, Commit
<1>2. CASE source[s].lock # t
  <2>1. source'[s] = source[s]
    BY <1>2, Committed
  <2> QED
    BY <1>1, <2>1 DEF SourceInv, HasText
<1>3. CASE source[s].lock = t
  <2>1. /\ source'[s].val = source[s].work /\ source'[s].work = source[s].work
        /\ source'[s].lock = NoTxn
    BY <1>3, Committed
  <2>2. Stored(source[s].work) /\ HasText(s, source[s].work)
    BY <1>1, <1>3 DEF SourceInv
  <2>3. s = Article /\ source[s].work.status = "DENIED" => denied'.val
    <3> SUFFICES ASSUME s = Article, source[s].work.status = "DENIED"
                 PROVE  denied'.val
      OBVIOUS
    <3>1. CASE t \in Crawlers
      <4>1. source[s].val.status = "DENIED"
        BY <1>1, <1>3, <3>1, Prepared DEF CrawlInv
      <4> QED
        BY <1>1, <4>1 DEF SourceInv
    <3>2. CASE t \in Owners
      BY <3>2, CommitDenies
    <3>3. CASE t \in Indexers
      <4>1. source[s].work.status = IndexedStatus(s)
        BY <1>1, <1>3, <3>3, Prepared DEF Replaced
      <4> QED
        BY <4>1, StatusFacts DEF Hidden
    <3> QED
      BY <1>1, <3>1, <3>2, <3>3, Prepared
  <2>4. HasText(s, source[s].work)'
    BY <1>1, <2>1, <2>2 DEF HasText
  <2>5. HasText(s, source[s].val)'
    BY <2>1, <2>4 DEF HasText
  <2>6. Stored(source'[s].work)
    BY <2>1, <2>2
  <2> QED
    BY <2>1, <2>3, <2>4, <2>5, <2>6 DEF SourceInv
<1> QED
  BY <1>2, <1>3

LEMMA CommitChunks ==
    ASSUME IInv, NEW t \in Txns, Commit(t), NEW x \in Chunks
    PROVE  ChunkInv(x)'
<1>1. /\ ChunkInv(x) /\ x[1] \in Sources
      /\ NoTxn \notin Indexers /\ NoTxn \notin Crawlers \cup Owners
  BY Constants DEF IInv, Chunks
<1>2. chunk'[x].val # "absent" => Stored(source'[x[1]].val)
  <2> SUFFICES ASSUME chunk'[x].val # "absent"
               PROVE  Stored(source'[x[1]].val)
    OBVIOUS
  <2>1. CASE chunk[x].val # "absent"
    <3>1. Stored(source[x[1]].val)
      BY <1>1, <2>1 DEF ChunkInv
    <3> QED
      BY <1>1, <3>1, CommitApart DEF Apart, KeepsRows
  <2>2. CASE chunk[x].val = "absent"
    <3>1. source[x[1]].lock = t
      BY <2>2, CommitApart DEF Apart, KeepsChunks
    <3>2. Stored(source[x[1]].work)
      BY <1>1, <3>1, Constants DEF IInv, SourceInv
    <3> QED
      BY <1>1, <3>1, <3>2, Committed
  <2> QED
    BY <2>1, <2>2
<1>3. CASE chunk[x].lock = t
  <2>1. chunk'[x].lock = NoTxn
    BY <1>3, Committed
  <2> QED
    BY <1>1, <1>2, <2>1 DEF ChunkInv
<1>4. CASE chunk[x].lock # t
  <2>1. chunk'[x] = chunk[x]
    BY <1>4, Committed
  <2>2. chunk[x].lock \in Indexers => source'[x[1]] = source[x[1]]
    BY <1>1, <1>4, Committed DEF ChunkInv
  <2> QED
    BY <1>1, <1>2, <2>1, <2>2 DEF ChunkInv
<1> QED
  BY <1>3, <1>4

\* A source has one chunk that is on: an index run has switched the others off.
LEMMA CommitOne ==
    ASSUME IInv, NEW t \in Txns, Commit(t)
    PROVE  OneOn'
<1>1. tx[t].pc = "commit" /\ OneOn
  BY DEF IInv, FoundInv, Commit
<1> SUFFICES ASSUME NEW x \in Chunks, NEW y \in Chunks, chunk'[x].val = "on",
                    chunk'[y].val = "on", x[1] = y[1]
             PROVE  x = y
  BY DEF OneOn
<1>2. /\ x = <<x[1], x[2]>> /\ y = <<y[1], y[2]>> /\ x[1] \in Sources
      /\ x[2] \in Content /\ y[2] \in Content
  BY DEF Chunks
<1>3. CASE t \in Indexers /\ source[x[1]].lock = t
  <2>1. Replaced(t, x[1])
    BY <1>1, <1>2, <1>3, Prepared
  <2>2. ASSUME NEW z \in Chunks, z[1] = x[1], chunk'[z].val = "on", z = <<z[1], z[2]>>,
               z[2] \in Content
        PROVE  z[2] = source[x[1]].work.body
    <3> SUFFICES ASSUME z[2] # source[x[1]].work.body
                 PROVE  FALSE
      OBVIOUS
    <3>1. \/ chunk[z].val = "absent"
          \/ chunk[z].lock = t /\ chunk[z].work = "off"
      BY <2>1, <2>2 DEF Replaced
    <3>2. chunk[z].lock # t /\ chunk[z].val = "on"
      BY <2>2, SwitchedOn
    <3> QED
      BY <3>1, <3>2
  <2>3. x[2] = source[x[1]].work.body
    BY <1>2, <2>2
  <2>4. y[2] = source[x[1]].work.body
    BY <1>2, <2>2
  <2> QED
    BY <1>2, <2>3, <2>4
<1>4. CASE ~(t \in Indexers /\ source[x[1]].lock = t)
  <2>1. chunk[x].val = "on" /\ chunk[y].val = "on"
    BY <1>4, SwitchedOn
  <2> QED
    BY <1>1, <2>1 DEF OneOn
<1> QED
  BY <1>3, <1>4

\* What is committed as INDEXED has its chunk: an index run has written it, a
\* crawl has left it, or an active entry hides it.
LEMMA CommitIndexed ==
    ASSUME IInv, NEW t \in Txns, Commit(t)
    PROVE  IndexedIsSearchable'
<1>1. /\ tx[t].pc = "commit" /\ TypeOK /\ IndexedIsSearchable
      /\ t # NoTxn /\ (denied.val => denied'.val)
  BY CommitApart, Constants DEF IInv, FoundInv, Commit, Apart, KeepsDenied
<1> SUFFICES ASSUME NEW s \in Sources, source'[s].val.status = IndexedStatus(s), ~denied'.val
             PROVE  source'[s].val.body \in Searchable(s)'
  BY DEF IndexedIsSearchable
<1> DEFINE x == <<s, source[s].val.body>>
<1>2. ~denied.val /\ t \notin Owners
  BY <1>1, CommitDenies
<1>3. \A c \in Content : <<s, c>> \in Chunks /\ <<s, c>>[1] = s
  BY DEF Chunks
<1>4. source[s].val.status = IndexedStatus(s) =>
        source[s].val.body \in Content /\ chunk[x].val = "on"
  BY <1>1, <1>2 DEF IndexedIsSearchable, Searchable
<1>5. CASE t \in Crawlers
  <2>1. /\ source[s].val.status = IndexedStatus(s) /\ source'[s].val.body = source[s].val.body
        /\ source[s].lock = t => source[s].work.status = IndexedStatus(s)
    <3>1. CASE source[s].lock = t
      BY <1>1, <1>5, <3>1, Committed, Prepared DEF CrawlInv
    <3>2. CASE source[s].lock # t
      BY <3>2, Committed
    <3> QED
      BY <3>1, <3>2
  <2>2. x \in Chunks /\ x[1] = s
    BY <1>3, <1>4, <2>1
  <2>3. chunk[x].lock # t
    <3> SUFFICES ASSUME chunk[x].lock = t
                 PROVE  FALSE
      OBVIOUS
    <3>1. SweepInv(t)
      BY <1>1, <1>5, Prepared
    <3>2. s = Article \/ s \in Comments \/ s \in Media
      BY Constants
    <3> HIDE DEF x
    <3>3. CASE s = Article
      BY <2>1, <2>2, <3>1, <3>3, StatusFacts DEF SweepInv, Hidden
    <3>4. CASE s \in Comments
      BY <1>1, <2>1, <2>2, <3>1, <3>4, StatusFacts DEF SweepInv
    <3>5. CASE s \in Media
      BY <1>1, <2>1, <2>2, <3>1, <3>5, StatusFacts DEF SweepInv
    <3> QED
      BY <3>2, <3>3, <3>4, <3>5
  <2>4. chunk'[x].val = "on"
    BY <1>4, <2>1, <2>2, <2>3, Committed
  <2> QED
    BY <1>4, <2>1, <2>4 DEF Searchable
<1>6. CASE t \in Indexers /\ source[s].lock = t
  <2>1. Written(t, s) /\ source'[s].val = source[s].work
    BY <1>1, <1>6, Committed, Prepared
  <2>2. source[s].work.body # Empty
    <3>1. HasText(s, source[s].work)
      BY DEF IInv, SourceInv
    <3> QED
      BY <1>2, <2>1, <3>1 DEF HasText
  <2>3. source[s].work.body \in Content
    BY <1>1, <2>2, Fields
  <2> DEFINE z == <<s, source[s].work.body>>
  <2>4. z \in Chunks /\ chunk[z].lock = t /\ chunk[z].work = "on"
    BY <1>3, <2>1, <2>2, <2>3 DEF Written
  <2> HIDE DEF z
  <2>5. chunk'[z].val = "on"
    BY <2>4, Committed
  <2> QED
    BY <2>1, <2>3, <2>5 DEF Searchable, z
<1>7. CASE t \in Indexers /\ source[s].lock # t
  <2>1. source'[s] = source[s]
    BY <1>7, Committed
  <2>2. x \in Chunks /\ x[1] = s /\ chunk[x].val = "on" /\ source[s].val.body \in Content
    BY <1>3, <1>4, <2>1
  <2>3. chunk[x].lock # t
    BY <1>7, <2>2 DEF IInv, ChunkInv
  <2>4. chunk'[x].val = "on"
    BY <2>2, <2>3, Committed
  <2> QED
    BY <2>1, <2>2, <2>4 DEF Searchable
<1> QED
  BY <1>1, <1>2, <1>5, <1>6, <1>7, Prepared

\* What is committed as excluded has no chunk that is on.
LEMMA CommitExcluded ==
    ASSUME IInv, NEW t \in Txns, Commit(t)
    PROVE  ExcludedArticleHidden'
<1>1. /\ tx[t].pc = "commit" /\ ExcludedArticleHidden /\ Article \in Sources
  BY Constants DEF IInv, FoundInv, Commit
<1> SUFFICES ASSUME source'[Article].val.status \in Hidden, NEW c \in Content,
                    chunk'[<<Article, c>>].val = "on"
             PROVE  FALSE
  BY DEF ExcludedArticleHidden, Searchable, Hidden
<1> DEFINE x == <<Article, c>>
<1>2. x \in Chunks /\ x[1] = Article /\ chunk'[x].val = "on"
  BY <1>1 DEF Chunks
<1>3. source[Article].val.status \in Hidden => chunk[x].val # "on"
  BY <1>1 DEF ExcludedArticleHidden, Searchable, Hidden
<1>4. \/ chunk[x].lock # t /\ chunk[x].val = "on"
      \/ t \in Indexers /\ source[Article].lock = t
  BY <1>2, SwitchedOn
<1>5. CASE source[Article].lock # t
  <2>1. source'[Article] = source[Article]
    BY <1>1, <1>5, Committed
  <2> QED
    BY <1>3, <1>4, <1>5, <2>1
<1>6. CASE source[Article].lock = t /\ t \in Indexers
  <2>1. source'[Article].val = source[Article].work
    BY <1>1, <1>6, Committed
  <2>2. source[Article].work.status = IndexedStatus(Article)
    BY <1>1, <1>6, Prepared DEF Replaced
  <2> QED
    BY <1>1, <2>1, <2>2, StatusFacts
<1>7. CASE source[Article].lock = t /\ t \notin Indexers
  <2>1. source'[Article].val = source[Article].work
    BY <1>1, <1>7, Committed
  <2>2. chunk[x].lock # t /\ chunk[x].val = "on"
    BY <1>4, <1>7
  <2>3. source[Article].val.status \notin Hidden
    BY <1>3, <2>2
  <2>4. HideInv(t)
    BY <1>1, <1>7, Prepared
  <2>5. chunk[x].val # "absent" => chunk[x].lock = t
    BY <1>1, <1>7, <2>1, <2>3, <2>4 DEF HideInv, AfterChunks
  <2> QED
    BY <2>2, <2>5
<1> QED
  BY <1>5, <1>6, <1>7

LEMMA CommitStep ==
    ASSUME IInv, NEW t \in Txns, Commit(t)
    PROVE  IInv'
<1>1. /\ tx[t].pc # "idle" /\ startup' = IF startup = t THEN NoTxn ELSE startup
      /\ t # NoTxn /\ NoTxn \notin Txns
  BY Constants DEF Commit
<1>2. TypeOK' /\ tx'[t] = Idle
  BY Committed
<1>3. LocksNone(t)'
  <2>1. \A s \in Sources : source'[s].lock # t
    BY <1>1, Committed
  <2> QED
    BY <2>1 DEF LocksNone
<1>4. LocksNoChunk(t)'
  <2>1. \A x \in Chunks : chunk'[x].lock # t
    BY <1>1, Committed
  <2> QED
    BY <2>1 DEF LocksNoChunk
<1>5. DeniedInv'
  BY <1>1, Committed DEF IInv, DeniedInv
<1>6. FoundInv'
  BY CommitOne, CommitIndexed, CommitExcluded DEF FoundInv
<1> QED
  BY <1>1, <1>2, <1>3, <1>4, <1>5, <1>6, CommitApart, CommitSources, CommitChunks, EndStep

-----------------------------------------------------------------------------
(* The invariant.                                                          *)

\* Nothing is stored when the first transaction begins.
LEMMA InitInvariant == Init => IInv
<1> SUFFICES ASSUME Init
             PROVE  IInv
  OBVIOUS
<1>1. /\ source = [s \in Sources |-> Settled(NoSource)]
      /\ chunk = [x \in Sources \X Content |-> Settled("absent")]
      /\ embedding = [x \in Sources \X Content |-> Settled("absent")]
      /\ denied = Settled(FALSE) /\ tx = [t \in Txns |-> Idle]
      /\ startup = NoTxn /\ crawls = 0 /\ denials = 0
  BY DEF Init
<1>2. /\ Settled(NoSource) \in Row(SourceVersion, Txns)
      /\ Settled(NoSource).val = NoSource /\ Settled(NoSource).work = NoSource
      /\ Settled(NoSource).lock = NoTxn
      /\ NoSource.status = "absent"
  BY DEF Settled, Row, NoSource, SourceVersion, TextStatus
<1>3. /\ Settled("absent") \in Row(Flags, Txns) /\ Settled("absent").val = "absent"
      /\ Settled("absent").lock = NoTxn
  BY DEF Settled, Row, Flags
<1>4. /\ Settled(FALSE) \in Row(BOOLEAN, Txns) /\ Settled(FALSE).lock = NoTxn
      /\ Settled(FALSE).val = FALSE
  BY DEF Settled, Row
<1>5. Idle \in TxState /\ Idle.pc = "idle" /\ Idle.owner = FALSE /\ Idle.open = FALSE
  <2>1. NoSource \in SourceVersion
    BY DEF NoSource, SourceVersion, TextStatus
  <2> QED
    BY <2>1, Constants DEF Idle, TxState, Stages
<1>6. \A s \in Sources : /\ source[s].val.status = "absent" /\ source[s].work.status = "absent"
                         /\ source[s].lock = NoTxn
  BY <1>1, <1>2
<1>7. \A x \in Chunks : chunk[x].val = "absent" /\ chunk[x].lock = NoTxn
  BY <1>1, <1>3 DEF Chunks
<1>8. TypeOK
  <2>1. SourceOK
    BY <1>1, <1>2, <1>6 DEF SourceOK, TextStatus, MediaStatus
  <2>2. TablesOK
    BY <1>1, <1>3 DEF TablesOK
  <2>3. CountsOK
    BY <1>1, Constants DEF CountsOK
  <2>4. tx \in [Txns -> TxState]
    BY <1>1, <1>5
  <2> QED
    BY <1>1, <1>4, <2>1, <2>2, <2>3, <2>4, TypeParts
<1>9. \A s \in Sources : SourceInv(s)
  <2>1. \A s \in Sources : HasText(s, source[s].val) /\ HasText(s, source[s].work)
    BY <1>6, StatusFacts DEF HasText
  <2> QED
    BY <1>6, <2>1, Constants DEF SourceInv, Stored
<1>10. \A x \in Chunks : ChunkInv(x)
  BY <1>7, Constants DEF ChunkInv
<1>11. FoundInv
  <2>1. OneOn
    BY <1>7 DEF OneOn
  <2>2. IndexedIsSearchable
    BY <1>6, StatusFacts DEF IndexedIsSearchable
  <2>3. ExcludedArticleHidden
    BY <1>6, Constants DEF ExcludedArticleHidden
  <2> QED
    BY <2>1, <2>2, <2>3 DEF FoundInv
<1>12. \A t \in Txns : Local(t)
  <2> SUFFICES ASSUME NEW t \in Txns
               PROVE  Local(t)
    OBVIOUS
  <2>1. /\ tx[t].pc = "idle" /\ tx[t].owner = FALSE /\ tx[t].open = FALSE /\ t # NoTxn
        /\ Article \in Sources
    BY <1>1, <1>5, Constants
  <2>2. LocksNone(t) /\ LocksNoChunk(t)
    BY <1>6, <1>7, <2>1 DEF LocksNone, LocksNoChunk
  <2>3. CrawlInv(t) /\ SweepInv(t)
    BY <2>1, <2>2 DEF CrawlInv, SweepInv, LocksNone, LocksNoChunk, CrawlStages, ExcludeStages
  <2>4. OwnInv(t)
    BY <2>1, <2>2 DEF OwnInv, OwnStages, ExcludeStages
  <2>5. HideInv(t) /\ OpenInv(t)
    BY <2>1, <2>2 DEF HideInv, OpenInv, LocksNone
  <2>6. IndexInv(t)
    BY <2>1, <2>2 DEF IndexInv, IndexStages, LocksNone
  <2> QED
    BY <2>3, <2>4, <2>5, <2>6 DEF Local
<1>13. AloneInv /\ RepairInv
  BY <1>1 DEF AloneInv, RepairInv
<1> QED
  BY <1>1, <1>4, <1>8, <1>9, <1>10, <1>11, <1>12, <1>13 DEF IInv

LEMMA StutterStep ==
    ASSUME IInv, UNCHANGED vars
    PROVE  IInv'
<1>1. /\ source' = source /\ chunk' = chunk /\ embedding' = embedding /\ denied' = denied
      /\ tx' = tx /\ startup' = startup /\ crawls' = crawls /\ denials' = denials
  BY DEF vars, others
<1>2. TypeOK'
  BY <1>1 DEF IInv, TypeOK
<1>3. /\ denied'.lock # NoTxn => denied'.work = TRUE
      /\ \A s \in Sources : SourceInv(s)'
      /\ \A x \in Chunks : ChunkInv(x)'
  BY <1>1 DEF IInv, SourceInv, HasText, ChunkInv
<1>4. FoundInv'
  BY <1>1 DEF IInv, FoundInv, OneOn, IndexedIsSearchable, ExcludedArticleHidden, Searchable
<1>5. ASSUME NEW t \in Txns
      PROVE  Local(t)'
  <2>1. Local(t)
    BY DEF IInv
  <2>2. CrawlInv(t) => CrawlInv(t)'
    BY <1>1 DEF CrawlInv, LocksNone, LocksNoChunk
  <2>3. SweepInv(t) => SweepInv(t)'
    BY <1>1 DEF SweepInv
  <2>4. OwnInv(t) => OwnInv(t)'
    BY <1>1 DEF OwnInv, LocksNone, LocksNoChunk
  <2>5. HideInv(t) => HideInv(t)'
    BY <1>1 DEF HideInv
  <2>6. IndexInv(t) => IndexInv(t)'
    BY <1>1 DEF IndexInv, LocksNone, Mine, StaleChunks, View, Replaced, Written
  <2>7. OpenInv(t) => OpenInv(t)'
    BY <1>1 DEF OpenInv
  <2> QED
    BY <2>1, <2>2, <2>3, <2>4, <2>5, <2>6, <2>7 DEF Local
<1>6. AloneInv'
  BY <1>1 DEF IInv, AloneInv
<1>7. RepairInv'
  BY <1>1 DEF IInv, RepairInv, RepairArticle, RepairChunks, RepairComments, View
<1> QED
  BY <1>2, <1>3, <1>4, <1>5, <1>6, <1>7 DEF IInv

\* An UPDATE belongs to an index run or to an exclusion.
LEMMA StatementStep ==
    ASSUME IInv, NEW t \in Txns, Statement(t)
    PROVE  IInv'
<1>1. CASE ExcludeArticle(t)
  BY <1>1, ExcludeArticleStep
<1>2. CASE BeginUpdate(t)
  <2>1. tx[t].pc \in UpdateStages
    BY <1>2 DEF BeginUpdate
  <2>2. \/ tx[t].pc \in {"stale_chunks", "stale_embeddings"}
        \/ tx[t].pc \in ExcludeStages
    BY <2>1 DEF UpdateStages, ExcludeStages
  <2>3. tx[t].pc \in {"stale_chunks", "stale_embeddings"} => t \in Indexers
    BY IndexerOnly
  <2> QED
    BY <1>2, <2>2, <2>3, BeginStaleStep, BeginExcludeStep
<1>3. CASE UpdateChunks(t)
  <2>1. tx[t].pc \in {"stale_chunks", "exclude_chunks"}
    BY <1>3 DEF UpdateChunks
  <2>2. tx[t].pc = "stale_chunks" => t \in Indexers
    BY IndexerOnly
  <2> QED
    BY <1>3, <2>1, <2>2, StaleChunksStep, ExcludeChunksStep
<1>4. CASE UpdateEmbeddings(t)
  <2>1. tx[t].pc \in {"stale_embeddings", "exclude_embeddings"}
    BY <1>4 DEF UpdateEmbeddings
  <2>2. tx[t].pc = "stale_embeddings" => t \in Indexers
    BY IndexerOnly
  <2> QED
    BY <1>4, <2>1, <2>2, StaleEmbeddingsStep, ExcludeEmbeddingsStep
<1>5. CASE UpdateChildren(t)
  <2>1. tx[t].pc \in {"exclude_comments", "exclude_media"}
    BY <1>5 DEF UpdateChildren
  <2> QED
    BY <1>5, <2>1, ExcludeChildrenStep
<1> QED
  BY <1>1, <1>2, <1>3, <1>4, <1>5 DEF Statement

LEMMA NextStep == IInv /\ [Next]_vars => IInv'
<1> SUFFICES ASSUME IInv, [Next]_vars
             PROVE  IInv'
  OBVIOUS
<1>1. CASE UNCHANGED vars
  BY <1>1, StutterStep
<1>2. ASSUME NEW t \in Crawlers, Crawl(t)
      PROVE  IInv'
  BY <1>2, BeginCrawlStep, MissArticleStep, InsertArticleStep, ModifyArticleStep,
     UpsertChildStep, EndChildrenStep, CrawlUnavailableStep DEF Crawl
<1>3. ASSUME NEW t \in Indexers, Index(t)
      PROVE  IInv'
  BY <1>3, BeginBatchStep, NextSourceStep, WriteChunkStep, EndBatchStep DEF Index
<1>4. ASSUME NEW t \in Owners, Own(t)
      PROVE  IInv'
  BY <1>4, DenyArticleStep, ReconcileStep, AddDenylistStep, InsertDenylistStep DEF Own
<1>5. ASSUME NEW t \in Txns, Statement(t) \/ Commit(t) \/ Abort(t)
      PROVE  IInv'
  BY <1>5, StatementStep, CommitStep, AbortStep
<1> QED
  BY <1>1, <1>2, <1>3, <1>4, <1>5 DEF Next

\* IInv is an invariant: it holds of the empty tables, and each statement of
\* ingest_live_board_page, index_sanitized_sources, deny_article, exclude_article
\* and reconcile_startup, each commit and each rollback preserve it.
THEOREM InductiveInvariant == Spec => []IInv
  BY InitInvariant, NextStep, PTL DEF Spec

-----------------------------------------------------------------------------
(* What it says of the code.                                               *)

\* Rows, chunks, vectors, the denylist entry and the local variables of every
\* transaction stay what they are declared to be.
THEOREM TypeCorrect == Spec => []TypeOK
<1>1. IInv => TypeOK
  BY DEF IInv
<1> QED
  BY <1>1, InductiveInvariant, PTL

\* _replace_source_chunks and index_chunk_batch leave a source one active chunk
\* at most, whatever crawls, exclusions and index runs commit in between: the
\* partial unique index over active chunks refuses no commit.
THEOREM OneVersionActive == Spec => []SingleActiveVersion
<1>1. IInv => SingleActiveVersion
  <2> SUFFICES ASSUME IInv, NEW s \in Sources
               PROVE  Cardinality(Searchable(s)) <= 1
    BY DEF SingleActiveVersion
  <2>1. CASE Searchable(s) = {}
    BY <2>1, FS_EmptySet
  <2>2. CASE Searchable(s) # {}
    <3>1. PICK c \in Content : c \in Searchable(s)
      BY <2>2 DEF Searchable
    <3>2. \A d \in Searchable(s) : d = c
      <4> SUFFICES ASSUME NEW d \in Content, d \in Searchable(s)
                   PROVE  d = c
        BY DEF Searchable
      <4>1. /\ <<s, c>> \in Chunks /\ <<s, c>>[1] = s /\ chunk[<<s, c>>].val = "on"
            /\ <<s, d>> \in Chunks /\ <<s, d>>[1] = s /\ chunk[<<s, d>>].val = "on"
        BY <3>1 DEF Searchable, Chunks
      <4>2. <<s, c>> = <<s, d>>
        BY <4>1 DEF IInv, FoundInv, OneOn
      <4> QED
        BY <4>2
    <3>3. Searchable(s) = {c}
      BY <3>1, <3>2
    <3>4. Cardinality({c}) = 1
      BY FS_Singleton
    <3> QED
      BY <3>3, <3>4
  <2> QED
    BY <2>1, <2>2
<1> QED
  BY <1>1, InductiveInvariant, PTL

\* A row that index_sanitized_sources committed as INDEXED is found by its text as
\* long as the row says so and no denylist entry is active.
THEOREM IndexedIsFound == Spec => []IndexedIsSearchable
<1>1. IInv => IndexedIsSearchable
  BY DEF IInv, FoundInv
<1> QED
  BY <1>1, InductiveInvariant, PTL

\* An article exclude_article committed as DENIED or DELETED has no active chunk of
\* its own, even if an index run held or wrote it meanwhile.
THEOREM ExcludedStaysHidden == Spec => []ExcludedArticleHidden
<1>1. IInv => ExcludedArticleHidden
  BY DEF IInv, FoundInv
<1> QED
  BY <1>1, InductiveInvariant, PTL

\* The commit of a starting process.
LEMMA StartCommits ==
    ASSUME IInv, NEW t \in Owners, startup = t, Commit(t)
    PROVE  AllExcluded'
<1>1. /\ t \in Txns /\ t # NoTxn /\ t \notin Indexers /\ tx[t].pc = "commit"
      /\ Article \in Sources /\ Comments \subseteq Sources
  BY Constants DEF Commit
<1>2. RepairArticle(t) /\ RepairChunks(t) /\ RepairComments(t)
  BY <1>1, OurStart
<1>3. source'[Article].val = View(t, source[Article])
  BY <1>1, Committed DEF View
<1>4. source'[Article].val.status = "DENIED" /\ source'[Article].val.body = Empty
  BY <1>1, <1>2, <1>3 DEF RepairArticle
<1>5. ASSUME NEW s \in Sources
      PROVE  Searchable(s)' = {}
  <2> SUFFICES ASSUME NEW c \in Content, chunk'[<<s, c>>].val = "on"
               PROVE  FALSE
    BY DEF Searchable
  <2>1. <<s, c>> \in Chunks
    BY DEF Chunks
  <2>2. chunk[<<s, c>>].lock # t /\ chunk[<<s, c>>].val = "on"
    BY <1>1, <2>1, SwitchedOn
  <2> QED
    BY <1>1, <1>2, <2>1, <2>2 DEF RepairChunks, AfterChunks
<1>6. ASSUME NEW s \in Comments, Stored(source'[s].val)
      PROVE  source'[s].val.status = "DENIED"
  <2>1. /\ Stored(source[s].val) => source[s].lock = t /\ source[s].work.status = "DENIED"
        /\ source[s].lock = t => Stored(source[s].val)
    BY <1>1, <1>2 DEF RepairComments
  <2>2. Stored(source[s].val)
    BY <1>1, <1>6, <2>1, Committed
  <2> QED
    BY <1>1, <2>1, <2>2, Committed
<1> QED
  BY <1>4, <1>5, <1>6 DEF AllExcluded

\* When reconcile_startup commits, the article its entry names is denied and blank,
\* no chunk of it, its comments and its images is searchable and its comments are
\* denied, whatever the races of deny_article left behind before the restart.
THEOREM StartRepairs == Spec => ReconcileRepairs
<1>1. IInv => \A t \in Owners : startup = t /\ Commit(t) => AllExcluded'
  BY StartCommits
<1>2. IInv => [\A t \in Owners : startup = t /\ Commit(t) => AllExcluded']_vars
  BY <1>1
<1> QED
  BY <1>2, InductiveInvariant, PTL DEF ReconcileRepairs
=============================================================================
