---------------------------- MODULE SourceCorpus ----------------------------
(***************************************************************************)
(* One community article with its comments and images, the chunks and      *)
(* vectors made from them, and the denylist: the rows that crawler/live.py,*)
(* indexing/service.py, db/repositories.py, admin.py and ops/reconcile.py  *)
(* read and write, each in transactions of its own.  An action is one SQL  *)
(* statement (or the part of a transaction between two lock waits); a      *)
(* transaction waits for row locks exactly where PostgreSQL would.         *)
(*                                                                         *)
(* A source's text is a member of Content; its hash is its identity, so    *)
(* the all-zero hash of an excluded article is its Empty body.  A source   *)
(* of text c yields the chunk <<s, c>>: chunk ids are content hashes of    *)
(* the source key and the text.                                            *)
(***************************************************************************)
EXTENDS FiniteSets, Naturals, RowLocks

CONSTANTS
    Article,    \* the article
    Comments,   \* its comments
    Media,      \* its images
    Content,    \* the texts a source can have
    Empty,      \* the blanked body
    Crawlers,   \* transactions of ingest_live_board_page
    Indexers,   \* transactions of index_sanitized_sources
    Owners,     \* transactions of deny_article and reconcile_startup
    BatchSize,  \* rows one indexing transaction takes
    MaxCrawls,  \* bound on the crawler transactions of a behaviour
    MaxDenials  \* bound on the owner's transactions of a behaviour

Children == Comments \cup Media
Sources == {Article} \cup Children
Txns == Crawlers \cup Indexers \cup Owners

ASSUME CorpusAssumption ==
    /\ Article \notin Children
    /\ Comments \cap Media = {}
    /\ IsFiniteSet(Sources)
    /\ IsFiniteSet(Content)
    /\ Empty \notin Content
    /\ NoTxn \notin Txns
    /\ Crawlers \cap Indexers = {}
    /\ Crawlers \cap Owners = {}
    /\ Indexers \cap Owners = {}
    /\ BatchSize \in Nat \ {0}
    /\ MaxCrawls \in Nat
    /\ MaxDenials \in Nat

VARIABLES
    source,     \* articles, comments and media_assets rows
    chunk,      \* chunks rows, by source and text
    embedding,  \* chunk_embeddings rows of the active revision
    denied,     \* the article's active denylist row
    tx,         \* the transactions: program counter and local variables
    startup,    \* the transaction of a starting process, which runs alone
    crawls,     \* crawler transactions begun
    denials     \* owner transactions begun

others == <<startup, crawls, denials>>
vars == <<source, chunk, embedding, denied, tx, others>>

-----------------------------------------------------------------------------
(* Row contents.  "ocr_ready", "indexed" and "excluded" are the            *)
(* fetch_status of an image; "rejected" also stands for "ocr_empty".       *)

\* Statuses of articles and comments, and of images.
TextStatus == {"absent", "SANITIZED", "INDEXED", "DENIED", "DELETED"}
MediaStatus == {"absent", "ocr_ready", "indexed", "excluded", "rejected"}

\* emitted: the hashes for which the outbox holds an event of this article;
\* outbox rows are only inserted under the article's row lock.
SourceVersion ==
    [status: TextStatus \cup MediaStatus, body: Content \cup {Empty},
     emitted: SUBSET Content]

NoSource == [status |-> "absent", body |-> Empty, emitted |-> {}]

ReadyStatus(s) == IF s \in Media THEN "ocr_ready" ELSE "SANITIZED"
IndexedStatus(s) == IF s \in Media THEN "indexed" ELSE "INDEXED"

Stored(version) == version.status # "absent"
Published(version) == version.status \in {"SANITIZED", "INDEXED"}

Flags == {"absent", "on", "off"} \* a chunk's or a vector's active column

Pairs == Sources \X (Content \cup {Empty}) \* rows a statement may match

-----------------------------------------------------------------------------
(* Transactions.                                                           *)

UpdateStages ==
    {"stale_chunks", "stale_embeddings", "exclude_chunks",
     "exclude_embeddings", "exclude_comments", "exclude_media"}

Stages ==
    UpdateStages \cup
    {"idle", "upsert_article", "insert_article", "children", "failed",
     "next_source", "write_chunks", "exclude_article", "add_denylist",
     "insert_denylist", "commit"}

\* todo: sources still to handle; now: the source being handled; loaded: the
\* article as the ORM session loaded it; owner: exclude_article got an actor;
\* matched: rows the running UPDATE found when it began (open = it has begun).
TxState ==
    [pc: Stages, todo: SUBSET Sources, now: Sources, loaded: SourceVersion,
     owner: BOOLEAN, open: BOOLEAN, matched: SUBSET Pairs]

Idle == [pc |-> "idle", todo |-> {}, now |-> Article, loaded |-> NoSource,
         owner |-> FALSE, open |-> FALSE, matched |-> {}]

MayBegin(t) == tx[t].pc = "idle" /\ startup = NoTxn

Goto(t, stage) == tx' = [tx EXCEPT ![t].pc = stage]

Mine(t) == {s \in Sources : source[s].lock = t}

\* COMMIT publishes every version the transaction wrote and frees its locks.
Commit(t) ==
    /\ tx[t].pc = "commit"
    /\ source' = [s \in Sources |-> CommitRow(t, source[s])]
    /\ chunk' = [x \in Sources \X Content |-> CommitRow(t, chunk[x])]
    /\ embedding' = [x \in Sources \X Content |-> CommitRow(t, embedding[x])]
    /\ denied' = CommitRow(t, denied)
    /\ tx' = [tx EXCEPT ![t] = Idle]
    /\ startup' = IF startup = t THEN NoTxn ELSE startup
    /\ UNCHANGED <<crawls, denials>>

\* A failing statement or fetch, a deadlock victim, a killed process: the
\* transaction is rolled back, whatever it was doing.
Abort(t) ==
    /\ tx[t].pc # "idle"
    /\ source' = [s \in Sources |-> RollbackRow(t, source[s])]
    /\ chunk' = [x \in Sources \X Content |-> RollbackRow(t, chunk[x])]
    /\ embedding' = [x \in Sources \X Content |-> RollbackRow(t, embedding[x])]
    /\ denied' = RollbackRow(t, denied)
    /\ tx' = [tx EXCEPT ![t] = Idle]
    /\ startup' = IF startup = t THEN NoTxn ELSE startup
    /\ UNCHANGED <<crawls, denials>>

-----------------------------------------------------------------------------
(* UPDATE statements over several rows.  The statement matches the rows    *)
(* that are visible when it begins; it then waits for their locks, and     *)
(* rows inserted while it waits are not part of it.                        *)

\* Mutant: only the article's own chunks; only those of its children.
OwnChunksOnly == {Article} \X Content
ChildChunksOnly == Children \X Content

\* exclude_article: chunks of the article, of its comments, of its images.
ExcludedChunks == Sources \X Content

\* Mutant: nothing is stale.
NoStaleChunks(t) == {}

\* _replace_source_chunks: chunks of the source that its text does not yield.
StaleChunks(t) ==
    {tx[t].now} \X (Content \ {View(t, source[tx[t].now]).body})

Matches(t) ==
    CASE tx[t].pc \in {"exclude_chunks", "exclude_embeddings"} -> ExcludedChunks
      [] tx[t].pc \in {"stale_chunks", "stale_embeddings"} -> StaleChunks(t)
      [] tx[t].pc = "exclude_comments" -> Comments \X {Empty}
      [] tx[t].pc = "exclude_media" -> Media \X {Empty}

Visible(t, x) ==
    CASE tx[t].pc \in {"exclude_chunks", "stale_chunks"} ->
            View(t, chunk[x]) # "absent"
      [] tx[t].pc \in {"exclude_embeddings", "stale_embeddings"} ->
            View(t, embedding[x]) # "absent"
      [] OTHER -> Stored(View(t, source[x[1]]))

StageAfter(t) ==
    CASE tx[t].pc = "stale_chunks" -> "stale_embeddings"
      [] tx[t].pc = "stale_embeddings" -> "next_source"
      [] tx[t].pc = "exclude_chunks" -> "exclude_embeddings"
      [] tx[t].pc = "exclude_embeddings" -> "exclude_comments"
      [] tx[t].pc = "exclude_comments" -> "exclude_media"
      [] tx[t].pc = "exclude_media" ->
            IF tx[t].owner THEN "add_denylist" ELSE "commit"

BeginUpdate(t) ==
    /\ tx[t].pc \in UpdateStages
    /\ ~tx[t].open
    /\ tx' = [tx EXCEPT ![t].open = TRUE,
                        ![t].matched = {x \in Matches(t) : Visible(t, x)}]
    /\ UNCHANGED <<source, chunk, embedding, denied, others>>

\* The statement has every lock it waited for and has changed its rows.
EndUpdate(t) ==
    tx' = [tx EXCEPT ![t].pc = StageAfter(t), ![t].open = FALSE,
                     ![t].matched = {}]

Deactivate(t, table) ==
    [x \in Sources \X Content |->
        IF x \in tx[t].matched THEN Write(t, table[x], "off") ELSE table[x]]

\* _replace_source_chunks and exclude_article, chunks.active = false.
UpdateChunks(t) ==
    /\ tx[t].pc \in {"stale_chunks", "exclude_chunks"}
    /\ tx[t].open
    /\ \A x \in tx[t].matched : Free(t, chunk[x])
    /\ chunk' = Deactivate(t, chunk)
    /\ EndUpdate(t)
    /\ UNCHANGED <<source, embedding, denied, others>>

\* The same for chunk_embeddings.active.
UpdateEmbeddings(t) ==
    /\ tx[t].pc \in {"stale_embeddings", "exclude_embeddings"}
    /\ tx[t].open
    /\ \A x \in tx[t].matched : Free(t, embedding[x])
    /\ embedding' = Deactivate(t, embedding)
    /\ EndUpdate(t)
    /\ UNCHANGED <<source, chunk, denied, others>>

\* exclude_article: comments lose their body and are DENIED or DELETED,
\* images lose their text and are "excluded".
ExcludedChild(t, s) ==
    LET old == View(t, source[s]) IN
    [old EXCEPT !.body = Empty,
                !.status = IF s \in Media THEN "excluded"
                           ELSE IF tx[t].owner THEN "DENIED" ELSE "DELETED"]

UpdateChildren(t) ==
    /\ tx[t].pc \in {"exclude_comments", "exclude_media"}
    /\ tx[t].open
    /\ \A x \in tx[t].matched : Free(t, source[x[1]])
    /\ source' = [s \in Sources |->
                    IF <<s, Empty>> \in tx[t].matched
                    THEN Write(t, source[s], ExcludedChild(t, s))
                    ELSE source[s]]
    /\ EndUpdate(t)
    /\ UNCHANGED <<chunk, embedding, denied, others>>

-----------------------------------------------------------------------------
(* The crawler: one transaction ingests one listing page.                  *)

\* upsert_article_with_outbox first looks for an active denylist entry,
\* without a lock; SourceDenied skips the article.
BeginCrawl(t) ==
    /\ MayBegin(t)
    /\ crawls < MaxCrawls
    /\ ~denied.val
    /\ crawls' = crawls + 1
    /\ Goto(t, "upsert_article")
    /\ UNCHANGED <<source, chunk, embedding, denied, startup, denials>>

\* The SELECT ... FOR UPDATE finds no row: an INSERT follows.
MissArticle(t) ==
    /\ tx[t].pc = "upsert_article"
    /\ ~Stored(source[Article].val)
    /\ Goto(t, "insert_article")
    /\ UNCHANGED <<source, chunk, embedding, denied, others>>

ToChildren(t) == tx' = [tx EXCEPT ![t].pc = "children", ![t].todo = Children]

\* INSERT ... ON CONFLICT DO NOTHING; if another transaction inserted the row
\* meanwhile, the row is locked and left as it is.
InsertArticle(t) ==
    /\ tx[t].pc = "insert_article"
    /\ Free(t, source[Article])
    /\ IF Stored(source[Article].val)
       THEN source' = [source EXCEPT ![Article] = Hold(t, @)]
       ELSE \E c \in Content :
              source' = [source EXCEPT ![Article] =
                Write(t, @, [status |-> "SANITIZED", body |-> c,
                             emitted |-> {c}])]
    /\ ToChildren(t)
    /\ UNCHANGED <<chunk, embedding, denied, others>>

\* Mutant: the outbox event carries the hash of the replaced text.
ModifyArticleOldHash(t) ==
    /\ tx[t].pc = "upsert_article"
    /\ Stored(source[Article].val)
    /\ Free(t, source[Article])
    /\ \E c \in Content :
         LET old == View(t, source[Article]) IN
         \/ /\ c = old.body
            /\ source' = [source EXCEPT ![Article] = Hold(t, @)]
            /\ ToChildren(t)
         \/ /\ c \notin {old.body} \cup old.emitted
            /\ source' = [source EXCEPT ![Article] =
                 Write(t, @, [status |-> "SANITIZED", body |-> c,
                              emitted |-> old.emitted \cup {old.body}])]
            /\ ToChildren(t)
         \/ \* The outbox row of this text exists: unique violation at flush.
            /\ c \in old.emitted \ {old.body}
            /\ source' = [source EXCEPT ![Article] = Hold(t, @)]
            /\ Goto(t, "failed")
    /\ UNCHANGED <<chunk, embedding, denied, others>>

\* The row exists: SELECT ... FOR UPDATE, then the changed branch or not.
ModifyArticle(t) ==
    /\ tx[t].pc = "upsert_article"
    /\ Stored(source[Article].val)
    /\ Free(t, source[Article])
    /\ \E c \in Content :
         LET old == View(t, source[Article]) IN
         \/ /\ c = old.body
            /\ source' = [source EXCEPT ![Article] = Hold(t, @)]
            /\ ToChildren(t)
         \/ /\ c \notin {old.body} \cup old.emitted
            /\ source' = [source EXCEPT ![Article] =
                 Write(t, @, [status |-> "SANITIZED", body |-> c,
                              emitted |-> old.emitted \cup {c}])]
            /\ ToChildren(t)
         \/ \* The outbox row of this text exists: unique violation at flush.
            /\ c \in old.emitted \ {old.body}
            /\ source' = [source EXCEPT ![Article] = Hold(t, @)]
            /\ Goto(t, "failed")
    /\ UNCHANGED <<chunk, embedding, denied, others>>

\* Mutant: an edited comment keeps the status it had.
ChildVersionsKeepStatus(s, old) ==
    {[old EXCEPT !.body = c,
                 !.status = IF Stored(old) THEN @ ELSE ReadyStatus(s)]
        : c \in Content}

\* upsert_comment_with_outbox for a comment of the page (status is set even
\* if nothing changed), _store_media for an image, or the child is not there.
ChildVersions(s, old) ==
    IF s \in Comments
    THEN {[old EXCEPT !.status = "SANITIZED", !.body = c] : c \in Content}
           \cup {[old EXCEPT !.status = "DELETED", !.body = Empty]}
    ELSE {[old EXCEPT !.status = "ocr_ready", !.body = c] : c \in Content}
           \cup {[old EXCEPT !.status = "rejected"]}

UpsertChild(t, s) ==
    /\ tx[t].pc = "children"
    /\ s \in tx[t].todo
    /\ s \in Media => tx[t].todo \cap Comments = {}
    /\ \/ UNCHANGED source
       \/ /\ Free(t, source[s])
          /\ \E v \in ChildVersions(s, View(t, source[s])) :
                source' = [source EXCEPT ![s] = Write(t, @, v)]
    /\ tx' = [tx EXCEPT ![t].todo = @ \ {s}]
    /\ UNCHANGED <<chunk, embedding, denied, others>>

EndChildren(t) ==
    /\ tx[t].pc = "children"
    /\ tx[t].todo = {}
    /\ Goto(t, "commit")
    /\ UNCHANGED <<source, chunk, embedding, denied, others>>

\* ArticleUnavailable: the stored article is locked and excluded, no actor.
CrawlUnavailable(t) ==
    /\ MayBegin(t)
    /\ crawls < MaxCrawls
    /\ Stored(source[Article].val)
    /\ Free(t, source[Article])
    /\ crawls' = crawls + 1
    /\ source' = [source EXCEPT ![Article] = Hold(t, @)]
    /\ tx' = [tx EXCEPT ![t].pc = "exclude_article", ![t].owner = FALSE,
                        ![t].loaded = View(t, source[Article])]
    /\ UNCHANGED <<chunk, embedding, denied, startup, denials>>

-----------------------------------------------------------------------------
(* exclude_article, deny_article and reconcile_startup.                    *)

\* deny_article reads the article without a lock.
DenyArticle(t) ==
    /\ MayBegin(t)
    /\ denials < MaxDenials
    /\ denials' = denials + 1
    /\ IF Stored(source[Article].val)
       THEN tx' = [tx EXCEPT ![t].pc = "exclude_article", ![t].owner = TRUE,
                             ![t].loaded = source[Article].val]
       ELSE Goto(t, "insert_denylist")
    /\ UNCHANGED <<source, chunk, embedding, denied, startup, crawls>>

\* reconcile_startup excludes again what an active entry names; it belongs to
\* the start of the service, before anything else runs.
Reconcile(t) ==
    /\ \A u \in Txns : tx[u].pc = "idle"
    /\ denials < MaxDenials
    /\ denied.val
    /\ Stored(source[Article].val)
    /\ denials' = denials + 1
    /\ tx' = [tx EXCEPT ![t].pc = "exclude_article", ![t].owner = TRUE,
                        ![t].loaded = source[Article].val]
    /\ startup' = t
    /\ UNCHANGED <<source, chunk, embedding, denied, crawls>>

\* The attributes exclude_article assigns are flushed before its first
\* statement; only those that differ from what was loaded are written, and
\* if none differs there is no UPDATE and no lock.
ExcludeArticle(t) ==
    LET loaded == tx[t].loaded
        status == IF tx[t].owner THEN "DENIED" ELSE "DELETED"
        old == View(t, source[Article])
        new == [old EXCEPT
                  !.status = IF loaded.status = status THEN old.status ELSE status,
                  !.body = IF loaded.body = Empty THEN old.body ELSE Empty]
    IN /\ tx[t].pc = "exclude_article"
       /\ IF loaded.status = status /\ loaded.body = Empty
          THEN UNCHANGED source
          ELSE /\ Free(t, source[Article])
               /\ source' = [source EXCEPT ![Article] = Write(t, @, new)]
       /\ Goto(t, "exclude_chunks")
       /\ UNCHANGED <<chunk, embedding, denied, others>>

\* exclude_article with an actor ends with ON CONFLICT DO UPDATE.
AddDenylist(t) ==
    /\ tx[t].pc = "add_denylist"
    /\ Free(t, denied)
    /\ denied' = Write(t, denied, TRUE)
    /\ Goto(t, "commit")
    /\ UNCHANGED <<source, chunk, embedding, others>>

\* deny_article of an article never seen: ON CONFLICT DO NOTHING.
InsertDenylist(t) ==
    /\ tx[t].pc = "insert_denylist"
    /\ IF denied.val
       THEN UNCHANGED denied
       ELSE /\ Free(t, denied)
            /\ denied' = Write(t, denied, TRUE)
    /\ Goto(t, "commit")
    /\ UNCHANGED <<source, chunk, embedding, others>>

-----------------------------------------------------------------------------
(* index_sanitized_sources: passes over articles, comments and images, each*)
(* pass a loop of transactions.                                            *)

Eligible(kind) ==
    {s \in kind :
        /\ source[s].val.status = ReadyStatus(s)
        /\ source[s].lock = NoTxn
        /\ s \in Comments => Published(source[Article].val)
        /\ s \in Media => source[s].val.body # Empty}

BeginBatch(t) ==
    /\ MayBegin(t)
    /\ \E kind \in {{Article}, Comments, Media} :
         \E batch \in SUBSET Eligible(kind) \ {{}} :
           /\ \/ Cardinality(batch) = BatchSize
              \/ batch = Eligible(kind) /\ Cardinality(batch) < BatchSize
           /\ source' = [s \in Sources |->
                IF s \in batch THEN Hold(t, source[s]) ELSE source[s]]
           /\ tx' = [tx EXCEPT ![t].pc = "next_source", ![t].todo = batch]
    /\ UNCHANGED <<chunk, embedding, denied, others>>

\* The row becomes INDEXED in the session and its old chunks are replaced;
\* after the last one the whole batch is embedded.  An empty text has no chunk.
NextSource(t) ==
    /\ tx[t].pc = "next_source"
    /\ IF tx[t].todo = {}
       THEN /\ tx' = [tx EXCEPT ![t].pc = "write_chunks",
                                ![t].todo = {s \in Mine(t) : source[s].work.body # Empty}]
            /\ UNCHANGED source
       ELSE \E s \in tx[t].todo :
              /\ source' = [source EXCEPT ![s] =
                   Write(t, @, [source[s].work EXCEPT !.status = IndexedStatus(s)])]
              /\ tx' = [tx EXCEPT ![t].pc = "stale_chunks", ![t].now = s,
                                  ![t].todo = @ \ {s}]
    /\ UNCHANGED <<chunk, embedding, denied, others>>

\* Mutant: ON CONFLICT DO NOTHING on the chunk as on its vector.
WriteChunkOnce(t, s) ==
    LET x == <<s, source[s].work.body>> IN
    /\ tx[t].pc = "write_chunks"
    /\ s \in tx[t].todo
    /\ Free(t, chunk[x])
    /\ chunk' = IF chunk[x].val = "absent"
                THEN [chunk EXCEPT ![x] = Write(t, @, "on")]
                ELSE chunk
    /\ embedding' = IF embedding[x].val = "absent"
                    THEN [embedding EXCEPT ![x] = Write(t, @, "on")]
                    ELSE embedding
    /\ tx' = [tx EXCEPT ![t].todo = @ \ {s}]
    /\ UNCHANGED <<source, denied, others>>

\* index_chunk_batch: the chunk is inserted or switched on again, the vector
\* is inserted unless the row exists.
WriteChunk(t, s) ==
    LET x == <<s, source[s].work.body>> IN
    /\ tx[t].pc = "write_chunks"
    /\ s \in tx[t].todo
    /\ Free(t, chunk[x])
    /\ embedding[x].val = "absent" => Free(t, embedding[x])
    /\ chunk' = [chunk EXCEPT ![x] = Write(t, @, "on")]
    /\ embedding' = IF embedding[x].val = "absent"
                    THEN [embedding EXCEPT ![x] = Write(t, @, "on")]
                    ELSE embedding
    /\ tx' = [tx EXCEPT ![t].todo = @ \ {s}]
    /\ UNCHANGED <<source, denied, others>>

EndBatch(t) ==
    /\ tx[t].pc = "write_chunks"
    /\ tx[t].todo = {}
    /\ Goto(t, "commit")
    /\ UNCHANGED <<source, chunk, embedding, denied, others>>

-----------------------------------------------------------------------------

Init ==
    /\ source = [s \in Sources |-> Settled(NoSource)]
    /\ chunk = [x \in Sources \X Content |-> Settled("absent")]
    /\ embedding = [x \in Sources \X Content |-> Settled("absent")]
    /\ denied = Settled(FALSE)
    /\ tx = [t \in Txns |-> Idle]
    /\ startup = NoTxn
    /\ crawls = 0
    /\ denials = 0

Crawl(t) ==
    \/ BeginCrawl(t) \/ MissArticle(t) \/ InsertArticle(t) \/ ModifyArticle(t)
    \/ (\E s \in Children : UpsertChild(t, s)) \/ EndChildren(t)
    \/ CrawlUnavailable(t)

Index(t) ==
    \/ BeginBatch(t) \/ NextSource(t)
    \/ (\E s \in Sources : WriteChunk(t, s)) \/ EndBatch(t)

Own(t) ==
    DenyArticle(t) \/ Reconcile(t) \/ AddDenylist(t) \/ InsertDenylist(t)

Statement(t) ==
    \/ ExcludeArticle(t) \/ BeginUpdate(t)
    \/ UpdateChunks(t) \/ UpdateEmbeddings(t) \/ UpdateChildren(t)

Next ==
    \/ \E t \in Crawlers : Crawl(t)
    \/ \E t \in Indexers : Index(t)
    \/ \E t \in Owners : Own(t)
    \/ \E t \in Txns : Statement(t) \/ Commit(t) \/ Abort(t)

Spec == Init /\ [][Next]_vars

-----------------------------------------------------------------------------

TypeOK ==
    /\ source \in [Sources -> Row(SourceVersion, Txns)]
    /\ \A s \in Sources :
         {source[s].val.status, source[s].work.status} \subseteq
            IF s \in Media THEN MediaStatus ELSE TextStatus
    /\ chunk \in [Sources \X Content -> Row(Flags, Txns)]
    /\ embedding \in [Sources \X Content -> Row(Flags, Txns)]
    /\ denied \in Row(BOOLEAN, Txns)
    /\ tx \in [Txns -> TxState]
    /\ startup \in Owners \cup {NoTxn}
    /\ crawls \in 0..MaxCrawls
    /\ denials \in 0..MaxDenials

\* What a lexical search can return, and what a dense search can: dense also
\* needs the vector to be active.
Searchable(s) == {c \in Content : chunk[<<s, c>>].val = "on"}

\* Search never offers two texts of one source: whatever edits, exclusions,
\* rollbacks and concurrent index runs happen, committed state holds at most
\* one active chunk version per source (_replace_source_chunks, then the
\* upsert), so the partial unique index of models.py:224 is never hit.
SingleActiveVersion ==
    \A s \in Sources : Cardinality(Searchable(s)) <= 1

\* A row committed as INDEXED is found: its current text is the active chunk.
\* (An active denylist entry hides chunks whatever the rows say.)
IndexedIsSearchable ==
    \A s \in Sources :
        source[s].val.status = IndexedStatus(s) /\ ~denied.val =>
            source[s].val.body \in Searchable(s)

\* An article committed as DENIED or DELETED has no active chunk of its own:
\* the row lock of the article orders exclude_article after the indexer.
ExcludedArticleHidden ==
    source[Article].val.status \in {"DENIED", "DELETED"} =>
        Searchable(Article) = {}

\* Nothing of the article is stored as published or found by a search.
AllExcluded ==
    /\ source[Article].val.status = "DENIED"
    /\ source[Article].val.body = Empty
    /\ \A s \in Sources : Searchable(s) = {}
    /\ \A s \in Comments :
        Stored(source[s].val) => source[s].val.status = "DENIED"

\* Startup reconciliation repairs whatever the races of deny_article with the
\* crawler and the indexer left behind (docs/deletion-response.md, step 5).
ReconcileRepairs ==
    [][\A t \in Owners : startup = t /\ Commit(t) => AllExcluded']_vars

-----------------------------------------------------------------------------
(* What documents and docstrings say and the code does not ensure.         *)

\* repositories.py:51: "A durable denylist entry forbids source reinsertion."
\* With no transaction open, an article with an active entry is not
\* published.
DeniedNotPublished ==
    denied.val /\ (\A t \in Txns : tx[t].pc = "idle") =>
        ~Published(source[Article].val)

\* docs/g002-verification.md:17: "Tombstone/denylist exclusion deactivates
\* source chunks and vectors in the same transaction."  An excluded article
\* leaves no searchable chunk, its comments' and images' included.
ExclusionReachesEveryChunk ==
    source[Article].val.status \in {"DENIED", "DELETED"} =>
        \A s \in Sources : Searchable(s) = {}

\* docs/deletion-response.md:5: exclusion marks the article denied and
\* removes the sanitized body.
DeniedBodyErased ==
    source[Article].val.status = "DENIED" => source[Article].val.body = Empty

\* docs/g007-verification.md:6: "Delete/denylist propagation deactivates
\* chunks/vectors".  With no transaction open, a comment the site deleted is
\* not searchable.
DeletedCommentHidden ==
    (\A t \in Txns : tx[t].pc = "idle") =>
        \A s \in Comments :
            source[s].val.status = "DELETED" => Searchable(s) = {}

\* docs/current-system-overview.md:436: indexed data has an active chunk and
\* an active embedding.
IndexedHasVector ==
    \A s \in Sources :
        source[s].val.status = IndexedStatus(s) /\ ~denied.val =>
            embedding[<<s, source[s].val.body>>].val = "on"

\* docs/g002-verification.md:13: "Article/outbox and active-job writes are
\* idempotent": observing a text the article had before cannot fail.
ArticleWriteNeverFails == \A t \in Txns : tx[t].pc # "failed"

=============================================================================
