----------------------------- MODULE PatchNotes -----------------------------
(***************************************************************************)
(* Official patch notes and embedding revisions: sync_recent_patch_notes   *)
(* (crawler/nexon_updates.py), one long transaction that compares the      *)
(* site's list with rows it loaded before its first slow fetch, beside the *)
(* index runs of indexing/service.py, which also rebuild the corpus for a  *)
(* new embedding revision and then activate it.                            *)
(*                                                                         *)
(* The weekly loop holds a lock of its own and the daily sync the crawl    *)
(* lock, so an index run of the latter may meet the transaction of the     *)
(* former.  Index runs take turns by a third lock; a second sync waits for *)
(* the board's row, so there is one.                                       *)
(* deny_article is one step here: its races, and those of two index runs,  *)
(* are the matter of SourceCorpus.                                         *)
(***************************************************************************)
EXTENDS Integers, FiniteSets, Functions, RowLocks

CONSTANTS
  Count,       \* patch notes, the article ids 1..Count
  MaxEdits,    \* bound on the edits
  MaxRevision, \* bound on the embedding revisions
  Indexers,    \* processes that run maple-chat index
  Sync,        \* the transaction of sync_recent_patch_notes
  BatchSize,   \* rows one indexing transaction takes
  MaxAborts,   \* bound on the transactions that fail
  MaxDenials   \* bound on the notes an owner denies

Notes == 1..Count
Revisions == 1..MaxRevision
Txns == Indexers \cup {Sync}

ASSUME NotesAssumption ==
  /\ {Count, MaxEdits, MaxAborts, MaxDenials} \subseteq Nat
  /\ {BatchSize, MaxRevision} \subseteq Nat \ {0}
  /\ NoTxn \notin Txns /\ Sync \notin Indexers

VARIABLES
  site,      \* site[n]: the note on the site
  aged,      \* notes published before the rolling window
  row,       \* row[n]: its article row
  chunk,     \* chunk[n]: the version whose chunks are active, 0 for none
  vectors,   \* vectors[n]: <<version, revision>> of its active vectors
  denied,    \* notes with an active denylist entry
  config,    \* the embedding revision of the configuration
  active,    \* embedding_revisions.active
  sync,      \* the sync and its session
  index,     \* index[i]: an index run
  overtaken, \* notes indexed while a sync was open, or locked under a rebuild
  aborts

vars == <<site, aged, row, chunk, vectors, denied, config, active, sync,
          index, overtaken, aborts>>
world == <<site, aged, denied, config>>

Versions == 1..(MaxEdits + 1)
Statuses == {"absent", "SANITIZED", "INDEXED", "DENIED", "DELETED"}

\* stamp 0: the list shows no modification time.
Version == [status : Statuses, ver : 0..(MaxEdits + 1), stamp : 0..MaxEdits]
Absent == [status |-> "absent", ver |-> 0, stamp |-> 0]

\* todo: the listed notes still to handle, with the stamp the list showed and
\* the row as the session first read it; body: the version fetched; cutoff:
\* notes past the window; expired: those found in the database, off: their
\* chunks when the UPDATE began.
NoSync == [pc |-> "idle", todo |-> [n \in {} |-> Absent], body |-> 0, cutoff |-> {}, expired |-> {},
           off |-> [n \in Notes |-> 0]]

Listed == [stamp : 0..MaxEdits, loaded : Version]

SyncState == [pc : {"idle", "notes", "fetched", "expire", "index"},
              todo : UNION {[N -> Listed] : N \in SUBSET Notes},
              body : 0..(MaxEdits + 1), cutoff : SUBSET Notes,
              expired : SUBSET Notes, off : [Notes -> 0..(MaxEdits + 1)]]

\* weekly: the run belongs to sync_patch_notes.sh, after its sync.
NoIndex == [pc |-> "idle", revision |-> 1, rebuild |-> FALSE, cursor |-> 0,
            weekly |-> FALSE]

IndexState == [pc : {"idle", "select", "embed"}, revision : Revisions,
               rebuild : BOOLEAN, cursor : 0..Count, weekly : BOOLEAN]

\* One type invariant; vectors belong to chunks that are active, and only a row
\* that is not there has no version.
TypeOK ==
  /\ site \in [Notes -> [ver : Versions, stamp : 0..MaxEdits]]
  /\ row \in [Notes -> Row(Version, Txns)]
  /\ \A n \in Notes : row[n].val.ver = 0 <=> row[n].val.status = "absent"
  /\ chunk \in [Notes -> {0} \cup Versions]
  /\ vectors \in [Notes -> SUBSET (Versions \X Revisions)]
  /\ \A n \in Notes : vectors[n] \subseteq {chunk[n]} \X Revisions
  /\ aged \subseteq Notes /\ denied \subseteq Notes /\ overtaken \subseteq Notes
  /\ {config, active} \subseteq Revisions
  /\ sync \in SyncState /\ index \in [Indexers -> IndexState]
  /\ aborts \in 0..MaxAborts

Init ==
  /\ site = [n \in Notes |-> [ver |-> 1, stamp |-> 0]]
  /\ aged = {} /\ denied = {} /\ overtaken = {}
  /\ row = [n \in Notes |-> Settled(Absent)]
  /\ chunk = [n \in Notes |-> 0]
  /\ vectors = [n \in Notes |-> {}]
  /\ config = 1 /\ active = 1
  /\ sync = NoSync
  /\ index = [i \in Indexers |-> NoIndex]
  /\ aborts = 0

-----------------------------------------------------------------------------
(* The site, the calendar and the owner.                                   *)

\* The k-th edit of a note gives it the stamp k.
Edits == {e \in Notes \X (1..MaxEdits) : e[2] <= site[e[1]].stamp}

\* An edited note shows a new modification time; its text may be the same.
Edit(n) ==
  /\ Cardinality(Edits) < MaxEdits
  /\ \E v \in {site[n].ver, site[n].ver + 1} :
       site' = [site EXCEPT ![n] = [ver |-> v, stamp |-> site[n].stamp + 1]]
  /\ UNCHANGED <<aged, row, chunk, vectors, denied, config, active, sync,
                 index, overtaken, aborts>>

\* Notes leave the window in the order they were published in.
Age(n) ==
  /\ n \notin aged /\ 1..(n - 1) \subseteq aged
  /\ aged' = aged \cup {n}
  /\ UNCHANGED <<site, row, chunk, vectors, denied, config, active, sync,
                 index, overtaken, aborts>>

Deny(n) ==
  /\ Cardinality(denied) < MaxDenials /\ n \notin denied
  /\ row[n].lock = NoTxn
  /\ denied' = denied \cup {n}
  /\ row' = IF row[n].val.status = "absent" THEN row
            ELSE [row EXCEPT ![n] = Settled([row[n].val EXCEPT !.status = "DENIED"])]
  /\ chunk' = [chunk EXCEPT ![n] = 0]
  /\ vectors' = [vectors EXCEPT ![n] = {}]
  /\ UNCHANGED <<site, aged, config, active, sync, index, overtaken, aborts>>

\* The configured model changes.
Reconfigure ==
  /\ config < MaxRevision
  /\ config' = config + 1
  /\ UNCHANGED <<site, aged, row, chunk, vectors, denied, active, sync, index,
                 overtaken, aborts>>

-----------------------------------------------------------------------------
(* sync_recent_patch_notes                                                 *)

\* The list is read down to the cutoff, the board's row is taken, and the rows
\* of the listed notes are loaded without a lock.
BeginSync ==
  /\ sync.pc = "idle"
  /\ sync' = [NoSync EXCEPT !.pc = "notes", !.cutoff = aged,
       !.todo = [n \in Notes \ aged |-> [stamp |-> site[n].stamp, loaded |-> row[n].val]]]
  /\ UNCHANGED <<world, row, chunk, vectors, active, index, overtaken, aborts>>

Published(version) == version.status \in {"SANITIZED", "INDEXED"}

Loaded(n) == sync.todo[n].loaded

\* Mutant: the modification time is not looked at.
MutUnchangedAlways(n) == Published(Loaded(n))

Unchanged(n) ==
  /\ Published(Loaded(n))
  /\ sync.todo[n].stamp \in {0, Loaded(n).stamp}

Current(n) == n \in DOMAIN sync.todo /\ \A m \in DOMAIN sync.todo : n <= m
NextNote(n) == sync.pc = "notes" /\ Current(n)
Done(n) == Restrict(sync.todo, DOMAIN sync.todo \ {n})

\* last_observed_at is written, which takes the row's lock.
TouchNote(n) ==
  /\ NextNote(n) /\ Unchanged(n)
  /\ Free(Sync, row[n])
  /\ row' = [row EXCEPT ![n] = Hold(Sync, row[n])]
  /\ sync' = [sync EXCEPT !.todo = Done(n)]
  /\ UNCHANGED <<world, chunk, vectors, active, index, overtaken, aborts>>

FetchNote(n) ==
  /\ NextNote(n) /\ ~Unchanged(n)
  /\ sync' = [sync EXCEPT !.pc = "fetched", !.body = site[n].ver]
  /\ UNCHANGED <<world, row, chunk, vectors, active, index, overtaken, aborts>>

\* Mutant: the status of a row that is there is left alone.
MutSavedKeepsStatus(n) ==
  LET old == View(Sync, row[n])
  IN [status |-> IF old.status = "absent" THEN "SANITIZED" ELSE old.status,
      ver |-> sync.body, stamp |-> sync.todo[n].stamp]

\* upsert_article_with_outbox and the assignments after it.  The session holds
\* the row as first loaded, the locking SELECT does not refresh it, and an
\* attribute assigned the value it was loaded with is not written.
Saved(n) ==
  LET old == View(Sync, row[n])
  IN [status |-> IF Loaded(n).status = "SANITIZED" THEN old.status ELSE "SANITIZED",
      ver |-> sync.body, stamp |-> sync.todo[n].stamp]

SaveNote(n) ==
  /\ sync.pc = "fetched" /\ Current(n)
  /\ n \notin denied
  /\ Free(Sync, row[n])
  /\ row' = [row EXCEPT ![n] = Write(Sync, row[n], Saved(n))]
  /\ sync' = [sync EXCEPT !.pc = "notes", !.todo = Done(n), !.body = 0]
  /\ UNCHANGED <<world, chunk, vectors, active, index, overtaken, aborts>>

\* The notes past the cutoff are looked up and their chunks switched off, those
\* the UPDATE sees when it begins.
ExpireChunks ==
  LET old == {n \in sync.cutoff : Published(View(Sync, row[n]))}
  IN /\ sync.pc = "notes" /\ DOMAIN sync.todo = {}
     /\ sync' = [sync EXCEPT !.pc = "expire", !.expired = old,
          !.off = [n \in Notes |-> IF n \in old THEN chunk[n] ELSE 0]]
     /\ UNCHANGED <<world, row, chunk, vectors, active, index, overtaken, aborts>>

SwitchedOff(n) == n \in sync.expired /\ chunk[n] = sync.off[n]

\* Once the locks of both are free, their rows are marked and the sync commits.
CommitSync ==
  /\ sync.pc = "expire"
  /\ \A n \in sync.expired : Free(Sync, row[n])
  /\ row' = [n \in Notes |->
       IF n \in sync.expired
       THEN Settled([View(Sync, row[n]) EXCEPT !.status = "DELETED"])
       ELSE CommitRow(Sync, row[n])]
  /\ chunk' = [n \in Notes |-> IF SwitchedOff(n) THEN 0 ELSE chunk[n]]
  /\ vectors' = [n \in Notes |-> IF SwitchedOff(n) THEN {} ELSE vectors[n]]
  /\ sync' = [NoSync EXCEPT !.pc = "index"]
  /\ UNCHANGED <<world, active, index, overtaken, aborts>>

Syncing == sync.pc \notin {"idle", "index"}

\* A failed request, a deadlock, a killed process.
AbortSync ==
  /\ Syncing /\ aborts < MaxAborts
  /\ aborts' = aborts + 1
  /\ row' = [n \in Notes |-> RollbackRow(Sync, row[n])]
  /\ sync' = NoSync
  /\ UNCHANGED <<world, chunk, vectors, active, index, overtaken>>

\* SourceDenied: nothing of the whole list is kept.
DeniedSync ==
  /\ sync.pc = "fetched" /\ \E n \in denied : Current(n)
  /\ row' = [n \in Notes |-> RollbackRow(Sync, row[n])]
  /\ sync' = NoSync
  /\ UNCHANGED <<world, chunk, vectors, active, index, overtaken, aborts>>

-----------------------------------------------------------------------------
(* index_sanitized_sources: batches in the order of ids, rows that another *)
(* transaction has locked are passed by.                                   *)

\* index_with_gpu_handoff.sh waits for the index lock before it starts a run.
BeginIndex(i) ==
  /\ \A j \in Indexers : index[j].pc = "idle"
  /\ index' = [index EXCEPT ![i] =
       [pc |-> "select", revision |-> config, rebuild |-> active # config, cursor |-> 0,
        weekly |-> sync.pc = "index"]]
  /\ UNCHANGED <<world, row, chunk, vectors, active, sync, overtaken, aborts>>

Ready(i) ==
  {n \in Notes :
     /\ row[n].lock = NoTxn
     /\ row[n].val.status \in {"SANITIZED"} \cup (IF index[i].rebuild THEN {"INDEXED"} ELSE {})
     /\ index[i].rebuild => n > index[i].cursor}

\* The first rows of those ready.
Batch(i) == {n \in Ready(i) : Cardinality({m \in Ready(i) : m <= n}) <= BatchSize}

\* Rows a rebuild leaves out because they are locked.
PassedBy(i) == {n \in Notes : index[i].rebuild /\ row[n].lock \notin {NoTxn, i}}

SelectBatch(i) ==
  /\ index[i].pc = "select" /\ Ready(i) # {}
  /\ \E last \in Batch(i) :
       /\ \A n \in Batch(i) : n <= last
       /\ index' = [index EXCEPT ![i] = [index[i] EXCEPT !.pc = "embed",
            !.cursor = IF last > index[i].cursor THEN last ELSE index[i].cursor]]
  /\ row' = [n \in Notes |-> IF n \in Batch(i) THEN Hold(i, row[n]) ELSE row[n]]
  /\ overtaken' = overtaken \cup PassedBy(i)
  /\ UNCHANGED <<world, chunk, vectors, active, sync, aborts>>

Locked(i) == {n \in Notes : row[n].lock = i}

\* Mutant: vectors of the replaced text stay active.
MutKeepVectors(i, n) == vectors[n] \cup {<<row[n].val.ver, index[i].revision>>}

\* _replace_source_chunks and index_chunk_batch.
VectorsAfter(i, n) ==
  {p \in vectors[n] : p[1] = row[n].val.ver} \cup {<<row[n].val.ver, index[i].revision>>}

CommitBatch(i) ==
  /\ index[i].pc = "embed"
  /\ chunk' = [n \in Notes |-> IF n \in Locked(i) THEN row[n].val.ver ELSE chunk[n]]
  /\ vectors' = [n \in Notes |-> IF n \in Locked(i) THEN VectorsAfter(i, n) ELSE vectors[n]]
  /\ row' = [n \in Notes |->
       IF n \in Locked(i) THEN Settled([row[n].val EXCEPT !.status = "INDEXED"])
       ELSE row[n]]
  /\ overtaken' = IF Syncing THEN overtaken \cup Locked(i) ELSE overtaken
  /\ index' = [index EXCEPT ![i] = [index[i] EXCEPT !.pc = "select"]]
  /\ UNCHANGED <<world, active, sync, aborts>>

\* The end of its index run ends the script of the weekly loop.
AfterIndex(i) == IF index[i].weekly THEN NoSync ELSE sync

\* Nothing is left: the revision is activated if it is not the active one.
EndIndex(i) ==
  /\ index[i].pc = "select" /\ Ready(i) = {}
  /\ active' = index[i].revision
  /\ index' = [index EXCEPT ![i] = NoIndex]
  /\ overtaken' = overtaken \cup PassedBy(i)
  /\ sync' = AfterIndex(i)
  /\ UNCHANGED <<world, row, chunk, vectors, aborts>>

AbortIndex(i) ==
  /\ index[i].pc # "idle" /\ aborts < MaxAborts
  /\ aborts' = aborts + 1
  /\ row' = [n \in Notes |-> RollbackRow(i, row[n])]
  /\ index' = [index EXCEPT ![i] = NoIndex]
  /\ sync' = AfterIndex(i)
  /\ UNCHANGED <<world, chunk, vectors, active, overtaken>>

-----------------------------------------------------------------------------
SyncStep ==
  \/ BeginSync \/ ExpireChunks \/ CommitSync \/ DeniedSync
  \/ \E n \in Notes : TouchNote(n) \/ FetchNote(n) \/ SaveNote(n)

IndexStep(i) == BeginIndex(i) \/ SelectBatch(i) \/ CommitBatch(i) \/ EndIndex(i)

Next ==
  \/ \E n \in Notes : Edit(n) \/ Age(n) \/ Deny(n)
  \/ Reconfigure \/ SyncStep \/ AbortSync
  \/ \E i \in Indexers : IndexStep(i) \/ AbortIndex(i)

\* The weekly loop syncs and then indexes, week after week.
Spec ==
  /\ Init /\ [][Next]_vars
  /\ WF_vars(SyncStep) /\ \A i \in Indexers : WF_vars(IndexStep(i))

-----------------------------------------------------------------------------
(* Properties.                                                             *)

Found(n, ver) == chunk[n] = ver /\ <<ver, active>> \in vectors[n]

\* What search finds of a note is what its row says: a note committed as INDEXED
\* is found, by words and by vectors once the active revision is the configured
\* one, in the text of its row; an expired or denied one is not found - across
\* edits, rebuilds, activations, failures, unless a sync and an index run met on
\* it (index_sanitized_sources with rebuild_revision and its cursor, the end of
\* sync_recent_patch_notes).
SearchFollowsRows ==
  \A n \in Notes \ overtaken :
    /\ row[n].val.status = "INDEXED" /\ active = config => Found(n, row[n].val.ver)
    /\ row[n].val.status \in {"DELETED", "DENIED"} => chunk[n] = 0

\* Whatever is edited on the site is in the end what search finds - as long as
\* the note is in the window, no listed note is denied (SourceDenied ends every
\* sync) and no sync met an index run on it.
EditsReachSearch ==
  \A n \in Notes :
    []<>( \/ n \in aged \cup overtaken \/ denied \ aged # {}
          \/ Found(n, site[n].ver))

\* cli.py:107: sync-patch-notes serves to "collect the rolling official
\* MapleStory patch-note window and index changes".  A row an index run commits
\* after the sync loaded it keeps INDEXED with the new text, and is not indexed.
ChangesIndexed ==
  \A n \in Notes : row[n].val.status = "INDEXED" => chunk[n] = row[n].val.ver
=============================================================================
