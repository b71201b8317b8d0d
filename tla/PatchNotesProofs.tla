-------------------------- MODULE PatchNotesProofs --------------------------
(***************************************************************************)
(* Proofs about PatchNotes.  For every number of notes, of edits and of    *)
(* embedding revisions, and for every size of a batch: what search finds   *)
(* of a note is what its row says, across syncs, rebuilds, activations and *)
(* failures, unless a sync and an index run met on the note.               *)
(***************************************************************************)
EXTENDS PatchNotes, FiniteSetTheorems, TLAPS

-----------------------------------------------------------------------------
(* The inductive invariant.                                                *)

\* A note's text changes with an edit at most once.
SiteInv == \A n \in Notes : site[n].ver <= site[n].stamp + 1

\* A row nobody has locked has one version; an index run changes nothing before
\* it commits, and locks rows it may index only.
LockInv ==
  \A n \in Notes :
    /\ row[n].work.ver = 0 <=> row[n].work.status = "absent"
    /\ row[n].lock # Sync => row[n].work = row[n].val
    /\ row[n].lock = Sync => Syncing
    /\ row[n].lock \in Indexers =>
         index[row[n].lock].pc = "embed" /\ Published(row[n].val)

\* Index runs take turns by their lock; the script that syncs waits for its run.
TurnInv ==
  /\ \A i, j \in Indexers : index[i].pc # "idle" /\ index[j].pc # "idle" => i = j
  /\ \A i \in Indexers : index[i].weekly => index[i].pc # "idle" /\ sync.pc = "index"

\* The revision of a run is the configured one or one before it, but not one
\* before the active one; it rebuilds unless that is the active one.
RunInv ==
  /\ active <= config
  /\ \A i \in Indexers : index[i].pc # "idle" =>
       active <= index[i].revision /\ index[i].revision <= config
  /\ \A i \in Indexers : index[i].pc # "idle" =>
       (index[i].rebuild <=> active # index[i].revision)

\* The list is there until every note is handled, the expired notes after that;
\* a note on the list is not locked yet, and a row once there stays.
SyncInv ==
  /\ sync.pc # "notes" /\ sync.pc # "fetched" => DOMAIN sync.todo = {}
  /\ sync.pc # "expire" => sync.expired = {}
  /\ sync.pc = "fetched" => sync.body # 0
  /\ \A n \in DOMAIN sync.todo :
       /\ row[n].lock # Sync
       /\ Loaded(n).status # "absent" => row[n].val.status # "absent"
  /\ \A n \in sync.expired : View(Sync, row[n]).status # "absent"

\* What the session loaded is what the row still holds, unless an index run
\* committed it or an owner denied it in between; of a row it has locked, the
\* sync changes the text of a note to be indexed, or nothing; and the chunks it
\* saw of an expired note are those there are, or there are none.
SessionInv ==
  \A n \in Notes \ overtaken :
    /\ n \in DOMAIN sync.todo => row[n].val = Loaded(n) \/ n \in denied
    /\ row[n].lock = Sync => row[n].work.status = "SANITIZED" \/ row[n].work = row[n].val
    /\ n \in sync.expired => chunk[n] \in {0, sync.off[n]}

\* A rebuild has brought every indexed note up to its cursor to its revision, if
\* it is not at it right now or passed it by.
RebuildInv ==
  \A i \in Indexers, n \in Notes \ overtaken :
    /\ index[i].pc # "idle" /\ index[i].rebuild
    /\ n <= index[i].cursor /\ row[n].lock # i /\ row[n].val.status = "INDEXED"
    => <<row[n].val.ver, index[i].revision>> \in vectors[n]

\* Search follows the rows, by words at any time.
FoundInv ==
  \A n \in Notes \ overtaken :
    /\ row[n].val.status = "INDEXED" => chunk[n] = row[n].val.ver
    /\ row[n].val.status = "INDEXED" /\ active = config =>
         <<row[n].val.ver, active>> \in vectors[n]
    /\ row[n].val.status \in {"DELETED", "DENIED"} => chunk[n] = 0

IInv ==
  /\ TypeOK
  /\ SiteInv
  /\ LockInv
  /\ TurnInv
  /\ RunInv
  /\ SyncInv
  /\ SessionInv
  /\ RebuildInv
  /\ FoundInv

-----------------------------------------------------------------------------
(* Constants, rows and the list of notes still to handle.                  *)

LEMMA Constants ==
    /\ Count \in Nat /\ MaxEdits \in Nat /\ MaxAborts \in Nat /\ MaxDenials \in Nat
    /\ BatchSize \in Nat \ {0} /\ MaxRevision \in Nat \ {0}
    /\ Notes \subseteq Nat \ {0} /\ Revisions \subseteq Nat
    /\ NoTxn \notin Indexers /\ NoTxn # Sync /\ Sync \notin Indexers
    /\ Txns = Indexers \cup {Sync}
  BY NotesAssumption DEF NotesAssumption, Notes, Revisions, Txns

\* What each operation of RowLocks makes of a row.
LEMMA RowFacts ==
    ASSUME NEW r \in Row(Version, Txns), NEW t \in Txns, NEW v \in Version
    PROVE  /\ r.val \in Version /\ r.work \in Version /\ r.lock \in Txns \cup {NoTxn}
           /\ Write(t, r, v) \in Row(Version, Txns)
           /\ Write(t, r, v).val = r.val /\ Write(t, r, v).work = v
           /\ Write(t, r, v).lock = t
           /\ View(t, r) \in Version
           /\ Hold(t, r) = Write(t, r, View(t, r))
  BY DEF Row, Write, View, Hold

LEMMA SettledFacts ==
    ASSUME NEW v \in Version
    PROVE  /\ Settled(v) \in Row(Version, Txns)
           /\ Settled(v).val = v /\ Settled(v).work = v /\ Settled(v).lock = NoTxn
  BY DEF Row, Settled

LEMMA EndOfTxnFacts ==
    ASSUME NEW r \in Row(Version, Txns), NEW t \in Txns
    PROVE  /\ CommitRow(t, r) \in Row(Version, Txns)
           /\ CommitRow(t, r) = IF r.lock = t THEN Settled(r.work) ELSE r
           /\ RollbackRow(t, r) \in Row(Version, Txns)
           /\ RollbackRow(t, r).val = r.val
           /\ r.lock = t => RollbackRow(t, r).work = r.val /\ RollbackRow(t, r).lock = NoTxn
           /\ r.lock # t => RollbackRow(t, r) = r
<1>1. Settled(r.work) \in Row(Version, Txns) /\ Settled(r.val) \in Row(Version, Txns)
  BY DEF Row, Settled
<1> QED
  BY <1>1 DEF CommitRow, RollbackRow, Settled

\* A version with another status is a version.
LEMMA VersionFacts ==
    ASSUME NEW v \in Version, NEW s \in Statuses
    PROVE  /\ [v EXCEPT !.status = s] \in Version
           /\ [v EXCEPT !.status = s].status = s
           /\ [v EXCEPT !.status = s].ver = v.ver
           /\ v.ver \in 0..(MaxEdits + 1) /\ v.status \in Statuses
           /\ v.ver # 0 => v.ver \in Versions
  BY Constants DEF Version, Versions

\* The list of a sync, as a function on some of the notes.
LEMMA TodoFacts ==
    ASSUME sync \in SyncState
    PROVE  /\ DOMAIN sync.todo \subseteq Notes
           /\ \A n \in DOMAIN sync.todo :
                /\ sync.todo[n] \in Listed
                /\ sync.todo[n].loaded \in Version /\ sync.todo[n].stamp \in 0..MaxEdits
           /\ \A n : /\ Done(n) \in UNION {[N -> Listed] : N \in SUBSET Notes}
                     /\ DOMAIN Done(n) = DOMAIN sync.todo \ {n}
                     /\ \A m \in DOMAIN sync.todo \ {n} : Done(n)[m] = sync.todo[m]
<1>1. PICK N \in SUBSET Notes : sync.todo \in [N -> Listed]
  BY DEF SyncState
<1>2. ASSUME NEW n
      PROVE  /\ Done(n) \in [N \ {n} -> Listed]
             /\ DOMAIN Done(n) = N \ {n}
             /\ \A m \in N \ {n} : Done(n)[m] = sync.todo[m]
  BY <1>1 DEF Done, Restrict
<1>3. \A n \in N : sync.todo[n].loaded \in Version /\ sync.todo[n].stamp \in 0..MaxEdits
  BY <1>1 DEF Listed
<1> QED
  BY <1>1, <1>2, <1>3

-----------------------------------------------------------------------------
(* The site, the calendar, the owner and the configuration.                *)

\* As long as edits are left, each note has one left.
LEMMA EditsLeft ==
    ASSUME TypeOK, NEW n \in Notes, Cardinality(Edits) < MaxEdits
    PROVE  site[n].stamp < MaxEdits
<1>1. site[n].stamp \in 0..MaxEdits /\ MaxEdits \in Nat
  BY Constants DEF TypeOK
<1> SUFFICES ASSUME site[n].stamp = MaxEdits
             PROVE  FALSE
  BY <1>1
<1> DEFINE mine == {n} \X (1..MaxEdits)
<1>2. IsFiniteSet(1..MaxEdits) /\ Cardinality(1..MaxEdits) = MaxEdits
  BY Constants, FS_Interval, 1 \in Int, MaxEdits \in Int
<1>3. IsFiniteSet(Notes)
  BY Constants, FS_Interval, 1 \in Int, Count \in Int DEF Notes
<1>4. IsFiniteSet({n}) /\ Cardinality({n}) = 1
  BY FS_Singleton
<1>5. Cardinality(mine) = 1 * MaxEdits
  BY <1>2, <1>4, FS_Product
<1>6. IsFiniteSet(Notes \X (1..MaxEdits))
  BY <1>2, <1>3, FS_Product
<1>7. Edits \subseteq Notes \X (1..MaxEdits) /\ mine \subseteq Edits
  BY DEF Edits
<1>8. IsFiniteSet(Edits)
  BY <1>6, <1>7, FS_Subset
<1>9. Cardinality(mine) <= Cardinality(Edits) /\ Cardinality(Edits) \in Nat
  BY <1>7, <1>8, FS_Subset, FS_CardinalityType
<1> QED
  BY <1>5, <1>9, Constants

\* The site and the calendar reach the database through a sync only.
LEMMA OutsideStep ==
    ASSUME IInv, UNCHANGED <<row, chunk, vectors, denied, config, active, sync, index,
                             overtaken, aborts>>,
           site' \in [Notes -> [ver : Versions, stamp : 0..MaxEdits]], SiteInv',
           aged' \subseteq Notes
    PROVE  IInv'
<1>1. TypeOK' /\ TurnInv' /\ RunInv' /\ RebuildInv' /\ FoundInv'
  BY DEF IInv, TypeOK, TurnInv, RunInv, RebuildInv, FoundInv
<1>2. LockInv' /\ SyncInv' /\ SessionInv'
  BY DEF IInv, LockInv, SyncInv, SessionInv, Syncing, Loaded
<1> QED
  BY <1>1, <1>2 DEF IInv

LEMMA EditStep ==
    ASSUME IInv, NEW n \in Notes, Edit(n)
    PROVE  IInv'
<1>1. site \in [Notes -> [ver : Versions, stamp : 0..MaxEdits]] /\ site[n].stamp < MaxEdits
  BY EditsLeft DEF IInv, TypeOK, Edit
<1>2. PICK v \in {site[n].ver, site[n].ver + 1} :
        site' = [site EXCEPT ![n] = [ver |-> v, stamp |-> site[n].stamp + 1]]
  BY DEF Edit
<1>3. site[n].ver <= site[n].stamp + 1
  BY DEF IInv, SiteInv
<1>4. v \in Versions /\ site[n].stamp + 1 \in 0..MaxEdits /\ v <= (site[n].stamp + 1) + 1
  BY <1>1, <1>2, <1>3, Constants DEF Versions
<1>5. site' \in [Notes -> [ver : Versions, stamp : 0..MaxEdits]]
  BY <1>1, <1>2, <1>4
<1>6. SiteInv'
  BY <1>1, <1>2, <1>4 DEF SiteInv, IInv
<1> QED
  BY <1>5, <1>6, OutsideStep DEF Edit, IInv, TypeOK

LEMMA AgeStep ==
    ASSUME IInv, NEW n \in Notes, Age(n)
    PROVE  IInv'
<1>1. SiteInv' /\ site' = site /\ aged' \subseteq Notes
  BY DEF IInv, TypeOK, Age, SiteInv
<1> QED
  BY <1>1, OutsideStep DEF Age, IInv, TypeOK

LEMMA ReconfigureStep ==
    ASSUME IInv, Reconfigure
    PROVE  IInv'
<1>1. config \in Revisions /\ active \in Revisions /\ config' \in Revisions /\ config' = config + 1
  BY Constants DEF IInv, TypeOK, Reconfigure, Revisions
<1>2. TypeOK'
  BY <1>1 DEF IInv, TypeOK, Reconfigure
<1>3. SiteInv' /\ LockInv' /\ TurnInv' /\ SyncInv' /\ SessionInv' /\ RebuildInv'
  BY DEF IInv, SiteInv, LockInv, TurnInv, SyncInv, SessionInv, RebuildInv, Reconfigure, Syncing, Loaded
<1>4. \A i \in Indexers : index[i].revision \in Revisions
  BY DEF IInv, TypeOK, IndexState
<1>5. active' # config' /\ active' <= config'
  BY <1>1, Constants DEF IInv, RunInv, Reconfigure
<1>6. RunInv'
  <2>1. ASSUME NEW i \in Indexers, index[i].pc # "idle"
        PROVE  index[i].revision <= config'
    <3>1. index[i].revision \in Nat /\ config \in Nat /\ config' = config + 1
        BY <1>1, <1>4, Constants
    <3>2. index[i].revision <= config
        BY <2>1 DEF IInv, RunInv
    <3> QED
        BY <3>1, <3>2
  <2> QED
      BY <2>1, <1>5 DEF IInv, RunInv, Reconfigure
<1>7. FoundInv'
  BY <1>5 DEF IInv, FoundInv, Reconfigure
<1> QED
  BY <1>2, <1>3, <1>6, <1>7 DEF IInv

\* The fields of the state, one by one.
LEMMA Fields ==
    ASSUME TypeOK
    PROVE  /\ row \in [Notes -> Row(Version, Txns)]
           /\ \A n \in Notes :
                /\ row[n] \in Row(Version, Txns) /\ row[n].val \in Version
                /\ row[n].work \in Version /\ row[n].lock \in Txns \cup {NoTxn}
                /\ row[n].val.ver = 0 <=> row[n].val.status = "absent"
                /\ chunk[n] \in {0} \cup Versions
                /\ vectors[n] \subseteq {chunk[n]} \X Revisions
                /\ vectors[n] \subseteq Versions \X Revisions
           /\ chunk \in [Notes -> {0} \cup Versions]
           /\ vectors \in [Notes -> SUBSET (Versions \X Revisions)]
           /\ sync \in SyncState /\ index \in [Indexers -> IndexState]
           /\ sync.pc \in {"idle", "notes", "fetched", "expire", "index"}
           /\ sync.body \in 0..(MaxEdits + 1) /\ sync.cutoff \subseteq Notes
           /\ sync.expired \subseteq Notes /\ sync.off \in [Notes -> 0..(MaxEdits + 1)]
           /\ \A i \in Indexers :
                /\ index[i] \in IndexState /\ index[i].cursor \in Nat
                /\ index[i].revision \in Revisions /\ index[i].cursor \in 0..Count
           /\ config \in Revisions /\ active \in Revisions
<1>1. \A n \in Notes : row[n].val \in Version /\ row[n].work \in Version
                       /\ row[n].lock \in Txns \cup {NoTxn}
  BY DEF TypeOK, Row
<1>2. /\ sync.pc \in {"idle", "notes", "fetched", "expire", "index"}
      /\ sync.body \in 0..(MaxEdits + 1) /\ sync.cutoff \subseteq Notes
      /\ sync.expired \subseteq Notes /\ sync.off \in [Notes -> 0..(MaxEdits + 1)]
  BY DEF TypeOK, SyncState
<1>3. \A i \in Indexers :
        /\ index[i] \in IndexState
        /\ index[i].revision \in Revisions /\ index[i].cursor \in 0..Count
  BY DEF TypeOK, IndexState
<1>4. \A i \in Indexers : index[i].cursor \in Nat
  BY <1>3, Constants
<1> QED
  BY <1>1, <1>2, <1>3, <1>4 DEF TypeOK

LEMMA DenyStep ==
    ASSUME IInv, NEW n \in Notes, Deny(n)
    PROVE  IInv'
<1>1. TypeOK /\ row[n].lock = NoTxn /\ row[n] \in Row(Version, Txns) /\ row[n].val \in Version
  BY Fields DEF IInv, Deny
<1>2. /\ row' \in [Notes -> Row(Version, Txns)]
      /\ \A m \in Notes \ {n} : row'[m] = row[m]
      /\ row'[n].lock = NoTxn /\ row'[n].work = row'[n].val
      /\ row'[n].val \in Version /\ row'[n].val.ver = row[n].val.ver
      /\ row'[n].val.status = IF row[n].val.status = "absent" THEN "absent" ELSE "DENIED"
  <2> DEFINE v == [row[n].val EXCEPT !.status = "DENIED"]
  <2>1. /\ v \in Version /\ v.status = "DENIED" /\ v.ver = row[n].val.ver
        /\ Settled(v) \in Row(Version, Txns) /\ Settled(v).val = v /\ Settled(v).work = v
        /\ Settled(v).lock = NoTxn
    <3>1. "DENIED" \in Statuses
        BY DEF Statuses
    <3>2. v \in Version /\ v.status = "DENIED" /\ v.ver = row[n].val.ver
        BY <1>1, <3>1, VersionFacts
    <3> HIDE DEF v
    <3> QED
        BY <3>2, SettledFacts
  <2> HIDE DEF v
  <2>2. row' = IF row[n].val.status = "absent" THEN row ELSE [row EXCEPT ![n] = Settled(v)]
      BY DEF Deny, v
  <2>3. row[n].work = row[n].val
      BY <1>1, Constants DEF IInv, LockInv
  <2> QED
      BY <2>1, <2>2, <2>3, <1>1, Fields
<1>3. /\ chunk' = [chunk EXCEPT ![n] = 0] /\ vectors' = [vectors EXCEPT ![n] = {}]
      /\ denied' = denied \cup {n}
      /\ UNCHANGED <<site, aged, config, active, sync, index, overtaken, aborts>>
  BY DEF Deny
<1>4. /\ chunk' \in [Notes -> {0} \cup Versions] /\ chunk'[n] = 0
      /\ vectors' \in [Notes -> SUBSET (Versions \X Revisions)] /\ vectors'[n] = {}
      /\ \A m \in Notes \ {n} : chunk'[m] = chunk[m] /\ vectors'[m] = vectors[m]
  BY <1>1, <1>3, Fields
<1>5. TypeOK'
  <2>1. \A m \in Notes : vectors'[m] \subseteq {chunk'[m]} \X Revisions
      BY <1>1, <1>4, Fields
  <2>2. \A m \in Notes : row'[m].val.ver = 0 <=> row'[m].val.status = "absent"
      BY <1>1, <1>2, Fields
  <2> QED
      BY <1>1, <1>2, <1>3, <1>4, <2>1, <2>2 DEF TypeOK
<1>6. SiteInv' /\ TurnInv' /\ RunInv'
  BY <1>3 DEF IInv, SiteInv, TurnInv, RunInv
<1>7. LockInv'
  BY <1>1, <1>2, <1>3, Constants, Fields DEF IInv, LockInv, Syncing, Published
<1>8. SyncInv'
  <2>1. \A m \in sync.expired : View(Sync, row[m]).status # "absent"
      BY DEF IInv, SyncInv
  <2>2. View(Sync, row[n]) = row[n].val /\ View(Sync, row'[n]) = row'[n].val
      BY <1>1, <1>2, Constants DEF View
  <2>3. \A m \in sync.expired : View(Sync, row'[m]).status # "absent"
      BY <2>1, <2>2, <1>1, <1>2, Fields
  <2>4. \A m \in DOMAIN sync.todo :
          /\ row'[m].lock # Sync
          /\ Loaded(m).status # "absent" => row'[m].val.status # "absent"
      BY <1>1, <1>2, Constants, TodoFacts, Fields DEF IInv, SyncInv
  <2> QED
      BY <2>3, <2>4, <1>3 DEF IInv, SyncInv, Loaded
<1>9. SessionInv'
  BY <1>1, <1>2, <1>3, <1>4, Constants DEF IInv, SessionInv, Loaded
<1>10. RebuildInv'
  BY <1>2, <1>3, <1>4 DEF IInv, RebuildInv
<1>11. FoundInv'
  BY <1>2, <1>3, <1>4 DEF IInv, FoundInv
<1> QED
  BY <1>5, <1>6, <1>7, <1>8, <1>9, <1>10, <1>11 DEF IInv

-----------------------------------------------------------------------------
(* The sync.                                                               *)

Todos == UNION {[N -> Listed] : N \in SUBSET Notes}

\* The idle sync.
LEMMA IdleSync ==
    /\ NoSync \in SyncState /\ DOMAIN NoSync.todo = {} /\ NoSync.expired = {}
    /\ NoSync.pc = "idle" /\ NoSync.body = 0
<1>1. [n \in {} |-> Absent] \in [{} -> Listed]
  OBVIOUS
<1>2. [n \in {} |-> Absent] \in Todos
  BY <1>1 DEF Todos
<1>3. 0 \in 0..(MaxEdits + 1)
  BY Constants
<1> QED
  BY <1>2, <1>3 DEF NoSync, SyncState, Todos

\* The sync that ended.
LEMMA DoneSync ==
    LET done == [NoSync EXCEPT !.pc = "index"]
    IN /\ done \in SyncState /\ done.pc = "index" /\ DOMAIN done.todo = {}
       /\ done.expired = {}
  BY IdleSync DEF SyncState

\* The sync that begins.
LEMMA NewSync ==
    ASSUME NEW cutoff \in SUBSET Notes, NEW todo \in Todos
    PROVE  LET new == [NoSync EXCEPT !.pc = "notes", !.cutoff = cutoff, !.todo = todo]
           IN new \in SyncState /\ new.pc = "notes" /\ new.todo = todo /\ new.expired = {}
  BY IdleSync DEF SyncState, Todos

\* The sync with some of its fields changed.
LEMMA SyncRecords ==
    ASSUME sync \in SyncState
    PROVE  /\ \A todo \in Todos :
                LET next == [sync EXCEPT !.todo = todo]
                IN /\ next \in SyncState /\ next.pc = sync.pc /\ next.todo = todo
                   /\ next.body = sync.body /\ next.expired = sync.expired
                   /\ next.off = sync.off
           /\ \A todo \in Todos :
                LET next == [sync EXCEPT !.pc = "notes", !.todo = todo, !.body = 0]
                IN /\ next \in SyncState /\ next.pc = "notes" /\ next.todo = todo
                   /\ next.expired = sync.expired /\ next.off = sync.off
           /\ \A body \in 0..(MaxEdits + 1) :
                LET next == [sync EXCEPT !.pc = "fetched", !.body = body]
                IN /\ next \in SyncState /\ next.pc = "fetched" /\ next.body = body
                   /\ next.todo = sync.todo /\ next.expired = sync.expired
                   /\ next.off = sync.off
<1>1. /\ sync \in [pc : {"idle", "notes", "fetched", "expire", "index"}, todo : Todos,
                   body : 0..(MaxEdits + 1), cutoff : SUBSET Notes,
                   expired : SUBSET Notes, off : [Notes -> 0..(MaxEdits + 1)]]
      /\ SyncState = [pc : {"idle", "notes", "fetched", "expire", "index"}, todo : Todos,
                      body : 0..(MaxEdits + 1), cutoff : SUBSET Notes,
                      expired : SUBSET Notes, off : [Notes -> 0..(MaxEdits + 1)]]
      /\ 0 \in 0..(MaxEdits + 1)
  BY Constants DEF SyncState, Todos
<1>2. ASSUME NEW todo \in Todos
      PROVE  LET next == [sync EXCEPT !.todo = todo]
             IN /\ next \in SyncState /\ next.pc = sync.pc /\ next.todo = todo
                /\ next.body = sync.body /\ next.expired = sync.expired
                /\ next.off = sync.off
  BY <1>1
<1>3. ASSUME NEW todo \in Todos
      PROVE  LET next == [sync EXCEPT !.pc = "notes", !.todo = todo, !.body = 0]
             IN /\ next \in SyncState /\ next.pc = "notes" /\ next.todo = todo
                /\ next.expired = sync.expired /\ next.off = sync.off
  BY <1>1
<1>4. ASSUME NEW body \in 0..(MaxEdits + 1)
      PROVE  LET next == [sync EXCEPT !.pc = "fetched", !.body = body]
             IN /\ next \in SyncState /\ next.pc = "fetched" /\ next.body = body
                /\ next.todo = sync.todo /\ next.expired = sync.expired
                /\ next.off = sync.off
  BY DEF SyncState
<1> QED
  BY <1>2, <1>3, <1>4

LEMMA BeginSyncStep ==
    ASSUME IInv, BeginSync
    PROVE  IInv'
<1> DEFINE todo == [n \in Notes \ aged |-> [stamp |-> site[n].stamp, loaded |-> row[n].val]]
<1>1. TypeOK /\ sync.pc = "idle" /\ aged \in SUBSET Notes
  BY DEF IInv, BeginSync, TypeOK
<1>2. todo \in Todos
  <2>1. \A n \in Notes : site[n].stamp \in 0..MaxEdits
      BY <1>1 DEF TypeOK
  <2>2. todo \in [Notes \ aged -> Listed]
      BY <1>1, <2>1, Fields DEF Listed
  <2> QED
      BY <2>2 DEF Todos
<1>3. UNCHANGED <<world, row, chunk, vectors, active, index, overtaken, aborts>>
  BY DEF BeginSync
<1>4. /\ sync' \in SyncState /\ sync'.pc = "notes" /\ sync'.todo = todo /\ sync'.expired = {}
  <2>1. sync' = [NoSync EXCEPT !.pc = "notes", !.cutoff = aged, !.todo = todo]
      BY DEF BeginSync
  <2> HIDE DEF todo
  <2> QED
      BY <2>1, <1>1, <1>2, NewSync
<1>5. \A n \in Notes : row[n].lock # Sync
  BY <1>1 DEF IInv, LockInv, Syncing
<1>6. TypeOK'
  BY <1>1, <1>3, <1>4 DEF TypeOK, world
<1>7. SiteInv' /\ RunInv' /\ RebuildInv' /\ FoundInv'
  BY <1>3 DEF IInv, SiteInv, RunInv, RebuildInv, FoundInv, world
<1>8. LockInv' /\ TurnInv'
  BY <1>1, <1>3, <1>4, <1>5 DEF IInv, LockInv, TurnInv, Syncing, world
<1>9. SyncInv'
  BY <1>3, <1>4, <1>5, <1>1 DEF SyncInv, Loaded
<1>10. SessionInv'
  <2>1. \A n \in DOMAIN sync'.todo : sync'.todo[n].loaded = row[n].val
      BY <1>4
  <2> QED
      BY <2>1, <1>3, <1>4, <1>5 DEF SessionInv, Loaded
<1> QED
  BY <1>6, <1>7, <1>8, <1>9, <1>10 DEF IInv

\* The sync writes the row of a note, or takes its lock, and goes on.
LEMMA WriteStep ==
    ASSUME IInv, NEW n \in Notes, n \in DOMAIN sync.todo, NEW w \in Version,
           w.ver = 0 <=> w.status = "absent", Free(Sync, row[n]),
           n \notin overtaken => w.status = "SANITIZED" \/ w = row[n].val,
           sync.pc \in {"notes", "fetched"},
           row' = [row EXCEPT ![n] = Write(Sync, row[n], w)],
           sync' \in SyncState, sync'.pc = "notes", sync'.todo = Done(n),
           sync'.expired = sync.expired, sync'.off = sync.off,
           UNCHANGED <<world, chunk, vectors, active, index, overtaken, aborts>>
    PROVE  IInv'
<1>1. TypeOK /\ row[n] \in Row(Version, Txns) /\ sync.expired = {} /\ Sync \in Txns
  BY Fields DEF IInv, SyncInv, Txns
<1>2. /\ row' \in [Notes -> Row(Version, Txns)]
      /\ \A m \in Notes \ {n} : row'[m] = row[m]
      /\ row'[n].lock = Sync /\ row'[n].work = w /\ row'[n].val = row[n].val
  <2> DEFINE r == Write(Sync, row[n], w)
  <2>1. r \in Row(Version, Txns) /\ r.lock = Sync /\ r.work = w /\ r.val = row[n].val
      BY <1>1, RowFacts
  <2>2. row \in [Notes -> Row(Version, Txns)] /\ row' = [row EXCEPT ![n] = r]
      BY <1>1, Fields
  <2> HIDE DEF r
  <2> QED
      BY <2>1, <2>2
<1>3. \A m \in Notes : row'[m].val = row[m].val
  BY <1>2
<1>4. /\ DOMAIN sync'.todo = DOMAIN sync.todo \ {n}
      /\ \A m \in DOMAIN sync'.todo : sync'.todo[m] = sync.todo[m]
  <2>1. sync \in SyncState
      BY <1>1, Fields
  <2>2. /\ DOMAIN Done(n) = DOMAIN sync.todo \ {n}
        /\ \A m \in DOMAIN sync.todo \ {n} : Done(n)[m] = sync.todo[m]
      BY <2>1, TodoFacts
  <2> HIDE DEF Done
  <2> QED
      BY <2>2
<1>5. TypeOK'
  <2>1. \A m \in Notes : row'[m].val.ver = 0 <=> row'[m].val.status = "absent"
      BY <1>1, <1>3, Fields
  <2> QED
      BY <1>1, <1>2, <2>1 DEF TypeOK, world
<1>6. SiteInv' /\ RunInv' /\ FoundInv'
  BY <1>3 DEF IInv, SiteInv, RunInv, FoundInv, world
<1>7. LockInv'
  BY <1>1, <1>2, Constants DEF IInv, LockInv, Syncing, Published
<1>8. TurnInv'
  BY DEF IInv, TurnInv
<1>9. SyncInv'
  <2>1. \A m \in DOMAIN sync'.todo : row'[m].lock # Sync /\ row'[m].val = row[m].val
      BY <1>1, <1>2, <1>3, <1>4, TodoFacts, Fields DEF IInv, SyncInv
  <2> QED
      BY <2>1, <1>1, <1>4 DEF IInv, SyncInv, Loaded
<1>10. SessionInv'
  BY <1>1, <1>2, <1>4 DEF IInv, SessionInv, Loaded, world
<1>11. RebuildInv'
  <2>1. \A i \in Indexers : row'[n].lock # i
      BY <1>2, Constants
  <2>2. row[n].lock \notin Indexers
      BY Constants DEF Free
  <2> QED
      BY <1>2, <1>3, <2>1, <2>2 DEF IInv, RebuildInv
<1> QED
  BY <1>5, <1>6, <1>7, <1>8, <1>9, <1>10, <1>11 DEF IInv

LEMMA TouchNoteStep ==
    ASSUME IInv, NEW n \in Notes, TouchNote(n)
    PROVE  IInv'
<1> DEFINE w == View(Sync, row[n])
<1>1. TypeOK /\ sync \in SyncState /\ row[n] \in Row(Version, Txns) /\ Sync \in Txns
  BY Fields DEF IInv, Txns
<1>2. n \in DOMAIN sync.todo /\ sync.pc = "notes" /\ Free(Sync, row[n])
  BY DEF TouchNote, NextNote, Current
<1>3. w \in Version /\ (w.ver = 0 <=> w.status = "absent")
  <2>1. w = row[n].work \/ w = row[n].val
      BY DEF View
  <2> QED
      BY <2>1, <1>1, RowFacts, Fields DEF IInv, LockInv
<1>4. w = row[n].val
  BY <1>2 DEF IInv, SyncInv, View
<1>5. row' = [row EXCEPT ![n] = Write(Sync, row[n], w)]
  BY DEF TouchNote, Hold
<1>6. /\ sync' \in SyncState /\ sync'.pc = "notes" /\ sync'.todo = Done(n)
      /\ sync'.expired = sync.expired /\ sync'.off = sync.off
  <2>1. Done(n) \in Todos
      BY <1>1, TodoFacts DEF Todos
  <2>2. sync' = [sync EXCEPT !.todo = Done(n)]
      BY DEF TouchNote
  <2> HIDE DEF Done
  <2> QED
      BY <2>1, <2>2, <1>1, <1>2, SyncRecords
<1>7. UNCHANGED <<world, chunk, vectors, active, index, overtaken, aborts>>
  BY DEF TouchNote
<1> HIDE DEF w
<1> QED
  BY <1>2, <1>3, <1>4, <1>5, <1>6, <1>7, WriteStep

LEMMA FetchNoteStep ==
    ASSUME IInv, NEW n \in Notes, FetchNote(n)
    PROVE  IInv'
<1>1. TypeOK /\ sync \in SyncState /\ sync.pc = "notes"
  BY Fields DEF IInv, FetchNote, NextNote
<1>2. site[n].ver \in 1..(MaxEdits + 1)
  BY DEF IInv, TypeOK, Versions
<1>3. site[n].ver \in 0..(MaxEdits + 1) /\ site[n].ver # 0
  BY <1>2, Constants
<1>4. /\ sync' \in SyncState /\ sync'.pc = "fetched" /\ sync'.body # 0
      /\ sync'.todo = sync.todo /\ sync'.expired = sync.expired /\ sync'.off = sync.off
  <2>1. sync' = [sync EXCEPT !.pc = "fetched", !.body = site[n].ver]
      BY DEF FetchNote
  <2> QED
      BY <2>1, <1>1, <1>3, SyncRecords
<1>5. UNCHANGED <<world, row, chunk, vectors, active, index, overtaken, aborts>>
  BY DEF FetchNote
<1>6. TypeOK'
  BY <1>1, <1>4, <1>5 DEF TypeOK, world
<1>7. SiteInv' /\ RunInv' /\ RebuildInv' /\ FoundInv'
  BY <1>5 DEF IInv, SiteInv, RunInv, RebuildInv, FoundInv, world
<1>8. LockInv' /\ TurnInv'
  BY <1>1, <1>4, <1>5 DEF IInv, LockInv, TurnInv, Syncing
<1>9. SyncInv'
  BY <1>1, <1>4, <1>5 DEF IInv, SyncInv, Loaded
<1>10. SessionInv'
  BY <1>4, <1>5 DEF IInv, SessionInv, Loaded, world
<1> QED
  BY <1>6, <1>7, <1>8, <1>9, <1>10 DEF IInv

LEMMA SaveNoteStep ==
    ASSUME IInv, NEW n \in Notes, SaveNote(n)
    PROVE  IInv'
<1>1. TypeOK /\ sync \in SyncState /\ row[n] \in Row(Version, Txns) /\ Sync \in Txns
  BY Fields DEF IInv, Txns
<1>2. /\ n \in DOMAIN sync.todo /\ sync.pc = "fetched" /\ Free(Sync, row[n])
      /\ n \notin denied
  BY DEF SaveNote, Current
<1>3. sync.body # 0 /\ sync.body \in 0..(MaxEdits + 1) /\ sync.todo[n].stamp \in 0..MaxEdits
  BY <1>1, <1>2, Fields, TodoFacts DEF IInv, SyncInv
<1>4. n \notin overtaken => row[n].val = Loaded(n)
  BY <1>2 DEF IInv, SessionInv
<1>5. View(Sync, row[n]) \in Version /\ View(Sync, row[n]) = row[n].val
  <2>1. row[n].lock # Sync
      BY <1>2 DEF IInv, SyncInv
  <2> QED
      BY <2>1, <1>1, Fields DEF View
<1>6. Saved(n) \in Version /\ Saved(n).ver = sync.body
  BY <1>3, <1>5, VersionFacts DEF Saved, Version, Statuses
<1>7. Saved(n).status = IF Loaded(n).status = "SANITIZED" THEN View(Sync, row[n]).status
                        ELSE "SANITIZED"
  BY DEF Saved
<1>8. n \notin overtaken => Saved(n).status = "SANITIZED"
  BY <1>4, <1>5, <1>7
<1>9. Saved(n).status # "absent"
  BY <1>2, <1>5, <1>7 DEF IInv, SyncInv
<1>10. row' = [row EXCEPT ![n] = Write(Sync, row[n], Saved(n))]
  BY DEF SaveNote
<1>11. /\ sync' \in SyncState /\ sync'.pc = "notes" /\ sync'.todo = Done(n)
       /\ sync'.expired = sync.expired /\ sync'.off = sync.off
  <2>1. Done(n) \in Todos
      BY <1>1, TodoFacts DEF Todos
  <2>2. sync' = [sync EXCEPT !.pc = "notes", !.todo = Done(n), !.body = 0]
      BY DEF SaveNote
  <2> HIDE DEF Done
  <2> QED
      BY <2>1, <2>2, <1>1, SyncRecords
<1>12. UNCHANGED <<world, chunk, vectors, active, index, overtaken, aborts>>
  BY DEF SaveNote
<1> QED
  BY <1>2, <1>3, <1>6, <1>8, <1>9, <1>10, <1>11, <1>12, WriteStep

LEMMA ExpireChunksStep ==
    ASSUME IInv, ExpireChunks
    PROVE  IInv'
<1> DEFINE old == {n \in sync.cutoff : Published(View(Sync, row[n]))}
           off == [n \in Notes |-> IF n \in old THEN chunk[n] ELSE 0]
<1>1. TypeOK /\ sync \in SyncState /\ sync.pc = "notes" /\ DOMAIN sync.todo = {}
  BY Fields DEF IInv, ExpireChunks
<1>2. old \in SUBSET Notes /\ \A n \in old : off[n] = chunk[n]
  BY <1>1, Fields
<1>3. off \in [Notes -> 0..(MaxEdits + 1)]
  BY <1>1, Fields, Constants DEF Versions
<1>4. \A n \in old : View(Sync, row[n]).status # "absent"
  BY DEF Published
<1>5. UNCHANGED <<world, row, chunk, vectors, active, index, overtaken, aborts>>
  BY DEF ExpireChunks
<1>6. sync' = [sync EXCEPT !.pc = "expire", !.expired = old, !.off = off]
  BY DEF ExpireChunks
<1> HIDE DEF old, off
<1>7. /\ sync' \in SyncState /\ sync'.pc = "expire" /\ sync'.expired = old
      /\ sync'.off = off /\ sync'.todo = sync.todo
  <2>1. LET next == [sync EXCEPT !.pc = "expire", !.expired = old, !.off = off]
        IN /\ next \in SyncState /\ next.pc = "expire" /\ next.expired = old
           /\ next.todo = sync.todo /\ next.off = off
      BY <1>1, <1>2, <1>3 DEF SyncState
  <2> QED
      BY <2>1, <1>6
<1>8. TypeOK'
  BY <1>1, <1>5, <1>7 DEF TypeOK, world
<1>9. SiteInv' /\ RunInv' /\ RebuildInv' /\ FoundInv'
  BY <1>5 DEF IInv, SiteInv, RunInv, RebuildInv, FoundInv, world
<1>10. LockInv' /\ TurnInv'
  BY <1>1, <1>5, <1>7 DEF IInv, LockInv, TurnInv, Syncing
<1>11. SyncInv'
  BY <1>1, <1>4, <1>5, <1>7 DEF IInv, SyncInv
<1>12. SessionInv'
  BY <1>1, <1>2, <1>5, <1>7 DEF IInv, SessionInv
<1> QED
  BY <1>8, <1>9, <1>10, <1>11, <1>12 DEF IInv

LEMMA CommitSyncStep ==
    ASSUME IInv, CommitSync
    PROVE  IInv'
<1>1. /\ TypeOK /\ sync \in SyncState /\ sync.pc = "expire" /\ Sync \in Txns
      /\ \A n \in sync.expired : Free(Sync, row[n])
      /\ sync.expired \subseteq Notes
  BY Fields DEF IInv, CommitSync, Txns
<1>2. UNCHANGED <<world, active, index, overtaken, aborts>>
  BY DEF CommitSync
<1>3. /\ sync' \in SyncState /\ sync'.pc = "index" /\ DOMAIN sync'.todo = {}
      /\ sync'.expired = {}
  BY DoneSync DEF CommitSync
<1>4. ASSUME NEW n \in Notes
      PROVE  /\ row'[n] \in Row(Version, Txns)
             /\ row'[n].val.ver = 0 <=> row'[n].val.status = "absent"
             /\ row'[n].work.ver = 0 <=> row'[n].work.status = "absent"
             /\ n \in sync.expired => row'[n].val.status = "DELETED"
             /\ n \notin sync.expired =>
                  row'[n].val = IF row[n].lock = Sync THEN row[n].work ELSE row[n].val
             /\ row'[n].work = row'[n].val
             /\ IF row[n].lock = Sync THEN row'[n].lock = NoTxn
                ELSE row'[n].lock = row[n].lock
             /\ row[n].lock \in Indexers => row'[n] = row[n]
  <2>1. /\ row[n] \in Row(Version, Txns) /\ row[n].val \in Version /\ row[n].work \in Version
        /\ row[n].val.ver = 0 <=> row[n].val.status = "absent"
        /\ row[n].work.ver = 0 <=> row[n].work.status = "absent"
        /\ row[n].lock # Sync => row[n].work = row[n].val
      BY <1>1, Fields DEF IInv, LockInv
  <2>2. CASE n \in sync.expired
    <3> DEFINE old == View(Sync, row[n])
               v == [old EXCEPT !.status = "DELETED"]
    <3>1. old \in Version /\ (old.ver = 0 <=> old.status = "absent") /\ old.status # "absent"
        BY <2>1, <2>2 DEF View, IInv, SyncInv
    <3>2. v \in Version /\ v.status = "DELETED" /\ v.ver = old.ver
      <4>1. "DELETED" \in Statuses
          BY DEF Statuses
      <4> HIDE DEF old
      <4> QED
          BY <3>1, <4>1, VersionFacts
    <3>3. row'[n] = Settled(v)
        BY <2>2 DEF CommitSync
    <3>4. row[n].lock \in {NoTxn, Sync}
        BY <1>1, <2>2 DEF Free
    <3> HIDE DEF v
    <3>5. /\ Settled(v) \in Row(Version, Txns) /\ Settled(v).val = v
          /\ Settled(v).work = v /\ Settled(v).lock = NoTxn
        BY <3>2, SettledFacts
    <3>6. v.ver # 0 /\ v.status # "absent"
        BY <3>1, <3>2
    <3> QED
        BY <2>2, <3>2, <3>3, <3>4, <3>5, <3>6, Constants
  <2>3. CASE n \notin sync.expired
    <3>1. row'[n] = CommitRow(Sync, row[n])
        BY <2>3 DEF CommitSync
    <3>2. CASE row[n].lock = Sync
      <4>1. row'[n] = Settled(row[n].work)
          BY <3>1, <3>2 DEF CommitRow
      <4>2. /\ row'[n] \in Row(Version, Txns) /\ row'[n].val = row[n].work
            /\ row'[n].work = row[n].work /\ row'[n].lock = NoTxn
          BY <4>1, <2>1, SettledFacts
      <4> QED
          BY <2>1, <2>3, <3>2, <4>2, Constants
    <3>3. CASE row[n].lock # Sync
      <4>1. row'[n] = row[n]
          BY <3>1, <3>3 DEF CommitRow
      <4> QED
          BY <2>1, <2>3, <3>3, <4>1
    <3> QED
        BY <3>2, <3>3
  <2> QED
      BY <2>2, <2>3
<1>5. ASSUME NEW n \in Notes
      PROVE  /\ chunk'[n] \in {0} \cup Versions
             /\ vectors'[n] \subseteq {chunk'[n]} \X Revisions
             /\ vectors'[n] \subseteq Versions \X Revisions
             /\ n \notin sync.expired => chunk'[n] = chunk[n] /\ vectors'[n] = vectors[n]
             /\ chunk'[n] = IF SwitchedOff(n) THEN 0 ELSE chunk[n]
  BY <1>1, Fields DEF CommitSync, SwitchedOff
<1>6. row' \in [Notes -> Row(Version, Txns)]
  BY <1>4 DEF CommitSync
<1>7. /\ chunk' \in [Notes -> {0} \cup Versions]
      /\ vectors' \in [Notes -> SUBSET (Versions \X Revisions)]
  BY <1>5 DEF CommitSync
<1>8. TypeOK'
  BY <1>1, <1>2, <1>3, <1>4, <1>5, <1>6, <1>7 DEF TypeOK, world
<1>9. SiteInv' /\ RunInv'
  BY <1>2 DEF IInv, SiteInv, RunInv, world
<1>10. TurnInv'
  BY <1>1, <1>2, <1>3 DEF IInv, TurnInv
<1>11. LockInv'
  BY <1>2, <1>4, Constants DEF IInv, LockInv
<1>12. SyncInv'
  BY <1>3 DEF SyncInv
<1>13. SessionInv'
  BY <1>3, <1>4 DEF SessionInv
<1>14. ASSUME NEW n \in Notes \ overtaken, row'[n].val.status = "INDEXED"
       PROVE  n \notin sync.expired /\ row'[n].val = row[n].val
  BY <1>4, <1>14 DEF IInv, SessionInv
<1>15. RebuildInv'
  <2>1. \A i \in Indexers, n \in Notes : row'[n].lock # i => row[n].lock # i
      BY <1>4
  <2> QED
      BY <2>1, <1>2, <1>5, <1>14 DEF IInv, RebuildInv
<1>16. FoundInv'
  <2>1. ASSUME NEW n \in Notes \ overtaken, row'[n].val.status = "INDEXED"
        PROVE  /\ chunk'[n] = row'[n].val.ver
               /\ active' = config' => <<row'[n].val.ver, active'>> \in vectors'[n]
      BY <2>1, <1>2, <1>5, <1>14 DEF IInv, FoundInv, world
  <2>2. ASSUME NEW n \in Notes \ overtaken, row'[n].val.status \in {"DELETED", "DENIED"}
        PROVE  chunk'[n] = 0
    <3>1. CASE n \in sync.expired
        BY <3>1, <1>5 DEF IInv, SessionInv, SwitchedOff
    <3>2. CASE n \notin sync.expired
        BY <3>2, <2>2, <1>4, <1>5 DEF IInv, SessionInv, FoundInv
    <3> QED
        BY <3>1, <3>2
  <2> QED
      BY <2>1, <2>2, <1>2 DEF FoundInv
<1> QED
  BY <1>8, <1>9, <1>10, <1>11, <1>12, <1>13, <1>15, <1>16 DEF IInv

\* A transaction that rolls back leaves the rows as they were committed, with
\* its locks given back.
LEMMA Rollback ==
    ASSUME TypeOK, LockInv, NEW t \in Txns,
           row' = [n \in Notes |-> RollbackRow(t, row[n])]
    PROVE  /\ row' \in [Notes -> Row(Version, Txns)]
           /\ \A n \in Notes :
                /\ row'[n].val = row[n].val
                /\ row'[n].val.ver = 0 <=> row'[n].val.status = "absent"
                /\ row'[n].work.ver = 0 <=> row'[n].work.status = "absent"
                /\ IF row[n].lock = t
                   THEN row'[n].lock = NoTxn /\ row'[n].work = row'[n].val
                   ELSE row'[n] = row[n]
<1>1. ASSUME NEW n \in Notes
      PROVE  /\ row'[n] \in Row(Version, Txns)
             /\ row'[n].val = row[n].val
             /\ row'[n].val.ver = 0 <=> row'[n].val.status = "absent"
             /\ row'[n].work.ver = 0 <=> row'[n].work.status = "absent"
             /\ IF row[n].lock = t
                THEN row'[n].lock = NoTxn /\ row'[n].work = row'[n].val
                ELSE row'[n] = row[n]
  <2>1. row'[n] = RollbackRow(t, row[n]) /\ row[n] \in Row(Version, Txns)
      BY Fields
  <2>2. /\ row[n].val.ver = 0 <=> row[n].val.status = "absent"
        /\ row[n].work.ver = 0 <=> row[n].work.status = "absent"
      BY Fields DEF LockInv
  <2>3. /\ row'[n] \in Row(Version, Txns) /\ row'[n].val = row[n].val
        /\ row[n].lock = t => row'[n].work = row[n].val /\ row'[n].lock = NoTxn
        /\ row[n].lock # t => row'[n] = row[n]
      BY <2>1, EndOfTxnFacts
  <2> QED
      BY <2>2, <2>3
<1>2. row' \in [Notes -> Row(Version, Txns)]
  BY <1>1
<1> QED
  BY <1>1, <1>2

LEMMA RollbackSyncStep ==
    ASSUME IInv, Syncing, sync' = NoSync, aborts' \in 0..MaxAborts,
           row' \in [Notes -> Row(Version, Txns)],
           \A n \in Notes :
             /\ row'[n].val = row[n].val
             /\ row'[n].val.ver = 0 <=> row'[n].val.status = "absent"
             /\ row'[n].work.ver = 0 <=> row'[n].work.status = "absent"
             /\ IF row[n].lock = Sync
                THEN row'[n].lock = NoTxn /\ row'[n].work = row'[n].val
                ELSE row'[n] = row[n],
           UNCHANGED <<world, chunk, vectors, active, index, overtaken>>
    PROVE  IInv'
<1>1. /\ sync' \in SyncState /\ sync'.pc = "idle" /\ DOMAIN sync'.todo = {}
      /\ sync'.expired = {}
  BY IdleSync
<1>2. TypeOK'
  BY <1>1 DEF IInv, TypeOK, world
<1>3. SiteInv' /\ RunInv'
  BY DEF IInv, SiteInv, RunInv, world
<1>4. FoundInv'
  BY DEF IInv, FoundInv, world
<1>5. LockInv'
  BY Constants DEF IInv, LockInv, Published
<1>6. TurnInv'
  BY DEF IInv, TurnInv, Syncing
<1>7. SyncInv'
  BY <1>1 DEF SyncInv
<1>8. SessionInv'
  BY <1>1, Constants DEF IInv, SessionInv
<1>9. RebuildInv'
  <2>1. \A i \in Indexers, n \in Notes : row'[n].lock # i => row[n].lock # i
      BY Constants
  <2> QED
      BY <2>1 DEF IInv, RebuildInv
<1> QED
  BY <1>2, <1>3, <1>4, <1>5, <1>6, <1>7, <1>8, <1>9 DEF IInv

LEMMA AbortSyncStep ==
    ASSUME IInv, AbortSync
    PROVE  IInv'
<1>1. TypeOK /\ LockInv /\ Sync \in Txns
  BY DEF IInv, Txns
<1>2. row' = [n \in Notes |-> RollbackRow(Sync, row[n])]
  BY DEF AbortSync
<1>3. aborts' \in 0..MaxAborts
  BY <1>1, Constants DEF AbortSync, TypeOK
<1>4. /\ Syncing /\ sync' = NoSync
      /\ UNCHANGED <<world, chunk, vectors, active, index, overtaken>>
  BY DEF AbortSync
<1> QED
  BY <1>1, <1>2, <1>3, <1>4, Rollback, RollbackSyncStep

LEMMA DeniedSyncStep ==
    ASSUME IInv, DeniedSync
    PROVE  IInv'
<1>1. TypeOK /\ LockInv /\ Sync \in Txns
  BY DEF IInv, Txns
<1>2. row' = [n \in Notes |-> RollbackRow(Sync, row[n])]
  BY DEF DeniedSync
<1>3. Syncing /\ aborts' \in 0..MaxAborts
  BY <1>1 DEF DeniedSync, TypeOK, Syncing
<1>4. /\ sync' = NoSync
      /\ UNCHANGED <<world, chunk, vectors, active, index, overtaken>>
  BY DEF DeniedSync
<1> QED
  BY <1>1, <1>2, <1>3, <1>4, Rollback, RollbackSyncStep

-----------------------------------------------------------------------------
(* Index runs.                                                             *)

\* A run with some of its fields changed; the others are as they were.
LEMMA IndexRecords ==
    ASSUME TypeOK, NEW i \in Indexers, NEW run \in IndexState,
           index' = [index EXCEPT ![i] = run]
    PROVE  /\ index' \in [Indexers -> IndexState] /\ index'[i] = run
           /\ \A j \in Indexers \ {i} : index'[j] = index[j]
  BY DEF TypeOK

LEMMA BeginIndexStep ==
    ASSUME IInv, NEW i \in Indexers, BeginIndex(i)
    PROVE  IInv'
<1> DEFINE run == [pc |-> "select", revision |-> config, rebuild |-> active # config,
                   cursor |-> 0, weekly |-> sync.pc = "index"]
<1>1. TypeOK /\ \A j \in Indexers : index[j].pc = "idle"
  BY DEF IInv, BeginIndex
<1>2. run \in IndexState /\ run.pc = "select" /\ run.revision = config /\ run.cursor = 0
      /\ (run.rebuild <=> active # config) /\ (run.weekly <=> sync.pc = "index")
  <2>1. config \in Revisions /\ 0 \in 0..Count
      BY <1>1, Fields, Constants
  <2>2. (active # config) \in BOOLEAN /\ (sync.pc = "index") \in BOOLEAN
      OBVIOUS
  <2>3. run \in IndexState
      BY <2>1, <2>2 DEF IndexState
  <2> QED
      BY <2>3
<1>3. UNCHANGED <<world, row, chunk, vectors, active, sync, overtaken, aborts>>
  BY DEF BeginIndex
<1>4. index' = [index EXCEPT ![i] = run]
  BY DEF BeginIndex
<1> HIDE DEF run
<1>5. /\ index' \in [Indexers -> IndexState] /\ index'[i] = run
      /\ \A j \in Indexers \ {i} : index'[j] = index[j]
  BY <1>1, <1>2, <1>4, IndexRecords
<1>6. TypeOK'
  BY <1>1, <1>3, <1>5 DEF TypeOK, world
<1>7. SiteInv' /\ FoundInv'
  BY <1>3 DEF IInv, SiteInv, FoundInv, world
<1>8. SyncInv' /\ SessionInv'
  BY <1>3 DEF IInv, SyncInv, SessionInv, Loaded, world
<1>9. LockInv'
  BY <1>1, <1>3 DEF IInv, LockInv, Syncing
<1>10. TurnInv'
  BY <1>1, <1>2, <1>3, <1>5 DEF IInv, TurnInv
<1>11. RunInv'
  <2>1. active <= config /\ config \in Nat /\ active \in Nat
      BY <1>1, Fields, Constants DEF IInv, RunInv
  <2>2. \A j \in Indexers : index'[j].pc # "idle" => j = i
      BY <1>1, <1>5
  <2> QED
      BY <2>1, <2>2, <1>2, <1>3, <1>5 DEF RunInv, world
<1>12. RebuildInv'
  <2>1. \A j \in Indexers : index'[j].pc # "idle" => j = i
      BY <1>1, <1>5
  <2>2. \A n \in Notes : ~(n <= 0)
      BY Constants
  <2> QED
      BY <2>1, <2>2, <1>2, <1>5 DEF RebuildInv
<1> QED
  BY <1>6, <1>7, <1>8, <1>9, <1>10, <1>11, <1>12 DEF IInv

\* A batch takes the first of the rows that are ready.
LEMMA FirstRows ==
    ASSUME TypeOK, NEW i \in Indexers, NEW last \in Batch(i), NEW n \in Ready(i), n <= last
    PROVE  n \in Batch(i)
<1> DEFINE upTo(k) == {m \in Ready(i) : m <= k}
<1>1. IsFiniteSet(Notes)
  BY Constants, FS_Interval, 1 \in Int, Count \in Int DEF Notes
<1>2. upTo(last) \subseteq Notes /\ n \in Notes /\ last \in Notes
  BY DEF Batch, Ready
<1>3. IsFiniteSet(upTo(last))
  BY <1>1, <1>2, FS_Subset
<1>4. upTo(n) \subseteq upTo(last)
  <2>1. Ready(i) \subseteq Notes
      BY DEF Ready
  <2>2. n \in Nat /\ last \in Nat /\ \A m \in Ready(i) : m \in Nat
      BY <1>2, <2>1, Constants
  <2>3. \A m \in Ready(i) : m <= n => m <= last
      BY <2>2
  <2> QED
      BY <2>3
<1>5. Cardinality(upTo(n)) <= Cardinality(upTo(last))
  BY <1>3, <1>4, FS_Subset
<1>6. Cardinality(upTo(n)) \in Nat /\ Cardinality(upTo(last)) \in Nat
  BY <1>3, <1>4, FS_Subset, FS_CardinalityType
<1>7. Cardinality(upTo(last)) <= BatchSize
  BY DEF Batch
<1>8. Cardinality(upTo(n)) <= BatchSize
  BY <1>5, <1>6, <1>7, Constants
<1> QED
  BY <1>8 DEF Batch

LEMMA SelectBatchStep ==
    ASSUME IInv, NEW i \in Indexers, SelectBatch(i)
    PROVE  IInv'
<1>1. PICK last \in Batch(i) :
        index' = [index EXCEPT ![i] = [index[i] EXCEPT !.pc = "embed",
                    !.cursor = IF last > index[i].cursor THEN last ELSE index[i].cursor]]
  BY DEF SelectBatch
<1> DEFINE c == IF last > index[i].cursor THEN last ELSE index[i].cursor
           run == [index[i] EXCEPT !.pc = "embed", !.cursor = c]
<1>2. /\ TypeOK /\ index[i].pc = "select" /\ index[i] \in IndexState
      /\ index[i].cursor \in 0..Count /\ index[i].cursor \in Nat /\ i \in Txns /\ i # Sync
      /\ i # NoTxn
  BY Fields, Constants DEF IInv, SelectBatch
<1>3. Batch(i) \subseteq Ready(i) /\ Ready(i) \subseteq Notes
  BY DEF Batch, Ready
<1>4. last \in 1..Count /\ last \in Nat
  BY <1>3, Constants DEF Notes
<1>5. c \in 0..Count /\ c >= index[i].cursor /\ (c > index[i].cursor => c = last)
  BY <1>2, <1>4
<1> HIDE DEF c
<1>6. /\ run \in IndexState /\ run.pc = "embed" /\ run.cursor = c
      /\ run.revision = index[i].revision /\ run.rebuild = index[i].rebuild
      /\ run.weekly = index[i].weekly
  BY <1>2, <1>5 DEF IndexState
<1>7. index' = [index EXCEPT ![i] = run]
  BY <1>1 DEF c
<1> HIDE DEF run
<1>8. /\ index' \in [Indexers -> IndexState] /\ index'[i] = run
      /\ \A j \in Indexers \ {i} : index'[j] = index[j]
  BY <1>2, <1>6, <1>7, IndexRecords
<1>9. /\ UNCHANGED <<world, chunk, vectors, active, sync, aborts>>
      /\ overtaken' = overtaken \cup PassedBy(i)
  BY DEF SelectBatch
<1>10. \A n \in Batch(i) : row[n].lock = NoTxn /\ Published(row[n].val)
  BY <1>3 DEF Ready, Published
<1>11. \A n \in Notes : row[n].lock # i
  BY <1>2 DEF IInv, LockInv
<1>12. ASSUME NEW n \in Notes
       PROVE  /\ row'[n] \in Row(Version, Txns) /\ row'[n].val = row[n].val
              /\ n \notin Batch(i) => row'[n] = row[n]
              /\ n \in Batch(i) => row'[n].lock = i /\ row'[n].work = row[n].val
  <2>1. row[n] \in Row(Version, Txns) /\ row[n].val \in Version
      BY <1>2, Fields
  <2>2. row'[n] = IF n \in Batch(i) THEN Hold(i, row[n]) ELSE row[n]
      BY DEF SelectBatch
  <2>3. CASE n \in Batch(i)
    <3>1. View(i, row[n]) = row[n].val
        BY <1>11 DEF View
    <3>2. Hold(i, row[n]) = Write(i, row[n], row[n].val)
        BY <3>1 DEF Hold
    <3>3. LET r == Write(i, row[n], row[n].val)
          IN r \in Row(Version, Txns) /\ r.val = row[n].val /\ r.work = row[n].val /\ r.lock = i
        BY <1>2, <2>1, RowFacts
    <3> QED
        BY <2>2, <2>3, <3>2, <3>3
  <2>4. CASE n \notin Batch(i)
      BY <2>1, <2>2, <2>4
  <2> QED
      BY <2>3, <2>4
<1>13. row' \in [Notes -> Row(Version, Txns)]
  BY <1>12 DEF SelectBatch
<1>14. overtaken' \subseteq Notes
  BY <1>2, <1>9 DEF TypeOK, PassedBy
<1>15. TypeOK'
  <2>1. \A n \in Notes : row'[n].val.ver = 0 <=> row'[n].val.status = "absent"
      BY <1>2, <1>12, Fields
  <2> QED
      BY <1>2, <1>8, <1>9, <1>13, <1>14, <2>1 DEF TypeOK, world
<1>16. SiteInv'
  BY <1>9 DEF IInv, SiteInv, world
<1>17. FoundInv'
  BY <1>9, <1>12 DEF IInv, FoundInv, world
<1>18. TurnInv'
  BY <1>2, <1>6, <1>8, <1>9 DEF IInv, TurnInv
<1>19. RunInv'
  BY <1>2, <1>6, <1>8, <1>9 DEF IInv, RunInv, world
<1>20. LockInv'
  <2>1. ASSUME NEW n \in Notes, n \in Batch(i)
        PROVE  /\ row'[n].work.ver = 0 <=> row'[n].work.status = "absent"
               /\ row'[n].work = row'[n].val /\ row'[n].lock = i
               /\ index'[i].pc = "embed" /\ Published(row'[n].val)
      BY <2>1, <1>2, <1>6, <1>8, <1>10, <1>12, Fields
  <2>2. ASSUME NEW n \in Notes, n \notin Batch(i)
        PROVE  /\ row'[n] = row[n] /\ row[n].lock # i
               /\ \A j \in Indexers : row[n].lock = j => index'[j] = index[j]
      BY <2>2, <1>8, <1>11, <1>12
  <2> QED
      BY <2>1, <2>2, <1>2, <1>9 DEF IInv, LockInv, Syncing
<1>21. SyncInv'
  <2>1. \A m \in DOMAIN sync.todo :
          row'[m].lock # Sync /\ row'[m].val = row[m].val
      BY <1>2, <1>12, TodoFacts, Fields DEF IInv, SyncInv
  <2>2. ASSUME NEW m \in sync.expired
        PROVE  View(Sync, row'[m]).status # "absent"
    <3>1. m \in Notes /\ View(Sync, row[m]).status # "absent"
        BY <1>2, Fields DEF IInv, SyncInv
    <3>2. CASE m \in Batch(i)
        BY <3>1, <3>2, <1>2, <1>10, <1>12, Constants DEF View
    <3>3. CASE m \notin Batch(i)
        BY <3>1, <3>3, <1>12
    <3> QED
        BY <3>2, <3>3
  <2> QED
      BY <2>1, <2>2, <1>9 DEF IInv, SyncInv, Loaded
<1>22. SessionInv'
  <2>1. \A n \in Notes : row'[n].lock = Sync => row'[n] = row[n]
      BY <1>2, <1>12
  <2> QED
      BY <2>1, <1>9, <1>12 DEF IInv, SessionInv, Loaded, world
<1>23. RebuildInv'
  <2>1. \A j \in Indexers \ {i} : index'[j].pc = "idle"
      BY <1>2, <1>8 DEF IInv, TurnInv
  <2>2. ASSUME index[i].rebuild, NEW n \in Notes \ overtaken', n <= c, row'[n].lock # i,
               row[n].val.status = "INDEXED"
        PROVE  <<row[n].val.ver, index[i].revision>> \in vectors[n]
    <3>1. n \notin overtaken /\ n \notin PassedBy(i) /\ n \notin Batch(i) /\ n \in Nat
        BY <2>2, <1>9, <1>12, Constants
    <3>2. row[n].lock = NoTxn
        BY <2>2, <3>1, <1>11 DEF PassedBy
    <3>3. CASE n <= index[i].cursor
        BY <2>2, <3>1, <3>3, <1>2, <1>11 DEF IInv, RebuildInv
    <3>4. CASE ~(n <= index[i].cursor)
      <4>1. n > index[i].cursor /\ n <= last
          BY <2>2, <3>1, <3>4, <1>2, <1>4, <1>5
      <4>2. n \in Ready(i)
          BY <2>2, <3>2, <4>1 DEF Ready
      <4> QED
          BY <3>1, <4>1, <4>2, <1>2, FirstRows
    <3> QED
        BY <3>3, <3>4
  <2> QED
      BY <2>1, <2>2, <1>6, <1>8, <1>9, <1>12 DEF RebuildInv
<1> QED
  BY <1>15, <1>16, <1>17, <1>18, <1>19, <1>20, <1>21, <1>22, <1>23 DEF IInv

LEMMA CommitBatchStep ==
    ASSUME IInv, NEW i \in Indexers, CommitBatch(i)
    PROVE  IInv'
<1> DEFINE run == [index[i] EXCEPT !.pc = "select"]
<1>1. /\ TypeOK /\ index[i].pc = "embed" /\ index[i] \in IndexState
      /\ index[i].revision \in Revisions /\ i # Sync /\ i # NoTxn
  BY Fields, Constants DEF IInv, CommitBatch
<1>2. /\ run \in IndexState /\ run.pc = "select" /\ run.cursor = index[i].cursor
      /\ run.revision = index[i].revision /\ run.rebuild = index[i].rebuild
      /\ run.weekly = index[i].weekly
  BY <1>1 DEF IndexState
<1>3. index' = [index EXCEPT ![i] = run]
  BY DEF CommitBatch
<1> HIDE DEF run
<1>4. /\ index' \in [Indexers -> IndexState] /\ index'[i] = run
      /\ \A j \in Indexers \ {i} : index'[j] = index[j]
  BY <1>1, <1>2, <1>3, IndexRecords
<1>5. UNCHANGED <<world, active, sync, aborts>>
  BY DEF CommitBatch
<1>6. /\ overtaken' \subseteq Notes /\ overtaken \subseteq overtaken'
      /\ Syncing => Locked(i) \subseteq overtaken'
      /\ Locked(i) = {n \in Notes : row[n].lock = i}
  BY <1>1 DEF CommitBatch, TypeOK, Locked
<1>7. ASSUME NEW n \in Notes, row[n].lock = i
      PROVE  /\ row'[n] \in Row(Version, Txns) /\ row'[n].lock = NoTxn
             /\ row'[n].work = row'[n].val /\ row'[n].val.ver = row[n].val.ver
             /\ row'[n].val.status = "INDEXED" /\ row'[n].val.ver # 0
             /\ chunk'[n] \in {0} \cup Versions /\ chunk'[n] = row'[n].val.ver
             /\ vectors'[n] \subseteq {chunk'[n]} \X Revisions
             /\ vectors'[n] \subseteq Versions \X Revisions
             /\ <<row'[n].val.ver, index[i].revision>> \in vectors'[n]
  <2> DEFINE v == [row[n].val EXCEPT !.status = "INDEXED"]
  <2>1. row[n].val \in Version /\ row[n].val.ver \in Versions
    <3>1. row[n].val \in Version /\ row[n].val.status # "absent"
        BY <1>1, <1>7, Fields DEF IInv, LockInv, Published
    <3>2. row[n].val.ver # 0
        BY <1>1, <3>1, Fields
    <3>3. "INDEXED" \in Statuses
        BY DEF Statuses
    <3> QED
        BY <3>1, <3>2, <3>3, VersionFacts
  <2>2. v \in Version /\ v.status = "INDEXED" /\ v.ver = row[n].val.ver
    <3>1. "INDEXED" \in Statuses
        BY DEF Statuses
    <3> QED
        BY <2>1, <3>1, VersionFacts
  <2>3. /\ row'[n] = Settled(v) /\ chunk'[n] = row[n].val.ver
        /\ vectors'[n] = VectorsAfter(i, n)
      BY <1>7 DEF CommitBatch, Locked
  <2> HIDE DEF v
  <2>4. /\ Settled(v) \in Row(Version, Txns) /\ Settled(v).val = v
        /\ Settled(v).work = v /\ Settled(v).lock = NoTxn
      BY <2>2, SettledFacts
  <2>5. row[n].val.ver # 0
      BY <2>1, Constants DEF Versions
  <2>6. /\ vectors'[n] \subseteq {row[n].val.ver} \X Revisions
        /\ <<row[n].val.ver, index[i].revision>> \in vectors'[n]
    <3>1. vectors[n] \subseteq Versions \X Revisions
        BY <1>1, Fields
    <3>2. \A p \in vectors[n] : p[1] = row[n].val.ver => p \in {row[n].val.ver} \X Revisions
        BY <3>1
    <3> QED
        BY <2>3, <3>2, <1>1 DEF VectorsAfter
  <2>7. vectors'[n] \subseteq Versions \X Revisions
      BY <2>1, <2>6
  <2> QED
      BY <2>1, <2>2, <2>3, <2>4, <2>5, <2>6, <2>7
<1>8. ASSUME NEW n \in Notes, row[n].lock # i
      PROVE  row'[n] = row[n] /\ chunk'[n] = chunk[n] /\ vectors'[n] = vectors[n]
  BY <1>8 DEF CommitBatch, Locked
<1>9. /\ row' \in [Notes -> Row(Version, Txns)]
      /\ chunk' \in [Notes -> {0} \cup Versions]
      /\ vectors' \in [Notes -> SUBSET (Versions \X Revisions)]
      /\ \A n \in Notes : row'[n].val.ver = 0 <=> row'[n].val.status = "absent"
      /\ \A n \in Notes : vectors'[n] \subseteq {chunk'[n]} \X Revisions
  <2>1. ASSUME NEW n \in Notes
        PROVE  /\ row'[n] \in Row(Version, Txns) /\ chunk'[n] \in {0} \cup Versions
               /\ vectors'[n] \subseteq Versions \X Revisions
               /\ row'[n].val.ver = 0 <=> row'[n].val.status = "absent"
               /\ vectors'[n] \subseteq {chunk'[n]} \X Revisions
    <3>1. CASE row[n].lock = i
        BY <3>1, <1>7
    <3>2. CASE row[n].lock # i
        BY <3>2, <1>1, <1>8, Fields
    <3> QED
        BY <3>1, <3>2
  <2>2. /\ row' = [n \in Notes |-> row'[n]] /\ chunk' = [n \in Notes |-> chunk'[n]]
        /\ vectors' = [n \in Notes |-> vectors'[n]]
      BY DEF CommitBatch
  <2> QED
      BY <2>1, <2>2
<1>10. TypeOK'
  BY <1>1, <1>4, <1>5, <1>6, <1>9 DEF TypeOK, world
<1>11. SiteInv'
  BY <1>5 DEF IInv, SiteInv, world
<1>12. TurnInv'
  BY <1>1, <1>2, <1>4, <1>5 DEF IInv, TurnInv
<1>13. RunInv'
  BY <1>1, <1>2, <1>4, <1>5 DEF IInv, RunInv, world
<1>14. LockInv'
  <2>1. ASSUME NEW n \in Notes, row[n].lock = i
        PROVE  /\ row'[n].work.ver = 0 <=> row'[n].work.status = "absent"
               /\ row'[n].work = row'[n].val /\ row'[n].lock = NoTxn
    <3>1. row'[n].work = row'[n].val /\ row'[n].lock = NoTxn
        BY <2>1, <1>7
    <3>2. row'[n].val.ver # 0 /\ row'[n].val.status = "INDEXED"
        BY <2>1, <1>7
    <3> QED
        BY <3>1, <3>2
  <2>2. ASSUME NEW n \in Notes, row[n].lock # i
        PROVE  /\ row'[n] = row[n]
               /\ \A j \in Indexers : row[n].lock = j => index'[j] = index[j]
      BY <2>2, <1>4, <1>8
  <2> QED
      BY <2>1, <2>2, <1>5, Constants DEF IInv, LockInv, Syncing
<1>15. SyncInv'
  <2>1. ASSUME NEW m \in Notes, row[m].lock = i
        PROVE  /\ row'[m].lock # Sync /\ row'[m].val.status # "absent"
               /\ View(Sync, row'[m]).status # "absent"
    <3>1. row'[m].lock = NoTxn /\ row'[m].val.status = "INDEXED"
        BY <2>1, <1>7
    <3> QED
        BY <3>1, Constants DEF View
  <2>2. DOMAIN sync.todo \subseteq Notes /\ sync.expired \subseteq Notes
      BY <1>1, TodoFacts, Fields
  <2>3. ASSUME NEW m \in DOMAIN sync.todo
        PROVE  /\ row'[m].lock # Sync
               /\ Loaded(m).status # "absent" => row'[m].val.status # "absent"
      BY <1>8, <2>1, <2>2 DEF IInv, SyncInv
  <2>4. ASSUME NEW m \in sync.expired
        PROVE  View(Sync, row'[m]).status # "absent"
      BY <1>8, <2>1, <2>2 DEF IInv, SyncInv
  <2> QED
      BY <2>3, <2>4, <1>5 DEF IInv, SyncInv, Loaded
<1>16. SessionInv'
  <2>1. ASSUME NEW n \in Notes \ overtaken', n \in DOMAIN sync.todo \/ n \in sync.expired
        PROVE  row[n].lock # i
      BY <2>1, <1>6 DEF IInv, SyncInv, Syncing
  <2>2. ASSUME NEW n \in Notes \ overtaken'
        PROVE  /\ n \in DOMAIN sync.todo => row'[n].val = Loaded(n) \/ n \in denied
               /\ row'[n].lock = Sync =>
                    row'[n].work.status = "SANITIZED" \/ row'[n].work = row'[n].val
               /\ n \in sync.expired => chunk'[n] \in {0, sync.off[n]}
    <3>1. CASE row[n].lock = i
      <4>1. n \notin DOMAIN sync.todo /\ n \notin sync.expired
          BY <2>1, <3>1
      <4>2. row'[n].lock # Sync
          BY <1>7, <3>1, Constants
      <4> QED
          BY <4>1, <4>2
    <3>2. CASE row[n].lock # i
      <4>1. row'[n] = row[n] /\ chunk'[n] = chunk[n] /\ n \notin overtaken
          BY <1>6, <1>8, <3>2
      <4> QED
          BY <4>1 DEF IInv, SessionInv
    <3> QED
        BY <3>1, <3>2
  <2> QED
      BY <2>2, <1>5 DEF SessionInv, Loaded, world
<1>17. RebuildInv'
  <2>1. \A j \in Indexers \ {i} : index'[j].pc = "idle"
      BY <1>1, <1>4 DEF IInv, TurnInv
  <2>2. ASSUME index[i].rebuild, NEW n \in Notes \ overtaken', n <= index[i].cursor,
               row'[n].val.status = "INDEXED"
        PROVE  <<row'[n].val.ver, index[i].revision>> \in vectors'[n]
    <3>1. CASE row[n].lock = i
        BY <3>1, <1>7
    <3>2. CASE row[n].lock # i
        BY <3>2, <2>2, <1>1, <1>6, <1>8 DEF IInv, RebuildInv
    <3> QED
        BY <3>1, <3>2
  <2> QED
      BY <2>1, <2>2, <1>2, <1>4 DEF RebuildInv
<1>18. FoundInv'
  <2>1. ASSUME NEW n \in Notes \ overtaken', row[n].lock = i
        PROVE  active = config => index[i].revision = active
    <3>1. active \in Nat /\ config \in Nat /\ index[i].revision \in Nat
        BY <1>1, Fields, Constants
    <3>2. active <= index[i].revision /\ index[i].revision <= config
        BY <1>1 DEF IInv, RunInv
    <3> QED
        BY <3>1, <3>2
  <2>2. ASSUME NEW n \in Notes \ overtaken'
        PROVE  /\ row'[n].val.status = "INDEXED" => chunk'[n] = row'[n].val.ver
               /\ row'[n].val.status = "INDEXED" /\ active = config =>
                    <<row'[n].val.ver, active>> \in vectors'[n]
               /\ row'[n].val.status \in {"DELETED", "DENIED"} => chunk'[n] = 0
    <3>1. CASE row[n].lock = i
        BY <3>1, <2>1, <1>7
    <3>2. CASE row[n].lock # i
        BY <3>2, <1>6, <1>8 DEF IInv, FoundInv
    <3> QED
        BY <3>1, <3>2
  <2> QED
      BY <2>2, <1>5 DEF FoundInv, world
<1> QED
  BY <1>10, <1>11, <1>12, <1>13, <1>14, <1>15, <1>16, <1>17, <1>18 DEF IInv

\* The end of a run ends its script too, when the script synced before it; the
\* session of that sync is over by then.
LEMMA AfterRun ==
    ASSUME IInv, NEW i \in Indexers, sync' = AfterIndex(i)
    PROVE  /\ sync' \in SyncState
           /\ \/ sync' = sync /\ ~index[i].weekly
              \/ /\ sync'.pc = "idle" /\ DOMAIN sync'.todo = {} /\ sync'.expired = {}
                 /\ \A n \in Notes : row[n].lock # Sync
<1>1. CASE index[i].weekly
  <2>1. sync' = NoSync
      BY <1>1 DEF AfterIndex
  <2>2. /\ sync' \in SyncState /\ sync'.pc = "idle" /\ DOMAIN sync'.todo = {}
        /\ sync'.expired = {}
      BY <2>1, IdleSync
  <2>3. ~Syncing
      BY <1>1 DEF IInv, TurnInv, Syncing
  <2> QED
      BY <2>2, <2>3 DEF IInv, LockInv
<1>2. CASE ~index[i].weekly
  <2>1. sync' = sync
      BY <1>2 DEF AfterIndex
  <2> QED
      BY <1>2, <2>1 DEF IInv, TypeOK
<1> QED
  BY <1>1, <1>2

\* A run that ends, either way, has given its locks back; what search finds is
\* left to show where the revision is activated.
LEMMA RunEnds ==
    ASSUME IInv, NEW i \in Indexers, index[i].pc # "idle",
           sync' = AfterIndex(i), index' = [index EXCEPT ![i] = NoIndex],
           row' \in [Notes -> Row(Version, Txns)],
           \A n \in Notes :
             /\ row'[n].val = row[n].val
             /\ row'[n].val.ver = 0 <=> row'[n].val.status = "absent"
             /\ row'[n].work.ver = 0 <=> row'[n].work.status = "absent"
             /\ IF row[n].lock = i
                THEN row'[n].lock = NoTxn /\ row'[n].work = row'[n].val
                ELSE row'[n] = row[n],
           UNCHANGED <<world, chunk, vectors>>, aborts' \in 0..MaxAborts,
           overtaken \subseteq overtaken', overtaken' \subseteq Notes,
           active' \in {active, index[i].revision}, FoundInv'
    PROVE  IInv'
<1>1. TypeOK /\ i # Sync /\ i # NoTxn /\ NoTxn # Sync /\ NoTxn \notin Indexers
  BY Constants DEF IInv
<1>2. NoIndex \in IndexState /\ NoIndex.pc = "idle" /\ NoIndex.weekly = FALSE
  <2>1. 1 \in Revisions /\ 0 \in 0..Count
      BY Constants DEF Revisions
  <2> QED
      BY <2>1 DEF NoIndex, IndexState
<1>3. /\ index' \in [Indexers -> IndexState] /\ index'[i] = NoIndex
      /\ \A j \in Indexers \ {i} : index'[j] = index[j]
  BY <1>1, <1>2, IndexRecords
<1>4. /\ \A j \in Indexers \ {i} : index[j].pc = "idle"
      /\ \A j \in Indexers : index'[j].pc = "idle"
  BY <1>2, <1>3 DEF IInv, TurnInv
<1>5. /\ sync' \in SyncState
      /\ \/ sync' = sync /\ ~index[i].weekly
         \/ /\ sync'.pc = "idle" /\ DOMAIN sync'.todo = {} /\ sync'.expired = {}
            /\ \A n \in Notes : row[n].lock # Sync
  BY AfterRun
<1>6. active' \in Revisions /\ active' <= config'
  BY <1>1, Fields DEF IInv, RunInv, world
<1>7. TypeOK'
  BY <1>1, <1>3, <1>5, <1>6 DEF TypeOK, world
<1>8. SiteInv'
  BY DEF IInv, SiteInv, world
<1>9. LockInv'
  <2>1. ASSUME NEW n \in Notes, row[n].lock = i
        PROVE  row'[n].lock = NoTxn /\ row'[n].work = row'[n].val
      BY <2>1
  <2>2. ASSUME NEW n \in Notes, row[n].lock # i
        PROVE  /\ row'[n] = row[n] /\ row[n].lock \notin Indexers
               /\ row[n].lock = Sync => Syncing'
    <3>1. row'[n] = row[n]
        BY <2>2
    <3>2. row[n].lock \notin Indexers
        BY <2>2, <1>4 DEF IInv, LockInv
    <3>3. row[n].lock = Sync => sync' = sync
        BY <1>5
    <3> QED
        BY <3>1, <3>2, <3>3 DEF IInv, LockInv, Syncing
  <2> QED
      BY <2>1, <2>2, <1>1 DEF IInv, LockInv
<1>10. TurnInv'
  <2>1. \A j \in Indexers : ~index'[j].weekly
      BY <1>2, <1>3, <1>4 DEF IInv, TurnInv
  <2> QED
      BY <2>1, <1>4 DEF TurnInv
<1>11. RunInv'
  BY <1>4, <1>6 DEF RunInv
<1>12. SyncInv'
  <2>1. CASE sync' = sync
    <3>1. DOMAIN sync.todo \subseteq Notes /\ sync.expired \subseteq Notes
        BY <1>1, TodoFacts, Fields
    <3>2. ASSUME NEW m \in DOMAIN sync.todo
          PROVE  /\ row'[m].lock # Sync
                 /\ Loaded(m).status # "absent" => row'[m].val.status # "absent"
        BY <3>1, <1>1 DEF IInv, SyncInv
    <3>3. ASSUME NEW m \in sync.expired
          PROVE  View(Sync, row'[m]).status # "absent"
      <4>1. CASE row[m].lock = i
          BY <4>1, <3>1, <1>1 DEF IInv, SyncInv, View
      <4>2. CASE row[m].lock # i
          BY <4>2, <3>1 DEF IInv, SyncInv
      <4> QED
          BY <4>1, <4>2
    <3> QED
        BY <2>1, <3>2, <3>3 DEF IInv, SyncInv, Loaded
  <2>2. CASE sync'.pc = "idle" /\ DOMAIN sync'.todo = {} /\ sync'.expired = {}
      BY <2>2 DEF SyncInv
  <2> QED
      BY <2>1, <2>2, <1>5
<1>13. SessionInv'
  <2>1. \A n \in Notes : row'[n].lock = Sync => row'[n] = row[n]
      BY <1>1
  <2>2. CASE sync' = sync
      BY <2>1, <2>2 DEF IInv, SessionInv, Loaded, world
  <2>3. CASE /\ DOMAIN sync'.todo = {} /\ sync'.expired = {}
             /\ \A n \in Notes : row[n].lock # Sync
      BY <2>1, <2>3 DEF SessionInv
  <2> QED
      BY <2>2, <2>3, <1>5
<1>14. RebuildInv'
  BY <1>4 DEF RebuildInv
<1> QED
  BY <1>7, <1>8, <1>9, <1>10, <1>11, <1>12, <1>13, <1>14 DEF IInv

LEMMA EndIndexStep ==
    ASSUME IInv, NEW i \in Indexers, EndIndex(i)
    PROVE  IInv'
<1>1. /\ TypeOK /\ index[i].pc = "select" /\ Ready(i) = {} /\ i # Sync /\ i # NoTxn
      /\ index[i].cursor \in Nat
  BY Fields, Constants DEF IInv, EndIndex
<1>2. /\ active' = index[i].revision /\ index' = [index EXCEPT ![i] = NoIndex]
      /\ overtaken' = overtaken \cup PassedBy(i) /\ sync' = AfterIndex(i)
      /\ UNCHANGED <<world, row, chunk, vectors, aborts>>
  BY DEF EndIndex
<1>3. \A n \in Notes : row[n].lock # i
  BY <1>1 DEF IInv, LockInv
<1>4. /\ row' \in [Notes -> Row(Version, Txns)]
      /\ \A n \in Notes :
           /\ row'[n].val = row[n].val
           /\ row'[n].val.ver = 0 <=> row'[n].val.status = "absent"
           /\ row'[n].work.ver = 0 <=> row'[n].work.status = "absent"
           /\ row[n].lock # i /\ row'[n] = row[n]
  BY <1>1, <1>2, <1>3, Fields DEF IInv, LockInv
<1>5. ASSUME index[i].rebuild, NEW n \in Notes \ overtaken', row[n].val.status = "INDEXED"
      PROVE  <<row[n].val.ver, index[i].revision>> \in vectors[n]
  <2>1. n \notin overtaken /\ row[n].lock = NoTxn /\ n \in Nat
      BY <1>2, <1>3, <1>5, Constants DEF PassedBy
  <2>2. ~(n > index[i].cursor)
      BY <1>1, <1>5, <2>1 DEF Ready
  <2>3. n <= index[i].cursor
      BY <1>1, <2>1, <2>2
  <2> QED
      BY <1>1, <1>3, <1>5, <2>1, <2>3 DEF IInv, RebuildInv
<1>6. FoundInv'
  <2>1. CASE index[i].rebuild
    <3>1. \A n \in Notes \ overtaken' : n \notin overtaken
        BY <1>2
    <3> QED
        BY <2>1, <3>1, <1>2, <1>5 DEF IInv, FoundInv, world
  <2>2. CASE ~index[i].rebuild
    <3>1. active' = active
        BY <2>2, <1>1, <1>2 DEF IInv, RunInv
    <3> QED
        BY <3>1, <1>2 DEF IInv, FoundInv, world
  <2> QED
      BY <2>1, <2>2
<1>7. overtaken' \subseteq Notes /\ aborts' \in 0..MaxAborts
  BY <1>1, <1>2 DEF TypeOK, PassedBy
<1> QED
  BY <1>1, <1>2, <1>4, <1>6, <1>7, RunEnds

LEMMA AbortIndexStep ==
    ASSUME IInv, NEW i \in Indexers, AbortIndex(i)
    PROVE  IInv'
<1>1. TypeOK /\ LockInv /\ i \in Txns /\ index[i].pc # "idle"
  BY DEF IInv, Txns, AbortIndex
<1>2. /\ index' = [index EXCEPT ![i] = NoIndex] /\ sync' = AfterIndex(i)
      /\ UNCHANGED <<world, chunk, vectors, active, overtaken>>
  BY DEF AbortIndex
<1>3. row' = [n \in Notes |-> RollbackRow(i, row[n])]
  BY DEF AbortIndex
<1>4. aborts' \in 0..MaxAborts /\ overtaken' \subseteq Notes
  BY <1>1, Constants DEF AbortIndex, TypeOK
<1>5. /\ row' \in [Notes -> Row(Version, Txns)]
      /\ \A n \in Notes :
           /\ row'[n].val = row[n].val
           /\ row'[n].val.ver = 0 <=> row'[n].val.status = "absent"
           /\ row'[n].work.ver = 0 <=> row'[n].work.status = "absent"
           /\ IF row[n].lock = i
              THEN row'[n].lock = NoTxn /\ row'[n].work = row'[n].val
              ELSE row'[n] = row[n]
  BY <1>1, <1>3, Rollback
<1>6. FoundInv'
  BY <1>2, <1>5 DEF IInv, FoundInv, world
<1> QED
  BY <1>1, <1>2, <1>4, <1>5, <1>6, RunEnds

-----------------------------------------------------------------------------
(* The theorems.                                                           *)

LEMMA InitIInv ==
    ASSUME Init
    PROVE  IInv
<1>1. Absent \in Version /\ Absent.ver = 0 /\ Absent.status = "absent"
  BY Constants DEF Version, Absent, Statuses
<1>2. /\ Settled(Absent) \in Row(Version, Txns) /\ Settled(Absent).val = Absent
      /\ Settled(Absent).work = Absent /\ Settled(Absent).lock = NoTxn
  BY <1>1, SettledFacts
<1>3. /\ sync \in SyncState /\ sync.pc = "idle" /\ DOMAIN sync.todo = {}
      /\ sync.expired = {}
  BY IdleSync DEF Init
<1>4. 1 \in Revisions /\ 1 \in Versions /\ 0 \in 0..Count /\ 0 \in 0..MaxEdits
      /\ 0 \in 0..MaxAborts
  BY Constants DEF Revisions, Versions
<1>5. NoIndex \in IndexState /\ NoIndex.pc = "idle" /\ NoIndex.weekly = FALSE
  BY <1>4 DEF NoIndex, IndexState
<1>6. \A n \in Notes : /\ row[n] = Settled(Absent) /\ chunk[n] = 0 /\ vectors[n] = {}
                       /\ site[n].ver = 1 /\ site[n].stamp = 0
  BY DEF Init
<1>7. \A i \in Indexers : index[i].pc = "idle" /\ ~index[i].weekly
  BY <1>5 DEF Init
<1>8. TypeOK
  <2>1. site \in [Notes -> [ver : Versions, stamp : 0..MaxEdits]]
      BY <1>4 DEF Init
  <2>2. row \in [Notes -> Row(Version, Txns)]
      BY <1>2 DEF Init
  <2>3. chunk \in [Notes -> {0} \cup Versions]
        /\ vectors \in [Notes -> SUBSET (Versions \X Revisions)]
      BY DEF Init
  <2>4. index \in [Indexers -> IndexState]
      BY <1>5 DEF Init
  <2>5. \A n \in Notes : row[n].val.ver = 0 <=> row[n].val.status = "absent"
      BY <1>1, <1>2, <1>6
  <2>6. /\ aged \subseteq Notes /\ denied \subseteq Notes /\ overtaken \subseteq Notes
        /\ {config, active} \subseteq Revisions /\ aborts \in 0..MaxAborts
      BY <1>4 DEF Init
  <2> QED
      BY <1>3, <1>6, <2>1, <2>2, <2>3, <2>4, <2>5, <2>6 DEF TypeOK
<1>9. SiteInv
  BY <1>6 DEF SiteInv
<1>10. LockInv
  BY <1>1, <1>2, <1>6, Constants DEF LockInv
<1>11. TurnInv /\ RunInv /\ RebuildInv
  BY <1>4, <1>7, Constants DEF TurnInv, RunInv, RebuildInv, Init
<1>12. SyncInv
  BY <1>3 DEF SyncInv
<1>13. SessionInv
  BY <1>2, <1>3, <1>6, Constants DEF SessionInv
<1>14. FoundInv
  BY <1>1, <1>2, <1>6 DEF FoundInv
<1> QED
  BY <1>8, <1>9, <1>10, <1>11, <1>12, <1>13, <1>14 DEF IInv

LEMMA NextIInv ==
    ASSUME IInv, [Next]_vars
    PROVE  IInv'
<1>1. CASE UNCHANGED vars
  <2>1. TypeOK' /\ SiteInv' /\ TurnInv' /\ RunInv' /\ RebuildInv' /\ FoundInv'
      BY <1>1 DEF IInv, vars, TypeOK, SiteInv, TurnInv, RunInv, RebuildInv, FoundInv
  <2>2. LockInv' /\ SyncInv' /\ SessionInv'
      BY <1>1 DEF IInv, vars, LockInv, SyncInv, SessionInv, Syncing, Loaded
  <2> QED
      BY <2>1, <2>2 DEF IInv
<1>2. ASSUME NEW n \in Notes, Edit(n) \/ Age(n) \/ Deny(n)
      PROVE  IInv'
  BY <1>2, EditStep, AgeStep, DenyStep
<1>3. CASE Reconfigure
  BY <1>3, ReconfigureStep
<1>4. CASE SyncStep
  BY <1>4, BeginSyncStep, ExpireChunksStep, CommitSyncStep, DeniedSyncStep,
     TouchNoteStep, FetchNoteStep, SaveNoteStep DEF SyncStep
<1>5. CASE AbortSync
  BY <1>5, AbortSyncStep
<1>6. ASSUME NEW i \in Indexers, IndexStep(i) \/ AbortIndex(i)
      PROVE  IInv'
  BY <1>6, BeginIndexStep, SelectBatchStep, CommitBatchStep, EndIndexStep,
     AbortIndexStep DEF IndexStep
<1> QED
  BY <1>1, <1>2, <1>3, <1>4, <1>5, <1>6 DEF Next

\* IInv is an invariant: it holds at first, and each step of the site, the owner,
\* sync_recent_patch_notes and index_sanitized_sources preserves it.
THEOREM InductiveInvariant == Spec => []IInv
<1>1. Init => IInv
  BY InitIInv
<1>2. IInv /\ [Next]_vars => IInv'
  BY NextIInv
<1> QED
  BY <1>1, <1>2, PTL DEF Spec

\* Rows, chunks, vectors, revisions, the session of sync_recent_patch_notes and
\* the cursors of index_sanitized_sources stay what they are declared to be, and
\* vectors belong to active chunks.
THEOREM TypeCorrect == Spec => []TypeOK
<1>1. IInv => TypeOK
  BY DEF IInv
<1> QED
  BY <1>1, InductiveInvariant, PTL

\* What search finds of a note is what its row says, whatever is edited, denied,
\* expired, reindexed, rebuilt, activated or rolled back in between, unless
\* sync_recent_patch_notes and index_sanitized_sources met on the note.
THEOREM SearchIsFaithful == Spec => []SearchFollowsRows
<1>1. IInv => SearchFollowsRows
  BY DEF IInv, FoundInv, SearchFollowsRows, Found
<1> QED
  BY <1>1, InductiveInvariant, PTL

\* activate_embedding_revision never brings an older revision back: the run that
\* activates one has waited for every run before it, and the configured model is
\* taken to change to new ones only.
THEOREM RevisionOnlyAdvances == Spec => [][active <= active']_vars
<1>1. IInv /\ [Next]_vars => active <= active'
  <2> SUFFICES ASSUME IInv, [Next]_vars
               PROVE  active <= active'
      OBVIOUS
  <2>1. active \in Nat
      BY Fields, Constants DEF IInv
  <2>2. CASE active' = active
      BY <2>1, <2>2
  <2>3. ASSUME NEW i \in Indexers, EndIndex(i)
        PROVE  active <= active'
      BY <2>3 DEF EndIndex, IInv, RunInv
  <2>4. active' = active \/ \E i \in Indexers : EndIndex(i)
    <3>1. ASSUME NEW n \in Notes, Edit(n) \/ Age(n) \/ Deny(n)
          PROVE  active' = active
        BY <3>1 DEF Edit, Age, Deny
    <3>2. CASE Reconfigure \/ AbortSync
        BY <3>2 DEF Reconfigure, AbortSync
    <3>3. CASE SyncStep
        BY <3>3 DEF SyncStep, BeginSync, ExpireChunks, CommitSync, DeniedSync, TouchNote,
           FetchNote, SaveNote
    <3>4. ASSUME NEW i \in Indexers, BeginIndex(i) \/ SelectBatch(i) \/ CommitBatch(i)
                   \/ AbortIndex(i)
          PROVE  active' = active
        BY <3>4 DEF BeginIndex, SelectBatch, CommitBatch, AbortIndex
    <3>5. CASE UNCHANGED vars
        BY <3>5 DEF vars
    <3> QED
        BY <3>1, <3>2, <3>3, <3>4, <3>5 DEF Next, IndexStep
  <2> QED
      BY <2>2, <2>3, <2>4
<1> QED
  BY <1>1, InductiveInvariant, PTL DEF Spec
=============================================================================
