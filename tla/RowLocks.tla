------------------------------ MODULE RowLocks ------------------------------
(***************************************************************************)
(* PostgreSQL rows under READ COMMITTED, as the code uses them: a row has  *)
(* its committed version, at most one transaction that holds its row lock, *)
(* and the version that transaction will publish when it commits.          *)
(* The database is not part of the repository; src/ relies on:             *)
(*   - SELECT ... FOR UPDATE, UPDATE and INSERT ... ON CONFLICT wait for   *)
(*     the lock of a row that another transaction has locked or inserted;  *)
(*   - a plain SELECT never waits and returns committed versions;          *)
(*   - a rolled back transaction leaves every row as it was.               *)
(***************************************************************************)

CONSTANT NoTxn \* the lock holder of a row nobody has locked

Row(Version, Txn) ==
    [val: Version, work: Version, lock: Txn \cup {NoTxn}]

\* A row no transaction touches: both versions agree.
Settled(v) == [val |-> v, work |-> v, lock |-> NoTxn]

\* Transaction t need not wait for the row.
Free(t, row) == row.lock \in {NoTxn, t}

\* What t reads: its own write if it made one, the committed version otherwise.
View(t, row) == IF row.lock = t THEN row.work ELSE row.val

Write(t, row, v) == [row EXCEPT !.lock = t, !.work = v]

\* SELECT ... FOR UPDATE.
Hold(t, row) == Write(t, row, View(t, row))

CommitRow(t, row) == IF row.lock = t THEN Settled(row.work) ELSE row

RollbackRow(t, row) == IF row.lock = t THEN Settled(row.val) ELSE row

=============================================================================
