------------------------------ MODULE JobLedger ------------------------------
(***************************************************************************)
(* What the crawl_jobs queue promises for each job, without workers,       *)
(* leases or clocks: a submitted job is run a bounded number of times, ends*)
(* once, as succeeded or as a dead letter, and is given up only after its  *)
(* last attempt.  JobQueue implements it.                                  *)
(***************************************************************************)
EXTENDS Naturals

CONSTANTS
    Jobs,       \* job identities
    MaxAttempts \* how often a job is run at most

VARIABLE ledger \* the phase of each job and the number of its runs

Phase == {"none", "queued", "leased", "succeeded", "dead_letter"}

Unknown == [phase |-> "none", attempts |-> 0]

Init == ledger = [j \in Jobs |-> Unknown]

\* How one job may change.
Submitted(old, new) ==
    old = Unknown /\ new = [phase |-> "queued", attempts |-> 0]

Run(old, new) ==
    /\ old.phase = "queued"
    /\ old.attempts < MaxAttempts
    /\ new = [phase |-> "leased", attempts |-> old.attempts + 1]

Succeeded(old, new) ==
    old.phase = "leased" /\ new = [old EXCEPT !.phase = "succeeded"]

PutBack(old, new) ==
    /\ old.phase = "leased"
    /\ old.attempts < MaxAttempts
    /\ new = [old EXCEPT !.phase = "queued"]

GivenUp(old, new) ==
    /\ old.phase = "leased"
    /\ old.attempts = MaxAttempts
    /\ new = [old EXCEPT !.phase = "dead_letter"]

Moves(old, new) ==
    \/ Submitted(old, new) \/ Run(old, new) \/ Succeeded(old, new)
    \/ PutBack(old, new) \/ GivenUp(old, new)

\* Several jobs may change in one transaction.
Next ==
    /\ \A j \in Jobs : ledger'[j] = ledger[j] \/ Moves(ledger[j], ledger'[j])
    /\ ledger' = [j \in Jobs |-> ledger'[j]]

Spec == Init /\ [][Next]_ledger

=============================================================================
