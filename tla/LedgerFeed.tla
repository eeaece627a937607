----------------------------- MODULE LedgerFeed -----------------------------
(***************************************************************************)
(* What the ETL process promises to its subscribers: the database grows by *)
(* one ledger at a time, whoever writes it, and from the ledger it starts  *)
(* with the process sends each ledger of the database at most once, in     *)
(* whatever order its two publishing threads come.                         *)
(***************************************************************************)
EXTENDS Integers, Sequences

VARIABLES
    committed,   \* the newest ledger of the database, 0 if it is empty
    start,       \* the first ledger to send, 0 before it is known
    feed         \* the ledgers that were sent

vars == <<committed, start, feed>>

Init == committed \in Nat /\ start = 0 /\ feed = << >>

(* An empty database begins with any ledger, and the process with it.       *)
Load == committed = 0 /\ start = 0 /\ committed' \in Nat \ {0} /\ start' = committed' + 1

Start == start = 0 /\ committed # 0 /\ start' = committed + 1 /\ UNCHANGED committed

Commit == committed # 0 /\ committed' = committed + 1 /\ UNCHANGED start

Send ==
    /\ start # 0
    /\ \E seq \in start .. committed :
          /\ \A i \in DOMAIN feed : feed[i] # seq
          /\ feed' = Append(feed, seq)
    /\ UNCHANGED <<committed, start>>

Next ==
    \/ (Load \/ Start \/ Commit) /\ UNCHANGED feed
    \/ Send

Spec == Init /\ [][Next]_vars

=============================================================================
