----------------------------- MODULE SimpleCache -----------------------------
(***************************************************************************)
(* Backend::SimpleCache as operators on a record: the objects of the       *)
(* latest ledger by key, the sequence of that ledger, whether the cache    *)
(* holds all of them, and the keys deleted while it was being filled.      *)
(* Keys are numbers, for their order.  A blob is the version of an object, *)
(* 0 if there is no object.  The hit counters are left out.                *)
(***************************************************************************)
EXTENDS Integers, FiniteSets

CONSTANT Key

ASSUME KeyAssumption == Key \subseteq Nat \ {0} /\ IsFiniteSet(Key)

Absent == 0

NoKey == 0

Entry == [seq : Nat, blob : Nat]

NoEntry == [seq |-> 0, blob |-> Absent]

Cache == [map : [Key -> Entry], latestSeq : Nat, full : BOOLEAN,
          disabled : BOOLEAN, deletes : SUBSET Key]

EmptyCache == [map |-> [k \in Key |-> NoEntry], latestSeq |-> 0, full |-> FALSE,
               disabled |-> FALSE, deletes |-> {}]

Held(c) == {k \in Key : c.map[k] # NoEntry}

First(S) == IF S = {} THEN NoKey ELSE CHOOSE k \in S : \A j \in S : k <= j

Last(S) == IF S = {} THEN NoKey ELSE CHOOSE k \in S : \A j \in S : j <= k

-----------------------------------------------------------------------------
\* Mutant: data of the background load is kept although the object is gone.
Update_NoDeletes(c, objs, seq, isBackground) ==
    LET erased == {k \in DOMAIN objs : objs[k] = Absent}
        stored == {k \in DOMAIN objs \ erased : seq > c.map[k].seq}
    IN  [c EXCEPT
           !.latestSeq = IF seq > @ THEN seq ELSE @,
           !.map = [k \in Key |-> IF k \in erased THEN NoEntry
                                  ELSE IF k \in stored THEN [seq |-> seq, blob |-> objs[k]]
                                  ELSE @[k]]]

(* objs maps the keys of the update to their new blobs.                     *)
Update(c, objs, seq, isBackground) ==
    LET erased == {k \in DOMAIN objs : objs[k] = Absent}
        stored == {k \in DOMAIN objs \ erased :
                      /\ ~(isBackground /\ k \in c.deletes)
                      /\ seq > c.map[k].seq}
    IN  IF c.disabled THEN c
        ELSE [c EXCEPT
                !.latestSeq = IF seq > @ THEN seq ELSE @,
                !.map = [k \in Key |->
                            IF k \in erased THEN NoEntry
                            ELSE IF k \in stored THEN [seq |-> seq, blob |-> objs[k]]
                            ELSE @[k]],
                !.deletes = IF c.full \/ isBackground THEN @ ELSE @ \cup erased]

SetFull(c) == IF c.disabled THEN c ELSE [c EXCEPT !.full = TRUE, !.deletes = {}]

SetDisabled(c) == [c EXCEPT !.disabled = TRUE]

(* Absent stands for the empty optional, which sends the reader to the      *)
(* database.                                                                *)
Get(c, key, seq) ==
    IF seq > c.latestSeq \/ seq < c.map[key].seq THEN Absent ELSE c.map[key].blob

GetSuccessor(c, key, seq) ==
    IF ~c.full \/ seq # c.latestSeq THEN NoKey ELSE First({k \in Held(c) : k > key})

GetPredecessor(c, key, seq) ==
    IF ~c.full \/ seq # c.latestSeq THEN NoKey ELSE Last({k \in Held(c) : k < key})

=============================================================================
