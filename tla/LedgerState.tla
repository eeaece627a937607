---------------------------- MODULE LedgerState -----------------------------
(***************************************************************************)
(* The state of the ledgers as clio keeps it in the database: objects by   *)
(* key and ledger, the diff of each ledger, and the successor table, a     *)
(* linked list of the keys that is only written where it changes.  It is   *)
(* filled by loadInitialLedger, extended by buildNextLedger from its cache *)
(* or from the neighbours rippled sends, thinned by doOnlineDelete, and    *)
(* read back by fetchLedgerPage and fetchBookOffers.                       *)
(*                                                                         *)
(* The writes of a ledger are finished before it is committed (AsyncWrites *)
(* and EtlMonitor) and no read looks at a ledger that is not, so a ledger  *)
(* is written in one step.  The contents of the cache are those of the     *)
(* newest ledger (LedgerCache).  Keys are numbers.                         *)
(***************************************************************************)
EXTENDS Integers, FiniteSets, SequencesExt

CONSTANTS
    Key,           \* keys of objects
    Base,          \* the book base: smaller than the keys of its directories
    Dir,           \* directories of the book, keys between Base and BookEnd
    BookEnd,
    Markers,       \* where the ranges of the parallel download begin, 0 included
    MaxLedgers,    \* bound: ledgers after the first
    MaxChanges,    \* bound: objects that one ledger changes
    MaxRange,      \* bound: ledgers in the range before the online delete has run
    NumLedgersToKeep,   \* online_delete
    Ttl            \* default_time_to_live, in ledgers

ASSUME LedgerStateAssumption ==
    /\ IsFiniteSet(Key) /\ Key \subseteq Nat \ {0} /\ Dir \subseteq Key
    /\ Base \in Nat \ Key /\ BookEnd \in Nat
    /\ Dir = {k \in Key : Base < k /\ k < BookEnd}
    /\ \E k \in Key : k >= BookEnd
    /\ 0 \in Markers /\ Markers \subseteq Nat
    /\ {MaxLedgers, MaxChanges, MaxRange, NumLedgersToKeep, Ttl} \subseteq Nat

firstKey == 0
lastKey == Max(Key) + 1
NoKey == -1
None == 0      \* the empty blob: no object; else the ledger that wrote it

VARIABLES
    ledger,        \* what the ledgers really hold: <<ledger 1, ledger 2, ...>>
    minSequence,   \* ledger_range; the newest is Len(ledger)
    objects, successor, diff,   \* tables
    full,          \* the cache is full
    pager          \* a client that pages through one ledger

tables == <<objects, successor, diff>>
vars == <<ledger, minSequence, tables, full, pager>>

maxSequence == Len(ledger)
Live(l) == {k \in Key : l[k] # None}

-----------------------------------------------------------------------------
(* Tables.  A row is the newest written for its primary key, and is gone    *)
(* when it was written more than Ttl ledgers ago.                           *)
ObjectRow(k, seq, blob, at) == [key |-> k, seq |-> seq, object |-> blob, at |-> at]
SuccessorRow(k, seq, next) == [key |-> k, seq |-> seq, next |-> next, at |-> seq]

Insert(rows, new) ==
    {r \in rows : \A n \in new : <<n.key, n.seq>> # <<r.key, r.seq>>} \cup new

Expire(rows, now) == {r \in rows : now - r.at <= Ttl}

(* ... WHERE key = ? AND seq <= ? ORDER BY seq DESC LIMIT 1                 *)
Select(rows, k, seq) ==
    LET found == {r \in rows : r.key = k /\ r.seq <= seq}
    IN  {r \in found : \A other \in found : other.seq <= r.seq}

doFetchSuccessorKey(k, seq) ==
    LET rows == Select(successor, k, seq)
        next == (CHOOSE r \in rows : TRUE).next
    IN  IF rows = {} \/ next = lastKey THEN NoKey ELSE next

doFetchLedgerObject(k, seq) ==
    LET rows == Select(objects, k, seq)
    IN  IF rows = {} THEN None ELSE (CHOOSE r \in rows : TRUE).object

(* The cache answers for the newest ledger.                                 *)
getSuccessor(l, k) == LET above == {j \in Live(l) : j > k}
                      IN  IF above = {} THEN NoKey ELSE Min(above)
getPredecessor(l, k) == LET below == {j \in Live(l) : j < k}
                        IN  IF below = {} THEN NoKey ELSE Max(below)

UsesCache(seq) == full /\ seq = maxSequence

fetchSuccessorKey(k, seq) ==
    IF UsesCache(seq) /\ getSuccessor(ledger[seq], k) # NoKey
    THEN getSuccessor(ledger[seq], k)
    ELSE doFetchSuccessorKey(k, seq)

(* An object of the newest ledger is also that of the ledgers since its last *)
(* change.                                                                   *)
get(k, seq) ==
    LET newest == ledger[maxSequence][k]
    IN  IF full /\ newest # None /\ seq >= newest THEN newest ELSE None

fetchLedgerObject(k, seq) ==
    IF get(k, seq) # None THEN get(k, seq) ELSE doFetchLedgerObject(k, seq)

doFetchLedgerObjects(keys, seq) == [i \in DOMAIN keys |-> doFetchLedgerObject(keys[i], seq)]

(* The elements of s at the positions I: what a loop over s pushes back.    *)
Rank(I, i) == Cardinality({m \in I : m <= i})
Kept(s, I) == [n \in 1 .. Cardinality(I) |-> s[CHOOSE i \in I : Rank(I, i) = n]]

(* What the cache misses is read in one batch and put into the gaps, in order. *)
fetchLedgerObjects(keys, seq) ==
    LET missed == {i \in DOMAIN keys : get(keys[i], seq) = None}
        objs == doFetchLedgerObjects(Kept(keys, missed), seq)
    IN  [i \in DOMAIN keys |-> IF i \in missed THEN objs[Rank(missed, i)] ELSE get(keys[i], seq)]

(* The keys of a ledger's diff, with what the ledger made of them.          *)
DiffKeys(seq) == SetToSeq({d.key : d \in {d \in diff : d.seq = seq}})

Paired(keys, objs) == {[key |-> keys[i], object |-> objs[i]] : i \in DOMAIN keys}

\* Mutant: objects that the ledger deleted are left out.
fetchLedgerDiff_NoDeleted(seq) ==
    {d \in Paired(DiffKeys(seq), fetchLedgerObjects(DiffKeys(seq), seq)) : d.object # None}

fetchLedgerDiff(seq) == Paired(DiffKeys(seq), fetchLedgerObjects(DiffKeys(seq), seq))

-----------------------------------------------------------------------------
(* Reads.                                                                   *)

(* The keys that follow k, limit of them, or fewer if the last has no       *)
(* successor.                                                               *)
Position == Key \cup {firstKey, Base}

Walk(next, k, limit) ==
    LET keys[n \in 0 .. limit] ==
            IF n = 0 THEN << >>
            ELSE LET found == keys[n - 1]
                     succ == next[IF found = << >> THEN k ELSE found[Len(found)]]
                 IN  IF Len(found) < n - 1 \/ succ = NoKey THEN found ELSE Append(found, succ)
    IN  keys[limit]

Keys(k, seq, limit) == Walk([j \in Position |-> fetchSuccessorKey(j, seq)], k, limit)

\* Mutant: the page ends before the key the next one starts after.
fetchLedgerPage_Short(cursor, seq, limit) ==
    LET keys == Keys(cursor, seq, limit)
    IN  [objects |-> IF Len(keys) = limit THEN Front(keys) ELSE keys,
         cursor |-> IF Len(keys) = limit THEN keys[limit] ELSE NoKey]

\* Mutant: a full page is followed by itself.
fetchLedgerPage_Again(cursor, seq, limit) ==
    LET keys == Keys(cursor, seq, limit)
    IN  [objects |-> keys, cursor |-> IF Len(keys) = limit THEN cursor ELSE NoKey]

fetchLedgerPage(cursor, seq, limit) ==
    LET keys == Keys(cursor, seq, limit)
        objs == fetchLedgerObjects(keys, seq)
    IN  [objects |-> Kept(keys, {i \in DOMAIN keys : objs[i] # None}),
         cursor |-> IF Len(keys) = limit THEN keys[limit] ELSE NoKey]

(* The directories that fetchBookOffers visits: successors of the tip until *)
(* the end of the book; the offers of each are in its pages.                *)
fetchBookOffers(seq) ==
    LET within(k) == IF k >= BookEnd THEN NoKey ELSE k
    IN  Walk([j \in Position |-> within(fetchSuccessorKey(j, seq))], Base, Cardinality(Dir) + 1)

-----------------------------------------------------------------------------
(* The first ledger.                                                        *)

(* Each AsyncCallData writes the successors within its range; the edges,    *)
(* the first and the last key follow when all are done.                     *)
RangeOf(k) == Max({m \in Markers : m <= k})

EdgeKeys(l) == {k \in Live(l) : \A j \in Live(l) : RangeOf(j) = RangeOf(k) => j <= k}

(* "make sure the base is not an actual object": the test is of the         *)
(* directory, which is one, so nothing is written for the base.             *)
BookSuccessors(l, seq) ==
    {SuccessorRow(Base, seq, k) : k \in {d \in Dir : l[d] # None /\ l[d] = None
                                                     /\ getSuccessor(l, Base) = d}}

InitialSuccessors(l, seq) ==
    LET within == {SuccessorRow(k, seq, getSuccessor(l, k)) : k \in Live(l) \ EdgeKeys(l)}
        edges == {SuccessorRow(k, seq, getSuccessor(l, k)) :
                  k \in {e \in EdgeKeys(l) : getSuccessor(l, e) # NoKey}}
        ends == {SuccessorRow(firstKey, seq, Min(Live(l))),
                 SuccessorRow(Max(Live(l)), seq, lastKey)}
    IN  within \cup edges \cup ends \cup BookSuccessors(l, seq)

-----------------------------------------------------------------------------
(* The next ledger.                                                         *)

OrLast(k) == IF k = NoKey THEN lastKey ELSE k
OrFirst(k) == IF k = NoKey THEN firstKey ELSE k

Created(old, new) == {k \in Key : old[k] = None /\ new[k] # None}
Deleted(old, new) == {k \in Key : old[k] # None /\ new[k] = None}

\* Mutant: the links of a deleted object are left as they are.
LinkRows_NotDeleted(old, new, seq) ==
    {SuccessorRow(OrFirst(getPredecessor(new, k)), seq, k) : k \in Created(old, new)} \cup
    {SuccessorRow(k, seq, OrLast(getSuccessor(new, k))) : k \in Created(old, new)}

\* Mutant: a new object is linked the wrong way round.
LinkRows_Swapped(old, new, seq) ==
    {SuccessorRow(k, seq, OrFirst(getPredecessor(new, k))) : k \in Created(old, new)} \cup
    {SuccessorRow(OrFirst(getPredecessor(new, k)), seq, OrLast(getSuccessor(new, k))) :
     k \in Deleted(old, new)}

(* Objects that come and go change the links to their neighbours in the new *)
(* ledger; modified ones change none.  rippled sends the neighbours, or the *)
(* updated cache is asked: the rows are the same.                           *)
LinkRows(old, new, seq) ==
    LET before(k) == OrFirst(getPredecessor(new, k))
        after(k) == OrLast(getSuccessor(new, k))
    IN  {SuccessorRow(before(k), seq, after(k)) : k \in Deleted(old, new)} \cup
        {SuccessorRow(before(k), seq, k) : k \in Created(old, new)} \cup
        {SuccessorRow(k, seq, after(k)) : k \in Created(old, new)}

\* Mutant: a directory before the first one is overlooked.
BookRows_OnlyDeleted(old, new, seq) ==
    IF getSuccessor(old, Base) \in Deleted(old, new) \cap Dir
    THEN {SuccessorRow(Base, seq, OrLast(getSuccessor(new, Base)))}
    ELSE {}

(* The successor of a book base changes with its first directory.           *)
BookRows(old, new, seq) ==
    LET oldFirst == getSuccessor(old, Base)
        recalculate == \/ oldFirst \in Deleted(old, new) \cap Dir
                       \/ \E k \in Created(old, new) \cap Dir : k < oldFirst
    IN  IF recalculate THEN {SuccessorRow(Base, seq, OrLast(getSuccessor(new, Base)))} ELSE {}

Change(l, created, changed, seq) ==
    [k \in Key |-> CASE k \in created -> IF l[k] = None THEN seq ELSE None
                     [] k \in changed -> seq
                     [] OTHER -> l[k]]

(* One key beyond the book always exists, as in any real ledger.            *)
CanChange == Key \ {Max(Key)}

BuildNextLedger ==
    /\ maxSequence <= MaxLedgers /\ maxSequence - minSequence < MaxRange
    /\ \E toggled \in SUBSET CanChange :
       \E modified \in SUBSET (Live(ledger[maxSequence]) \ toggled) :
         /\ Cardinality(toggled \cup modified) \in 1 .. MaxChanges
         /\ LET seq == maxSequence + 1
                old == ledger[maxSequence]
                new == Change(old, toggled, modified, seq)
                changed == toggled \cup modified
            IN  /\ ledger' = Append(ledger, new)
                /\ objects' = Insert(Expire(objects, seq),
                                     {ObjectRow(k, seq, new[k], seq) : k \in changed})
                /\ successor' = Insert(Expire(successor, seq),
                                       LinkRows(old, new, seq) \cup BookRows(old, new, seq))
                /\ diff' = diff \cup {[seq |-> seq, key |-> k] : k \in changed}
    /\ UNCHANGED <<minSequence, full, pager>>

(* clio starts again, and later its cache is loaded again.                  *)
Restart == full /\ full' = FALSE /\ UNCHANGED <<ledger, minSequence, tables, pager>>

CacheLoaded == ~full /\ full' = TRUE /\ UNCHANGED <<ledger, minSequence, tables, pager>>

\* Mutant: the newest version of each object is written to the oldest ledger.
OnlineDelete_Newest ==
    /\ maxSequence - minSequence > NumLedgersToKeep
    /\ LET minLedger == maxSequence - NumLedgersToKeep
           page == fetchLedgerPage(firstKey, minLedger, Cardinality(Key) + 1)
       IN  /\ minLedger > minSequence
           /\ objects' = Insert(objects,
                  {ObjectRow(page.objects[i], minLedger,
                             fetchLedgerObject(page.objects[i], maxSequence), maxSequence) :
                   i \in DOMAIN page.objects})
           /\ minSequence' = minLedger
    /\ UNCHANGED <<ledger, successor, diff, full, pager>>

(* doOnlineDelete: the objects of the oldest ledger to keep are written     *)
(* again, page by page, and the range begins there.                         *)
OnlineDelete ==
    /\ maxSequence - minSequence > NumLedgersToKeep
    /\ LET minLedger == maxSequence - NumLedgersToKeep
           page == fetchLedgerPage(firstKey, minLedger, Cardinality(Key) + 1)
       IN  /\ minLedger > minSequence
           /\ objects' = Insert(objects,
                  {ObjectRow(page.objects[i], minLedger,
                             fetchLedgerObject(page.objects[i], minLedger), maxSequence) :
                   i \in DOMAIN page.objects})
           /\ minSequence' = minLedger
    /\ UNCHANGED <<ledger, successor, diff, full, pager>>

-----------------------------------------------------------------------------
(* A client pages through a ledger with the markers it is given.            *)
Ascending(s) == \A i, j \in DOMAIN s : i < j => s[i] < s[j]

NoPager == [seq |-> 0, cursor |-> NoKey, got |-> {}, inOrder |-> TRUE]

PageLimit == 2

BeginPaging ==
    /\ pager = NoPager
    /\ \E seq \in minSequence .. maxSequence :
          pager' = [seq |-> seq, cursor |-> firstKey, got |-> {}, inOrder |-> TRUE]
    /\ UNCHANGED <<ledger, minSequence, tables, full>>

Page ==
    /\ pager.cursor # NoKey
    /\ \E page \in {fetchLedgerPage(pager.cursor, pager.seq, PageLimit)} :
       LET keys == ToSet(page.objects)
       IN  pager' = [pager EXCEPT !.cursor = page.cursor, !.got = @ \cup keys,
                                  !.inOrder = /\ @ /\ Ascending(page.objects)
                                              /\ \A old \in pager.got, k \in keys : old < k]
    /\ UNCHANGED <<ledger, minSequence, tables, full>>

PagingDone ==
    /\ pager # NoPager /\ pager.cursor = NoKey
    /\ pager' = NoPager
    /\ UNCHANGED <<ledger, minSequence, tables, full>>

-----------------------------------------------------------------------------
Init ==
    /\ \E live \in SUBSET CanChange :
       LET l == [k \in Key |-> IF k \in live \cup {Max(Key)} THEN 1 ELSE None]
       IN  /\ ledger = <<l>>
           /\ objects = {ObjectRow(k, 1, 1, 1) : k \in Live(l)}
           /\ successor = InitialSuccessors(l, 1)
    /\ minSequence = 1
    /\ diff = {}
    /\ full = TRUE
    /\ pager = NoPager

Next ==
    \/ BuildNextLedger \/ OnlineDelete
    \/ Restart \/ CacheLoaded
    \/ BeginPaging \/ Page \/ PagingDone

Spec == Init /\ [][Next]_vars

-----------------------------------------------------------------------------
(* The links of the successor table lead to larger keys, the range is one    *)
(* of ledgers that exist, and so are the writers of objects.                *)
TypeOK ==
    /\ \A i \in DOMAIN ledger : ledger[i] \in [Key -> 0 .. MaxLedgers + 1]
    /\ minSequence \in 1 .. maxSequence
    /\ \A r \in objects : r.key \in Key /\ r.object \in 0 .. maxSequence
    /\ \A r \in successor : r.next \in Key \cup {lastKey} /\ r.key < r.next

Chain(seq) ==
    Walk([j \in Position |-> doFetchSuccessorKey(j, seq)], firstKey, Cardinality(Key) + 1)

(* In every ledger of the range the successor table, followed from firstKey, *)
(* lists exactly the objects of the ledger, in order: whatever was created   *)
(* and deleted since, in one ledger or several, only the links that          *)
(* loadInitialLedger and buildNextLedger wrote are there.                    *)
ChainIsLedger ==
    \A seq \in minSequence .. maxSequence :
        Ascending(Chain(seq)) /\ ToSet(Chain(seq)) = Live(ledger[seq])

(* doFetchLedgerObject answers for every ledger of the range what the ledger *)
(* held, also after doOnlineDelete has written the oldest again.             *)
ObjectsAreLedger ==
    \A seq \in minSequence .. maxSequence : \A k \in Key :
        doFetchLedgerObject(k, seq) = ledger[seq][k]

(* fetchLedgerDiff, from which another clio updates its cache, is exactly    *)
(* the difference of two ledgers, deletions included.                        *)
DiffIsDifference ==
    \A seq \in 2 .. maxSequence : seq >= minSequence =>
        fetchLedgerDiff(seq) = {[key |-> k, object |-> ledger[seq][k]] :
                                k \in {j \in Key : ledger[seq][j] # ledger[seq - 1][j]}}

(* A client that follows the cursors of fetchLedgerPage through one ledger   *)
(* gets each of its objects once and in order, and nothing else, while newer *)
(* ledgers arrive, the cache comes and goes between two pages and older      *)
(* ledgers are deleted; with the last page it has them all.                  *)
PagedAll ==
    pager # NoPager =>
        /\ pager.inOrder /\ pager.got \subseteq Live(ledger[pager.seq])
        /\ pager.cursor = NoKey => pager.got = Live(ledger[pager.seq])

(* Once the base of a book has a successor, fetchBookOffers visits exactly   *)
(* the directories of the book, best first.                                  *)
BookIsLedger ==
    \A seq \in minSequence .. maxSequence :
        \/ \A r \in successor : r.key = Base => r.seq > seq
        \/ LET dirs == fetchBookOffers(seq)
           IN  Ascending(dirs) /\ ToSet(dirs) = Live(ledger[seq]) \cap Dir

(* The rows of the database stand for the ledgers of the range: an object   *)
(* is what the ledger held, a diff is the difference of two ledgers, and    *)
(* links only ever lead to larger keys.                                     *)
RowsAreLedger == TypeOK /\ ObjectsAreLedger /\ DiffIsDifference

(* The links of the successor table, which are written only where a ledger  *)
(* changes them, list the whole of each ledger and the whole of each book.  *)
LinksAreLedger == ChainIsLedger /\ BookIsLedger

(* "to prevent unchanging records from being deleted" (doOnlineDelete): when *)
(* the online delete runs in time, within the MaxRange of the cfg, what the  *)
(* ledgers of the range hold does not expire.                                *)
UnchangedSurvives == ObjectsAreLedger /\ ChainIsLedger
=============================================================================
