----------------------------- MODULE TxHistory ------------------------------
(***************************************************************************)
(* Transactions as clients see them while the next ledger is written: the  *)
(* rows of its transactions and of the histories of accounts and tokens    *)
(* (insertTransactions, writeTransaction, writeAccountTransactions,        *)
(* writeNFTTransactions) arrive in any order before it is committed, and a *)
(* request reads the range first and the tables later, in several reads.   *)
(*                                                                         *)
(* account_tx and nft_history page through the history of one key, an      *)
(* account or a token, with traverseTransactions; tx, transaction_entry    *)
(* and ledger look up a transaction or the transactions of a ledger.       *)
(***************************************************************************)
EXTENDS RpcHelpers

CONSTANTS
    FirstMax,      \* the newest ledger at the start
    MaxSequence,   \* bound: the last ledger that is written
    MinSequence,   \* the oldest ledger of the range; older rows may remain
    Contents,      \* which of the two transactions of a ledger touch the key
    HistoryRequests    \* bound: the forms of the requests for a history

ASSUME TxHistoryAssumption ==
    /\ 1 <= MinSequence /\ MinSequence <= FirstMax /\ FirstMax < MaxSequence
    /\ MaxSequence <= 4
    /\ Contents \subseteq SUBSET {0, 1}

VARIABLES
    chain,         \* chain[seq]: the indices of the transactions that touch the key
    max,           \* range->maxSequence
    unwritten,     \* rows of ledger max + 1 that the database does not have yet
    client         \* the request in progress and what its client has collected

vars == <<chain, max, unwritten, client>>

Ledgers == 1 .. MaxSequence
Tx(seq, index) == [ledger |-> seq, index |-> index]

-----------------------------------------------------------------------------
(* The rows of a ledger.  Its header and its ledger_transactions rows, which *)
(* nothing reads before the ledger is committed, count as one.              *)
LedgerRow == <<"ledger", 0>>
TxRow(index) == <<"transactions", index>>
HistoryRow(index) == <<"history", index>>

\* Mutant: transactions are numbered from one.
insertTransactions_FromOne(seq) ==
    {LedgerRow} \cup {TxRow(i) : i \in {1, 2}} \cup {HistoryRow(i + 1) : i \in chain[seq]}

insertTransactions(seq) ==
    {LedgerRow} \cup {TxRow(i) : i \in {0, 1}} \cup {HistoryRow(i) : i \in chain[seq]}

Has(seq, row) == seq <= max \/ (seq = max + 1 /\ seq <= MaxSequence /\ row \notin unwritten)

Write ==
    /\ \E row \in unwritten : unwritten' = unwritten \ {row}
    /\ UNCHANGED <<chain, max, client>>

(* finishWrites; then the range of this process follows.                    *)
Commit ==
    /\ max < MaxSequence /\ unwritten = {}
    /\ max' = max + 1
    /\ unwritten' = IF max + 2 <= MaxSequence THEN insertTransactions(max + 2) ELSE {}
    /\ UNCHANGED <<chain, client>>

Headers == {seq \in Ledgers : Has(seq, LedgerRow)}

-----------------------------------------------------------------------------
(* Reads.                                                                   *)
Before(a, b) == a.ledger < b.ledger \/ (a.ledger = b.ledger /\ a.index < b.index)

AllTxs == [n \in 1 .. 2 * MaxSequence |-> Tx((n + 1) \div 2, (n + 1) % 2)]

(* The transactions of the history with a property, in order.               *)
InOrder(Test(_), forward) ==
    LET txs == SelectSeq(AllTxs, LAMBDA tx : tx.index \in chain[tx.ledger] /\ Test(tx))
    IN  IF forward THEN txs ELSE Reverse(txs)

HasRow(tx) == Has(tx.ledger, HistoryRow(tx.index))

Prefix(s, n) == SubSeq(s, 1, IF n < Len(s) THEN n ELSE Len(s))

\* Mutant: the forward query starts after the cursor, like the reverse one.
SelectHistory_After(forward, cursor, limit) ==
    Prefix(InOrder(LAMBDA tx : /\ HasRow(tx)
                               /\ IF forward THEN Before(cursor, tx) ELSE Before(tx, cursor),
                   forward), limit)

(* ... seq_idx >= ? ORDER BY seq_idx ASC LIMIT ?,                           *)
(* ... seq_idx < ? ORDER BY seq_idx DESC LIMIT ?                            *)
SelectHistory(forward, cursor, limit) ==
    Prefix(InOrder(LAMBDA tx : /\ HasRow(tx)
                               /\ IF forward THEN ~Before(tx, cursor) ELSE Before(tx, cursor),
                   forward), limit)

(* A transaction that is not there leaves a default-constructed result, of  *)
(* ledger 0.                                                                *)
Blank == Tx(0, 0)

fetchTransaction(tx) == IF Has(tx.ledger, TxRow(tx.index)) THEN tx ELSE Blank

fetchTransactions(hashes) == [i \in DOMAIN hashes |-> fetchTransaction(hashes[i])]

fetchAllTransactionHashesInLedger(seq) ==
    IF Has(seq, LedgerRow) THEN <<Tx(seq, 0), Tx(seq, 1)>> ELSE << >>

\* Mutant: the forward cursor stays on the last row.
RetCursor_Stay(hashes, forward, limit) ==
    IF hashes # << >> /\ Len(hashes) = limit THEN {hashes[Len(hashes)]} ELSE {}

(* The cursor of fetchAccountTransactions and fetchNFTTransactions: where   *)
(* the last row was, or just after it, if there may be more.                *)
RetCursor(hashes, forward, limit) ==
    IF hashes = << >> \/ Len(hashes) # limit THEN {}
    ELSE LET last == hashes[Len(hashes)]
         IN  {IF forward THEN [last EXCEPT !.index = @ + 1] ELSE last}

-----------------------------------------------------------------------------
(* traverseTransactions.                                                    *)
MaxTxIndex == 99    \* INT32_MAX

MarkerOk(p) ==
    contains(p, "marker") =>
        /\ Is(p, "marker", "object")
        /\ \A f \in {"ledger", "seq"} : Is(p["marker"].object, f, "int")

Bound(p, f, default) == IF contains(p, f) /\ p[f].int # -1 THEN p[f].int ELSE default
InRange(p, f, ctx) == contains(p, f) /\ p[f].int # -1 => p[f].int \in ctx.min .. ctx.max

BySpecifier(p) == contains(p, "ledger_index") \/ contains(p, "ledger_hash")

traverseStatus(method, p, ctx) ==
    LET min == Bound(p, "ledger_index_min", ctx.min)
        hi == Bound(p, "ledger_index_max", ctx.max)
        both == contains(p, "ledger_index_min") /\ contains(p, "ledger_index_max")
    IN  First(<< getBool(p, "binary"), getBool(p, "forward"),
                 Check(MarkerOk(p), "invalidParams"),
                 getUInt(p, "ledger_index_min"),
                 Check(InRange(p, "ledger_index_min", ctx), "lgrIdxMalformed"),
                 getUInt(p, "ledger_index_max"),
                 Check(InRange(p, "ledger_index_max", ctx), "lgrIdxsInvalid"),
                 Check(contains(p, "ledger_index_max") => min <= hi, "invalidParams"),
                 Check(both => p["ledger_index_min"].int <= p["ledger_index_max"].int,
                       "lgrIdxsInvalid"),
                 Check(BySpecifier(p) => ~(contains(p, "ledger_index_min")
                                           \/ contains(p, "ledger_index_max")), "invalidParams"),
                 IF BySpecifier(p) THEN ledgerInfoFromRequest(p, ctx) ELSE OK,
                 getLimit(method, p) >>)

MinIndex(p, ctx) == IF BySpecifier(p) THEN LedgerSeq(p, ctx)
                    ELSE Bound(p, "ledger_index_min", ctx.min)
MaxIndex(p, ctx) == IF BySpecifier(p) THEN LedgerSeq(p, ctx)
                    ELSE Bound(p, "ledger_index_max", ctx.max)

Cursor(p, lo, hi) ==
    CASE contains(p, "marker") -> Tx(p["marker"].object["ledger"].int, p["marker"].object["seq"].int)
      [] boolOr(p, "forward", FALSE) -> Tx(lo, 0)
      [] OTHER -> Tx(hi, MaxTxIndex)

\* Mutant: going back, transactions older than the range are skipped.
traverseTransactions_Skip(p, lo, hi, blobs, retCursor) ==
    [status |-> OK, marker |-> {},
     transactions |-> SelectSeq(blobs, LAMBDA tx : tx.ledger \in lo .. hi)]

(* The transactions up to the first that is beyond the range, whose marker  *)
(* is dropped with it; going back, those of an incomplete ledger are        *)
(* skipped.  Expanding a blank one throws.                                  *)
traverseTransactions(p, lo, hi, blobs, retCursor) ==
    LET forward == boolOr(p, "forward", FALSE)
        Beyond(tx) == IF forward THEN tx.ledger > hi ELSE tx.ledger < lo
        stop == {i \in DOMAIN blobs : Beyond(blobs[i])}
        kept == IF stop = {} THEN blobs ELSE SubSeq(blobs, 1, Min(stop) - 1)
        txns == SelectSeq(kept, LAMBDA tx : forward \/ tx.ledger <= hi)
    IN  IF ~boolOr(p, "binary", FALSE) /\ Blank \in ToSet(txns)
        THEN [status |-> "internal", transactions |-> << >>, marker |-> {}]
        ELSE [status |-> OK, transactions |-> txns,
              marker |-> IF stop = {} THEN retCursor ELSE {}]

-----------------------------------------------------------------------------
(* Clients.  stage: "idle", "begun" (the range was read), "rows" (the rows   *)
(* of the history were read), "page" (a page with a marker was returned),   *)
(* "done".                                                                  *)
Idle == [stage |-> "idle"]

Context == [min |-> MinSequence, max |-> max, headers |-> Headers]

HistoryMethods == {"account_tx", "nft_history"}

ForwardOf(p) == boolOr(p, "forward", FALSE)
MarkerJson(cursor) == Obj("ledger" :> Num(cursor.ledger) @@ "seq" :> Num(cursor.index))

(* The check of doAccountTx and of doNFTHistory before they traverse.       *)
KeyStatus(method, p) ==
    IF method = "account_tx" THEN getAccount(p, "account", TRUE) ELSE getNFTID(p)

BeginHistory ==
    /\ client = Idle
    /\ \E method \in HistoryMethods, p \in HistoryRequests :
       LET status == First(<<KeyStatus(method, p), traverseStatus(method, p, Context)>>)
       IN  client' = [stage |-> IF status = OK THEN "begun" ELSE "done", method |-> method, p |-> p,
                      first |-> max, got |-> << >>, status |-> status,
                      min |-> IF status = OK THEN MinIndex(p, Context) ELSE 0,
                      max |-> IF status = OK THEN MaxIndex(p, Context) ELSE 0]
    /\ UNCHANGED <<chain, max, unwritten>>

(* fetchAccountTransactions or fetchNFTTransactions, up to the rows.        *)
ReadHistory ==
    /\ client.stage = "begun" /\ client.method \in HistoryMethods
    /\ LET p == client.p
       IN  client' = [client EXCEPT !.stage = "rows"] @@
                     "hashes" :> SelectHistory(ForwardOf(p), Cursor(p, client.min, client.max),
                                               Limit(client.method, p))
    /\ UNCHANGED <<chain, max, unwritten>>

(* The rest of the fetch, and the response.                                 *)
ReadTransactions ==
    /\ client.stage = "rows"
    /\ LET p == client.p
           r == traverseTransactions(p, client.min, client.max, fetchTransactions(client.hashes),
                    RetCursor(client.hashes, ForwardOf(p), Limit(client.method, p)))
           rest == [f \in DOMAIN client \ {"hashes"} |-> client[f]]
       IN  client' = [rest EXCEPT
               !.stage = IF r.marker = {} THEN "done" ELSE "page",
               !.status = r.status,
               !.got = @ \o r.transactions,
               !.p = IF r.marker = {} THEN @
                     ELSE "marker" :> MarkerJson(CHOOSE c \in r.marker : TRUE) @@ @]
    /\ UNCHANGED <<chain, max, unwritten>>

(* A read that times out is an error (rpcTOO_BUSY): the client asks again.  *)
ReadTimesOut ==
    /\ client.stage = "rows"
    /\ client' = [f \in DOMAIN client \ {"hashes"} |->
                     IF f = "stage" THEN "page" ELSE client[f]]
    /\ UNCHANGED <<chain, max, unwritten>>

(* The next page, with a new context.  A bound of the client stays what it  *)
(* is, a default one moves with the range.                                  *)
NextPage ==
    /\ client.stage = "page"
    /\ client' = [client EXCEPT !.stage = "begun", !.max = MaxIndex(client.p, Context),
                                !.first = IF contains(client.p, "marker") THEN @ ELSE max]
    /\ UNCHANGED <<chain, max, unwritten>>

(* tx: the range is read, then the transaction.                             *)
TxStatus(p) ==
    LET both == contains(p, "min_ledger") /\ contains(p, "max_ledger")
        width == p["max_ledger"].int - p["min_ledger"].int
    IN  First(<< getRequiredString(p, "transaction"),
                 Check(parseHex(Word(p, "transaction")), "invalidParams"),
                 getBool(p, "binary"), getUInt(p, "min_ledger"), getUInt(p, "max_ledger"),
                 Check(both => width >= 0, "invalidLgrRange"),
                 Check(both => width <= 1000, "excessiveLgrRange") >>)

HashOfTx == [tx \in [ledger : Ledgers, index : {0}] |-> <<"h1", "h2", "h3", "h4">>[tx.ledger]]
TxOfHash(hash) == {tx \in DOMAIN HashOfTx : HashOfTx[tx] = hash}

Lookup(hash) == {tx \in TxOfHash(hash) : fetchTransaction(tx) # Blank}

TxRequests ==
    {"transaction" :> Str(h) @@ more :
        h \in {"h2", "h3", "h9", "junk"},
        more \in {<< >>, "binary" :> Bool(TRUE), "binary" :> Num(1)} \cup
                 {"min_ledger" :> Num(lo) @@ "max_ledger" :> Num(hi) :
                      lo \in {1, 2, 3}, hi \in {2, 3, 2000}}}

BeginTx ==
    /\ client = Idle
    /\ \E p \in TxRequests :
       client' = [stage |-> IF TxStatus(p) = OK THEN "begun" ELSE "done", method |-> "tx",
                  p |-> p, range |-> [min |-> MinSequence, max |-> max],
                  status |-> TxStatus(p), searchedAll |-> FALSE]
    /\ UNCHANGED <<chain, max, unwritten>>

SearchedAll(p, range) ==
    /\ contains(p, "min_ledger") /\ contains(p, "max_ledger")
    /\ range.max >= p["max_ledger"].int /\ range.min <= p["min_ledger"].int

\* Mutant: the range is read after the transaction was not found, as in the
\* TxHandler of ngHandlers.
doTx_RangeLast ==
    /\ client.stage = "begun" /\ client.method = "tx"
    /\ LET found == Lookup(client.p["transaction"].string) # {}
       IN  client' =
            IF ~found /\ client.range.max # 0 THEN [client EXCEPT !.range.max = 0]
            ELSE [client EXCEPT
                     !.stage = "done",
                     !.status = IF client.range.max # 0 THEN OK ELSE "txnNotFound",
                     !.searchedAll = client.range.max = 0 /\ SearchedAll(client.p, Context)]
    /\ UNCHANGED <<chain, max, unwritten>>

doTx ==
    /\ client.stage = "begun" /\ client.method = "tx"
    /\ LET tx == Lookup(client.p["transaction"].string)
       IN  client' = [client EXCEPT
               !.stage = "done",
               !.status = IF tx = {} THEN "txnNotFound" ELSE OK,
               !.searchedAll = tx = {} /\ SearchedAll(client.p, client.range)]
    /\ UNCHANGED <<chain, max, unwritten>>

EntryRequests ==
    {"tx_hash" :> Str(h) @@ more :
        h \in {"h2", "h3", "h4", "junk"},
        more \in {<< >>, "ledger_hash" :> Str("L3"), "ledger_hash" :> Str("junk")} \cup
                 {"ledger_index" :> Num(seq) : seq \in {2, 3, 4}}}

(* transaction_entry and ledger: the header first, then the transactions.   *)
LedgerRequests ==
    {"transactions" :> Bool(TRUE) @@ "expand" :> Bool(e) @@ more :
        e \in BOOLEAN,
        more \in {<< >>, "full" :> Bool(TRUE), "accounts" :> Bool(TRUE), "diff" :> Num(1)} \cup
                 {"ledger_index" :> Num(seq) : seq \in {2, 3, 4}}}

LedgerStatus(p, ctx) ==
    First(<< getBool(p, "binary"), getBool(p, "transactions"), getBool(p, "expand"),
             getBool(p, "diff"),
             Check(~contains(p, "full"), "notSupported"),
             Check(~contains(p, "accounts"), "notSupported"),
             ledgerInfoFromRequest(p, ctx) >>)

EntryStatus(p, ctx) ==
    First(<< ledgerInfoFromRequest(p, ctx), getRequiredString(p, "tx_hash"),
             Check(parseHex(Word(p, "tx_hash")), "invalidParams") >>)

(* The range is read when the request begins, the header by its handler.    *)
BeginLedger ==
    /\ client = Idle
    /\ \E method \in {"ledger", "transaction_entry"} :
       \E p \in IF method = "ledger" THEN LedgerRequests ELSE EntryRequests :
          client' = [stage |-> "asked", method |-> method, p |-> p, range |-> max,
                     status |-> OK, txns |-> << >>, seq |-> 0]
    /\ UNCHANGED <<chain, max, unwritten>>

ReadHeader ==
    /\ client.stage = "asked"
    /\ LET p == client.p
           ctx == [Context EXCEPT !.max = client.range]
           status == IF client.method = "ledger" THEN LedgerStatus(p, ctx) ELSE EntryStatus(p, ctx)
       IN  client' = [client EXCEPT !.stage = IF status = OK THEN "begun" ELSE "done",
                                    !.status = status,
                                    !.seq = IF status = OK THEN LedgerSeq(p, ctx) ELSE 0]
    /\ UNCHANGED <<chain, max, unwritten>>

doTransactionEntry ==
    /\ client.stage = "begun" /\ client.method = "transaction_entry"
    /\ LET found == {tx \in Lookup(client.p["tx_hash"].string) : tx.ledger = client.seq}
       IN  client' = [client EXCEPT !.stage = "done",
                                    !.status = IF found = {} THEN "txnNotFound" ELSE OK,
                                    !.txns = SetToSeq(found)]
    /\ UNCHANGED <<chain, max, unwritten>>

doLedger ==
    /\ client.stage = "begun" /\ client.method = "ledger"
    /\ LET hashes == fetchAllTransactionHashesInLedger(client.seq)
       IN  client' = [client EXCEPT
               !.stage = "done",
               !.txns = IF boolOr(client.p, "expand", FALSE) THEN fetchTransactions(hashes)
                        ELSE hashes]
    /\ UNCHANGED <<chain, max, unwritten>>

Answered ==
    /\ client # Idle /\ client.stage = "done"
    /\ client' = Idle
    /\ UNCHANGED <<chain, max, unwritten>>

-----------------------------------------------------------------------------
Init ==
    /\ chain \in {c \in [Ledgers -> Contents] : c[1] = {0, 1}}
    /\ max = FirstMax
    /\ unwritten = insertTransactions(FirstMax + 1)
    /\ client = Idle

Next ==
    \/ Write \/ Commit
    \/ BeginHistory \/ ReadHistory \/ ReadTransactions \/ ReadTimesOut \/ NextPage
    \/ BeginTx \/ doTx
    \/ BeginLedger \/ ReadHeader \/ doTransactionEntry \/ doLedger
    \/ Answered

Spec == Init /\ [][Next]_vars

-----------------------------------------------------------------------------
TypeOK ==
    /\ max \in FirstMax .. MaxSequence
    /\ unwritten \subseteq {LedgerRow} \cup {TxRow(i) : i \in {0, 1}} \cup {HistoryRow(i) : i \in {0, 1}}
    /\ client.stage \in {"idle", "asked", "begun", "rows", "page", "done"}
    /\ client.stage = "begun" => client.status = OK \/ client.method \in HistoryMethods

IsHistory == client.stage # "idle" /\ client.method \in HistoryMethods

(* The history of the key in the ledgers of a range, in the order asked for. *)
Reference(lo, hi, forward) == InOrder(LAMBDA tx : tx.ledger \in lo .. hi, forward)

Torn == Blank \in ToSet(client.got)

(* Going back from the newest ledger, a client that follows the markers gets *)
(* the complete history of the ledgers that were committed when it began,    *)
(* each transaction once and in order, never an internal error and never a   *)
(* transaction of a ledger that is being written: however rows arrive, the   *)
(* range grows and reads time out between two pages.                         *)
BackwardIsComplete ==
    IsHistory /\ client.status \in {OK, "internal"} /\ ~ForwardOf(client.p) =>
        LET all == Reference(client.min, IF BySpecifier(client.p) \/ contains(client.p, "ledger_index_max")
                                         THEN client.max ELSE client.first, FALSE)
        IN  /\ client.status = OK
            /\ client.got = Prefix(all, Len(client.got))
            /\ client.stage = "done" => client.got = all

(* Going forward the same is true, up to the newest ledger of the last page, *)
(* for a client that is not given a blank transaction.                       *)
ForwardIsComplete ==
    IsHistory /\ client.status = OK /\ ForwardOf(client.p) /\ ~Torn =>
        LET all == Reference(client.min, client.max, TRUE)
        IN  /\ client.got = Prefix(all, Len(client.got))
            /\ client.stage = "done" => client.got = all

(* A client that follows the markers gets the whole history of its key, in  *)
(* either direction.                                                        *)
HistoryIsComplete == TypeOK /\ BackwardIsComplete /\ ForwardIsComplete

(* searched_all is true only if no ledger of the range that was asked for    *)
(* holds the transaction, also when a ledger is committed between the two    *)
(* reads of doTx.                                                            *)
SearchedAllIsTrue ==
    client.stage = "done" /\ client.method = "tx" /\ client.searchedAll =>
        \A tx \in TxOfHash(client.p["transaction"].string) :
            tx.ledger \notin client.p["min_ledger"].int .. client.p["max_ledger"].int

(* The transactions of a ledger, expanded or not, are all there once the     *)
(* ledger is found, and transaction_entry finds a transaction exactly in the *)
(* ledger that has it.                                                       *)
LedgerIsWhole ==
    client.stage = "done" =>
        /\ client.method = "ledger" /\ client.status = OK =>
              client.txns = <<Tx(client.seq, 0), Tx(client.seq, 1)>>
        /\ client.method = "transaction_entry" /\ client.seq # 0 =>
              (client.status = OK) = (\E tx \in TxOfHash(client.p["tx_hash"].string) :
                                          tx.ledger = client.seq)

=============================================================================
