------------------------------ MODULE Migrator ------------------------------
(***************************************************************************)
(* The clio_migrator process (src/main/main.cpp) backfilling the NFT       *)
(* tables of a Cassandra database while an upgraded clio keeps writing new *)
(* ledgers to the same tables.                                             *)
(*                                                                         *)
(* The history of the XRP ledger is a parameter: Hash is the set of NFT    *)
(* transactions, numbered in the order in which Cassandra's partitioner    *)
(* returns them from a full scan, Tx says what each one is, and NFTPage    *)
(* gives the NFTs found in each object of the initial ledger MinSeq.       *)
(* Ledgers up to OldMax were written by the previous clio release: their   *)
(* nf_tokens rows exist, their URIs and issuer links do not.               *)
(***************************************************************************)
EXTENDS Integers, FiniteSets

CONSTANTS
    Token, Account, URI,
    NoURI,         \* an NFTsData whose optional uri is not set
    NoNFT,         \* a transaction that does not change the state of an NFT
    NoRow,         \* no row under this primary key
    Hash, Tx, Key, NFTPage,
    MinSeq, OldMax, LastSeq,
    TX_PAGE,       \* hashes per page of nf_token_transactions (1000)
    OBJECT_PAGE,   \* objects per page of the initial ledger (10000)
    NFT_WRITE_BATCH_SIZE,
    MAX_RETRIES,
    MaxRuns        \* bound: how often the operator starts the tool

Ledger == MinSeq .. LastSeq

NFTsData == [tokenID : Token, ledgerSequence : Ledger, owner : Account,
             uri : URI \cup {NoURI}, isBurned : BOOLEAN]

(* success: tesSUCCESS; mint: ttNFTOKEN_MINT; nft: what getNFTDataFromTx     *)
(* extracts from the metadata of a successful transaction.                  *)
Transaction == [ledgerSequence : Ledger, transactionIndex : Nat,
                success : BOOLEAN, mint : BOOLEAN, nft : NFTsData \cup {NoNFT}]

ASSUME SequenceAssumption ==
    /\ MinSeq \in Nat \ {0} /\ OldMax \in Nat /\ LastSeq \in Nat
    /\ MinSeq <= OldMax /\ OldMax <= LastSeq

ASSUME BoundAssumption ==
    /\ TX_PAGE \in Nat \ {0} /\ OBJECT_PAGE \in Nat \ {0}
    /\ NFT_WRITE_BATCH_SIZE \in Nat \ {0}
    /\ MAX_RETRIES \in Nat /\ MaxRuns \in Nat \ {0}

ASSUME MarkerAssumption ==
    /\ NoURI \notin URI
    /\ NoNFT \notin NFTsData
    /\ NoRow \notin [owner : Account, isBurned : BOOLEAN]

(* A mint carries an NFT with its URI, always set even when it is empty,    *)
(* and of the transactions only a mint does (NFTsData, DBHelpers.h).        *)
ASSUME TxAssumption ==
    /\ Hash \subseteq Nat \ {0} /\ IsFiniteSet(Hash)
    /\ Tx \in [Hash -> Transaction]
    /\ \A h \in Hash :
        /\ Tx[h].nft # NoNFT => Tx[h].nft.ledgerSequence = Tx[h].ledgerSequence
        /\ Tx[h].mint /\ Tx[h].success => Tx[h].nft # NoNFT /\ Tx[h].nft.uri # NoURI
        /\ Tx[h].nft # NoNFT /\ Tx[h].nft.uri # NoURI => Tx[h].mint

ASSUME ObjectAssumption ==
    /\ Key \subseteq Nat \ {0} /\ IsFiniteSet(Key)
    /\ NFTPage \in [Key -> SUBSET NFTsData]
    /\ \A k \in Key : \A r \in NFTPage[k] :
        r.ledgerSequence = MinSeq /\ r.uri # NoURI

VARIABLES
    \* the tables
    maxSequence,      \* ledger_range: the newest ledger, 0 before the first
    nfTokenTxs,       \* nf_token_transactions
    transactions,     \* transactions
    nfTokens,         \* nf_tokens, by token and sequence
    nfTokenUris,      \* nf_token_uris, by token and sequence
    issuerNfTokens,   \* issuer_nf_tokens_v2
    oldIssuerTable,   \* issuer_nf_tokens exists
    \* the clio that writes ledger maxSequence + 1
    building, clioTxWrites, clioNFTWrites,
    \* the migrator process
    pc, step, range, cursor, more, page, toWrite, writes, attempts, cause, runs

tables == <<maxSequence, nfTokenTxs, transactions, nfTokens, nfTokenUris,
            issuerNfTokens, oldIssuerTable>>
clio == <<building, clioTxWrites, clioNFTWrites>>
migrator == <<pc, step, range, cursor, more, page, toWrite, writes, attempts,
              cause, runs>>
vars == <<tables, clio, migrator>>

-----------------------------------------------------------------------------
(* What a transaction or an object says about NFTs.                         *)

getNFTDataFromTx(h) == IF Tx[h].success THEN Tx[h].nft ELSE NoNFT

\* Mutant: failed transactions are indexed too.
IndexedInNFTTxs_Failed(h) == TRUE

IndexedInNFTTxs(h) == Tx[h].success

getNFTDataFromObj(k) == NFTPage[k]

InitialNFTs == UNION {getNFTDataFromObj(k) : k \in Key}

Records == ({getNFTDataFromTx(h) : h \in Hash} \ {NoNFT}) \cup InitialNFTs

Mints(m) == {h \in Hash : Tx[h].mint /\ Tx[h].success /\ Tx[h].ledgerSequence <= m}

TxsOf(s) == {h \in Hash : Tx[h].ledgerSequence = s}

NFTsOf(s) == {getNFTDataFromTx(h) : h \in TxsOf(s)} \ {NoNFT}

(* insertTransactions removes records of the same token with a sort whose   *)
(* comparator does not order them and a unique of adjacent ones, so what is *)
(* left is one or more of the records of each token, whichever they are.    *)
insertTransactions(s) ==
    {R \in SUBSET NFTsOf(s) :
        \A r \in NFTsOf(s) : \E q \in R : q.tokenID = r.tokenID}

-----------------------------------------------------------------------------
(* Writing NFTs.  A request is a table and the record it was made from.     *)

NFTTable == {"nf_tokens", "issuer_nf_tokens_v2", "nf_token_uris"}

NFTRequest == NFTTable \X NFTsData

writeNFTs(R) == {w \in NFTTable \X R : w[1] = "nf_tokens" \/ w[2].uri # NoURI}

At(r) == <<r.tokenID, r.ledgerSequence>>

(* A token is not minted twice in one ledger with different URIs.           *)
ASSUME URIAssumption ==
    \A r, q \in Records :
        At(r) = At(q) /\ r.uri # NoURI /\ q.uri # NoURI => r.uri = q.uri

(* The requests W take effect: an insert replaces the row under its key.    *)
Upsert(W) ==
    /\ nfTokens' = [k \in Token \X Ledger |->
          IF \E w \in W : w[1] = "nf_tokens" /\ At(w[2]) = k
          THEN LET w == CHOOSE w \in W : w[1] = "nf_tokens" /\ At(w[2]) = k
               IN  [owner |-> w[2].owner, isBurned |-> w[2].isBurned]
          ELSE nfTokens[k]]
    /\ nfTokenUris' = [k \in Token \X Ledger |->
          IF \E w \in W : w[1] = "nf_token_uris" /\ At(w[2]) = k
          THEN (CHOOSE w \in W : w[1] = "nf_token_uris" /\ At(w[2]) = k)[2].uri
          ELSE nfTokenUris[k]]
    /\ issuerNfTokens' = issuerNfTokens \cup
          {w[2].tokenID : w \in {v \in W : v[1] = "issuer_nf_tokens_v2"}}

-----------------------------------------------------------------------------
(* clio writing new ledgers.                                                *)

NextLedger == IF maxSequence = 0 THEN MinSeq ELSE maxSequence + 1

TxWritesOf(s) ==
    ({"transactions"} \X TxsOf(s)) \cup
    ({"nf_token_transactions"} \X {h \in TxsOf(s) : IndexedInNFTTxs(h)})

(* Every row of the next ledger is handed to the driver as an asynchronous  *)
(* write; the initial ledger also brings the NFTs of its objects.           *)
loadInitialLedger ==
    /\ ~building /\ maxSequence = 0
    /\ building' = TRUE
    /\ clioTxWrites' = TxWritesOf(MinSeq)
    /\ \E R \in insertTransactions(MinSeq) :
           clioNFTWrites' = writeNFTs(R \cup InitialNFTs)
    /\ UNCHANGED <<tables, migrator>>

buildNextLedger ==
    /\ ~building /\ maxSequence # 0 /\ NextLedger <= LastSeq
    /\ building' = TRUE
    /\ clioTxWrites' = TxWritesOf(NextLedger)
    /\ \E R \in insertTransactions(NextLedger) : clioNFTWrites' = writeNFTs(R)
    /\ UNCHANGED <<tables, migrator>>

ClioTxWritten(w) ==
    /\ w \in clioTxWrites
    /\ clioTxWrites' = clioTxWrites \ {w}
    /\ nfTokenTxs' = nfTokenTxs \cup {h \in {w[2]} : w[1] = "nf_token_transactions"}
    /\ transactions' = transactions \cup {h \in {w[2]} : w[1] = "transactions"}
    /\ UNCHANGED <<maxSequence, nfTokens, nfTokenUris, issuerNfTokens,
                   oldIssuerTable, building, clioNFTWrites, migrator>>

ClioNFTWritten(w) ==
    /\ w \in clioNFTWrites
    /\ clioNFTWrites' = clioNFTWrites \ {w}
    /\ Upsert({w})
    /\ UNCHANGED <<maxSequence, nfTokenTxs, transactions, oldIssuerTable,
                   building, clioTxWrites, migrator>>

(* finishWrites: the range moves only once every write is acknowledged.     *)
finishWrites ==
    /\ building /\ clioTxWrites = {} /\ clioNFTWrites = {}
    /\ building' = FALSE
    /\ maxSequence' = NextLedger
    /\ UNCHANGED <<nfTokenTxs, transactions, nfTokens, nfTokenUris,
                   issuerNfTokens, oldIssuerTable, clioTxWrites, clioNFTWrites,
                   migrator>>

-----------------------------------------------------------------------------
(* Paging through a table or a ledger in key order.                         *)

Ahead(S, c) == {x \in S : x > c}

PageOf(S, c, limit) ==
    {x \in Ahead(S, c) : Cardinality({y \in Ahead(S, c) : y < x}) < limit}

\* Mutant: the paging state is not passed on to the next request.
MoveCursor_Stuck(P) == cursor' = cursor

MoveCursor(P) ==
    \/ P = {} /\ cursor' = cursor
    \/ \E last \in P : (\A x \in P : x <= last) /\ cursor' = last

-----------------------------------------------------------------------------
(* The migrator.                                                            *)

Running == {"page", "fetch", "sync", "drop"}

(* doNFTWrite and its sync; the step goes on from "sync" once no write is   *)
(* outstanding.                                                             *)
doNFTWrite(data) ==
    /\ writes' = writeNFTs(data)
    /\ toWrite' = {}
    /\ pc' = "sync"

maybeDoNFTWrite(data) ==
    IF Cardinality(data) < NFT_WRITE_BATCH_SIZE
    THEN /\ toWrite' = data
         /\ pc' = "page"
         /\ UNCHANGED writes
    ELSE doNFTWrite(data)

\* Mutant: the partial batch left after the last page is forgotten.
EndOfPage_NoFinalWrite(data, morePages) ==
    IF ~morePages /\ Cardinality(data) < NFT_WRITE_BATCH_SIZE
    THEN writes' = {} /\ toWrite' = {} /\ pc' = "sync"
    ELSE maybeDoNFTWrite(data)

(* At the end of a page: a full batch is written, and whatever is left is   *)
(* written after the last page.                                             *)
EndOfPage(data, morePages) ==
    IF morePages THEN maybeDoNFTWrite(data) ELSE doNFTWrite(data)

(* doMigration up to step 1; without a ledger range there is nothing to do. *)
BeginMigration ==
    /\ pc = "idle"
    /\ range' = maxSequence
    /\ IF maxSequence = 0 THEN pc' = "success" ELSE pc' = "page"
    /\ step' = 1 /\ cursor' = 0 /\ more' = TRUE /\ page' = {} /\ attempts' = 0
    /\ toWrite' = {} /\ writes' = {}
    /\ UNCHANGED <<tables, clio, cause, runs>>

(* Step 1: a page of hashes.  After a full page Cassandra may announce      *)
(* another one that turns out to be empty.                                  *)
GetTxPage ==
    /\ pc = "page" /\ step = 1
    /\ page' = PageOf(nfTokenTxs, cursor, TX_PAGE)
    /\ MoveCursor(page')
    /\ more' \in {m \in BOOLEAN :
           /\ Ahead(nfTokenTxs, cursor) # page' => m
           /\ m => Cardinality(page') = TX_PAGE}
    /\ pc' = "fetch" /\ attempts' = 0
    /\ UNCHANGED <<tables, clio, step, range, toWrite, writes, cause, runs>>

\* Mutants: mints of the newest ledger of the range are skipped; mints posted
\* after the migration started are kept.
PageMints_Below == {h \in page : Tx[h].ledgerSequence < range /\ Tx[h].mint}
PageMints_Unfiltered == {h \in page : Tx[h].mint}

(* The hashes of the page that pass the sequence and the type filter.       *)
PageMints == {h \in page : Tx[h].ledgerSequence <= range /\ Tx[h].mint}

(* fetchTransactions gives a hash without a row a record of sequence 0 and  *)
(* an empty blob: the sequence passes the filter and parsing the blob as a  *)
(* transaction throws.  So does a mint without NFT data.                    *)
FetchTransactions ==
    /\ pc = "fetch"
    /\ attempts' = 0
    /\ IF page \subseteq transactions /\ \A h \in PageMints : getNFTDataFromTx(h) # NoNFT
       THEN /\ EndOfPage(toWrite \cup {getNFTDataFromTx(h) : h \in PageMints}, more)
            /\ UNCHANGED cause
       ELSE /\ pc' = "failed" /\ cause' = "throw"
            /\ UNCHANGED <<toWrite, writes>>
    /\ UNCHANGED <<tables, clio, step, range, cursor, more, page, runs>>

(* Step 2: a page of objects of the initial ledger; the last page is the    *)
(* one that came out short.                                                 *)
GetObjectPage ==
    /\ pc = "page" /\ step = 2
    /\ page' = PageOf(Key, cursor, OBJECT_PAGE)
    /\ MoveCursor(page')
    /\ more' = (Cardinality(Ahead(Key, cursor)) >= OBJECT_PAGE)
    /\ EndOfPage(toWrite \cup UNION {getNFTDataFromObj(k) : k \in page'}, more')
    /\ attempts' = 0
    /\ UNCHANGED <<tables, clio, step, range, cause, runs>>

(* A read comes back with an error: doTryGetTxPageResult,                   *)
(* doTryFetchTransactions and doTryFetchLedgerPage wait and try again, and  *)
(* give up after MAX_RETRIES.                                               *)
ReadTimeout ==
    /\ pc = "page" \/ (pc = "fetch" /\ page # {})
    /\ IF attempts >= MAX_RETRIES
       THEN pc' = "failed" /\ cause' = "timeout" /\ UNCHANGED attempts
       ELSE attempts' = attempts + 1 /\ UNCHANGED <<pc, cause>>
    /\ UNCHANGED <<tables, clio, step, range, cursor, more, page, toWrite,
                   writes, runs>>

(* A write takes effect.  If its acknowledgement is lost the driver sends   *)
(* it again.                                                                *)
WriteLands(w, acknowledged) ==
    /\ w \in writes
    /\ writes' = IF acknowledged THEN writes \ {w} ELSE writes
    /\ Upsert({w})
    /\ UNCHANGED <<maxSequence, nfTokenTxs, transactions, oldIssuerTable, clio,
                   pc, step, range, cursor, more, page, toWrite, attempts,
                   cause, runs>>

\* Mutant: the old table is dropped when step 1 is done.
Synced_SkipsStepTwo ==
    /\ pc = "sync" /\ writes = {}
    /\ pc' = IF more THEN "page" ELSE "drop"
    /\ UNCHANGED <<tables, clio, step, cursor, more, range, page, toWrite,
                   writes, attempts, cause, runs>>

(* sync() returns: the next page, the next step, or step 3.                 *)
Synced ==
    /\ pc = "sync" /\ writes = {}
    /\ IF more
       THEN pc' = "page" /\ UNCHANGED <<step, cursor, more>>
       ELSE IF step = 1
            THEN pc' = "page" /\ step' = 2 /\ cursor' = 0 /\ more' = TRUE
            ELSE pc' = "drop" /\ UNCHANGED <<step, cursor, more>>
    /\ UNCHANGED <<tables, clio, range, page, toWrite, writes, attempts, cause,
                   runs>>

(* Step 3: a failure to drop the old table is only logged.                  *)
DropOldTable ==
    /\ pc = "drop"
    /\ oldIssuerTable' \in {FALSE, oldIssuerTable}
    /\ pc' = "success"
    /\ UNCHANGED <<maxSequence, nfTokenTxs, transactions, nfTokens, nfTokenUris,
                   issuerNfTokens, clio, step, range, cursor, more, page,
                   toWrite, writes, attempts, cause, runs>>

(* The process is killed, or is run again after it ended.  Of the writes it *)
(* had outstanding any may have reached the database.                       *)
Restart ==
    /\ pc # "idle" /\ runs < MaxRuns
    /\ runs' = runs + 1
    /\ \E W \in SUBSET writes : Upsert(W)
    /\ pc' = "idle" /\ writes' = {} /\ toWrite' = {} /\ cause' = "none"
    /\ UNCHANGED <<maxSequence, nfTokenTxs, transactions, oldIssuerTable, clio,
                   step, range, cursor, more, page, attempts>>

-----------------------------------------------------------------------------
(* Either clio never ran, or its previous release wrote every ledger up to  *)
(* OldMax: all transactions, and per token the last record of each ledger.  *)
LastOf(t, s) ==
    {h \in TxsOf(s) :
        /\ getNFTDataFromTx(h) # NoNFT /\ Tx[h].nft.tokenID = t
        /\ \A g \in TxsOf(s) : getNFTDataFromTx(g) # NoNFT /\ Tx[g].nft.tokenID = t
               => Tx[g].transactionIndex <= Tx[h].transactionIndex}

Init ==
    /\ maxSequence \in {0, OldMax}
    /\ transactions = {h \in Hash : Tx[h].ledgerSequence <= maxSequence}
    /\ nfTokenTxs = {h \in transactions : IndexedInNFTTxs(h)}
    /\ nfTokens = [k \in Token \X Ledger |->
           IF k[2] <= maxSequence /\ LastOf(k[1], k[2]) # {}
           THEN LET r == Tx[CHOOSE h \in LastOf(k[1], k[2]) : TRUE].nft
                IN  [owner |-> r.owner, isBurned |-> r.isBurned]
           ELSE NoRow]
    /\ nfTokenUris = [k \in Token \X Ledger |-> NoURI]
    /\ issuerNfTokens = {}
    /\ oldIssuerTable = TRUE
    /\ building = FALSE /\ clioTxWrites = {} /\ clioNFTWrites = {}
    /\ pc = "idle" /\ step = 1 /\ range = 0 /\ cursor = 0 /\ more = TRUE
    /\ page = {} /\ toWrite = {} /\ writes = {} /\ attempts = 0
    /\ cause = "none" /\ runs = 1

MigratorStep ==
    \/ BeginMigration \/ GetTxPage \/ FetchTransactions \/ GetObjectPage
    \/ Synced \/ DropOldTable

Next ==
    \/ loadInitialLedger \/ buildNextLedger
    \/ \E w \in clioTxWrites : ClioTxWritten(w)
    \/ \E w \in clioNFTWrites : ClioNFTWritten(w)
    \/ finishWrites
    \/ MigratorStep
    \/ ReadTimeout
    \/ \E w \in writes, acknowledged \in BOOLEAN : WriteLands(w, acknowledged)
    \/ Restart

Spec == Init /\ [][Next]_vars

(* The process is scheduled, and a write is retried until it is             *)
(* acknowledged.  Nothing is assumed of clio, and reads may time out.       *)
Fairness ==
    /\ WF_vars(MigratorStep)
    /\ WF_vars(\E w \in writes : WriteLands(w, TRUE))

FairSpec == Spec /\ Fairness

-----------------------------------------------------------------------------
(* Properties.                                                              *)

(* Types of the tables and of both processes.                               *)
TypeOK ==
    /\ maxSequence \in {0} \cup Ledger
    /\ nfTokenTxs \subseteq Hash /\ transactions \subseteq Hash
    /\ nfTokens \in [Token \X Ledger -> [owner : Account, isBurned : BOOLEAN] \cup {NoRow}]
    /\ nfTokenUris \in [Token \X Ledger -> URI \cup {NoURI}]
    /\ issuerNfTokens \subseteq Token /\ oldIssuerTable \in BOOLEAN
    /\ building \in BOOLEAN
    /\ clioTxWrites \subseteq {"transactions", "nf_token_transactions"} \X Hash
    /\ clioNFTWrites \subseteq NFTRequest
    /\ pc \in Running \cup {"idle", "success", "failed"}
    /\ step \in {1, 2} /\ range \in {0} \cup Ledger
    /\ cursor \in Nat /\ more \in BOOLEAN
    /\ page \subseteq Nat /\ (pc = "fetch" => page \subseteq Hash)
    /\ toWrite \subseteq NFTsData /\ writes \subseteq NFTRequest
    /\ attempts \in 0 .. MAX_RETRIES
    /\ cause \in {"none", "timeout", "throw"} /\ runs \in 1 .. MaxRuns

(* The three tables know the NFT that record r describes.                   *)
Recorded(r) ==
    /\ nfTokens[At(r)] # NoRow
    /\ r.tokenID \in issuerNfTokens
    /\ nfTokenUris[At(r)] = r.uri

Migrated(m) ==
    /\ \A h \in Mints(m) : Recorded(Tx[h].nft)
    /\ \A r \in InitialNFTs : Recorded(r)

(* When the tool reports success (main.cpp:345), every mint up to the range *)
(* it read at its start and every NFT of the initial ledger is in           *)
(* nf_tokens, nf_token_uris and issuer_nf_tokens_v2, whatever timed out,    *)
(* was killed and run again, or was written by clio in the meantime.        *)
SuccessMeansMigrated == pc = "success" /\ range # 0 => Migrated(range)

(* Step 3 (main.cpp:250) removes the old table only once the new ones are   *)
(* complete for the whole range, and no later step of clio, of the same run *)
(* or of another run of the tool makes them incomplete again.               *)
DropOnlyAfterBackfill ==
    [][/\ oldIssuerTable /\ ~oldIssuerTable' => Migrated(range)
       /\ \A m \in Ledger : m <= range /\ Migrated(m) => Migrated(m)']_vars

(* The sequence filter (main.cpp:181) and step 2's fixed sequence keep the  *)
(* migrator off the rows of ledgers that clio writes at the same time: a    *)
(* step that is not clio's leaves every row above the range alone.          *)
NewerRowsUntouched ==
    [][clioNFTWrites' = clioNFTWrites =>
        \A k \in Token \X Ledger : k[2] > range /\ range # 0 =>
            nfTokens'[k] = nfTokens[k] /\ nfTokenUris'[k] = nfTokenUris[k]]_vars

(* The exception that main.cpp lets escape from a page of transactions is   *)
(* never about data the database had committed when the tool started.       *)
ThrowsOnlyOnNewerTx ==
    cause = "throw" => \E h \in page : Tx[h].ledgerSequence > range

(* Every run of the tool ends, in success or with an error, even if reads   *)
(* keep timing out: retries are bounded (main.cpp:66, 90, 113) and paging   *)
(* makes progress.                                                          *)
Terminates == (pc = "page") ~> (pc \in {"success", "failed", "idle"})

-----------------------------------------------------------------------------
(* The invariant that makes SuccessMeansMigrated and ThrowsOnlyOnNewerTx    *)
(* inductive.                                                               *)

(* The tables show the effect of request w.                                 *)
Landed(w) ==
    /\ w[1] = "nf_tokens" => nfTokens[At(w[2])] # NoRow
    /\ w[1] = "issuer_nf_tokens_v2" => w[2].tokenID \in issuerNfTokens
    /\ w[1] = "nf_token_uris" => nfTokenUris[At(w[2])] = w[2].uri

(* Record r is in the batch, or each of its requests is sent or has landed. *)
Covered(r) ==
    \/ r \in toWrite
    \/ \A w \in writeNFTs({r}) : w \in writes \/ Landed(w)

(* Both processes write records of the history only.                        *)
OnlyHistory ==
    /\ toWrite \subseteq Records
    /\ writes \subseteq writeNFTs(Records)
    /\ clioNFTWrites \subseteq writeNFTs(Records)

(* A row of a committed ledger is there; one of the ledger being written is *)
(* there or on its way.                                                     *)
RowsCommitted ==
    /\ \A h \in nfTokenTxs : IndexedInNFTTxs(h)
    /\ \A h \in Hash : Tx[h].ledgerSequence <= maxSequence =>
        h \in transactions /\ (IndexedInNFTTxs(h) => h \in nfTokenTxs)
    /\ \A w \in clioTxWrites : w[1] = "nf_token_transactions" => IndexedInNFTTxs(w[2])
    /\ building =>
        /\ NextLedger <= LastSeq
        /\ \A w \in TxWritesOf(NextLedger) :
            \/ w \in clioTxWrites
            \/ w[1] = "transactions" /\ w[2] \in transactions
            \/ w[1] = "nf_token_transactions" /\ w[2] \in nfTokenTxs

(* Where the migrator is and what it holds there.                           *)
Phases ==
    /\ range <= maxSequence
    /\ pc \in Running => range # 0
    /\ writes # {} => pc = "sync"
    /\ toWrite # {} => pc \in {"page", "fetch", "failed"}
    /\ pc = "fetch" => step = 1
    /\ pc = "drop" => step = 2 /\ ~more
    /\ pc = "success" /\ range # 0 => step = 2 /\ ~more
    /\ pc = "page" => more
    /\ pc = "fetch" => page \subseteq nfTokenTxs
    /\ cause # "none" => pc = "failed"

(* Nothing that the scan has passed is lost.                                *)
MintsCovered ==
    pc \in Running \cup {"success"} =>
        \A h \in Mints(range) :
            \/ step = 1 /\ more /\ h > cursor
            \/ pc = "fetch" /\ h \in page
            \/ Covered(Tx[h].nft)

ObjectsCovered ==
    pc \in Running \cup {"success"} /\ step = 2 =>
        \A k \in Key :
            \/ more /\ k > cursor
            \/ \A r \in getNFTDataFromObj(k) : Covered(r)

(* The migrator writes nothing above the range it read.                     *)
WithinRange ==
    /\ \A r \in toWrite : r.ledgerSequence <= range
    /\ \A w \in writes : w[2].ledgerSequence <= range

IInv == /\ TypeOK /\ OnlyHistory /\ RowsCommitted /\ Phases /\ WithinRange
        /\ MintsCovered /\ ObjectsCovered /\ ThrowsOnlyOnNewerTx

-----------------------------------------------------------------------------
(* What fetchNFT answers, against the history of the ledger.                *)

LatestRow(table, none, t, s) ==
    LET rows == {q \in Ledger : q <= s /\ table[<<t, q>>] # none}
    IN  IF rows = {} THEN none
        ELSE table[<<t, CHOOSE q \in rows : \A p \in rows : p <= q>>]

fetchNFT(t, s) == [row |-> LatestRow(nfTokens, NoRow, t, s),
                   uri |-> LatestRow(nfTokenUris, NoURI, t, s)]

(* Records of token t up to ledger s, each with its place in the history;   *)
(* an object of the initial ledger shows the state at the end of it.        *)
History(t, s) ==
    {<<Tx[h].ledgerSequence, Tx[h].transactionIndex, getNFTDataFromTx(h)>> :
        h \in {g \in Hash : /\ getNFTDataFromTx(g) # NoNFT /\ Tx[g].nft.tokenID = t
                            /\ Tx[g].ledgerSequence <= s}} \cup
    {<<MinSeq, 1000000, r>> : r \in {q \in InitialNFTs : q.tokenID = t}}

Newest(H) == (CHOOSE x \in H : \A y \in H :
                 y[1] < x[1] \/ (y[1] = x[1] /\ y[2] <= x[2]))[3]

WithURI(H) == {x \in H : x[3].uri # NoURI}

(* The tokens on the NFTokenPages of ledger s, and the URI each has there.   *)
TokensAt(s) == {t \in Token : History(t, s) # {} /\ ~Newest(History(t, s)).isBurned}

URIAt(t, s) == LET H == WithURI(History(t, s)) IN IF H = {} THEN NoURI ELSE Newest(H).uri

(* clio_verifier (verify.cpp): every token on a page of the newest ledger   *)
(* has been written, with the URI that the page gives it.                   *)
verifyNFTs(tokens, s) ==
    \A t \in tokens : fetchNFT(t, s).row # NoRow /\ fetchNFT(t, s).uri = URIAt(t, s)

doVerification == maxSequence # 0 => verifyNFTs(TokensAt(maxSequence), maxSequence)

(* Ledger q is one that the run did not scan, and has a record of token t   *)
(* without a URI: insertTransactions may have kept that one and not a mint. *)
MintHidden(t, q) == q > range /\ \E x \in History(t, q) : x[1] = q /\ x[3].uri = NoURI

(* After a successful migration, nft_info for any ledger, also for one that *)
(* clio wrote meanwhile, gives a token the URI of its latest mint or of the *)
(* initial ledger (CassandraBackend.cpp:621), also for a token that was     *)
(* burned and minted again with another URI.  An earlier URI, or none, is   *)
(* given only where every later mint is in a ledger above the range that    *)
(* also sells or burns the token (ReportingETL.cpp:99).  clio_verifier      *)
(* finds a row for every token and fails for no other reason                *)
(* (verify.cpp:93).                                                         *)
URIServed ==
    pc = "success" /\ range # 0 =>
        /\ \A t \in Token, s \in MinSeq .. maxSequence : \E q \in MinSeq .. s :
              /\ fetchNFT(t, s).uri = URIAt(t, q)
              /\ \A x \in WithURI(History(t, s)) : x[1] > q => MintHidden(t, x[1])
        /\ \A t \in TokensAt(maxSequence) : fetchNFT(t, maxSequence).row # NoRow
        /\ \/ doVerification
           \/ \E t \in TokensAt(maxSequence), q \in Ledger : MintHidden(t, q)

(* The nf_tokens row of a token and a ledger is the state of the token at   *)
(* the end of that ledger.                                                  *)
IsFinal(k) ==
    LET H == {x \in History(k[1], k[2]) : x[1] = k[2]}
    IN  /\ H # {}
        /\ nfTokens[k] = [owner |-> Newest(H).owner, isBurned |-> Newest(H).isBurned]

(* backend/README.md: the row with the largest sequence up to Y "will give  *)
(* you the owner of token N at ledger Y and whether it was burned".  A row  *)
(* of a committed ledger that says so is not replaced by one that does not. *)
FinalStateKept ==
    [][\A k \in Token \X Ledger :
          k[2] <= maxSequence /\ IsFinal(k) => IsFinal(k)']_vars

(* README.md: of the transactions found, step 1 discards "any that were     *)
(* posted after the migration started".                                     *)
NewerTxsDiscarded == cause # "throw"

=============================================================================
