--------------------------- MODULE MigratorProofs ---------------------------
(* Proofs about Migrator for every history, page size, batch size, number   *)
(* of retries and number of runs.                                           *)
EXTENDS Migrator, FiniteSetTheorems, WellFoundedInduction, TLAPS

-----------------------------------------------------------------------------
(* The history.                                                             *)

(* Fields of a record.                                                      *)
LEMMA RecordFields ==
    ASSUME NEW r \in NFTsData
    PROVE  /\ r.tokenID \in Token /\ r.ledgerSequence \in Ledger /\ r.owner \in Account
           /\ r.uri \in URI \cup {NoURI} /\ r.isBurned \in BOOLEAN
           /\ At(r) \in Token \X Ledger
  BY DEF NFTsData, At

(* Fields of a transaction.                                                 *)
LEMMA TxFields ==
    ASSUME NEW h \in Hash
    PROVE  /\ Tx[h].ledgerSequence \in Ledger /\ Tx[h].ledgerSequence \in Nat
           /\ Tx[h].success \in BOOLEAN /\ Tx[h].mint \in BOOLEAN
           /\ Tx[h].nft \in NFTsData \cup {NoNFT}
           /\ getNFTDataFromTx(h) \in NFTsData \cup {NoNFT}
           /\ h \in Nat /\ h > 0
  BY TxAssumption, SequenceAssumption DEF Transaction, Ledger, getNFTDataFromTx

(* Every record is an NFTsData, and those of the initial ledger have a URI. *)
LEMMA RecordsType ==
    /\ Records \subseteq NFTsData
    /\ InitialNFTs \subseteq Records
    /\ \A r \in InitialNFTs : r.uri # NoURI
  BY TxFields, ObjectAssumption DEF Records, InitialNFTs, getNFTDataFromObj

(* A successful mint has a record with a URI.                               *)
LEMMA MintRecord ==
    ASSUME NEW m, NEW h \in Mints(m)
    PROVE  /\ h \in Hash /\ Tx[h].mint /\ Tx[h].success /\ Tx[h].ledgerSequence <= m
           /\ getNFTDataFromTx(h) = Tx[h].nft
           /\ Tx[h].nft \in Records /\ Tx[h].nft.uri # NoURI
  BY TxAssumption, TxFields, MarkerAssumption DEF Mints, getNFTDataFromTx, Records

(* What the set of requests for a set of records contains.                  *)
LEMMA RequestsOf ==
    ASSUME NEW R \in SUBSET NFTsData
    PROVE  /\ writeNFTs(R) \subseteq NFTRequest
           /\ \A w \in writeNFTs(R) :
                /\ w[1] \in NFTTable /\ w[2] \in R /\ w[2] \in NFTsData
                /\ w[1] = "nf_tokens" \/ w[2].uri # NoURI
           /\ \A r \in R : writeNFTs({r}) \subseteq writeNFTs(R)
  BY DEF writeNFTs, NFTRequest

(* A request set is monotone.                                               *)
LEMMA RequestsMonotone ==
    ASSUME NEW R, NEW S \in SUBSET R PROVE writeNFTs(S) \subseteq writeNFTs(R)
  BY DEF writeNFTs

-----------------------------------------------------------------------------
(* Inserting rows.                                                          *)

(* Inserting records of the history keeps the types of the tables, shows    *)
(* the inserted requests, and hides nothing that was there before.          *)
LEMMA UpsertLemma ==
    ASSUME TypeOK, NEW W \in SUBSET writeNFTs(Records), Upsert(W)
    PROVE  /\ nfTokens' \in [Token \X Ledger -> [owner : Account, isBurned : BOOLEAN] \cup {NoRow}]
           /\ nfTokenUris' \in [Token \X Ledger -> URI \cup {NoURI}]
           /\ issuerNfTokens' \subseteq Token
           /\ \A w \in writeNFTs(Records) : w \in W \/ Landed(w) => Landed(w)'
<1>0. \A w \in writeNFTs(Records) :
        /\ w[1] \in NFTTable /\ w[2] \in Records /\ w[2] \in NFTsData
        /\ w[1] = "nf_tokens" \/ w[2].uri # NoURI
  BY RequestsOf, RecordsType
<1>1. ASSUME NEW k \in Token \X Ledger
      PROVE  /\ nfTokens'[k] \in [owner : Account, isBurned : BOOLEAN] \cup {NoRow}
             /\ (\E w \in W : w[1] = "nf_tokens" /\ At(w[2]) = k) => nfTokens'[k] # NoRow
             /\ nfTokens[k] # NoRow => nfTokens'[k] # NoRow
  <2>1. CASE \E w \in W : w[1] = "nf_tokens" /\ At(w[2]) = k
    <3> DEFINE v == CHOOSE w \in W : w[1] = "nf_tokens" /\ At(w[2]) = k
    <3>1. v \in W
      BY <2>1
    <3>2. v[2] \in NFTsData
      BY <1>0, <3>1
    <3>3. nfTokens'[k] = [owner |-> v[2].owner, isBurned |-> v[2].isBurned]
      BY <2>1 DEF Upsert
    <3> HIDE DEF v
    <3> QED
      BY <3>2, <3>3, RecordFields, MarkerAssumption
  <2>2. CASE ~\E w \in W : w[1] = "nf_tokens" /\ At(w[2]) = k
    BY <2>2 DEF Upsert, TypeOK
  <2> QED
    BY <2>1, <2>2
<1>2. ASSUME NEW k \in Token \X Ledger
      PROVE  /\ nfTokenUris'[k] \in URI \cup {NoURI}
             /\ \A r \in Records :
                  /\ At(r) = k /\ r.uri # NoURI
                  /\ nfTokenUris[k] = r.uri \/ <<"nf_token_uris", r>> \in W
                  => nfTokenUris'[k] = r.uri
  <2>1. CASE \E w \in W : w[1] = "nf_token_uris" /\ At(w[2]) = k
    <3> DEFINE v == CHOOSE w \in W : w[1] = "nf_token_uris" /\ At(w[2]) = k
    <3>1. v \in W /\ v[1] = "nf_token_uris" /\ At(v[2]) = k
      BY <2>1
    <3>2. v[2] \in Records /\ v[2] \in NFTsData /\ v[2].uri # NoURI
      BY <1>0, <3>1
    <3>3. nfTokenUris'[k] = v[2].uri
      BY <2>1 DEF Upsert
    <3> HIDE DEF v
    <3> QED
      BY <3>1, <3>2, <3>3, RecordFields, URIAssumption
  <2>2. CASE ~\E w \in W : w[1] = "nf_token_uris" /\ At(w[2]) = k
    <3>1. nfTokenUris'[k] = nfTokenUris[k]
      BY <2>2 DEF Upsert
    <3>2. \A r \in Records : At(r) = k => <<"nf_token_uris", r>> \notin W
      BY <2>2
    <3> QED
      BY <3>1, <3>2 DEF TypeOK
  <2> QED
    BY <2>1, <2>2
<1>3. /\ issuerNfTokens \subseteq issuerNfTokens'
      /\ issuerNfTokens' \subseteq Token
      /\ \A w \in W : w[1] = "issuer_nf_tokens_v2" => w[2].tokenID \in issuerNfTokens'
  BY <1>0, RecordFields DEF Upsert, TypeOK
<1>4. ASSUME NEW w \in writeNFTs(Records), w \in W \/ Landed(w) PROVE Landed(w)'
  <2>1. At(w[2]) \in Token \X Ledger /\ w[2] \in Records
    BY <1>0, RecordFields
  <2>2. w[1] = "nf_tokens" => nfTokens'[At(w[2])] # NoRow
    BY <1>1, <1>4, <2>1 DEF Landed
  <2>3. w[1] = "issuer_nf_tokens_v2" => w[2].tokenID \in issuerNfTokens'
    BY <1>3, <1>4 DEF Landed
  <2>4. ASSUME w[1] = "nf_token_uris" PROVE nfTokenUris'[At(w[2])] = w[2].uri
    <3>1. w[2].uri # NoURI /\ w = <<"nf_token_uris", w[2]>>
      BY <1>0, <2>4 DEF writeNFTs
    <3>2. nfTokenUris[At(w[2])] = w[2].uri \/ <<"nf_token_uris", w[2]>> \in W
      BY <1>4, <2>4, <3>1 DEF Landed
    <3> QED
      BY <1>2, <2>1, <3>1, <3>2
  <2> QED
    BY <2>2, <2>3, <2>4 DEF Landed, At
<1>5. /\ nfTokens' \in [Token \X Ledger -> [owner : Account, isBurned : BOOLEAN] \cup {NoRow}]
      /\ nfTokenUris' \in [Token \X Ledger -> URI \cup {NoURI}]
  <2>1. DOMAIN nfTokens' = Token \X Ledger /\ DOMAIN nfTokenUris' = Token \X Ledger
    BY DEF Upsert
  <2>2. /\ nfTokens' = [k \in Token \X Ledger |-> nfTokens'[k]]
        /\ nfTokenUris' = [k \in Token \X Ledger |-> nfTokenUris'[k]]
    BY <2>1 DEF Upsert
  <2> QED
    BY <1>1, <1>2, <2>2
<1> QED
  BY <1>3, <1>4, <1>5

-----------------------------------------------------------------------------
(* Paging.                                                                  *)

(* A page is a prefix of what is ahead of the cursor.                       *)
LEMMA PageLemma ==
    ASSUME NEW S \in SUBSET Nat, IsFiniteSet(S), NEW c \in Nat, NEW limit \in Nat
    PROVE  /\ PageOf(S, c, limit) \subseteq S
           /\ \A x \in PageOf(S, c, limit) : x > c
           /\ \A x \in PageOf(S, c, limit), y \in S :
                y > c /\ y \notin PageOf(S, c, limit) => y > x
           /\ Cardinality(Ahead(S, c)) < limit => PageOf(S, c, limit) = Ahead(S, c)
<1> DEFINE Below(x) == {y \in Ahead(S, c) : y < x}
<1>1. Ahead(S, c) \in SUBSET S /\ IsFiniteSet(Ahead(S, c)) /\ Ahead(S, c) \in SUBSET Nat
  <2>1. Ahead(S, c) \in SUBSET S
    BY DEF Ahead
  <2> QED
    BY <2>1, FS_Subset
<1>2. \A x \in Nat : /\ IsFiniteSet(Below(x)) /\ Cardinality(Below(x)) \in Nat
                     /\ Cardinality(Below(x)) <= Cardinality(Ahead(S, c))
  <2>1. \A x \in Nat : Below(x) \in SUBSET Ahead(S, c)
    OBVIOUS
  <2>2. \A x \in Nat : /\ IsFiniteSet(Below(x))
                       /\ Cardinality(Below(x)) <= Cardinality(Ahead(S, c))
    BY <1>1, <2>1, FS_Subset
  <2> QED
    BY <2>2, FS_CardinalityType
<1>3. ASSUME NEW x \in PageOf(S, c, limit), NEW y \in S, y > c, y <= x
      PROVE  y \in PageOf(S, c, limit)
  <2>1. x \in Nat /\ x \in Ahead(S, c) /\ y \in Ahead(S, c) /\ Cardinality(Below(x)) < limit
    BY <1>3 DEF PageOf, Ahead
  <2>2. Below(y) \in SUBSET Below(x)
    <3>1. \A z \in Ahead(S, c) : z \in Nat
      BY <1>1
    <3>2. y \in Nat /\ y <= x
      BY <1>3
    <3>3. \A z \in Ahead(S, c) : z < y => z < x
      BY <2>1, <3>1, <3>2
    <3> QED
      BY <3>3
  <2>3. Cardinality(Below(y)) <= Cardinality(Below(x))
    BY <1>2, <2>1, <2>2, FS_Subset
  <2>4. Cardinality(Below(y)) < limit
    BY <1>2, <2>1, <2>3
  <2> QED
    BY <2>1, <2>4 DEF PageOf
<1>4. ASSUME NEW x \in PageOf(S, c, limit), NEW y \in S, y > c, y \notin PageOf(S, c, limit)
      PROVE  y > x
  <2>1. x \in Nat /\ y \in Nat
    BY <1>4 DEF PageOf, Ahead
  <2> QED
    BY <1>3, <1>4, <2>1
<1>5. ASSUME Cardinality(Ahead(S, c)) < limit PROVE PageOf(S, c, limit) = Ahead(S, c)
  <2>1. Cardinality(Ahead(S, c)) \in Nat
    BY <1>1, FS_CardinalityType
  <2>2. \A x \in Ahead(S, c) : Cardinality(Below(x)) < limit
    <3> SUFFICES ASSUME NEW x \in Ahead(S, c) PROVE Cardinality(Below(x)) < limit
      OBVIOUS
    <3>1. /\ Cardinality(Below(x)) \in Nat
          /\ Cardinality(Below(x)) <= Cardinality(Ahead(S, c))
      BY <1>1, <1>2
    <3> HIDE DEF Below
    <3> QED
      BY <1>5, <2>1, <3>1
  <2> QED
    BY <2>2 DEF PageOf
<1> QED
  BY <1>4, <1>5 DEF PageOf, Ahead

(* After a page the cursor is at its end: what is ahead of the old cursor   *)
(* is in the page or ahead of the new cursor.                               *)
LEMMA CursorLemma ==
    ASSUME NEW S \in SUBSET Nat, IsFiniteSet(S), cursor \in Nat, NEW limit \in Nat,
           NEW P, P = PageOf(S, cursor, limit), MoveCursor(P)
    PROVE  /\ cursor' \in Nat
           /\ \A y \in S : y > cursor => y \in P \/ y > cursor'
<1>1. P \subseteq Nat
  BY PageLemma
<1>2. CASE P = {} /\ cursor' = cursor
  BY <1>2
<1>3. ASSUME NEW last \in P, \A x \in P : x <= last, cursor' = last
      PROVE  /\ cursor' \in Nat
             /\ \A y \in S : y > cursor => y \in P \/ y > cursor'
  BY <1>1, <1>3, PageLemma
<1> QED
  BY <1>2, <1>3 DEF MoveCursor

-----------------------------------------------------------------------------
(* The initial states satisfy the inductive invariant.                      *)
LEMMA InitIInv == Init => IInv
<1> SUFFICES ASSUME Init PROVE IInv
  OBVIOUS
<1> USE SequenceAssumption, BoundAssumption
<1>1. nfTokens \in [Token \X Ledger -> [owner : Account, isBurned : BOOLEAN] \cup {NoRow}]
  <2>1. ASSUME NEW k \in Token \X Ledger
        PROVE  nfTokens[k] \in [owner : Account, isBurned : BOOLEAN] \cup {NoRow}
    <3>1. CASE LastOf(k[1], k[2]) # {}
      <4> DEFINE h == CHOOSE g \in LastOf(k[1], k[2]) : TRUE
      <4>1. h \in LastOf(k[1], k[2])
        BY <3>1
      <4>2. h \in Hash /\ getNFTDataFromTx(h) # NoNFT
        BY <4>1 DEF LastOf, TxsOf
      <4>3. Tx[h].nft \in NFTsData
        BY <4>2, TxFields DEF getNFTDataFromTx
      <4>4. \/ nfTokens[k] = NoRow
            \/ nfTokens[k] = [owner |-> Tx[h].nft.owner, isBurned |-> Tx[h].nft.isBurned]
        BY <3>1 DEF Init
      <4> HIDE DEF h
      <4> QED
        BY <4>3, <4>4, RecordFields
    <3>2. CASE LastOf(k[1], k[2]) = {}
      BY <3>2 DEF Init
    <3> QED
      BY <3>1, <3>2
  <2>2. nfTokens = [k \in Token \X Ledger |-> nfTokens[k]]
    BY DEF Init
  <2> QED
    BY <2>1, <2>2
<1>2. TypeOK
  <2>1. nfTokenUris \in [Token \X Ledger -> URI \cup {NoURI}]
    BY DEF Init
  <2>2. transactions \subseteq Hash /\ nfTokenTxs \subseteq Hash
    BY DEF Init
  <2>3. maxSequence \in {0} \cup Ledger
    BY DEF Init, Ledger
  <2>4. /\ attempts \in 0 .. MAX_RETRIES /\ runs \in 1 .. MaxRuns
        /\ step \in {1, 2} /\ range \in {0} \cup Ledger
        /\ cursor \in Nat /\ more \in BOOLEAN
    BY DEF Init
  <2>5. /\ issuerNfTokens \subseteq Token /\ oldIssuerTable \in BOOLEAN /\ building \in BOOLEAN
        /\ clioTxWrites \subseteq {"transactions", "nf_token_transactions"} \X Hash
        /\ clioNFTWrites \subseteq NFTRequest
        /\ toWrite \subseteq NFTsData /\ writes \subseteq NFTRequest
        /\ page \subseteq Nat /\ (pc = "fetch" => page \subseteq Hash)
        /\ pc \in Running \cup {"idle", "success", "failed"}
        /\ cause \in {"none", "timeout", "throw"}
    BY DEF Init, Running
  <2> QED
    BY <1>1, <2>1, <2>2, <2>3, <2>4, <2>5 DEF TypeOK
<1>3. OnlyHistory /\ Phases /\ WithinRange /\ MintsCovered /\ ObjectsCovered /\ ThrowsOnlyOnNewerTx
  BY <1>2 DEF Init, OnlyHistory, Phases, WithinRange, MintsCovered, ObjectsCovered,
              ThrowsOnlyOnNewerTx, Running, TypeOK, Ledger
<1>4. RowsCommitted
  BY DEF Init, RowsCommitted
<1> QED
  BY <1>2, <1>3, <1>4 DEF IInv

-----------------------------------------------------------------------------
(* Steps: types and history.                                                *)

(* What a batch is, and what writing it makes.                              *)
LEMMA BatchLemma ==
    ASSUME NEW data \in SUBSET Records, NEW m \in BOOLEAN, toWrite \subseteq Records,
           writes \subseteq writeNFTs(Records), EndOfPage(data, m)
    PROVE  /\ toWrite' \subseteq Records /\ toWrite' \subseteq NFTsData
           /\ writes' \subseteq writeNFTs(Records) /\ writes' \subseteq NFTRequest
           /\ pc' \in {"page", "sync"}
           /\ pc' = "page" => toWrite' = data /\ writes' = writes /\ m
           /\ pc' = "sync" => toWrite' = {} /\ writes' = writeNFTs(data)
<1>1. writeNFTs(data) \subseteq writeNFTs(Records)
  BY RequestsMonotone
<1>2. writeNFTs(Records) \subseteq NFTRequest
  BY RequestsOf, RecordsType
<1> QED
  BY <1>1, <1>2, RecordsType DEF EndOfPage, maybeDoNFTWrite, doNFTWrite

(* The records of a page of transactions belong to the history.             *)
LEMMA PageRecords ==
    ASSUME toWrite \subseteq Records, page \subseteq Hash,
           \A h \in PageMints : getNFTDataFromTx(h) # NoNFT
    PROVE  toWrite \cup {getNFTDataFromTx(h) : h \in PageMints} \subseteq Records
  BY DEF PageMints, Records

(* So do the records of a page of objects.                                  *)
LEMMA ObjectRecords ==
    ASSUME toWrite \subseteq Records, NEW P \in SUBSET Key
    PROVE  toWrite \cup UNION {getNFTDataFromObj(k) : k \in P} \subseteq Records
  BY DEF Records, InitialNFTs

(* And what clio writes.                                                    *)
LEMMA ClioRecords ==
    ASSUME NEW s, NEW R \in insertTransactions(s)
    PROVE  R \cup InitialNFTs \subseteq Records
  BY DEF insertTransactions, NFTsOf, TxsOf, Records

(* Tables of hashes are finite sets of naturals.                            *)
LEMMA HashSets ==
    ASSUME NEW S \in SUBSET Hash
    PROVE  S \in SUBSET Nat /\ IsFiniteSet(S)
  BY TxAssumption, FS_Subset

(* Both processes write records of the history only.                        *)
LEMMA HistoryStep == IInv /\ [Next]_vars => OnlyHistory'
<1> SUFFICES ASSUME IInv, [Next]_vars PROVE OnlyHistory'
  OBVIOUS
<1> USE DEF IInv, OnlyHistory
<1>1. ASSUME UNCHANGED <<toWrite, clioNFTWrites>>, writes' \subseteq writes PROVE OnlyHistory'
  <2>1. Records' = Records /\ writeNFTs(Records)' = writeNFTs(Records)
    OBVIOUS
  <2> QED
    BY <1>1, <2>1
<1>2. CASE loadInitialLedger
  <2>1. PICK R \in insertTransactions(MinSeq) : clioNFTWrites' = writeNFTs(R \cup InitialNFTs)
    BY <1>2 DEF loadInitialLedger
  <2>2. clioNFTWrites' \subseteq writeNFTs(Records)
    BY <2>1, ClioRecords, RequestsMonotone
  <2> QED
    BY <1>2, <2>2 DEF loadInitialLedger, migrator
<1>3. CASE buildNextLedger
  <2>1. PICK R \in insertTransactions(NextLedger) : clioNFTWrites' = writeNFTs(R)
    BY <1>3 DEF buildNextLedger
  <2>2. R \subseteq Records
    BY ClioRecords
  <2>3. clioNFTWrites' \subseteq writeNFTs(Records)
    BY <2>1, <2>2, RequestsMonotone
  <2> QED
    BY <1>3, <2>3 DEF buildNextLedger, migrator
<1>4. ASSUME NEW w \in clioNFTWrites, ClioNFTWritten(w) PROVE OnlyHistory'
  BY <1>4 DEF ClioNFTWritten, migrator
<1>5. CASE FetchTransactions
  <2>1. CASE page \subseteq transactions /\ \A h \in PageMints : getNFTDataFromTx(h) # NoNFT
    <3> DEFINE data == toWrite \cup {getNFTDataFromTx(h) : h \in PageMints}
    <3>1. EndOfPage(data, more)
      BY <1>5, <2>1 DEF FetchTransactions
    <3>2. data \in SUBSET Records
      BY <1>5, <2>1, PageRecords DEF FetchTransactions, TypeOK
    <3> HIDE DEF data
    <3> QED
      <4>1. more \in BOOLEAN
        BY DEF TypeOK
      <4>2. toWrite' \subseteq Records /\ writes' \subseteq writeNFTs(Records)
        BY <3>1, <3>2, <4>1, BatchLemma, Zenon
      <4> QED
        BY <1>5, <4>2 DEF FetchTransactions, clio
  <2>2. CASE ~(page \subseteq transactions /\ \A h \in PageMints : getNFTDataFromTx(h) # NoNFT)
    BY <1>1, <1>5, <2>2 DEF FetchTransactions, clio
  <2> QED
    BY <2>1, <2>2
<1>6. CASE GetObjectPage
  <2> DEFINE data == toWrite \cup UNION {getNFTDataFromObj(k) : k \in page'}
  <2>1. EndOfPage(data, more')
    BY <1>6 DEF GetObjectPage
  <2>2. page' \in SUBSET Key
    BY <1>6 DEF GetObjectPage, PageOf, Ahead
  <2>3. data \in SUBSET Records
    BY <2>2, ObjectRecords
  <2> HIDE DEF data
  <2> QED
    <3>1. more' \in BOOLEAN
      BY <1>6 DEF GetObjectPage
    <3>2. toWrite' \subseteq Records /\ writes' \subseteq writeNFTs(Records)
      BY <2>1, <2>3, <3>1, BatchLemma, Zenon
    <3> QED
      BY <1>6, <3>2 DEF GetObjectPage, clio
<1>7. CASE BeginMigration \/ Restart
  BY <1>7 DEF BeginMigration, Restart, clio
<1>8. ASSUME NEW w \in writes, NEW a \in BOOLEAN, WriteLands(w, a) PROVE OnlyHistory'
  BY <1>1, <1>8 DEF WriteLands, clio
<1>9. CASE \/ \E w \in clioTxWrites : ClioTxWritten(w)
           \/ finishWrites \/ GetTxPage \/ Synced \/ DropOldTable \/ ReadTimeout
           \/ UNCHANGED vars
  BY <1>1, <1>9 DEF ClioTxWritten, finishWrites, GetTxPage, Synced, DropOldTable,
                    ReadTimeout, vars, clio, migrator
<1> QED
  BY <1>2, <1>3, <1>4, <1>5, <1>6, <1>7, <1>8, <1>9 DEF Next, MigratorStep

(* The rows of a ledger that clio hands over.                               *)
LEMMA TxWritesType ==
    ASSUME NEW s
    PROVE  /\ TxWritesOf(s) \subseteq {"transactions", "nf_token_transactions"} \X Hash
           /\ \A w \in TxWritesOf(s) :
                w[1] = "nf_token_transactions" => IndexedInNFTTxs(w[2])
           /\ \A h \in Hash : Tx[h].ledgerSequence = s =>
                /\ <<"transactions", h>> \in TxWritesOf(s)
                /\ IndexedInNFTTxs(h) => <<"nf_token_transactions", h>> \in TxWritesOf(s)
  BY DEF TxWritesOf, TxsOf

(* The next ledger to write.                                                *)
LEMMA NextLedgerType ==
    ASSUME TypeOK
    PROVE  /\ NextLedger \in Nat
           /\ NextLedger <= LastSeq => NextLedger \in Ledger
           /\ maxSequence \in Nat /\ maxSequence < NextLedger
           /\ \A s \in Ledger : s <= NextLedger => s <= maxSequence \/ s = NextLedger
  BY SequenceAssumption DEF NextLedger, Ledger, TypeOK

(* Every step keeps the types.                                              *)
LEMMA TypeStep == IInv /\ [Next]_vars => TypeOK'
<1> SUFFICES ASSUME IInv, [Next]_vars PROVE TypeOK'
  OBVIOUS
<1>0. /\ TypeOK /\ OnlyHistory /\ OnlyHistory'
      /\ toWrite' \subseteq NFTsData /\ writes' \subseteq NFTRequest
      /\ clioNFTWrites' \subseteq NFTRequest
  <2>1. OnlyHistory'
    BY HistoryStep
  <2>2. writeNFTs(Records) \subseteq NFTRequest
    BY RequestsOf, RecordsType
  <2>3. toWrite' \subseteq Records /\ writes' \subseteq writeNFTs(Records)
        /\ clioNFTWrites' \subseteq writeNFTs(Records)
    BY <2>1 DEF OnlyHistory
  <2> QED
    BY <2>1, <2>2, <2>3, RecordsType DEF IInv
<1>1. ASSUME NEW W \in SUBSET writeNFTs(Records), Upsert(W)
      PROVE  /\ nfTokens' \in [Token \X Ledger -> [owner : Account, isBurned : BOOLEAN] \cup {NoRow}]
             /\ nfTokenUris' \in [Token \X Ledger -> URI \cup {NoURI}]
             /\ issuerNfTokens' \subseteq Token
  BY <1>0, <1>1, UpsertLemma
<1>2. CASE loadInitialLedger \/ buildNextLedger
  BY <1>0, <1>2, TxWritesType
  DEF loadInitialLedger, buildNextLedger, TypeOK, tables, migrator
<1>3. ASSUME NEW w \in clioTxWrites, ClioTxWritten(w) PROVE TypeOK'
  <2>1. w[2] \in Hash
    BY <1>0 DEF TypeOK
  <2>2. nfTokenTxs' \subseteq Hash /\ transactions' \subseteq Hash
    BY <1>0, <1>3, <2>1 DEF ClioTxWritten, TypeOK
  <2>3. clioTxWrites' \subseteq {"transactions", "nf_token_transactions"} \X Hash
    BY <1>0, <1>3 DEF ClioTxWritten, TypeOK
  <2> QED
    BY <1>0, <1>3, <2>2, <2>3 DEF ClioTxWritten, TypeOK, migrator
<1>4. ASSUME NEW w \in clioNFTWrites, ClioNFTWritten(w) PROVE TypeOK'
  <2>1. {w} \in SUBSET writeNFTs(Records)
    BY <1>0 DEF OnlyHistory
  <2> QED
    BY <1>0, <1>1, <1>4, <2>1 DEF ClioNFTWritten, TypeOK, migrator
<1>5. CASE finishWrites
  <2>1. NextLedger \in Ledger
    BY <1>0, <1>5, NextLedgerType DEF IInv, RowsCommitted, finishWrites
  <2> QED
    BY <1>0, <1>5, <2>1 DEF finishWrites, TypeOK, migrator
<1>6. CASE BeginMigration
  BY <1>0, <1>6, BoundAssumption DEF BeginMigration, TypeOK, tables, clio, Running
<1>7. CASE GetTxPage
  <2>1. cursor' \in Nat
    BY <1>0, <1>7, CursorLemma, HashSets, BoundAssumption DEF GetTxPage, TypeOK
  <2>2. page' \subseteq Hash /\ page' \subseteq Nat
    BY <1>0, <1>7, TxAssumption DEF GetTxPage, PageOf, Ahead, TypeOK
  <2>3. more' \in BOOLEAN /\ attempts' \in 0 .. MAX_RETRIES
    BY <1>7, BoundAssumption DEF GetTxPage
  <2> QED
    BY <1>0, <1>7, <2>1, <2>2, <2>3 DEF GetTxPage, TypeOK, tables, clio, Running
<1>8. CASE FetchTransactions
  <2>1. pc' \in {"page", "sync", "failed"} /\ cause' \in {"none", "timeout", "throw"}
    BY <1>0, <1>8
    DEF FetchTransactions, EndOfPage, maybeDoNFTWrite, doNFTWrite, TypeOK
  <2>2. attempts' \in 0 .. MAX_RETRIES
    BY <1>8, BoundAssumption DEF FetchTransactions
  <2> QED
    BY <1>0, <1>8, <2>1, <2>2 DEF FetchTransactions, TypeOK, tables, clio, Running
<1>9. CASE GetObjectPage
  <2>1. Key \in SUBSET Nat /\ IsFiniteSet(Key) /\ cursor \in Nat /\ OBJECT_PAGE \in Nat
    BY <1>0, ObjectAssumption, BoundAssumption DEF TypeOK
  <2>2. cursor' \in Nat
    BY <1>9, <2>1, CursorLemma DEF GetObjectPage
  <2>3. page' \subseteq Nat
    BY <1>9, <2>1 DEF GetObjectPage, PageOf, Ahead
  <2>4. pc' \in {"page", "sync"}
    BY <1>9 DEF GetObjectPage, EndOfPage, maybeDoNFTWrite, doNFTWrite
  <2>5. more' \in BOOLEAN /\ attempts' \in 0 .. MAX_RETRIES
    BY <1>9, BoundAssumption DEF GetObjectPage
  <2> QED
    BY <1>0, <1>9, <2>2, <2>3, <2>4, <2>5 DEF GetObjectPage, TypeOK, tables, clio, Running
<1>10. CASE ReadTimeout
  <2>1. attempts' \in 0 .. MAX_RETRIES
    BY <1>0, <1>10, BoundAssumption DEF ReadTimeout, TypeOK
  <2> QED
    BY <1>0, <1>10, <2>1 DEF ReadTimeout, TypeOK, tables, clio
<1>11. ASSUME NEW w \in writes, NEW a \in BOOLEAN, WriteLands(w, a) PROVE TypeOK'
  <2>1. {w} \in SUBSET writeNFTs(Records)
    BY <1>0 DEF OnlyHistory
  <2> QED
    BY <1>0, <1>1, <1>11, <2>1 DEF WriteLands, TypeOK, clio
<1>12. CASE Synced
  <2>1. /\ pc' \in {"page", "drop"} /\ step' \in {1, 2}
        /\ cursor' \in Nat /\ more' \in BOOLEAN
    <3>1. step \in {1, 2} /\ cursor \in Nat /\ more \in BOOLEAN
      BY <1>0 DEF TypeOK
    <3>2. CASE more
      BY <1>12, <3>1, <3>2, Zenon DEF Synced
    <3>3. CASE ~more /\ step = 1
      <4>1. pc' = "page" /\ step' = 2 /\ cursor' = 0 /\ more' = TRUE
        BY <1>12, <3>3, Zenon DEF Synced
      <4> QED
        BY <4>1
    <3>4. CASE ~more /\ step # 1
      BY <1>12, <3>1, <3>4, Zenon DEF Synced
    <3> QED
      BY <3>2, <3>3, <3>4, Zenon
  <2> QED
    BY <1>0, <1>12, <2>1 DEF Synced, TypeOK, tables, clio, Running
<1>13. CASE DropOldTable
  BY <1>0, <1>13 DEF DropOldTable, TypeOK, clio, Running
<1>14. CASE Restart
  <2>1. PICK W \in SUBSET writes : Upsert(W)
    BY <1>14 DEF Restart
  <2>2. W \in SUBSET writeNFTs(Records)
    BY <1>0 DEF OnlyHistory
  <2>3. runs' \in 1 .. MaxRuns
    BY <1>0, <1>14, BoundAssumption DEF Restart, TypeOK
  <2> QED
    BY <1>0, <1>1, <1>14, <2>1, <2>2, <2>3 DEF Restart, TypeOK, clio
<1>15. CASE UNCHANGED vars
  BY <1>0, <1>15 DEF vars, tables, clio, migrator, TypeOK
<1> QED
  BY <1>2, <1>3, <1>4, <1>5, <1>6, <1>7, <1>8, <1>9, <1>10, <1>11, <1>12, <1>13,
     <1>14, <1>15 DEF Next, MigratorStep

-----------------------------------------------------------------------------
(* Steps: rows of committed ledgers, and the phases of the migrator.        *)

(* A committed ledger has all its rows.                                     *)
LEMMA RowsStep == IInv /\ [Next]_vars => RowsCommitted'
<1> SUFFICES ASSUME IInv, [Next]_vars PROVE RowsCommitted'
  OBVIOUS
<1>0. TypeOK /\ RowsCommitted
  BY DEF IInv
<1>1. ASSUME UNCHANGED <<maxSequence, nfTokenTxs, transactions, building, clioTxWrites>>
      PROVE  RowsCommitted'
  BY <1>0, <1>1 DEF RowsCommitted, NextLedger
<1>2. CASE loadInitialLedger \/ buildNextLedger
  <2>1. clioTxWrites' = TxWritesOf(NextLedger) /\ NextLedger <= LastSeq
    BY <1>2, SequenceAssumption DEF loadInitialLedger, buildNextLedger, NextLedger
  <2>2. UNCHANGED <<maxSequence, nfTokenTxs, transactions>> /\ NextLedger' = NextLedger
    BY <1>2 DEF loadInitialLedger, buildNextLedger, tables, NextLedger
  <2> QED
    BY <1>0, <2>1, <2>2, TxWritesType DEF RowsCommitted
<1>3. ASSUME NEW w \in clioTxWrites, ClioTxWritten(w) PROVE RowsCommitted'
  <2>1. UNCHANGED <<maxSequence, building>> /\ NextLedger' = NextLedger
    BY <1>3 DEF ClioTxWritten, NextLedger
  <2>2. /\ nfTokenTxs \subseteq nfTokenTxs' /\ transactions \subseteq transactions'
        /\ w[1] = "transactions" => w[2] \in transactions'
        /\ w[1] = "nf_token_transactions" => w[2] \in nfTokenTxs'
        /\ w[1] \in {"transactions", "nf_token_transactions"}
        /\ \A h \in nfTokenTxs' : h \in nfTokenTxs \/ (h = w[2] /\ w[1] = "nf_token_transactions")
        /\ clioTxWrites' = clioTxWrites \ {w}
    BY <1>0, <1>3 DEF ClioTxWritten, TypeOK
  <2>3. \A h \in nfTokenTxs' : IndexedInNFTTxs(h)
    BY <1>0, <2>2 DEF RowsCommitted
  <2>4. building => \A v \in TxWritesOf(NextLedger) :
            \/ v \in clioTxWrites'
            \/ v[1] = "transactions" /\ v[2] \in transactions'
            \/ v[1] = "nf_token_transactions" /\ v[2] \in nfTokenTxs'
    BY <1>0, <2>2 DEF RowsCommitted
  <2> QED
    BY <1>0, <2>1, <2>2, <2>3, <2>4 DEF RowsCommitted
<1>4. CASE finishWrites
  <2>1. /\ building /\ clioTxWrites = {} /\ clioTxWrites' = {} /\ ~building'
        /\ maxSequence' = NextLedger /\ UNCHANGED <<nfTokenTxs, transactions>>
    BY <1>4 DEF finishWrites
  <2>2. ASSUME NEW h \in Hash, Tx[h].ledgerSequence <= NextLedger
        PROVE  h \in transactions /\ (IndexedInNFTTxs(h) => h \in nfTokenTxs)
    <3>1. CASE Tx[h].ledgerSequence <= maxSequence
      BY <1>0, <3>1 DEF RowsCommitted
    <3>2. CASE Tx[h].ledgerSequence = NextLedger
      <4>1. \A v \in TxWritesOf(NextLedger) :
              \/ v[1] = "transactions" /\ v[2] \in transactions
              \/ v[1] = "nf_token_transactions" /\ v[2] \in nfTokenTxs
        BY <1>0, <2>1 DEF RowsCommitted
      <4>2. /\ <<"transactions", h>> \in TxWritesOf(NextLedger)
            /\ IndexedInNFTTxs(h) => <<"nf_token_transactions", h>> \in TxWritesOf(NextLedger)
        BY <3>2, TxWritesType
      <4> QED
        BY <4>1, <4>2
    <3> QED
      BY <1>0, <2>2, <3>1, <3>2, NextLedgerType, TxFields
  <2> QED
    BY <1>0, <2>1, <2>2 DEF RowsCommitted
<1>5. ASSUME NEW w \in clioNFTWrites, ClioNFTWritten(w) PROVE RowsCommitted'
  BY <1>1, <1>5 DEF ClioNFTWritten
<1>6. ASSUME NEW w \in writes, NEW a \in BOOLEAN, WriteLands(w, a) PROVE RowsCommitted'
  BY <1>1, <1>6 DEF WriteLands, clio
<1>7. CASE \/ MigratorStep \/ ReadTimeout \/ Restart \/ UNCHANGED vars
  BY <1>1, <1>7
  DEF MigratorStep, BeginMigration, GetTxPage, FetchTransactions, GetObjectPage, Synced,
      DropOldTable, ReadTimeout, Restart, vars, tables, clio
<1> QED
  BY <1>2, <1>3, <1>4, <1>5, <1>6, <1>7 DEF Next

(* What the migrator holds in each phase.                                   *)
LEMMA PhasesStep == IInv /\ [Next]_vars => Phases'
<1> SUFFICES ASSUME IInv, [Next]_vars PROVE Phases'
  OBVIOUS
<1>0. TypeOK /\ OnlyHistory /\ Phases
  BY DEF IInv
<1>1. ASSUME UNCHANGED migrator, maxSequence' \in Nat, maxSequence <= maxSequence',
             nfTokenTxs \subseteq nfTokenTxs'
      PROVE  Phases'
  <2>1. range <= maxSequence'
    BY <1>0, <1>1, SequenceAssumption DEF Phases, TypeOK, Ledger
  <2> QED
    BY <1>0, <1>1, <2>1 DEF Phases, migrator
<1>2. CASE \/ loadInitialLedger \/ buildNextLedger \/ finishWrites
           \/ \E w \in clioTxWrites : ClioTxWritten(w)
           \/ \E w \in clioNFTWrites : ClioNFTWritten(w)
           \/ UNCHANGED vars
  <2>1. UNCHANGED migrator /\ nfTokenTxs \subseteq nfTokenTxs'
    BY <1>2 DEF loadInitialLedger, buildNextLedger, finishWrites, ClioTxWritten,
                ClioNFTWritten, vars, tables
  <2>2. maxSequence' = maxSequence \/ maxSequence' = NextLedger
    BY <1>2 DEF loadInitialLedger, buildNextLedger, finishWrites, ClioTxWritten,
                ClioNFTWritten, vars, tables
  <2>3. maxSequence' \in Nat /\ maxSequence <= maxSequence'
    BY <1>0, <2>2, NextLedgerType
  <2> QED
    BY <1>1, <2>1, <2>3
<1>3. CASE BeginMigration
  BY <1>0, <1>3, SequenceAssumption DEF BeginMigration, Phases, TypeOK, Ledger, Running, tables
<1>4. CASE GetTxPage
  <2>1. page' \subseteq nfTokenTxs
    BY <1>4 DEF GetTxPage, PageOf, Ahead
  <2> QED
    BY <1>0, <1>4, <2>1 DEF GetTxPage, Phases, Running, tables
<1>5. CASE FetchTransactions
  <2>1. CASE page \subseteq transactions /\ \A h \in PageMints : getNFTDataFromTx(h) # NoNFT
    <3> DEFINE data == toWrite \cup {getNFTDataFromTx(h) : h \in PageMints}
    <3>1. EndOfPage(data, more) /\ UNCHANGED cause
      BY <1>5, <2>1 DEF FetchTransactions
    <3>2. data \in SUBSET Records
      BY <1>0, <1>5, <2>1, PageRecords DEF FetchTransactions, TypeOK, OnlyHistory
    <3> HIDE DEF data
    <3>3. /\ pc' \in {"page", "sync"}
          /\ pc' = "page" => writes' = writes /\ more
          /\ pc' = "sync" => toWrite' = {}
      <4>1. more \in BOOLEAN
        BY <1>0 DEF TypeOK
      <4> QED
        BY <1>0, <3>1, <3>2, <4>1, BatchLemma, Zenon DEF OnlyHistory
    <3> QED
      BY <1>0, <1>5, <3>1, <3>3 DEF FetchTransactions, Phases, Running, tables
  <2>2. CASE ~(page \subseteq transactions /\ \A h \in PageMints : getNFTDataFromTx(h) # NoNFT)
    BY <1>0, <1>5, <2>2 DEF FetchTransactions, Phases, Running, tables
  <2> QED
    BY <2>1, <2>2
<1>6. CASE GetObjectPage
  <2> DEFINE data == toWrite \cup UNION {getNFTDataFromObj(k) : k \in page'}
  <2>1. EndOfPage(data, more')
    BY <1>6 DEF GetObjectPage
  <2>2. page' \in SUBSET Key
    BY <1>6 DEF GetObjectPage, PageOf, Ahead
  <2>3. data \in SUBSET Records
    BY <1>0, <2>2, ObjectRecords DEF OnlyHistory
  <2> HIDE DEF data
  <2>4. /\ pc' \in {"page", "sync"}
        /\ pc' = "page" => writes' = writes /\ more'
        /\ pc' = "sync" => toWrite' = {}
    <3>1. more' \in BOOLEAN
      BY <1>6 DEF GetObjectPage
    <3> QED
      BY <1>0, <2>1, <2>3, <3>1, BatchLemma, Zenon DEF OnlyHistory
  <2> QED
    BY <1>0, <1>6, <2>4 DEF GetObjectPage, Phases, Running, tables
<1>7. CASE ReadTimeout
  BY <1>0, <1>7 DEF ReadTimeout, Phases, Running, tables
<1>8. ASSUME NEW w \in writes, NEW a \in BOOLEAN, WriteLands(w, a) PROVE Phases'
  BY <1>0, <1>8 DEF WriteLands, Phases, Running
<1>9. CASE Synced
  BY <1>0, <1>9 DEF Synced, Phases, Running, tables, TypeOK
<1>10. CASE DropOldTable
  BY <1>0, <1>10 DEF DropOldTable, Phases, Running
<1>11. CASE Restart
  BY <1>0, <1>11 DEF Restart, Phases, Running
<1> QED
  BY <1>2, <1>3, <1>4, <1>5, <1>6, <1>7, <1>8, <1>9, <1>10, <1>11 DEF Next, MigratorStep

-----------------------------------------------------------------------------
(* Steps: nothing is lost.                                                  *)

(* No step of either process hides a row of the history.                    *)
LEMMA LandedKept ==
    ASSUME IInv, [Next]_vars
    PROVE  \A w \in writeNFTs(Records) : Landed(w) => Landed(w)'
<1>0. TypeOK /\ OnlyHistory
  BY DEF IInv
<1>1. ASSUME NEW W \in SUBSET writeNFTs(Records), Upsert(W)
      PROVE  \A w \in writeNFTs(Records) : Landed(w) => Landed(w)'
  BY <1>0, <1>1, UpsertLemma
<1>2. ASSUME UNCHANGED <<nfTokens, nfTokenUris, issuerNfTokens>>
      PROVE  \A w \in writeNFTs(Records) : Landed(w) => Landed(w)'
  BY <1>2 DEF Landed
<1>3. ASSUME NEW w \in clioNFTWrites, ClioNFTWritten(w)
      PROVE  \E W \in SUBSET writeNFTs(Records) : Upsert(W)
  <2>1. {w} \in SUBSET writeNFTs(Records) /\ Upsert({w})
    BY <1>0, <1>3 DEF ClioNFTWritten, OnlyHistory
  <2> QED
    BY <2>1
<1>4. ASSUME NEW w \in writes, NEW a \in BOOLEAN, WriteLands(w, a)
      PROVE  \E W \in SUBSET writeNFTs(Records) : Upsert(W)
  <2>1. {w} \in SUBSET writeNFTs(Records) /\ Upsert({w})
    BY <1>0, <1>4 DEF WriteLands, OnlyHistory
  <2> QED
    BY <2>1
<1>5. ASSUME Restart PROVE \E W \in SUBSET writeNFTs(Records) : Upsert(W)
  BY <1>0, <1>5 DEF Restart, OnlyHistory
<1>6. ASSUME \/ loadInitialLedger \/ buildNextLedger \/ finishWrites
             \/ \E w \in clioTxWrites : ClioTxWritten(w)
             \/ MigratorStep \/ ReadTimeout \/ UNCHANGED vars
      PROVE  UNCHANGED <<nfTokens, nfTokenUris, issuerNfTokens>>
  BY <1>6
  DEF loadInitialLedger, buildNextLedger, finishWrites, ClioTxWritten, MigratorStep,
      BeginMigration, GetTxPage, FetchTransactions, GetObjectPage, Synced, DropOldTable,
      ReadTimeout, vars, tables
<1> QED
  BY <1>1, <1>2, <1>3, <1>4, <1>5, <1>6 DEF Next

(* A covered record stays covered unless the batch or a request is given up.*)
LEMMA CoveredKept ==
    ASSUME IInv, [Next]_vars, toWrite \subseteq toWrite',
           \A w \in writes : w \in writes' \/ Landed(w)',
           NEW r \in Records, Covered(r)
    PROVE  Covered(r)'
<1>1. \A w \in writeNFTs({r}) : w \in writeNFTs(Records)
  BY RequestsOf, RecordsType
<1>2. CASE r \in toWrite
  BY <1>2 DEF Covered
<1>3. CASE \A w \in writeNFTs({r}) : w \in writes \/ Landed(w)
  <2>1. \A w \in writeNFTs({r}) : w \in writes' \/ Landed(w)'
    BY <1>1, <1>3, LandedKept
  <2> QED
    BY <2>1 DEF Covered, writeNFTs
<1> QED
  BY <1>2, <1>3 DEF Covered

(* The end of a page covers the batch.                                      *)
LEMMA BatchCovers ==
    ASSUME IInv, [Next]_vars, writes = {}, NEW data \in SUBSET Records,
           toWrite \subseteq data, NEW m \in BOOLEAN, EndOfPage(data, m),
           NEW r \in Records, r \in data \/ Covered(r)
    PROVE  Covered(r)'
<1>1. toWrite \subseteq Records /\ writes \subseteq writeNFTs(Records)
  BY DEF IInv, OnlyHistory
<1>2. /\ pc' \in {"page", "sync"}
      /\ pc' = "page" => toWrite' = data /\ writes' = writes
      /\ pc' = "sync" => toWrite' = {} /\ writes' = writeNFTs(data)
  BY <1>1, BatchLemma, Zenon
<1>3. \A w \in writeNFTs({r}) : w \in writeNFTs(Records)
  BY RequestsOf, RecordsType
<1>4. CASE r \in data
  <2>1. writeNFTs({r}) \subseteq writeNFTs(data)
    BY <1>4, RequestsMonotone
  <2> QED
    BY <1>2, <1>4, <2>1 DEF Covered, writeNFTs
<1>5. CASE r \notin data
  <2>1. \A w \in writeNFTs({r}) : Landed(w)
    BY <1>5 DEF Covered
  <2>2. \A w \in writeNFTs({r}) : Landed(w)'
    BY <1>3, <2>1, LandedKept
  <2> QED
    BY <2>2 DEF Covered, writeNFTs
<1> QED
  BY <1>4, <1>5

(* The steps that leave the scan where it is.                               *)
LEMMA ScanUntouched ==
    ASSUME IInv, [Next]_vars,
           \/ loadInitialLedger \/ buildNextLedger \/ finishWrites
           \/ \E w \in clioTxWrites : ClioTxWritten(w)
           \/ \E w \in clioNFTWrites : ClioNFTWritten(w)
           \/ \E w \in writes, a \in BOOLEAN : WriteLands(w, a)
           \/ DropOldTable \/ ReadTimeout \/ UNCHANGED vars
    PROVE  /\ UNCHANGED <<step, range, cursor, more, page, toWrite>>
           /\ pc' \in Running \cup {"success"} => pc \in Running \cup {"success"}
           /\ pc = "fetch" /\ pc' # "failed" => pc' = "fetch"
           /\ \A w \in writes : w \in writes' \/ Landed(w)'
<1>1. ASSUME NEW w \in writes, NEW a \in BOOLEAN, WriteLands(w, a)
      PROVE  Landed(w)'
  <2>1. {w} \in SUBSET writeNFTs(Records) /\ Upsert({w}) /\ TypeOK
    BY <1>1 DEF IInv, OnlyHistory, WriteLands
  <2> QED
    BY <2>1, UpsertLemma
<1>2. ASSUME NEW w \in writes, NEW a \in BOOLEAN, WriteLands(w, a)
      PROVE  /\ UNCHANGED <<step, range, cursor, more, page, toWrite, pc>>
             /\ \A v \in writes : v \in writes' \/ Landed(v)'
  BY <1>1, <1>2 DEF WriteLands
<1>3. ASSUME UNCHANGED migrator
      PROVE  UNCHANGED <<step, range, cursor, more, page, toWrite, pc, writes>>
  BY <1>3 DEF migrator
<1>4. ASSUME \/ loadInitialLedger \/ buildNextLedger \/ finishWrites
             \/ \E w \in clioTxWrites : ClioTxWritten(w)
             \/ \E w \in clioNFTWrites : ClioNFTWritten(w)
             \/ UNCHANGED vars
      PROVE  UNCHANGED migrator
  BY <1>4 DEF loadInitialLedger, buildNextLedger, finishWrites, ClioTxWritten,
              ClioNFTWritten, vars
<1>5. CASE DropOldTable \/ ReadTimeout
  BY <1>5 DEF DropOldTable, ReadTimeout, Running
<1> QED
  BY <1>2, <1>3, <1>4, <1>5

(* While it scans, the migrator holds what its phase says.                  *)
LEMMA PhaseFacts ==
    ASSUME IInv
    PROVE  /\ pc \in {"page", "fetch", "drop", "success"} => writes = {}
           /\ pc = "sync" => toWrite = {}
           /\ more \in BOOLEAN /\ step \in {1, 2} /\ cursor \in Nat
           /\ range \in Nat /\ maxSequence \in Nat /\ range <= maxSequence
           /\ toWrite \subseteq Records
  BY SequenceAssumption DEF IInv, Phases, TypeOK, OnlyHistory, Ledger

(* No mint that step 1 has passed is lost.                                  *)
LEMMA MintsStep == IInv /\ [Next]_vars => MintsCovered'
<1> SUFFICES ASSUME IInv, [Next]_vars, (pc \in Running \cup {"success"})',
                    NEW h \in Mints(range')
             PROVE  \/ (step = 1 /\ more /\ h > cursor)'
                    \/ (pc = "fetch" /\ h \in page)'
                    \/ Covered(Tx[h].nft)'
  BY DEF MintsCovered, Mints
<1> DEFINE r == Tx[h].nft
<1>0. /\ h \in Hash /\ h \in Nat /\ h > 0 /\ r \in Records /\ Tx[h].mint /\ Tx[h].success
      /\ getNFTDataFromTx(h) = r /\ Tx[h].ledgerSequence \in Nat
      /\ Tx[h].ledgerSequence <= range'
  BY MintRecord, TxFields
<1>1. ASSUME range' = range, pc \in Running \cup {"success"}
      PROVE  \/ step = 1 /\ more /\ h > cursor
             \/ pc = "fetch" /\ h \in page
             \/ Covered(r)
  BY <1>1 DEF IInv, MintsCovered
<1>2. CASE \/ loadInitialLedger \/ buildNextLedger \/ finishWrites
           \/ \E w \in clioTxWrites : ClioTxWritten(w)
           \/ \E w \in clioNFTWrites : ClioNFTWritten(w)
           \/ \E w \in writes, a \in BOOLEAN : WriteLands(w, a)
           \/ DropOldTable \/ ReadTimeout \/ UNCHANGED vars
  <2>1. /\ UNCHANGED <<step, range, cursor, more, page, toWrite>>
        /\ pc \in Running \cup {"success"}
        /\ pc = "fetch" => pc' = "fetch"
        /\ \A w \in writes : w \in writes' \/ Landed(w)'
    BY <1>2, ScanUntouched DEF Running
  <2>2. Covered(r) => Covered(r)'
    BY <1>0, <2>1, CoveredKept
  <2> QED
    BY <1>1, <2>1, <2>2
<1>3. CASE BeginMigration
  BY <1>0, <1>3 DEF BeginMigration
<1>4. CASE GetTxPage
  <2>1. /\ pc = "page" /\ step = 1 /\ pc' = "fetch" /\ step' = 1
        /\ page' = PageOf(nfTokenTxs, cursor, TX_PAGE) /\ MoveCursor(page')
        /\ UNCHANGED <<range, toWrite, writes>>
    BY <1>4 DEF GetTxPage
  <2>2. Covered(r) => Covered(r)'
    BY <1>0, <2>1, CoveredKept
  <2>3. ASSUME h > cursor, h \notin page' PROVE more' /\ h > cursor'
    <3>1. h \in nfTokenTxs
      BY <1>0, <2>1, PhaseFacts DEF IInv, RowsCommitted, IndexedInNFTTxs
    <3>2. nfTokenTxs \in SUBSET Nat /\ IsFiniteSet(nfTokenTxs) /\ TX_PAGE \in Nat
      BY HashSets, BoundAssumption DEF IInv, TypeOK
    <3>3. h > cursor'
      BY <2>1, <2>3, <3>1, <3>2, CursorLemma, PhaseFacts
    <3>4. Ahead(nfTokenTxs, cursor) # page'
      BY <2>3, <3>1 DEF Ahead
    <3>5. more'
      BY <1>4, <3>4, Zenon DEF GetTxPage
    <3> QED
      BY <3>3, <3>5
  <2> QED
    BY <1>1, <2>1, <2>2, <2>3 DEF Running
<1>5. CASE FetchTransactions
  <2> DEFINE data == toWrite \cup {getNFTDataFromTx(g) : g \in PageMints}
  <2>0. /\ pc = "fetch" /\ UNCHANGED <<step, range, cursor, more, page>>
        /\ writes = {} /\ more \in BOOLEAN
    BY <1>5, PhaseFacts DEF FetchTransactions
  <2>1. /\ page \subseteq transactions
        /\ \A g \in PageMints : getNFTDataFromTx(g) # NoNFT
        /\ EndOfPage(data, more)
    BY <1>5, Zenon DEF FetchTransactions, Running
  <2>2. data \in SUBSET Records /\ toWrite \subseteq data
    BY <2>0, <2>1, PageRecords, PhaseFacts DEF IInv, TypeOK
  <2>3. h \in page => r \in data
    BY <1>0, <2>0 DEF PageMints
  <2> HIDE DEF data
  <2>4. r \in data \/ Covered(r) => Covered(r)'
    BY <1>0, <2>0, <2>1, <2>2, BatchCovers
  <2> QED
    BY <1>1, <2>0, <2>3, <2>4 DEF Running
<1>6. CASE GetObjectPage
  <2> DEFINE data == toWrite \cup UNION {getNFTDataFromObj(k) : k \in page'}
  <2>0. /\ pc = "page" /\ step = 2 /\ UNCHANGED <<step, range>> /\ writes = {}
        /\ more' \in BOOLEAN /\ EndOfPage(data, more') /\ page' \in SUBSET Key
    BY <1>6, PhaseFacts DEF GetObjectPage, PageOf, Ahead
  <2>1. data \in SUBSET Records /\ toWrite \subseteq data
    BY <2>0, ObjectRecords, PhaseFacts
  <2> HIDE DEF data
  <2>2. Covered(r) => Covered(r)'
    BY <1>0, <2>0, <2>1, BatchCovers
  <2> QED
    BY <1>1, <2>0, <2>2 DEF Running
<1>7. CASE Synced
  <2>1. pc = "sync" /\ writes = {} /\ UNCHANGED <<range, toWrite, writes>>
    BY <1>7 DEF Synced
  <2>2. Covered(r) => Covered(r)'
    BY <1>0, <2>1, CoveredKept
  <2>3. more => UNCHANGED <<step, cursor, more>>
    BY <1>7 DEF Synced
  <2> QED
    BY <1>1, <2>1, <2>2, <2>3 DEF Running
<1>8. ~Restart
  BY DEF Restart, Running
<1> QED
  BY <1>2, <1>3, <1>4, <1>5, <1>6, <1>7, <1>8 DEF Next, MigratorStep

(* No object that step 2 has passed is lost.                                *)
LEMMA ObjectsStep == IInv /\ [Next]_vars => ObjectsCovered'
<1> SUFFICES ASSUME IInv, [Next]_vars, (pc \in Running \cup {"success"})', step' = 2,
                    NEW k \in Key
             PROVE  \/ (more /\ k > cursor)'
                    \/ \A r \in getNFTDataFromObj(k) : Covered(r)'
  BY DEF ObjectsCovered, getNFTDataFromObj
<1>0. /\ getNFTDataFromObj(k) \subseteq Records /\ k \in Nat /\ k > 0
      /\ Key \in SUBSET Nat /\ IsFiniteSet(Key) /\ OBJECT_PAGE \in Nat
  BY ObjectAssumption, BoundAssumption, RecordsType DEF InitialNFTs
<1>1. ASSUME step = 2, pc \in Running \cup {"success"}
      PROVE  \/ more /\ k > cursor
             \/ \A r \in getNFTDataFromObj(k) : Covered(r)
  BY <1>1 DEF IInv, ObjectsCovered
<1>2. CASE \/ loadInitialLedger \/ buildNextLedger \/ finishWrites
           \/ \E w \in clioTxWrites : ClioTxWritten(w)
           \/ \E w \in clioNFTWrites : ClioNFTWritten(w)
           \/ \E w \in writes, a \in BOOLEAN : WriteLands(w, a)
           \/ DropOldTable \/ ReadTimeout \/ UNCHANGED vars
  <2>1. /\ UNCHANGED <<step, range, cursor, more, page, toWrite>>
        /\ pc \in Running \cup {"success"}
        /\ \A w \in writes : w \in writes' \/ Landed(w)'
    BY <1>2, ScanUntouched
  <2>2. \A r \in getNFTDataFromObj(k) : Covered(r) => Covered(r)'
    BY <1>0, <2>1, CoveredKept
  <2> QED
    BY <1>1, <2>1, <2>2
<1>3. CASE GetObjectPage
  <2> DEFINE data == toWrite \cup UNION {getNFTDataFromObj(j) : j \in page'}
  <2>0. /\ pc = "page" /\ step = 2 /\ writes = {} /\ cursor \in Nat
        /\ more' \in BOOLEAN /\ EndOfPage(data, more') /\ page' \in SUBSET Key
        /\ page' = PageOf(Key, cursor, OBJECT_PAGE) /\ MoveCursor(page')
        /\ more' = (Cardinality(Ahead(Key, cursor)) >= OBJECT_PAGE)
    BY <1>3, PhaseFacts DEF GetObjectPage, PageOf, Ahead
  <2>1. data \in SUBSET Records /\ toWrite \subseteq data
    BY <2>0, ObjectRecords, PhaseFacts
  <2>2. k \in page' => getNFTDataFromObj(k) \subseteq data
    OBVIOUS
  <2> HIDE DEF data
  <2>3. \A r \in getNFTDataFromObj(k) : r \in data \/ Covered(r) => Covered(r)'
    BY <1>0, <2>0, <2>1, BatchCovers
  <2>4. ASSUME k > cursor, k \notin page' PROVE more' /\ k > cursor'
    <3>1. k > cursor'
      BY <1>0, <2>0, <2>4, CursorLemma
    <3>2. page' # Ahead(Key, cursor)
      BY <2>4 DEF Ahead
    <3>3. ~(Cardinality(Ahead(Key, cursor)) < OBJECT_PAGE)
      BY <1>0, <2>0, <3>2, PageLemma
    <3>4. Cardinality(Ahead(Key, cursor)) \in Nat
      <4>1. Ahead(Key, cursor) \in SUBSET Key
        BY DEF Ahead
      <4>2. IsFiniteSet(Ahead(Key, cursor))
        BY <1>0, <4>1, FS_Subset
      <4> QED
        BY <4>2, FS_CardinalityType
    <3>5. Cardinality(Ahead(Key, cursor)) >= OBJECT_PAGE
      BY <1>0, <3>3, <3>4
    <3> QED
      BY <2>0, <3>1, <3>5
  <2>5. \/ more /\ k > cursor
        \/ \A r \in getNFTDataFromObj(k) : Covered(r)
    BY <1>1, <2>0 DEF Running
  <2> QED
    BY <2>2, <2>3, <2>4, <2>5
<1>4. CASE Synced
  <2>1. pc = "sync" /\ UNCHANGED <<toWrite, writes>>
    BY <1>4 DEF Synced
  <2>2. \A r \in getNFTDataFromObj(k) : Covered(r) => Covered(r)'
    BY <1>0, <2>1, CoveredKept
  <2>3. CASE step = 2
    <3>1. more => UNCHANGED <<step, cursor, more>>
      BY <1>4 DEF Synced
    <3> QED
      BY <1>1, <2>1, <2>2, <2>3, <3>1 DEF Running
  <2>4. CASE step # 2
    <3>1. more \in BOOLEAN /\ step = 1
      BY <2>4, PhaseFacts
    <3>2. ~more
      BY <1>4, <2>4, <3>1 DEF Synced
    <3>3. cursor' = 0 /\ more' = TRUE
      BY <1>4, <3>1, <3>2, Zenon DEF Synced
    <3> QED
      BY <1>0, <3>3
  <2> QED
    BY <2>3, <2>4
<1>5. ~Restart /\ ~BeginMigration /\ ~GetTxPage /\ ~FetchTransactions
  <2>1. ~Restart /\ ~BeginMigration /\ ~GetTxPage
    BY DEF Restart, BeginMigration, GetTxPage, Running
  <2>2. ~FetchTransactions
    BY DEF FetchTransactions, IInv, Phases
  <2> QED
    BY <2>1, <2>2
<1> QED
  BY <1>2, <1>3, <1>4, <1>5 DEF Next, MigratorStep

(* The migrator writes nothing above the range it read.                     *)
LEMMA RangeStep == IInv /\ [Next]_vars => WithinRange'
<1> SUFFICES ASSUME IInv, [Next]_vars PROVE WithinRange'
  OBVIOUS
<1>0. WithinRange /\ TypeOK
  BY DEF IInv
<1>1. ASSUME NEW data \in SUBSET Records, NEW m \in BOOLEAN, EndOfPage(data, m),
             writes = {}, range' = range, \A r \in data : r.ledgerSequence <= range
      PROVE  WithinRange'
  <2>1. toWrite \subseteq Records /\ writes \subseteq writeNFTs(Records)
    BY DEF IInv, OnlyHistory
  <2>2. /\ pc' \in {"page", "sync"}
        /\ pc' = "page" => toWrite' = data /\ writes' = writes
        /\ pc' = "sync" => toWrite' = {} /\ writes' = writeNFTs(data)
    BY <1>1, <2>1, BatchLemma, Zenon
  <2>3. \A w \in writeNFTs(data) : w[2] \in data
    BY DEF writeNFTs
  <2> QED
    BY <1>1, <2>2, <2>3 DEF WithinRange
<1>2. CASE FetchTransactions
  <2> DEFINE data == toWrite \cup {getNFTDataFromTx(g) : g \in PageMints}
  <2>0. pc = "fetch" /\ range' = range /\ writes = {} /\ more \in BOOLEAN /\ page \subseteq Hash
    BY <1>0, <1>2, PhaseFacts DEF FetchTransactions, TypeOK
  <2>1. CASE page \subseteq transactions /\ \A h \in PageMints : getNFTDataFromTx(h) # NoNFT
    <3>1. EndOfPage(data, more)
      BY <1>2, <2>1 DEF FetchTransactions
    <3>2. data \in SUBSET Records
      BY <2>0, <2>1, PageRecords, PhaseFacts
    <3>3. ASSUME NEW g \in PageMints PROVE getNFTDataFromTx(g).ledgerSequence <= range
      BY <2>0, <2>1, TxAssumption DEF PageMints, getNFTDataFromTx
    <3>4. \A r \in data : r.ledgerSequence <= range
      BY <1>0, <3>3 DEF WithinRange
    <3> HIDE DEF data
    <3> QED
      BY <1>1, <2>0, <3>1, <3>2, <3>4
  <2>2. CASE ~(page \subseteq transactions /\ \A h \in PageMints : getNFTDataFromTx(h) # NoNFT)
    BY <1>0, <1>2, <2>2 DEF FetchTransactions, WithinRange
  <2> QED
    BY <2>1, <2>2
<1>3. CASE GetObjectPage
  <2> DEFINE data == toWrite \cup UNION {getNFTDataFromObj(k) : k \in page'}
  <2>0. /\ pc = "page" /\ range' = range /\ writes = {}
        /\ more' \in BOOLEAN /\ EndOfPage(data, more') /\ page' \in SUBSET Key
    BY <1>3, PhaseFacts DEF GetObjectPage, PageOf, Ahead
  <2>1. data \in SUBSET Records
    BY <2>0, ObjectRecords, PhaseFacts
  <2>2. MinSeq <= range
    BY <1>0, <2>0, SequenceAssumption DEF IInv, Phases, TypeOK, Ledger, Running
  <2>3. \A r \in data : r.ledgerSequence <= range
    BY <1>0, <2>0, <2>2, ObjectAssumption DEF WithinRange, getNFTDataFromObj
  <2> HIDE DEF data
  <2> QED
    BY <1>1, <2>0, <2>1, <2>3
<1>4. ASSUME UNCHANGED <<range, toWrite>>, writes' \subseteq writes PROVE WithinRange'
  BY <1>0, <1>4 DEF WithinRange
<1>5. CASE BeginMigration \/ Restart
  BY <1>5 DEF BeginMigration, Restart, WithinRange
<1>6. ASSUME NEW w \in writes, NEW a \in BOOLEAN, WriteLands(w, a) PROVE WithinRange'
  BY <1>4, <1>6 DEF WriteLands
<1>7. CASE \/ loadInitialLedger \/ buildNextLedger \/ finishWrites
           \/ \E w \in clioTxWrites : ClioTxWritten(w)
           \/ \E w \in clioNFTWrites : ClioNFTWritten(w)
           \/ GetTxPage \/ Synced \/ DropOldTable \/ ReadTimeout \/ UNCHANGED vars
  BY <1>4, <1>7
  DEF loadInitialLedger, buildNextLedger, finishWrites, ClioTxWritten, ClioNFTWritten,
      GetTxPage, Synced, DropOldTable, ReadTimeout, vars, migrator
<1> QED
  BY <1>2, <1>3, <1>5, <1>6, <1>7 DEF Next, MigratorStep

(* Parsing a page fails only on a transaction newer than the range.         *)
LEMMA ThrowStep == IInv /\ [Next]_vars => ThrowsOnlyOnNewerTx'
<1> SUFFICES ASSUME IInv, [Next]_vars, cause' = "throw"
             PROVE  \E h \in page' : Tx[h].ledgerSequence > range'
  BY DEF ThrowsOnlyOnNewerTx
<1>1. CASE cause = "throw" /\ UNCHANGED <<page, range>>
  BY <1>1 DEF IInv, ThrowsOnlyOnNewerTx
<1>2. CASE FetchTransactions /\ cause # "throw"
  <2>1. /\ pc = "fetch" /\ UNCHANGED <<page, range>> /\ page \subseteq Hash
        /\ page \subseteq nfTokenTxs /\ range \in Nat /\ maxSequence \in Nat
        /\ range <= maxSequence
    BY <1>2, PhaseFacts DEF FetchTransactions, IInv, Phases, TypeOK
  <2>2. ~(page \subseteq transactions /\ \A h \in PageMints : getNFTDataFromTx(h) # NoNFT)
    BY <1>2 DEF FetchTransactions
  <2>3. CASE ~(page \subseteq transactions)
    <3>1. PICK h \in page : h \notin transactions
      BY <2>3
    <3>2. ~(Tx[h].ledgerSequence <= maxSequence) /\ Tx[h].ledgerSequence \in Nat
      BY <2>1, <3>1, TxFields DEF IInv, RowsCommitted
    <3> QED
      BY <2>1, <3>1, <3>2
  <2>4. \A h \in PageMints : getNFTDataFromTx(h) # NoNFT
    BY <2>1, TxAssumption, TxFields
    DEF PageMints, getNFTDataFromTx, IInv, RowsCommitted, IndexedInNFTTxs
  <2> QED
    BY <2>2, <2>3, <2>4
<1>3. CASE ~FetchTransactions /\ cause # "throw"
  BY <1>3
  DEF Next, MigratorStep, loadInitialLedger, buildNextLedger, finishWrites, ClioTxWritten,
      ClioNFTWritten, BeginMigration, GetTxPage, GetObjectPage, Synced, DropOldTable,
      ReadTimeout, WriteLands, Restart, vars, migrator
<1>4. CASE cause = "throw"
  <2>1. pc = "failed"
    BY <1>4 DEF IInv, Phases
  <2>2. UNCHANGED <<page, range>>
    BY <2>1
    DEF Next, MigratorStep, loadInitialLedger, buildNextLedger, finishWrites, ClioTxWritten,
        ClioNFTWritten, BeginMigration, GetTxPage, FetchTransactions, GetObjectPage, Synced,
        DropOldTable, ReadTimeout, WriteLands, Restart, vars, migrator
  <2> QED
    BY <1>1, <1>4, <2>2
<1> QED
  BY <1>2, <1>3, <1>4

-----------------------------------------------------------------------------
(* Theorems.                                                                *)

(* IInv is inductive.                                                       *)
LEMMA NextIInv == IInv /\ [Next]_vars => IInv'
<1> SUFFICES ASSUME IInv, [Next]_vars PROVE IInv'
  OBVIOUS
<1>1. TypeOK' /\ OnlyHistory' /\ RowsCommitted' /\ Phases' /\ WithinRange'
  BY TypeStep, HistoryStep, RowsStep, PhasesStep, RangeStep
<1>2. MintsCovered' /\ ObjectsCovered' /\ ThrowsOnlyOnNewerTx'
  BY MintsStep, ObjectsStep, ThrowStep
<1> QED
  BY <1>1, <1>2 DEF IInv

(* Every behaviour satisfies the inductive invariant.                       *)
THEOREM Inductive == Spec => []IInv
  BY InitIInv, NextIInv, PTL DEF Spec

(* Types of the tables and of both processes.                               *)
THEOREM TypeCorrect == Spec => []TypeOK
<1>1. IInv => TypeOK
  BY DEF IInv
<1> QED
  BY <1>1, Inductive, PTL

(* A record whose three requests landed is recorded, and conversely.        *)
LEMMA RecordedIsLanded ==
    ASSUME NEW r \in Records, r.uri # NoURI
    PROVE  Recorded(r) <=> \A w \in writeNFTs({r}) : Landed(w)
<1>1. /\ <<"nf_tokens", r>> \in writeNFTs({r})
      /\ <<"issuer_nf_tokens_v2", r>> \in writeNFTs({r})
      /\ <<"nf_token_uris", r>> \in writeNFTs({r})
      /\ \A w \in writeNFTs({r}) : w[2] = r /\ w[1] \in NFTTable
  BY DEF writeNFTs, NFTTable
<1> QED
  BY <1>1 DEF Recorded, Landed, NFTTable

(* Once both scans are over and nothing is outstanding, all is migrated.    *)
LEMMA ScansOver ==
    ASSUME IInv, pc \in {"drop", "success"}, range # 0
    PROVE  Migrated(range)
<1>1. writes = {} /\ toWrite = {} /\ step = 2 /\ ~more
  BY PhaseFacts DEF IInv, Phases
<1>2. ASSUME NEW r \in Records, r.uri # NoURI, Covered(r) PROVE Recorded(r)
  BY <1>1, <1>2, RecordedIsLanded DEF Covered
<1>3. ASSUME NEW h \in Mints(range) PROVE Recorded(Tx[h].nft)
  <2>1. Covered(Tx[h].nft)
    BY <1>1 DEF IInv, MintsCovered, Running
  <2> QED
    BY <1>2, <2>1, MintRecord
<1>4. ASSUME NEW r \in InitialNFTs PROVE Recorded(r)
  <2>1. PICK k \in Key : r \in getNFTDataFromObj(k)
    BY DEF InitialNFTs
  <2>2. Covered(r)
    BY <1>1, <2>1 DEF IInv, ObjectsCovered, Running
  <2> QED
    BY <1>2, <2>2, RecordsType
<1> QED
  BY <1>3, <1>4 DEF Migrated

(* When the tool reports success, every mint of its range and every NFT of  *)
(* the initial ledger is in the three tables: for every history, page and   *)
(* batch size, number of retries and runs, and interleaving with clio.      *)
THEOREM SuccessIsMigration == Spec => []SuccessMeansMigrated
<1>1. IInv => SuccessMeansMigrated
  BY ScansOver DEF SuccessMeansMigrated
<1> QED
  BY <1>1, Inductive, PTL

(* The tool dies of a parse failure only on a transaction newer than its    *)
(* range.                                                                   *)
THEOREM ThrowsAreNewer == Spec => []ThrowsOnlyOnNewerTx
<1>1. IInv => ThrowsOnlyOnNewerTx
  BY DEF IInv
<1> QED
  BY <1>1, Inductive, PTL

(* The old table goes only after the backfill, and what was migrated stays  *)
(* migrated.                                                                *)
THEOREM DropIsSafe == Spec => DropOnlyAfterBackfill
<1> DEFINE A == /\ oldIssuerTable /\ ~oldIssuerTable' => Migrated(range)
                /\ \A m \in Ledger : m <= range /\ Migrated(m) => Migrated(m)'
<1>1. ASSUME IInv, [Next]_vars PROVE A
  <2>1. ASSUME oldIssuerTable, ~oldIssuerTable' PROVE Migrated(range)
    <3>1. DropOldTable
      BY <1>1, <2>1
      DEF Next, MigratorStep, loadInitialLedger, buildNextLedger, finishWrites,
          ClioTxWritten, ClioNFTWritten, BeginMigration, GetTxPage, FetchTransactions,
          GetObjectPage, Synced, ReadTimeout, WriteLands, Restart, vars, tables
    <3>2. pc = "drop" /\ range # 0
      BY <1>1, <3>1 DEF DropOldTable, IInv, Phases, Running
    <3> QED
      BY <1>1, <3>2, ScansOver
  <2>2. ASSUME NEW r \in Records, r.uri # NoURI, Recorded(r) PROVE Recorded(r)'
    <3>1. \A w \in writeNFTs({r}) : w \in writeNFTs(Records) /\ Landed(w)
      BY <2>2, RecordedIsLanded, RequestsOf, RecordsType
    <3>2. \A w \in writeNFTs({r}) : Landed(w)'
      BY <1>1, <3>1, LandedKept
    <3>3. /\ <<"nf_tokens", r>> \in writeNFTs({r})
          /\ <<"issuer_nf_tokens_v2", r>> \in writeNFTs({r})
          /\ <<"nf_token_uris", r>> \in writeNFTs({r})
      BY <2>2 DEF writeNFTs, NFTTable
    <3> QED
      BY <3>2, <3>3 DEF Recorded, Landed, At
  <2>3. ASSUME NEW m \in Ledger, Migrated(m) PROVE Migrated(m)'
    <3>1. \A h \in Mints(m) : Recorded(Tx[h].nft)'
      BY <2>2, <2>3, MintRecord DEF Migrated
    <3>2. \A r \in InitialNFTs : Recorded(r)'
      BY <2>2, <2>3, RecordsType DEF Migrated
    <3> QED
      BY <3>1, <3>2 DEF Migrated, Mints, InitialNFTs, getNFTDataFromObj
  <2> QED
    BY <2>1, <2>3
<1>2. DropOnlyAfterBackfill <=> [][A]_vars
  BY DEF DropOnlyAfterBackfill
<1> HIDE DEF A
<1> QED
  BY <1>1, <1>2, Inductive, PTL DEF Spec

(* The migrator never changes a row of a ledger newer than its range.       *)
THEOREM NewerRowsAreSafe == Spec => NewerRowsUntouched
<1> DEFINE A == clioNFTWrites' = clioNFTWrites =>
                  \A k \in Token \X Ledger : k[2] > range /\ range # 0 =>
                     nfTokens'[k] = nfTokens[k] /\ nfTokenUris'[k] = nfTokenUris[k]
<1>1. ASSUME IInv, [Next]_vars PROVE A
  <2> SUFFICES ASSUME clioNFTWrites' = clioNFTWrites, NEW k \in Token \X Ledger,
                      k[2] > range, range # 0
               PROVE  nfTokens'[k] = nfTokens[k] /\ nfTokenUris'[k] = nfTokenUris[k]
    OBVIOUS
  <2>1. ASSUME NEW W \in SUBSET writes, Upsert(W)
        PROVE  nfTokens'[k] = nfTokens[k] /\ nfTokenUris'[k] = nfTokenUris[k]
    <3>1. \A w \in W : At(w[2]) # k
      <4> SUFFICES ASSUME NEW w \in W, At(w[2]) = k PROVE FALSE
        OBVIOUS
      <4>1. w[2] \in NFTsData /\ w[2].ledgerSequence <= range
        BY <1>1, RequestsOf, RecordsType DEF IInv, OnlyHistory, WithinRange
      <4>2. w[2].ledgerSequence = k[2] /\ k[2] \in Nat
        BY SequenceAssumption DEF At, Ledger
      <4> QED
        BY <1>1, <4>1, <4>2, PhaseFacts
    <3> QED
      BY <2>1, <3>1 DEF Upsert
  <2>2. ASSUME UNCHANGED <<nfTokens, nfTokenUris>>
        PROVE  nfTokens'[k] = nfTokens[k] /\ nfTokenUris'[k] = nfTokenUris[k]
    BY <2>2
  <2>3. ASSUME NEW w \in writes, NEW a \in BOOLEAN, WriteLands(w, a)
        PROVE  \E W \in SUBSET writes : Upsert(W)
    <3>1. {w} \in SUBSET writes /\ Upsert({w})
      BY <2>3 DEF WriteLands
    <3> QED
      BY <3>1
  <2>4. ASSUME Restart PROVE \E W \in SUBSET writes : Upsert(W)
    BY <2>4 DEF Restart
  <2>5. ASSUME NEW w \in clioNFTWrites, ClioNFTWritten(w) PROVE FALSE
    BY <2>5 DEF ClioNFTWritten
  <2>6. ASSUME \/ loadInitialLedger \/ buildNextLedger \/ finishWrites
               \/ \E w \in clioTxWrites : ClioTxWritten(w)
               \/ MigratorStep \/ ReadTimeout \/ UNCHANGED vars
        PROVE  UNCHANGED <<nfTokens, nfTokenUris>>
    BY <2>6
    DEF loadInitialLedger, buildNextLedger, finishWrites, ClioTxWritten, MigratorStep,
        BeginMigration, GetTxPage, FetchTransactions, GetObjectPage, Synced, DropOldTable,
        ReadTimeout, vars, tables
  <2> QED
    BY <1>1, <2>1, <2>2, <2>3, <2>4, <2>5, <2>6 DEF Next
<1>2. NewerRowsUntouched <=> [][A]_vars
  BY DEF NewerRowsUntouched
<1> HIDE DEF A
<1> QED
  BY <1>1, <1>2, Inductive, PTL DEF Spec

-----------------------------------------------------------------------------
(* What nft_info answers after a migration.  Records of the old ledgers are *)
(* recorded by the migrator; those of a ledger that clio wrote itself must  *)
(* have survived insertTransactions, which keeps any of the records of a    *)
(* token.                                                                   *)

(* The transactions that change an NFT, and the mints among them that are   *)
(* newer than ledger lo and the only change of their token in their ledger. *)
NFTTxs == {h \in Hash : getNFTDataFromTx(h) # NoNFT}

MintsAfter(lo) ==
    {h \in NFTTxs :
        /\ getNFTDataFromTx(h).uri # NoURI /\ Tx[h].ledgerSequence > lo
        /\ \A g \in NFTTxs : At(getNFTDataFromTx(g)) = At(getNFTDataFromTx(h)) =>
              getNFTDataFromTx(g).uri # NoURI}

(* The transactions in H have their row in a table once their ledger is     *)
(* committed; while it is written the row may be on its way.                *)
Shown(table, H) ==
    \A h \in H :
        /\ Tx[h].ledgerSequence <= maxSequence => Landed(<<table, getNFTDataFromTx(h)>>)
        /\ building /\ Tx[h].ledgerSequence = NextLedger =>
            \/ Landed(<<table, getNFTDataFromTx(h)>>)
            \/ \E w \in clioNFTWrites :
                  w[1] = table /\ At(w[2]) = At(getNFTDataFromTx(h))

(* No URI comes from nowhere.                                               *)
UrisOfHistory ==
    \A k \in Token \X Ledger : nfTokenUris[k] # NoURI =>
        \E r \in Records : At(r) = k /\ r.uri = nfTokenUris[k]

(* lo is the last ledger of which the URIs may be missing: the initial one, *)
(* or the last of the previous release.  No run starts before it.           *)
UrisWritten ==
    \E lo \in {MinSeq, OldMax} :
        /\ lo = MinSeq \/ lo <= maxSequence
        /\ range # 0 => lo <= range
        /\ Shown("nf_token_uris", MintsAfter(lo))

ServedInv == UrisOfHistory /\ Shown("nf_tokens", NFTTxs) /\ UrisWritten

(* A transaction that changes an NFT.                                       *)
LEMMA NFTTxFields ==
    ASSUME NEW h \in NFTTxs
    PROVE  /\ h \in Hash /\ Tx[h].success /\ getNFTDataFromTx(h) = Tx[h].nft
           /\ getNFTDataFromTx(h) \in Records /\ getNFTDataFromTx(h) \in NFTsData
           /\ At(getNFTDataFromTx(h)) = <<Tx[h].nft.tokenID, Tx[h].ledgerSequence>>
           /\ Tx[h].nft.tokenID \in Token /\ Tx[h].ledgerSequence \in Ledger
           /\ Tx[h].ledgerSequence \in Nat /\ Tx[h].transactionIndex \in Nat
           /\ <<"nf_tokens", getNFTDataFromTx(h)>> \in writeNFTs(Records)
           /\ getNFTDataFromTx(h).uri # NoURI =>
                <<"nf_token_uris", getNFTDataFromTx(h)>> \in writeNFTs(Records)
<1>1. h \in Hash /\ getNFTDataFromTx(h) # NoNFT
  BY DEF NFTTxs
<1>2. Tx[h].success /\ getNFTDataFromTx(h) = Tx[h].nft /\ Tx[h].nft # NoNFT
  BY <1>1 DEF getNFTDataFromTx
<1>3. getNFTDataFromTx(h) \in Records /\ getNFTDataFromTx(h) \in NFTsData
  BY <1>1, TxFields DEF Records
<1>4. Tx[h].nft.ledgerSequence = Tx[h].ledgerSequence
  BY <1>1, <1>2, TxAssumption
<1>5. Tx[h].transactionIndex \in Nat
  BY <1>1, TxAssumption DEF Transaction
<1>6. /\ <<"nf_tokens", getNFTDataFromTx(h)>> \in writeNFTs(Records)
      /\ getNFTDataFromTx(h).uri # NoURI =>
           <<"nf_token_uris", getNFTDataFromTx(h)>> \in writeNFTs(Records)
  BY <1>3 DEF writeNFTs, NFTTable
<1> QED
  BY <1>1, <1>2, <1>3, <1>4, <1>5, <1>6, TxFields, RecordFields DEF At

(* A request for the row of a record, of any record under the same key,     *)
(* shows it.                                                                *)
LEMMA SameKeyLanded ==
    ASSUME NEW table \in {"nf_tokens", "nf_token_uris"},
           NEW w \in writeNFTs(Records), w[1] = table, Landed(w)',
           NEW r \in Records, At(w[2]) = At(r), table = "nf_tokens" \/ r.uri # NoURI
    PROVE  Landed(<<table, r>>)'
<1>1. /\ w[2] \in Records
      /\ w[1] = "nf_tokens" \/ w[2].uri # NoURI
  BY RequestsOf, RecordsType
<1>2. table = "nf_token_uris" => w[2].uri = r.uri
  BY <1>1, URIAssumption
<1>3. /\ w[1] = "nf_tokens" => nfTokens'[At(w[2])] # NoRow
      /\ w[1] = "nf_token_uris" => nfTokenUris'[At(w[2])] = w[2].uri
  BY DEF Landed, At
<1> QED
  BY <1>2, <1>3 DEF Landed, At

(* Rows of committed ledgers stay, and those of the ledger being written    *)
(* are complete when it is committed, if insertTransactions keeps for each  *)
(* transaction a record that makes its row.                                 *)
LEMMA ShownStep ==
    ASSUME IInv, [Next]_vars, NEW table \in {"nf_tokens", "nf_token_uris"},
           NEW H \in SUBSET NFTTxs,
           \A h \in H : table = "nf_tokens" \/ getNFTDataFromTx(h).uri # NoURI,
           \A h \in H : \A R \in insertTransactions(Tx[h].ledgerSequence) :
               \E q \in R : /\ At(q) = At(getNFTDataFromTx(h))
                            /\ table = "nf_tokens" \/ q.uri # NoURI,
           Shown(table, H)
    PROVE  Shown(table, H)'
<1> DEFINE Row(h) == <<table, getNFTDataFromTx(h)>>
           Sent(h) == \E w \in clioNFTWrites :
                         w[1] = table /\ At(w[2]) = At(getNFTDataFromTx(h))
           Due(h) == building /\ Tx[h].ledgerSequence = NextLedger
<1>0. TypeOK /\ OnlyHistory
  BY DEF IInv
<1>1. \A h \in H : Row(h) \in writeNFTs(Records)
  BY NFTTxFields
<1>2. \A h \in H : Landed(Row(h)) => Landed(Row(h))'
  BY <1>1, LandedKept
<1>3. \A h \in H : /\ Tx[h].ledgerSequence <= maxSequence => Landed(Row(h))
                   /\ Due(h) => Landed(Row(h)) \/ Sent(h)
  BY DEF Shown
<1>4. SUFFICES ASSUME NEW h \in H
               PROVE  /\ Tx[h].ledgerSequence <= maxSequence' => Landed(Row(h))'
                      /\ building' /\ Tx[h].ledgerSequence = NextLedger' =>
                           \/ Landed(Row(h))'
                           \/ \E w \in clioNFTWrites' :
                                w[1] = table /\ At(w[2]) = At(getNFTDataFromTx(h))
  BY DEF Shown, At, getNFTDataFromTx
<1>5. CASE UNCHANGED <<maxSequence, building, clioNFTWrites>>
  <2>1. NextLedger' = NextLedger
    BY <1>5 DEF NextLedger
  <2> QED
    BY <1>2, <1>3, <1>5, <2>1
<1>6. CASE loadInitialLedger \/ buildNextLedger
  <2>1. maxSequence' = maxSequence /\ NextLedger' = NextLedger
    BY <1>6 DEF loadInitialLedger, buildNextLedger, tables, NextLedger
  <2>2. PICK R \in insertTransactions(NextLedger) :
            writeNFTs(R) \subseteq clioNFTWrites'
    <3>1. CASE loadInitialLedger
      <4>1. PICK R \in insertTransactions(MinSeq) :
                clioNFTWrites' = writeNFTs(R \cup InitialNFTs)
        BY <3>1 DEF loadInitialLedger
      <4>2. NextLedger = MinSeq
        BY <3>1 DEF loadInitialLedger, NextLedger
      <4>3. writeNFTs(R) \subseteq writeNFTs(R \cup InitialNFTs)
        BY RequestsMonotone
      <4> QED
        BY <4>1, <4>2, <4>3
    <3>2. CASE buildNextLedger
      BY <3>2 DEF buildNextLedger
    <3> QED
      BY <1>6, <3>1, <3>2
  <2>3. ASSUME Tx[h].ledgerSequence = NextLedger
        PROVE  \E w \in clioNFTWrites' :
                 w[1] = table /\ At(w[2]) = At(getNFTDataFromTx(h))
    <3>1. PICK q \in R : /\ At(q) = At(getNFTDataFromTx(h))
                         /\ table = "nf_tokens" \/ q.uri # NoURI
      BY <2>3
    <3>2. <<table, q>> \in writeNFTs(R)
      BY <3>1 DEF writeNFTs, NFTTable
    <3> QED
      BY <2>2, <3>1, <3>2
  <2> QED
    BY <1>2, <1>3, <2>1, <2>3
<1>7. CASE \E w \in clioNFTWrites : ClioNFTWritten(w)
  <2>1. PICK w \in clioNFTWrites : ClioNFTWritten(w)
    BY <1>7
  <2>2. /\ UNCHANGED <<maxSequence, building>> /\ NextLedger' = NextLedger
        /\ clioNFTWrites' = clioNFTWrites \ {w} /\ Upsert({w})
    BY <2>1 DEF ClioNFTWritten, NextLedger
  <2>3. w \in writeNFTs(Records)
    BY <1>0 DEF OnlyHistory
  <2>4. Landed(w)'
    BY <1>0, <2>2, <2>3, UpsertLemma
  <2>5. ASSUME w[1] = table, At(w[2]) = At(getNFTDataFromTx(h))
        PROVE  Landed(Row(h))'
    BY <2>3, <2>4, <2>5, SameKeyLanded, NFTTxFields
  <2> QED
    BY <1>2, <1>3, <2>2, <2>5
<1>8. CASE finishWrites
  <2>1. /\ building /\ clioNFTWrites = {} /\ ~building' /\ maxSequence' = NextLedger
    BY <1>8 DEF finishWrites
  <2>2. ASSUME Tx[h].ledgerSequence <= NextLedger PROVE Landed(Row(h))
    <3>1. Tx[h].ledgerSequence <= maxSequence \/ Tx[h].ledgerSequence = NextLedger
      BY <1>0, <2>2, NextLedgerType, NFTTxFields
    <3> QED
      BY <1>3, <2>1, <3>1
  <2> QED
    BY <1>2, <2>1, <2>2
<1>9. CASE \/ \E w \in clioTxWrites : ClioTxWritten(w)
           \/ \E w \in writes, a \in BOOLEAN : WriteLands(w, a)
           \/ MigratorStep \/ ReadTimeout \/ Restart \/ UNCHANGED vars
  <2>1. UNCHANGED <<maxSequence, building, clioNFTWrites>>
    BY <1>9
    DEF ClioTxWritten, WriteLands, MigratorStep, BeginMigration, GetTxPage,
        FetchTransactions, GetObjectPage, Synced, DropOldTable, ReadTimeout, Restart,
        vars, tables, clio
  <2> QED
    BY <1>5, <2>1
<1> QED
  BY <1>6, <1>7, <1>8, <1>9 DEF Next

(* For every transaction insertTransactions keeps a record of its token,    *)
(* which has a URI too where the token is minted alone.                     *)
LEMMA KeptRecord ==
    ASSUME NEW h \in NFTTxs, NEW R \in insertTransactions(Tx[h].ledgerSequence)
    PROVE  \E g \in NFTTxs : /\ getNFTDataFromTx(g) \in R
                             /\ At(getNFTDataFromTx(g)) = At(getNFTDataFromTx(h))
<1> DEFINE s == Tx[h].ledgerSequence
<1>1. getNFTDataFromTx(h) \in NFTsOf(s)
  BY NFTTxFields DEF NFTsOf, TxsOf, NFTTxs
<1>2. PICK q \in R : q.tokenID = getNFTDataFromTx(h).tokenID
  BY <1>1 DEF insertTransactions
<1>3. q \in NFTsOf(s)
  BY DEF insertTransactions
<1>4. PICK g \in TxsOf(s) : q = getNFTDataFromTx(g) /\ q # NoNFT
  BY <1>3 DEF NFTsOf
<1>5. g \in NFTTxs /\ Tx[g].ledgerSequence = s
  BY <1>4 DEF TxsOf, NFTTxs
<1>6. At(getNFTDataFromTx(g)) = At(getNFTDataFromTx(h))
  BY <1>2, <1>4, <1>5, NFTTxFields
<1> QED
  BY <1>4, <1>5, <1>6

(* Requests made from the history bring only URIs of the history.           *)
LEMMA UpsertUris ==
    ASSUME TypeOK, UrisOfHistory, NEW W \in SUBSET writeNFTs(Records), Upsert(W)
    PROVE  UrisOfHistory'
<1>1. ASSUME NEW k \in Token \X Ledger, nfTokenUris'[k] # NoURI
      PROVE  \E r \in Records : At(r) = k /\ r.uri = nfTokenUris'[k]
  <2>1. CASE \E w \in W : w[1] = "nf_token_uris" /\ At(w[2]) = k
    <3> DEFINE v == CHOOSE w \in W : w[1] = "nf_token_uris" /\ At(w[2]) = k
    <3>1. v \in W /\ v[1] = "nf_token_uris" /\ At(v[2]) = k
      BY <2>1
    <3>2. v[2] \in Records
      BY <3>1, RequestsOf, RecordsType
    <3>3. nfTokenUris'[k] = v[2].uri
      BY <2>1 DEF Upsert
    <3> HIDE DEF v
    <3> QED
      BY <3>1, <3>2, <3>3
  <2>2. CASE ~\E w \in W : w[1] = "nf_token_uris" /\ At(w[2]) = k
    <3>1. nfTokenUris'[k] = nfTokenUris[k]
      BY <2>2 DEF Upsert
    <3> QED
      BY <1>1, <3>1 DEF UrisOfHistory
  <2> QED
    BY <2>1, <2>2
<1> QED
  BY <1>1 DEF UrisOfHistory, At

(* No step brings a URI that is not of the history.                         *)
LEMMA UrisStep == ASSUME IInv, UrisOfHistory, [Next]_vars PROVE UrisOfHistory'
<1>0. TypeOK /\ OnlyHistory
  BY DEF IInv
<1>1. ASSUME NEW W \in SUBSET writeNFTs(Records), Upsert(W) PROVE UrisOfHistory'
  BY <1>0, <1>1, UpsertUris
<1>2. ASSUME nfTokenUris' = nfTokenUris PROVE UrisOfHistory'
  BY <1>2 DEF UrisOfHistory
<1>3. ASSUME NEW w \in clioNFTWrites, ClioNFTWritten(w)
      PROVE  \E W \in SUBSET writeNFTs(Records) : Upsert(W)
  <2>1. {w} \in SUBSET writeNFTs(Records) /\ Upsert({w})
    BY <1>0, <1>3 DEF ClioNFTWritten, OnlyHistory
  <2> QED
    BY <2>1
<1>4. ASSUME NEW w \in writes, NEW a \in BOOLEAN, WriteLands(w, a)
      PROVE  \E W \in SUBSET writeNFTs(Records) : Upsert(W)
  <2>1. {w} \in SUBSET writeNFTs(Records) /\ Upsert({w})
    BY <1>0, <1>4 DEF WriteLands, OnlyHistory
  <2> QED
    BY <2>1
<1>5. ASSUME Restart PROVE \E W \in SUBSET writeNFTs(Records) : Upsert(W)
  BY <1>0, <1>5 DEF Restart, OnlyHistory
<1>6. ASSUME \/ loadInitialLedger \/ buildNextLedger \/ finishWrites
             \/ \E w \in clioTxWrites : ClioTxWritten(w)
             \/ MigratorStep \/ ReadTimeout \/ UNCHANGED vars
      PROVE  nfTokenUris' = nfTokenUris
  BY <1>6
  DEF loadInitialLedger, buildNextLedger, finishWrites, ClioTxWritten, MigratorStep,
      BeginMigration, GetTxPage, FetchTransactions, GetObjectPage, Synced, DropOldTable,
      ReadTimeout, vars, tables
<1> QED
  BY <1>1, <1>2, <1>3, <1>4, <1>5, <1>6 DEF Next

(* The range that a run reads is the newest ledger, which only grows.       *)
LEMMA RangeMoves ==
    ASSUME IInv, [Next]_vars
    PROVE  /\ maxSequence' = maxSequence \/ maxSequence' = NextLedger
           /\ range' = range \/ range' = maxSequence
  BY DEF Next, MigratorStep, loadInitialLedger, buildNextLedger, finishWrites,
         ClioTxWritten, ClioNFTWritten, BeginMigration, GetTxPage, FetchTransactions,
         GetObjectPage, Synced, DropOldTable, ReadTimeout, WriteLands, Restart, vars,
         tables, migrator

(* The strengthening is inductive.                                          *)
LEMMA ServedStep ==
    ASSUME IInv, ServedInv, [Next]_vars
    PROVE  ServedInv'
<1>1. UrisOfHistory'
  BY UrisStep DEF ServedInv
<1>2. Shown("nf_tokens", NFTTxs)'
  <2>1. \A h \in NFTTxs : \A R \in insertTransactions(Tx[h].ledgerSequence) :
            \E q \in R : At(q) = At(getNFTDataFromTx(h))
    BY KeptRecord
  <2>2. Shown("nf_tokens", NFTTxs)
    BY DEF ServedInv
  <2> QED
    BY <2>1, <2>2, ShownStep
<1>3. UrisWritten'
  <2>1. PICK lo \in {MinSeq, OldMax} :
            /\ lo = MinSeq \/ lo <= maxSequence
            /\ range # 0 => lo <= range
            /\ Shown("nf_token_uris", MintsAfter(lo))
    BY DEF ServedInv, UrisWritten
  <2>2. lo \in Nat /\ MinSeq \in Nat /\ MinSeq <= lo
    BY SequenceAssumption
  <2>3. MintsAfter(lo) \in SUBSET NFTTxs
    BY DEF MintsAfter
  <2>4. \A h \in MintsAfter(lo) : getNFTDataFromTx(h).uri # NoURI
    BY DEF MintsAfter
  <2>5. \A h \in MintsAfter(lo) : \A R \in insertTransactions(Tx[h].ledgerSequence) :
            \E q \in R : At(q) = At(getNFTDataFromTx(h)) /\ q.uri # NoURI
    BY <2>3, KeptRecord DEF MintsAfter
  <2>6. Shown("nf_token_uris", MintsAfter(lo))'
    BY <2>1, <2>3, <2>4, <2>5, ShownStep
  <2>7. TypeOK
    BY DEF IInv
  <2>8. lo = MinSeq \/ lo <= maxSequence'
    BY <2>1, <2>2, <2>7, RangeMoves, NextLedgerType
  <2>9. range' # 0 => lo <= range'
    <3>1. maxSequence # 0 => MinSeq <= maxSequence
      BY <2>7 DEF TypeOK, Ledger
    <3> QED
      BY <2>1, <2>2, <3>1, RangeMoves
  <2> QED
    BY <2>6, <2>8, <2>9 DEF UrisWritten
<1> QED
  BY <1>1, <1>2, <1>3 DEF ServedInv

(* A set of naturals that is not empty has a least element.                 *)
LEMMA LeastNat ==
    ASSUME NEW T, T \subseteq Nat, T # {}
    PROVE  \E m \in T : \A n \in T : m <= n
<1>1. PICK m \in T : \A n \in T : ~(<<n, m>> \in OpToRel(<, Nat))
  BY NatLessThanWellFounded, WFMin
<1>2. m \in Nat /\ \A n \in T : n \in Nat /\ ~(n < m)
  BY <1>1 DEF OpToRel
<1> QED
  BY <1>2

(* The place of a transaction in the history.                               *)
Later(g, h) ==
    \/ Tx[h].ledgerSequence < Tx[g].ledgerSequence
    \/ /\ Tx[h].ledgerSequence = Tx[g].ledgerSequence
       /\ Tx[h].transactionIndex < Tx[g].transactionIndex

(* Of the transactions in a set that is not empty, one has none after it:   *)
(* the one that the fewest follow.                                          *)
LEMMA LastExists ==
    ASSUME NEW G \in SUBSET Hash, G # {}
    PROVE  \E h \in G : \A g \in G :
              \/ Tx[g].ledgerSequence < Tx[h].ledgerSequence
              \/ /\ Tx[g].ledgerSequence = Tx[h].ledgerSequence
                 /\ Tx[g].transactionIndex <= Tx[h].transactionIndex
<1> DEFINE After(h) == {g \in G : Later(g, h)}
           Sizes == {Cardinality(After(h)) : h \in G}
<1>1. \A h \in G : Tx[h].ledgerSequence \in Nat /\ Tx[h].transactionIndex \in Nat
  BY TxFields, TxAssumption DEF Transaction
<1>2. IsFiniteSet(G)
  BY TxAssumption, FS_Subset
<1>3. \A h \in G : IsFiniteSet(After(h)) /\ Cardinality(After(h)) \in Nat
  <2>1. \A h \in G : After(h) \in SUBSET G
    OBVIOUS
  <2> QED
    BY <1>2, <2>1, FS_Subset, FS_CardinalityType
<1>4. PICK m \in Sizes : \A n \in Sizes : m <= n
  <2>1. Sizes \subseteq Nat /\ Sizes # {}
    BY <1>3
  <2> HIDE DEF Sizes
  <2> QED
    BY <2>1, LeastNat
<1>5. PICK h \in G : \A g \in G : Cardinality(After(h)) <= Cardinality(After(g))
  BY <1>4
<1>6. ASSUME NEW g \in G, Later(g, h) PROVE FALSE
  <2>1. After(g) \in SUBSET After(h) /\ g \in After(h) /\ g \notin After(g)
    BY <1>1, <1>6 DEF Later
  <2>2. Cardinality(After(g)) <= Cardinality(After(h))
    BY <1>3, <2>1, FS_Subset
  <2>3. Cardinality(After(h)) = Cardinality(After(g)) => After(h) = After(g)
    BY <1>3, <2>1, FS_Subset
  <2> HIDE DEF After
  <2> QED
    BY <1>3, <1>5, <2>1, <2>2, <2>3
<1> QED
  BY <1>1, <1>6 DEF Later

(* The previous release left a row for every transaction it wrote.          *)
LEMMA InitRows ==
    ASSUME Init, NEW h \in NFTTxs, Tx[h].ledgerSequence <= maxSequence
    PROVE  Landed(<<"nf_tokens", getNFTDataFromTx(h)>>)
<1> DEFINE t == Tx[h].nft.tokenID
           s == Tx[h].ledgerSequence
           G == {g \in TxsOf(s) : getNFTDataFromTx(g) # NoNFT /\ Tx[g].nft.tokenID = t}
<1>1. G \in SUBSET Hash /\ h \in G
  BY NFTTxFields DEF TxsOf, NFTTxs
<1>2. LastOf(t, s) # {}
  <2>1. PICK last \in G : \A g \in G :
              \/ Tx[g].ledgerSequence < Tx[last].ledgerSequence
              \/ /\ Tx[g].ledgerSequence = Tx[last].ledgerSequence
                 /\ Tx[g].transactionIndex <= Tx[last].transactionIndex
    BY <1>1, LastExists
  <2>2. \A g \in G : Tx[g].ledgerSequence = s /\ s \in Nat
    BY NFTTxFields DEF TxsOf
  <2>3. \A g \in G : Tx[g].transactionIndex <= Tx[last].transactionIndex
    BY <2>1, <2>2
  <2> QED
    BY <2>1, <2>3 DEF LastOf
<1>3. PICK last \in LastOf(t, s) : last = CHOOSE g \in LastOf(t, s) : TRUE
  BY <1>2
<1>4. <<t, s>> \in Token \X Ledger /\ At(getNFTDataFromTx(h)) = <<t, s>>
  BY NFTTxFields
<1>5. nfTokens[<<t, s>>] = [owner |-> Tx[last].nft.owner, isBurned |-> Tx[last].nft.isBurned]
  BY <1>2, <1>3, <1>4 DEF Init
<1>6. Tx[last].nft \in NFTsData
  BY <1>3, NFTTxFields DEF LastOf, TxsOf, NFTTxs
<1>7. nfTokens[<<t, s>>] # NoRow
  BY <1>5, <1>6, RecordFields, MarkerAssumption
<1> QED
  BY <1>4, <1>7 DEF Landed

(* The strengthening holds of both databases that the tool may find.        *)
LEMMA InitServed == ASSUME Init PROVE ServedInv
<1>1. UrisOfHistory
  BY DEF Init, UrisOfHistory
<1>2. Shown("nf_tokens", NFTTxs)
  BY InitRows DEF Init, Shown
<1>3. UrisWritten
  <2>1. maxSequence \in {0, OldMax} /\ range = 0 /\ ~building
    BY DEF Init
  <2>2. \A h \in NFTTxs : Tx[h].ledgerSequence \in Nat /\ MinSeq <= Tx[h].ledgerSequence
    <3>1. \A h \in NFTTxs : Tx[h].ledgerSequence \in Ledger
      BY NFTTxFields
    <3> QED
      BY <3>1, SequenceAssumption DEF Ledger
  <2>3. CASE maxSequence = 0
    <3>1. \A h \in MintsAfter(MinSeq) : ~(Tx[h].ledgerSequence <= maxSequence)
      BY <2>2, <2>3, SequenceAssumption DEF MintsAfter
    <3> QED
      BY <2>1, <3>1 DEF UrisWritten, Shown
  <2>4. CASE maxSequence = OldMax
    <3>1. \A h \in MintsAfter(OldMax) : ~(Tx[h].ledgerSequence <= maxSequence)
      BY <2>2, <2>4, SequenceAssumption DEF MintsAfter
    <3>2. OldMax <= maxSequence
      BY <2>4, SequenceAssumption
    <3> QED
      BY <2>1, <3>1, <3>2 DEF UrisWritten, Shown
  <2> QED
    BY <2>1, <2>3, <2>4
<1> QED
  BY <1>1, <1>2, <1>3 DEF ServedInv

(* The records that a history lists.                                        *)
LEMMA HistoryRecords ==
    ASSUME NEW t \in Token, NEW s \in Ledger, NEW x \in History(t, s)
    PROVE  /\ x[1] \in Ledger /\ x[1] <= s /\ x[2] \in Nat
           /\ x[3] \in Records /\ At(x[3]) = <<t, x[1]>>
           /\ \/ x[3] \in InitialNFTs
              \/ \E h \in NFTTxs : x[3] = getNFTDataFromTx(h) /\ x[1] = Tx[h].ledgerSequence
<1>1. CASE \E h \in Hash :
             /\ x = <<Tx[h].ledgerSequence, Tx[h].transactionIndex, getNFTDataFromTx(h)>>
             /\ getNFTDataFromTx(h) # NoNFT /\ Tx[h].nft.tokenID = t
             /\ Tx[h].ledgerSequence <= s
  <2>1. PICK h \in NFTTxs :
             /\ x = <<Tx[h].ledgerSequence, Tx[h].transactionIndex, getNFTDataFromTx(h)>>
             /\ Tx[h].nft.tokenID = t /\ Tx[h].ledgerSequence <= s
    BY <1>1 DEF NFTTxs
  <2> QED
    BY <2>1, NFTTxFields
<1>2. CASE \E r \in InitialNFTs : x = <<MinSeq, 1000000, r>> /\ r.tokenID = t
  <2>1. PICK r \in InitialNFTs : x = <<MinSeq, 1000000, r>> /\ r.tokenID = t
    BY <1>2
  <2>2. r.ledgerSequence = MinSeq
    BY ObjectAssumption DEF InitialNFTs, getNFTDataFromObj
  <2>3. MinSeq \in Ledger /\ MinSeq <= s
    BY SequenceAssumption DEF Ledger
  <2> QED
    BY <2>1, <2>2, <2>3, RecordsType DEF At
<1> QED
  BY <1>1, <1>2 DEF History

(* Every record of a token up to a ledger is listed in its history.         *)
LEMMA RecordListed ==
    ASSUME NEW t \in Token, NEW s \in Ledger, NEW q \in Ledger, q <= s,
           NEW r \in Records, At(r) = <<t, q>>
    PROVE  \E x \in History(t, s) : x[1] = q /\ x[3] = r
<1>1. r.tokenID = t /\ r.ledgerSequence = q
  BY DEF At
<1>2. CASE r \in InitialNFTs
  <2>1. r.ledgerSequence = MinSeq
    BY <1>2, ObjectAssumption DEF InitialNFTs, getNFTDataFromObj
  <2>2. <<MinSeq, 1000000, r>> \in History(t, s)
    BY <1>1, <1>2 DEF History
  <2> QED
    BY <1>1, <2>1, <2>2
<1>3. CASE r \notin InitialNFTs
  <2>1. PICK h \in Hash : r = getNFTDataFromTx(h) /\ r # NoNFT
    BY <1>3 DEF Records
  <2>2. h \in NFTTxs
    BY <2>1 DEF NFTTxs
  <2>3. Tx[h].nft.tokenID = t /\ Tx[h].ledgerSequence = q
    <3>1. At(r) = <<Tx[h].nft.tokenID, Tx[h].ledgerSequence>>
      BY <2>1, <2>2, NFTTxFields
    <3> QED
      BY <3>1
  <2>4. <<Tx[h].ledgerSequence, Tx[h].transactionIndex, getNFTDataFromTx(h)>> \in History(t, s)
    BY <2>1, <2>3 DEF History
  <2> QED
    BY <2>1, <2>3, <2>4
<1> QED
  BY <1>2, <1>3

(* A history with a URI has a newest one.                                   *)
LEMMA NewestExists ==
    ASSUME NEW t \in Token, NEW s \in Ledger, WithURI(History(t, s)) # {}
    PROVE  \E x \in WithURI(History(t, s)) : \A y \in WithURI(History(t, s)) :
              y[1] < x[1] \/ (y[1] = x[1] /\ y[2] <= x[2])
<1> DEFINE H == WithURI(History(t, s))
           Place(h) == <<Tx[h].ledgerSequence, Tx[h].transactionIndex, getNFTDataFromTx(h)>>
           Object(r) == <<MinSeq, 1000000, r>>
           G == {h \in NFTTxs : /\ Tx[h].nft.tokenID = t /\ Tx[h].ledgerSequence <= s
                                /\ getNFTDataFromTx(h).uri # NoURI}
           I == {r \in InitialNFTs : r.tokenID = t}
           Upto(y, x) == y[1] < x[1] \/ (y[1] = x[1] /\ y[2] <= x[2])
<1>1. /\ \A h \in G : Place(h) \in H
      /\ \A r \in I : Object(r) \in H
      /\ \A x \in H : (\E h \in G : x = Place(h)) \/ (\E r \in I : x = Object(r))
  BY RecordsType DEF History, WithURI, NFTTxs
<1>2. G \in SUBSET Hash /\ \A h \in G : Tx[h].ledgerSequence \in Nat /\ Tx[h].transactionIndex \in Nat
  BY NFTTxFields
<1>3. MinSeq \in Nat
  BY SequenceAssumption
<1>4. CASE G = {}
  <2>1. PICK r \in I : Object(r) \in H
    BY <1>1, <1>4
  <2>2. \A y \in H : Upto(y, Object(r))
    BY <1>1, <1>3, <1>4
  <2> QED
    BY <2>1, <2>2
<1>5. CASE G # {}
  <2>1. PICK h \in G : \A g \in G :
              \/ Tx[g].ledgerSequence < Tx[h].ledgerSequence
              \/ /\ Tx[g].ledgerSequence = Tx[h].ledgerSequence
                 /\ Tx[g].transactionIndex <= Tx[h].transactionIndex
    <3>1. G \subseteq Hash
      BY <1>2
    <3> HIDE DEF G
    <3> QED
      BY <1>5, <3>1, LastExists
  <2>2. \A g \in G : Upto(Place(g), Place(h))
    BY <2>1
  <2>3. CASE \A r \in I : Upto(Object(r), Place(h))
    <3>1. Place(h) \in H /\ \A y \in H : Upto(y, Place(h))
      BY <1>1, <2>2, <2>3
    <3> QED
      BY <3>1
  <2>4. CASE \E r \in I : ~Upto(Object(r), Place(h))
    <3>1. PICK r \in I : ~Upto(Object(r), Place(h))
      BY <2>4
    <3>2. \A g \in G : Upto(Place(g), Object(r))
      BY <1>2, <1>3, <2>1, <3>1
    <3>3. \A q \in I : Upto(Object(q), Object(r))
      BY <1>3
    <3>4. Object(r) \in H /\ \A y \in H : Upto(y, Object(r))
      BY <1>1, <3>2, <3>3
    <3> QED
      BY <3>4
  <2> QED
    BY <2>3, <2>4
<1> QED
  BY <1>4, <1>5

(* The latest row is the row of the largest sequence.                       *)
LEMMA LatestRowIs ==
    ASSUME NEW table, NEW none, NEW t, NEW s \in Ledger, NEW q \in Ledger, q <= s,
           table[<<t, q>>] # none,
           \A p \in Ledger : p <= s /\ table[<<t, p>>] # none => p <= q
    PROVE  LatestRow(table, none, t, s) = table[<<t, q>>]
<1> DEFINE rows == {p \in Ledger : p <= s /\ table[<<t, p>>] # none}
           last == CHOOSE p \in rows : \A o \in rows : o <= p
<1>1. q \in rows /\ \A p \in rows : p <= q
  OBVIOUS
<1>2. last \in rows /\ \A o \in rows : o <= last
  BY <1>1
<1>3. rows \subseteq Nat
  BY SequenceAssumption DEF Ledger
<1> HIDE DEF rows, last
<1>4. last = q
  BY <1>1, <1>2, <1>3
<1>5. LatestRow(table, none, t, s) = IF rows = {} THEN none ELSE table[<<t, last>>]
  BY DEF LatestRow, rows, last
<1> QED
  BY <1>1, <1>4, <1>5

(* Of a set of ledgers that is not empty, one is the newest.                *)
LEMMA NewestLedger ==
    ASSUME NEW rows, rows \subseteq Ledger, rows # {}
    PROVE  \E p \in rows : \A o \in rows : o <= p
<1> DEFINE Distances == {LastSeq - p : p \in rows}
<1>1. LastSeq \in Nat /\ \A p \in rows : p \in Nat /\ LastSeq - p \in Nat
  BY SequenceAssumption DEF Ledger
<1>2. Distances \subseteq Nat /\ Distances # {}
  BY <1>1
<1>3. PICK d \in Distances : \A e \in Distances : d <= e
  <2> HIDE DEF Distances
  <2> QED
    BY <1>2, LeastNat
<1>4. PICK p \in rows : d = LastSeq - p
  BY <1>3
<1>5. \A o \in rows : LastSeq - p <= LastSeq - o
  BY <1>3, <1>4
<1> QED
  BY <1>1, <1>4, <1>5

(* After a successful migration the row and the URI of every record of the  *)
(* history are there, whoever had to write them, but for a mint that        *)
(* insertTransactions may have given up for another record of its ledger.   *)
LEMMA RecordsServed ==
    ASSUME IInv, ServedInv, pc = "success", range # 0,
           NEW t \in Token, NEW s \in Ledger, s <= maxSequence, NEW x \in History(t, s)
    PROVE  /\ nfTokens[<<t, x[1]>>] # NoRow
           /\ x[3].uri # NoURI =>
                nfTokenUris[<<t, x[1]>>] = x[3].uri \/ MintHidden(t, x[1])
<1>1. Migrated(range)
  BY ScansOver
<1>2. /\ x[1] \in Ledger /\ x[1] <= s /\ x[3] \in Records /\ At(x[3]) = <<t, x[1]>>
      /\ \/ x[3] \in InitialNFTs
         \/ \E h \in NFTTxs : x[3] = getNFTDataFromTx(h) /\ x[1] = Tx[h].ledgerSequence
  BY HistoryRecords
<1>3. CASE x[3] \in InitialNFTs
  BY <1>1, <1>2, <1>3 DEF Migrated, Recorded
<1>4. ASSUME NEW h \in NFTTxs, x[3] = getNFTDataFromTx(h), x[1] = Tx[h].ledgerSequence
      PROVE  /\ nfTokens[<<t, x[1]>>] # NoRow
             /\ x[3].uri # NoURI =>
                  nfTokenUris[<<t, x[1]>>] = x[3].uri \/ MintHidden(t, x[1])
  <2>1. /\ x[1] \in Nat /\ s \in Nat /\ maxSequence \in Nat /\ range \in Nat
    BY <1>2, PhaseFacts, SequenceAssumption DEF Ledger
  <2>2. Tx[h].ledgerSequence <= maxSequence
    BY <1>2, <1>4, <2>1
  <2>3. Landed(<<"nf_tokens", getNFTDataFromTx(h)>>)
    BY <2>2 DEF ServedInv, Shown
  <2>4. nfTokens[<<t, x[1]>>] # NoRow
    BY <1>2, <1>4, <2>3 DEF Landed
  <2>5. ASSUME x[3].uri # NoURI
        PROVE  nfTokenUris[<<t, x[1]>>] = x[3].uri \/ MintHidden(t, x[1])
    <3>1. PICK lo \in {MinSeq, OldMax} :
              (range # 0 => lo <= range) /\ Shown("nf_token_uris", MintsAfter(lo))
      BY DEF ServedInv, UrisWritten
    <3>2. lo \in Nat
      BY SequenceAssumption
    <3>3. CASE Tx[h].ledgerSequence <= range
      <4>1. /\ h \in Hash /\ Tx[h].success /\ getNFTDataFromTx(h) = Tx[h].nft
            /\ Tx[h].nft \in NFTsData
        BY NFTTxFields
      <4>2. Tx[h].mint
        BY <1>4, <2>5, <4>1, TxAssumption, MarkerAssumption
      <4>3. h \in Mints(range)
        BY <3>3, <4>1, <4>2 DEF Mints
      <4>4. Recorded(Tx[h].nft)
        BY <1>1, <4>3 DEF Migrated
      <4> QED
        BY <1>2, <1>4, <4>1, <4>4 DEF Recorded
    <3>4. CASE ~(Tx[h].ledgerSequence <= range)
      <4>1. Tx[h].ledgerSequence > lo
        BY <1>4, <2>1, <3>1, <3>2, <3>4
      <4>2. CASE h \in MintsAfter(lo)
        <5>1. Landed(<<"nf_token_uris", getNFTDataFromTx(h)>>)
          BY <2>2, <3>1, <4>2 DEF Shown
        <5> QED
          BY <1>2, <1>4, <5>1 DEF Landed
      <4>3. CASE h \notin MintsAfter(lo)
        <5>1. PICK g \in NFTTxs : /\ At(getNFTDataFromTx(g)) = At(getNFTDataFromTx(h))
                                  /\ getNFTDataFromTx(g).uri = NoURI
          BY <1>4, <2>5, <4>1, <4>3 DEF MintsAfter
        <5>2. getNFTDataFromTx(g) \in Records /\ At(getNFTDataFromTx(g)) = <<t, x[1]>>
          BY <1>2, <1>4, <5>1, NFTTxFields
        <5>3. x[1] <= x[1]
          BY <2>1
        <5>4. \E y \in History(t, x[1]) : y[1] = x[1] /\ y[3] = getNFTDataFromTx(g)
          BY <1>2, <5>2, <5>3, RecordListed
        <5>5. x[1] > range
          BY <1>4, <2>1, <3>4
        <5> QED
          BY <5>1, <5>4, <5>5 DEF MintHidden
      <4> QED
        BY <4>2, <4>3
    <3> QED
      BY <3>3, <3>4
  <2> QED
    BY <2>4, <2>5
<1> QED
  BY <1>2, <1>3, <1>4

(* The history up to a ledger is the part of a longer one up to there.      *)
LEMMA ShorterHistory ==
    ASSUME NEW t \in Token, NEW s \in Ledger, NEW q \in Ledger, q <= s
    PROVE  /\ History(t, q) \subseteq History(t, s)
           /\ \A x \in History(t, s) : x[1] <= q => x \in History(t, q)
<1>1. q \in Nat /\ s \in Nat
  BY SequenceAssumption DEF Ledger
<1>2. \A h \in Hash : Tx[h].ledgerSequence \in Nat
  BY TxFields
<1>3. \A h \in Hash : Tx[h].ledgerSequence <= q => Tx[h].ledgerSequence <= s
  BY <1>1, <1>2
<1>4. History(t, q) \subseteq History(t, s)
  BY <1>3 DEF History
<1>5. ASSUME NEW x \in History(t, s), x[1] <= q PROVE x \in History(t, q)
  BY <1>5 DEF History
<1> QED
  BY <1>4, <1>5

(* A row of nf_token_uris has the URI that the history gives the token at   *)
(* the row's ledger.                                                        *)
LEMMA RowIsURI ==
    ASSUME UrisOfHistory, NEW t \in Token, NEW q \in Ledger, nfTokenUris[<<t, q>>] # NoURI
    PROVE  URIAt(t, q) = nfTokenUris[<<t, q>>]
<1> DEFINE H == WithURI(History(t, q))
           x == CHOOSE x \in H : \A y \in H : y[1] < x[1] \/ (y[1] = x[1] /\ y[2] <= x[2])
<1>1. \A p \in Ledger : p \in Nat
  BY SequenceAssumption DEF Ledger
<1>2. PICK r \in Records : At(r) = <<t, q>> /\ r.uri = nfTokenUris[<<t, q>>]
  BY DEF UrisOfHistory
<1>3. PICK y \in History(t, q) : y[1] = q /\ y[3] = r
  BY <1>1, <1>2, RecordListed
<1>4. y \in H
  BY <1>2, <1>3 DEF WithURI
<1>5. x \in H /\ \A z \in H : z[1] < x[1] \/ (z[1] = x[1] /\ z[2] <= x[2])
  BY <1>4, NewestExists
<1>6. URIAt(t, q) = x[3].uri
  BY <1>4 DEF URIAt, Newest
<1>7. x \in History(t, q) /\ x[3].uri # NoURI
  BY <1>5 DEF WithURI
<1> HIDE DEF x, H
<1>8. x[1] \in Ledger /\ x[1] <= q /\ x[3] \in Records /\ At(x[3]) = <<t, x[1]>>
  BY <1>7, HistoryRecords
<1>9. q < x[1] \/ q = x[1]
  BY <1>3, <1>4, <1>5
<1>10. x[1] = q
  BY <1>1, <1>8, <1>9
<1> QED
  BY <1>2, <1>6, <1>7, <1>8, <1>10, URIAssumption

(* So nft_info gives a token the URI of its newest mint but for hidden      *)
(* ones.                                                                    *)
LEMMA URIIsServed ==
    ASSUME IInv, ServedInv, pc = "success", range # 0,
           NEW t \in Token, NEW s \in Ledger, s <= maxSequence
    PROVE  \E q \in MinSeq .. s :
              /\ fetchNFT(t, s).uri = URIAt(t, q)
              /\ \A x \in WithURI(History(t, s)) : x[1] > q => MintHidden(t, x[1])
<1> DEFINE Row(q) == nfTokenUris[<<t, q>>]
<1>1. fetchNFT(t, s).uri = LatestRow(nfTokenUris, NoURI, t, s)
  BY DEF fetchNFT
<1>2. /\ \A q \in Ledger : q \in Nat
      /\ MinSeq \in Ledger /\ MinSeq <= s /\ MinSeq \in Nat /\ s \in Nat
      /\ range \in Nat /\ maxSequence \in Nat /\ MinSeq <= range
  BY SequenceAssumption DEF Ledger, IInv, TypeOK
<1>3. ASSUME NEW x \in WithURI(History(t, s)), Row(x[1]) = NoURI
      PROVE  MintHidden(t, x[1])
  <2>1. x \in History(t, s) /\ x[3].uri # NoURI
    BY DEF WithURI
  <2> QED
    BY <1>3, <2>1, RecordsServed
<1>4. CASE \A q \in Ledger : q <= s => Row(q) = NoURI
  <2>1. LatestRow(nfTokenUris, NoURI, t, s) = NoURI
    BY <1>4 DEF LatestRow
  <2>2. \A x \in WithURI(History(t, s)) : MintHidden(t, x[1])
    <3>1. \A x \in WithURI(History(t, s)) : x[1] \in Ledger /\ x[1] <= s
      BY HistoryRecords DEF WithURI
    <3> QED
      BY <1>3, <1>4, <3>1
  <2>3. WithURI(History(t, MinSeq)) = {}
    <3> SUFFICES ASSUME NEW x \in WithURI(History(t, MinSeq)) PROVE FALSE
      OBVIOUS
    <3>1. x \in History(t, MinSeq) /\ x[3].uri # NoURI
      BY DEF WithURI
    <3>2. x[1] \in Ledger /\ x[1] <= MinSeq
      BY <1>2, <3>1, HistoryRecords
    <3>3. x \in WithURI(History(t, s))
      BY <1>2, <3>1, ShorterHistory DEF WithURI
    <3>4. x[1] > range
      BY <2>2, <3>3 DEF MintHidden
    <3>5. x[1] \in Nat
      BY <1>2, <3>2
    <3>6. ~(x[1] > range)
      BY <1>2, <3>2, <3>5
    <3> QED
      BY <3>4, <3>6
  <2>4. URIAt(t, MinSeq) = NoURI
    BY <2>3 DEF URIAt
  <2>5. MinSeq \in MinSeq .. s
    BY <1>2
  <2> QED
    BY <1>1, <2>1, <2>2, <2>4, <2>5
<1>5. CASE \E q \in Ledger : q <= s /\ Row(q) # NoURI
  <2>1. PICK p \in Ledger : /\ p <= s /\ Row(p) # NoURI
                            /\ \A o \in Ledger : o <= s /\ Row(o) # NoURI => o <= p
    <3> DEFINE rows == {q \in Ledger : q <= s /\ Row(q) # NoURI}
    <3>1. rows \subseteq Ledger /\ rows # {}
      BY <1>5
    <3>2. \E p \in rows : \A o \in rows : o <= p
      <4> HIDE DEF rows
      <4> QED
        BY <3>1, NewestLedger
    <3> QED
      BY <3>2
  <2>2. LatestRow(nfTokenUris, NoURI, t, s) = Row(p)
    BY <2>1, LatestRowIs
  <2>3. URIAt(t, p) = Row(p)
    BY <2>1, RowIsURI DEF ServedInv
  <2>4. ASSUME NEW x \in WithURI(History(t, s)), x[1] > p PROVE MintHidden(t, x[1])
    <3>1. x[1] \in Ledger /\ x[1] <= s
      BY HistoryRecords DEF WithURI
    <3>2. x[1] \in Nat /\ p \in Nat
      BY <1>2, <2>1, <3>1
    <3>3. ~(x[1] <= p)
      BY <2>4, <3>2
    <3>4. Row(x[1]) = NoURI
      BY <2>1, <3>1, <3>3
    <3> QED
      BY <1>3, <3>4
  <2>5. p \in MinSeq .. s
    BY <1>2, <2>1 DEF Ledger
  <2> QED
    BY <1>1, <2>2, <2>3, <2>4, <2>5
<1> QED
  BY <1>4, <1>5

(* After a successful migration, for every history, nft_info serves for     *)
(* every token and committed ledger the URI of the latest mint, an earlier  *)
(* one only where insertTransactions may have given up every later mint for *)
(* another record of its ledger, which happens in ledgers above the range   *)
(* alone; and clio_verifier fails for no other reason: for every page and   *)
(* batch size, retries, runs, and interleaving of the tool with the clio    *)
(* that goes on writing.                                                    *)
THEOREM MigrationServesURIs == Spec => []URIServed
<1>1. Init => ServedInv
  BY InitServed
<1>2. IInv /\ ServedInv /\ [Next]_vars => ServedInv'
  BY ServedStep
<1>3. IInv /\ ServedInv => URIServed
  <2> SUFFICES ASSUME IInv, ServedInv, pc = "success", range # 0 PROVE URIServed
    BY DEF URIServed
  <2>1. maxSequence \in Ledger /\ maxSequence <= maxSequence
    BY SequenceAssumption DEF IInv, TypeOK, Phases, Ledger
  <2>2. ASSUME NEW t \in Token, NEW s \in MinSeq .. maxSequence
        PROVE  \E q \in MinSeq .. s :
                  /\ fetchNFT(t, s).uri = URIAt(t, q)
                  /\ \A x \in WithURI(History(t, s)) : x[1] > q => MintHidden(t, x[1])
    <3>1. s \in Ledger /\ s <= maxSequence
      BY <2>1, SequenceAssumption DEF Ledger
    <3> QED
      BY <3>1, URIIsServed
  <2>3. ASSUME NEW t \in TokensAt(maxSequence)
        PROVE  fetchNFT(t, maxSequence).row # NoRow
    <3>1. PICK x \in History(t, maxSequence) : t \in Token
      BY DEF TokensAt
    <3>2. nfTokens[<<t, x[1]>>] # NoRow /\ x[1] \in Ledger /\ x[1] <= maxSequence
      BY <2>1, <3>1, RecordsServed, HistoryRecords
    <3>3. PICK p \in Ledger :
             /\ p <= maxSequence /\ nfTokens[<<t, p>>] # NoRow
             /\ \A o \in Ledger : o <= maxSequence /\ nfTokens[<<t, o>>] # NoRow => o <= p
      <4> DEFINE rows == {q \in Ledger : q <= maxSequence /\ nfTokens[<<t, q>>] # NoRow}
      <4>1. rows \subseteq Ledger /\ rows # {}
        BY <3>2
      <4>2. \E p \in rows : \A o \in rows : o <= p
        <5> HIDE DEF rows
        <5> QED
          BY <4>1, NewestLedger
      <4> QED
        BY <4>2
    <3>4. LatestRow(nfTokens, NoRow, t, maxSequence) = nfTokens[<<t, p>>]
      BY <2>1, <3>3, LatestRowIs
    <3> QED
      BY <3>3, <3>4 DEF fetchNFT
  <2>4. ASSUME NEW t \in TokensAt(maxSequence),
               fetchNFT(t, maxSequence).uri # URIAt(t, maxSequence)
        PROVE  \E q \in Ledger : MintHidden(t, q)
    <3>1. t \in Token
      BY DEF TokensAt
    <3>2. PICK q \in MinSeq .. maxSequence :
             /\ fetchNFT(t, maxSequence).uri = URIAt(t, q)
             /\ \A x \in WithURI(History(t, maxSequence)) : x[1] > q => MintHidden(t, x[1])
      BY <2>1, <3>1, URIIsServed
    <3>3. q \in Ledger /\ q <= maxSequence /\ q \in Nat
      BY <2>1, SequenceAssumption DEF Ledger
    <3>4. CASE \A x \in WithURI(History(t, maxSequence)) : ~(x[1] > q)
      <4>1. \A x \in WithURI(History(t, maxSequence)) : x \in History(t, q)
        <5> SUFFICES ASSUME NEW x \in WithURI(History(t, maxSequence))
                     PROVE  x \in History(t, q)
          OBVIOUS
        <5>1. x \in History(t, maxSequence)
          BY DEF WithURI
        <5>2. x[1] \in Ledger
          BY <2>1, <3>1, <5>1, HistoryRecords
        <5>3. x[1] \in Nat /\ ~(x[1] > q)
          BY <3>4, <5>2, SequenceAssumption DEF Ledger
        <5>4. x[1] <= q
          BY <3>3, <5>3
        <5> QED
          BY <2>1, <3>1, <3>3, <5>1, <5>4, ShorterHistory
      <4>2. WithURI(History(t, q)) = WithURI(History(t, maxSequence))
        BY <2>1, <3>1, <3>3, <4>1, ShorterHistory DEF WithURI
      <4>3. URIAt(t, q) = URIAt(t, maxSequence)
        BY <4>2 DEF URIAt
      <4> QED
        BY <2>4, <3>2, <4>3
    <3>5. CASE \E x \in WithURI(History(t, maxSequence)) : x[1] > q
      <4>1. PICK x \in WithURI(History(t, maxSequence)) : x[1] > q
        BY <3>5
      <4>2. x[1] \in Ledger
        BY <2>1, <3>1, HistoryRecords DEF WithURI
      <4> QED
        BY <3>2, <4>1, <4>2
    <3> QED
      BY <3>4, <3>5
  <2>5. \/ doVerification
        \/ \E t \in TokensAt(maxSequence), q \in Ledger : MintHidden(t, q)
    BY <2>3, <2>4 DEF doVerification, verifyNFTs
  <2> QED
    BY <2>2, <2>3, <2>5 DEF URIServed
<1> QED
  BY <1>1, <1>2, <1>3, Inductive, PTL DEF Spec

=============================================================================
