----------------------------- MODULE MCMigrator -----------------------------
(* A small history for Migrator: token a lives in the initial ledger and is *)
(* burned and minted again with another URI in ledger 2, which the previous *)
(* release wrote or which clio writes; token b is minted in ledger 3 that   *)
(* only clio writes; a failed mint is never indexed.                        *)
EXTENDS Migrator

CONSTANTS a, b, alice, bob, u1, u2

NFT(t, s, o, u, burned) ==
    [tokenID |-> t, ledgerSequence |-> s, owner |-> o, uri |-> u, isBurned |-> burned]

Txn(s, i, ok, isMint, r) ==
    [ledgerSequence |-> s, transactionIndex |-> i, success |-> ok, mint |-> isMint,
     nft |-> r]

MCTx == <<
    Txn(3, 0, TRUE,  TRUE,  NFT(b, 3, alice, u1, FALSE)),
    Txn(2, 0, TRUE,  FALSE, NFT(a, 2, alice, NoURI, TRUE)),
    Txn(2, 1, TRUE,  TRUE,  NFT(a, 2, bob, u2, FALSE)),
    Txn(1, 0, FALSE, TRUE,  NoNFT)>>

MCHash == 1 .. 4

(* A ledger of the previous release in which b is minted and sold.          *)
SameLedgerTx == <<
    Txn(2, 0, TRUE,  TRUE,  NFT(b, 2, alice, u1, FALSE)),
    Txn(2, 1, TRUE,  FALSE, NFT(b, 2, bob, NoURI, FALSE)),
    Txn(3, 0, TRUE,  FALSE, NFT(a, 3, bob, NoURI, FALSE))>>

SameLedgerHash == 1 .. 3

MCKey == 1 .. 2

MCNFTPage == <<{}, {NFT(a, 1, alice, u1, FALSE)}>>

=============================================================================
