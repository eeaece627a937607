\* A token minted and sold in one ledger of the previous release.
SPECIFICATION FairSpec
CONSTANTS
    a = a
    b = b
    alice = alice
    bob = bob
    u1 = u1
    u2 = u2
    NoURI = NoURI
    NoNFT = NoNFT
    NoRow = NoRow
    Token = {a, b}
    Account = {alice, bob}
    URI = {u1, u2}
    Hash <- SameLedgerHash
    Tx <- SameLedgerTx
    Key <- MCKey
    NFTPage <- MCNFTPage
    MinSeq = 1
    OldMax = 2
    LastSeq = 3
    TX_PAGE = 2
    OBJECT_PAGE = 1
    NFT_WRITE_BATCH_SIZE = 2
    MAX_RETRIES = 1
    MaxRuns = 2
CHECK_DEADLOCK FALSE
PROPERTIES
    FinalStateKept
