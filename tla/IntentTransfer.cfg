SPECIFICATION Spec
CONSTANTS
    u = u  v = v  w = w  here = here  elsewhere = elsewhere  tokW = tokW
    Wallets = {u, v}
    Mints = {w, Native}
    Native = Native
    FogoSymbol = FogoSymbol
    Malformed = Malformed
    NotRegistered = NotRegistered
    Solana = Solana
    Chains = {here, elsewhere, Solana}
    ChainId = here
    WormholeChains = {here, Solana}
    Designators = {tokW, FogoSymbol}
    Denotes <- MCDenotes
    Decimals <- MCDecimals
    MaxDecimals = 1
    U64Max = 10
    Accounts <- MCAccounts
    OwnerOf <- MCOwnerOf
    MintOf <- MCMintOf
    AtaOf <- MCAtaOf
    Intents <- MCIntents
    Managers = {mgr1, mgr2}
    DustUnit <- MCDustUnit
    Fees = {0, 1, 2}
    InitialBalance <- MCInitialBalance
    MaxDeposit = 1
INVARIANTS
    NoncesInOrder
PROPERTIES
    DebitNeedsFreshIntent
    ImplementsBook
