SPECIFICATION MCSpec
CONSTANTS
    u1 = u1  u2 = u2  k1 = k1  k2 = k2  m1 = m1  m2 = m2  d1 = d1  p1 = p1
    s1 = s1  s2 = s2  here = here  dapp = dapp  elsewhere = elsewhere
    tokM1 = tokM1  symbol = symbol  None = None
    Chains = {here, elsewhere}
    ChainId = here
    Denotes <- MCDenotes
    Decimals <- MCDecimals
    Designators = {tokM1, symbol}
    MaxDecimals = 1
    Domains = {d1}
    Tollbooth = p1
    Users = {u1, u2}
    Keys = {k1, k2}
    Mints = {m1, m2}
    Programs = {p1}
    Sponsors = {s1, s2}
    PlainDelegates = {dapp}
    Intents <- AllIntents
    U64Max = 2
    MaxSessionDuration = 1
    ActiveRent = 2
    RevokedRent = 1
    InitialWallet = 3
    Balances = {0, 1, 2}
    MaxSpend = 3
    MaxTime = 2
    MaxDonation = 3
INVARIANTS
    TypeOK
    DelegationWithinGrant
    NoOrphanDelegation
    SponsorMadeWhole
    LamportsConserved
PROPERTIES
    ImplementsGrant
    CloseKeepsOthers
    SpendDebitsSigner
