CONSTANTS
    r1 = r1
    r2 = r2
    s1 = s1
    s2 = s2
    x1 = x1
    x2 = x2
    y = y
    w1 = w1
    w2 = w2
    d = d
    Tasks = {r1, r2, s1, s2}
    Requests = {r1, r2}
    Ftl = {}
    Txs = {x1, x2, y}
    TxOf <- MCTxOf
    SwapOf <- MCSwapOf
    Domains = {d}
    DomainOf <- MCDomainOf
    VariationOf <- MCVariationOf
    AnyVariation = AnyVariation
    Wallets = {w1, w2}
    PayerOf <- MCPayerOf
    UserSigned = {x1, x2}
    Configs <- MCConfigs
    Nobody = Nobody
    MaxClients = 2
SPECIFICATION Spec
INVARIANTS SignedUnderOneConfig SwapFollowsLanding
