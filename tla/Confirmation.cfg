CONSTANTS
    x = x
    t1 = t1
    t2 = t2
    t3 = t3
    Tasks = {t1, t2, t3}
    Ftl = {t3}
    Txs = {x}
    TxOf <- MCTxOf
    Nobody = Nobody
    MaxClients = 3
SPECIFICATION CSpec
INVARIANTS CTypeOK RetryOnAnotherClient ReconnectsCollapse ResultsAreTrue
PROPERTY EveryCallReturns
\* The calls are finitely many; when they have returned, nothing is left to do.
CHECK_DEADLOCK FALSE
