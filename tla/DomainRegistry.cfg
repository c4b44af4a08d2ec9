SPECIFICATION Spec
CONSTANTS
    Domains = {d1, d2}
    Programs = {p1, p2, p3}
    Authorities = {a1, a2}
    NoAuthority = NoAuthority
    BaseRent = 2
    ItemRent = 1
    InitialWallet = 6
    MaxDonation = 2
INVARIANTS
    NoDuplicates
    RecordSurvives
    RentConserved
PROPERTIES
    RemoveUnlists
    ImplementsLists
