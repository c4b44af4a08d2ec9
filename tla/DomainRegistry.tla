--------------------------- MODULE DomainRegistry ---------------------------
(***************************************************************************)
(* The domain registry program (programs/domain-registry): one account per *)
(* domain that holds an array of programs and resizes itself, paying its   *)
(* rent from, and returning the excess to, whoever calls it.               *)
(*                                                                         *)
(* A record whose last program is removed gives back all its lamports and  *)
(* disappears when the transaction ends.  Reap is that end: a step that    *)
(* comes before it belongs to the same transaction, so every sequence of   *)
(* instructions in one transaction is covered too.                         *)
(***************************************************************************)
EXTENDS Integers, Sequences, FiniteSets, FiniteSetsExt

CONSTANTS
    Domains,
    Programs,           \* program ids; the signer PDA is a function of the id
    Authorities,        \* keys that may be the authority
    NoAuthority,        \* the config account does not exist yet
    BaseRent,           \* rent of an empty account
    ItemRent,           \* rent of one array element
    InitialWallet,      \* lamports each authority starts with
    MaxDonation         \* bound on lamports others send to records

ASSUME RegistryAssumption ==
    /\ NoAuthority \notin Authorities
    /\ BaseRent \in Nat \ {0}
    /\ ItemRent \in Nat \ {0}
    /\ InitialWallet \in Nat
    /\ MaxDonation \in Nat
    /\ IsFiniteSet(Domains) /\ IsFiniteSet(Authorities)

VARIABLES
    config,         \* Config.authority
    record,         \* record[d]: the array of domain d
    owned,          \* owned[d]: the account belongs to the registry program
    lamports,       \* lamports[d]: balance of the record account
    wallet,         \* wallet[a]: lamports of authority a
    donated         \* history: lamports sent to records by others

vars == << config, record, owned, lamports, wallet, donated >>

Init == /\ config = NoAuthority
        /\ record = [d \in Domains |-> << >>]
        /\ owned = [d \in Domains |-> FALSE]
        /\ lamports = [d \in Domains |-> 0]
        /\ wallet = [a \in Authorities |-> InitialWallet]
        /\ donated = 0

Elements(s) == {s[n] : n \in DOMAIN s}

(* Rent::minimum_balance for n elements. *)
MinimumBalance(n) == BaseRent + n * ItemRent

-----------------------------------------------------------------------------
(* Mutant: has_one is missing. *)
AnyCaller(a) == TRUE

(* The accounts of an instruction: has_one = authority, who also signs. *)
HasAuthority(a) == config = a

Initialize(a) == /\ config = NoAuthority
                 /\ config' = a
                 /\ UNCHANGED << record, owned, lamports, wallet, donated >>

UpdateAuthority(a, b) == /\ HasAuthority(a)
                         /\ config' = b
                         /\ UNCHANGED << record, owned, lamports, wallet, donated >>

(* Mutant: the rent is adjusted before the account is resized. *)
AmountRequiredTooSoon(n) == IF n = 0 THEN 0 ELSE MinimumBalance(n - 1)

(* adjust_rent_if_needed: the balance an array of n elements must have. *)
AmountRequired(n) == IF n = 0 THEN 0 ELSE MinimumBalance(n)

(* Mutant: a withdrawal is credited without being debited. *)
ResizeKeepsExcess(a, d, s) ==
    LET excess == lamports[d] - AmountRequired(Len(s))
    IN  /\ wallet[a] + excess >= 0
        /\ record' = [record EXCEPT ![d] = s]
        /\ lamports' = [lamports EXCEPT ![d] = IF excess > 0 THEN @ ELSE @ - excess]
        /\ wallet' = [wallet EXCEPT ![a] = @ + excess]

(* extend, or the realloc of swap_remove, and then adjust_rent_if_needed:  *)
(* the payer adds what is missing or receives what is too much, donated    *)
(* lamports included.                                                      *)
Resize(a, d, s) ==
    LET excess == lamports[d] - AmountRequired(Len(s))
    IN  /\ wallet[a] + excess >= 0
        /\ record' = [record EXCEPT ![d] = s]
        /\ lamports' = [lamports EXCEPT ![d] = @ - excess]
        /\ wallet' = [wallet EXCEPT ![a] = @ + excess]

(* create_domain_record_if_needed and create_pda: the record becomes the   *)
(* registry's, whether or not lamports were sent to it before.  It costs   *)
(* less than the first element, and Resize settles the difference, so that *)
(* the payer can afford it follows from the guard of Resize.               *)
CreateRecordIfNeeded(d) == owned' = [owned EXCEPT ![d] = TRUE]

(* Mutant: contains looks at the last element only. *)
ContainsLast(d, p) == record[d] # << >> /\ record[d][Len(record[d])] = p

Contains(d, p) == p \in Elements(record[d])

AddProgram(a, d, p) ==
    /\ HasAuthority(a)
    /\ CreateRecordIfNeeded(d)
    /\ ~ Contains(d, p)
    /\ Resize(a, d, Append(record[d], p))
    /\ UNCHANGED << config, donated >>

(* Mutant: the last element is dropped without being moved. *)
TruncateRemove(s, n) == SubSeq(s, 1, Len(s) - 1)

(* swap_remove: the last element takes the place of the removed one. *)
SwapRemove(s, n) ==
    [j \in 1 .. Len(s) - 1 |-> IF j = n THEN s[Len(s)] ELSE s[j]]

(* position: the first element with that program id. *)
RemoveProgram(a, d, p) ==
    /\ HasAuthority(a)
    /\ \E n \in DOMAIN record[d] :
          /\ record[d][n] = p
          /\ \A j \in 1 .. n - 1 : record[d][j] # p
          /\ Resize(a, d, SwapRemove(record[d], n))
    /\ UNCHANGED << config, owned, donated >>

(* Lamports sent to a record address, existing or not. *)
Donate(d) == /\ donated < MaxDonation
             /\ donated' = donated + 1
             /\ lamports' = [lamports EXCEPT ![d] = @ + 1]
             /\ UNCHANGED << config, record, owned, wallet >>

(* The runtime removes an account without lamports when the transaction    *)
(* ends: its data is gone and the system program owns the address again.   *)
Reap(d) == /\ owned[d]
           /\ lamports[d] = 0
           /\ owned' = [owned EXCEPT ![d] = FALSE]
           /\ record' = [record EXCEPT ![d] = << >>]
           /\ UNCHANGED << config, lamports, wallet, donated >>

Next == \/ \E a \in Authorities : Initialize(a)
        \/ \E a, b \in Authorities : UpdateAuthority(a, b)
        \/ \E a \in Authorities, d \in Domains, p \in Programs : AddProgram(a, d, p)
        \/ \E a \in Authorities, d \in Domains, p \in Programs : RemoveProgram(a, d, p)
        \/ \E d \in Domains : Donate(d)
        \/ \E d \in Domains : Reap(d)

Spec == Init /\ [][Next]_vars

-----------------------------------------------------------------------------
(* A program is listed at most once, so that removing it unlists it.  The  *)
(* array is only ever searched for the whole (id, PDA) pair when adding    *)
(* and for the id when removing.                                           *)
NoDuplicates ==
    \A d \in Domains : \A n, j \in DOMAIN record[d] :
        record[d][n] = record[d][j] => n = j

(* remove_program unlists exactly the program it names, wherever swap      *)
(* removal has moved the elements before: a copy of it elsewhere in the    *)
(* array, or the wrong element dropped, would leave it authorised.         *)
RemoveUnlists ==
    [][\A a \in Authorities, d \in Domains, p \in Programs :
          RemoveProgram(a, d, p) =>
              Elements(record'[d]) = Elements(record[d]) \ {p}]_vars

(* A record that lists programs belongs to the registry and can pay its    *)
(* rent, so no domain loses its programs when the transaction ends.        *)
RecordSurvives ==
    \A d \in Domains : record[d] # << >> =>
        /\ owned[d]
        /\ lamports[d] >= MinimumBalance(Len(record[d]))

SumOver(f, S) == MapThenSumSet(LAMBDA x : f[x], S)

(* Rent moves between the callers and the records; none is created or lost *)
(* (adjust_rent_if_needed writes both balances by hand).                   *)
RentConserved ==
    SumOver(wallet, Authorities) + SumOver(lamports, Domains)
        = Cardinality(Authorities) * InitialWallet + donated

Lists == INSTANCE DomainLists WITH authority <- config,
                                   lists <- [d \in Domains |-> Elements(record[d])]

(* The resizable array, its rent and its disappearance are invisible to    *)
(* the session manager: every domain has a set of programs that changes by *)
(* one program at a time (module DomainLists).                             *)
ImplementsLists == Lists!LSpec
=============================================================================
