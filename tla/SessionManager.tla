---------------------------- MODULE SessionManager ----------------------------
(***************************************************************************)
(* The session manager program (programs/session-manager) together with    *)
(* what its sessions can do to token accounts.  Solana runs a transaction  *)
(* atomically and undoes a failed one, so a handler is one action whose    *)
(* guard is the conjunction of its checks; a rejected call changes nothing *)
(* and is no step.                                                         *)
(*                                                                         *)
(* The token program is external (a fork of SPL Token that accepts session *)
(* accounts as authorities): its transfer, approve and revoke are modelled *)
(* from how this repository calls them.                                    *)
(***************************************************************************)
EXTENDS SessionAccount, FiniteSets, FiniteSetsExt

CONSTANTS
    ChainId,                \* chain_id program's account
    PlainDelegates,         \* keys that are delegates but never sessions
    Tollbooth,              \* the program that charges paymaster fees
    MaxSessionDuration,     \* clock.rs: 8 days
    ActiveRent,             \* rent of an active session account
    RevokedRent,            \* rent of a revoked one (fewer bytes)
    InitialWallet,          \* lamports each sponsor starts with
    Balances,               \* token balances the owner can set
    MaxSpend,               \* bound on what is counted in used
    MaxTime,                \* bound on the clock
    MaxDonation             \* bound on lamports sent to a session address

VARIABLES
    now,            \* Clock::unix_timestamp
    session,        \* session[k]: account at key k, or None
    lamports,       \* lamports[k]: balance of that account
    wallet,         \* wallet[s]: lamports of sponsor s
    donated,        \* history: lamports others sent to session addresses
    ata,            \* ata[u][m]: associated token account of u for m
    registry,       \* registry[d]: programs in domain d's record
    origin,         \* history: message the account at k was last started by
    used,           \* history: used[i][m], spent under message i
    listed          \* history: programs ever in domain d's record

accounts == << session, lamports, wallet, donated >>
history == << origin, used, listed >>
vars == << now, accounts, ata, registry, history >>

Delegates == Keys \union PlainDelegates

TokenAccount == [exists    : BOOLEAN,
                 amount    : Nat,
                 delegate  : Delegates \union {None},
                 delegated : Nat]

ASSUME ConstantsAssumption ==
    /\ None \notin Delegates
    /\ None \notin Intents
    /\ Keys \cap PlainDelegates = {}
    /\ Tollbooth \in Programs
    /\ MaxSessionDuration \in Nat
    /\ MaxTime \in Nat
    /\ MaxSpend \in Nat
    /\ MaxDonation \in Nat
    /\ InitialWallet \in Nat
    /\ ActiveRent \in Nat
    /\ RevokedRent \in Nat
    /\ 0 < RevokedRent
    /\ RevokedRent < ActiveRent
    /\ Balances \subseteq Nat
    /\ IsFiniteSet(Keys) /\ IsFiniteSet(Sponsors)

Init ==
    /\ now = 0
    /\ session = [k \in Keys |-> None]
    /\ lamports = [k \in Keys |-> 0]
    /\ wallet = [s \in Sponsors |-> InitialWallet]
    /\ donated = 0
    /\ ata \in [Users -> [Mints -> [exists : {TRUE}, amount : Balances,
                                    delegate : {None}, delegated : {0}]]]
    /\ registry = [d \in Domains |-> {}]
    /\ origin = [k \in Keys |-> None]
    /\ used = [i \in Intents |-> [m \in Mints |-> 0]]
    /\ listed = [d \in Domains |-> {}]

-----------------------------------------------------------------------------
(***************************************************************************)
(* start_session                                                           *)
(***************************************************************************)

(* clock::check_expiration: not too far in the future.  An expiration that *)
(* has already passed is accepted.                                         *)
CheckExpiration(expires) == expires <= now + MaxSessionDuration

(* The submitter resolves the token section: mintOf[n] is the mint account *)
(* given for entry n.  A symbol is matched by any mint with that symbol;   *)
(* the token account must be the user's existing associated account.       *)
PendingApprovals(i, mintOf) ==
    \A n \in DOMAIN i.limits :
        /\ mintOf[n] \in Denotes[i.limits[n].token]
        /\ AmountConverts(i.limits[n].ui, mintOf[n])
        /\ ata[i.user][mintOf[n]].exists

(* approve_tokens: entries are approved in order, so the last one for a    *)
(* mint decides (0: no entry).  An approval replaces the account's only    *)
(* delegate, whoever that is.                                              *)
LastEntries(i, mintOf) ==
    {last \in [Mints -> {0} \union DOMAIN i.limits] :
        \A m \in Mints :
            /\ last[m] # 0 => mintOf[last[m]] = m
            /\ \A n \in DOMAIN i.limits : mintOf[n] = m => n <= last[m]}

ApproveTokens(i, last) ==
    [ata EXCEPT ![i.user] = [m \in Mints |->
        IF last[m] # 0
        THEN [ata[i.user][m] EXCEPT
                !.delegate = i.key,
                !.delegated = IntoAmountInternal(i.limits[last[m]].ui, m)]
        ELSE ata[i.user][m]]]

NewSession(i, sp, mintOf) ==
    [sponsor    |-> sp,
     minor      |-> i.minor,
     status     |-> "active",
     user       |-> i.user,
     domain     |-> IF i.minor = 4 THEN i.domain ELSE None,
     expiration |-> i.expires,
     programs   |-> registry[i.domain],
     unlimited  |-> i.unlimited,
     mints      |-> IF i.minor >= 3
                    THEN {mintOf[n] : n \in DOMAIN i.limits}
                    ELSE {}]

(* initialize_account: create it, or top it up if lamports were sent to it *)
(* before; either way the system program refuses an account that it does   *)
(* not own, so a key with a session account cannot start another one.      *)
TopUp(k) == IF lamports[k] < ActiveRent THEN ActiveRent - lamports[k] ELSE 0

(* Mutant: the sponsor's balance is not checked. *)
InitializeUnfunded(k, sp, s) ==
    /\ session[k] = None
    /\ session' = [session EXCEPT ![k] = s]
    /\ lamports' = [lamports EXCEPT ![k] = @ + TopUp(k)]
    /\ wallet' = [wallet EXCEPT ![sp] = @ - TopUp(k)]

InitializeAccount(k, sp, s) ==
    /\ session[k] = None
    /\ wallet[sp] >= TopUp(k)
    /\ session' = [session EXCEPT ![k] = s]
    /\ lamports' = [lamports EXCEPT ![k] = @ + TopUp(k)]
    /\ wallet' = [wallet EXCEPT ![sp] = @ - TopUp(k)]

StartSession(i, sp, mintOf) ==
    /\ i.chain = ChainId
    /\ CheckExpiration(i.expires)
    /\ PendingApprovals(i, mintOf)
    /\ \E last \in LastEntries(i, mintOf) : ata' = ApproveTokens(i, last)
    /\ i.minor \in 1 .. 4
    /\ InitializeAccount(i.key, sp, NewSession(i, sp, mintOf))
    /\ origin' = [origin EXCEPT ![i.key] = i]
    /\ UNCHANGED << now, registry, donated, used, listed >>

(***************************************************************************)
(* revoke_session: signed by the session key.  The account shrinks and the *)
(* lamports above its new rent go back to the sponsor; revoking again is   *)
(* allowed and only returns what was sent to the account meanwhile.        *)
(***************************************************************************)

(* Mutant: the refund is measured against the rent of the old size. *)
RefundAgainstOldRent(k) ==
    IF ActiveRent < lamports[k]
    THEN /\ lamports' = [lamports EXCEPT ![k] = RevokedRent]
         /\ wallet' = [wallet EXCEPT ![session[k].sponsor] =
                                        @ + (lamports[k] - ActiveRent)]
    ELSE /\ lamports' = [lamports EXCEPT ![k] = RevokedRent]
         /\ UNCHANGED wallet

(* Mutant: the whole balance is credited. *)
RefundWholeBalance(k) ==
    /\ lamports' = [lamports EXCEPT ![k] = RevokedRent]
    /\ wallet' = [wallet EXCEPT ![session[k].sponsor] = @ + lamports[k]]

ReallocateAndRefundRent(k) ==
    IF RevokedRent < lamports[k]
    THEN /\ lamports' = [lamports EXCEPT ![k] = RevokedRent]
         /\ wallet' = [wallet EXCEPT ![session[k].sponsor] =
                                        @ + (lamports[k] - RevokedRent)]
    ELSE UNCHANGED << lamports, wallet >>

RevokeSession(k) ==
    /\ session[k] # None
    /\ session[k].minor >= 2
    /\ session' = [session EXCEPT ![k] = IF @.status = "active"
                                         THEN RevokedSession(@) ELSE @]
    /\ ReallocateAndRefundRent(k)
    /\ UNCHANGED << now, donated, ata, registry, history >>

(***************************************************************************)
(* close_session: anyone may close an expired session.  The delegations of *)
(* the listed mints that still belong to this key are revoked first; an    *)
(* account that is gone or has another delegate is skipped.                *)
(***************************************************************************)

(* Mutant: the account's delegate is not compared with the session key. *)
RevokeWhoever(k) ==
    [u \in Users |-> [m \in Mints |->
        IF /\ session[k].user = u
           /\ m \in session[k].mints
           /\ ata[u][m].exists
        THEN [ata[u][m] EXCEPT !.delegate = None, !.delegated = 0]
        ELSE ata[u][m]]]

RevokeTokens(k) ==
    [u \in Users |-> [m \in Mints |->
        IF /\ session[k].user = u
           /\ m \in session[k].mints
           /\ ata[u][m].exists
           /\ ata[u][m].delegate = k
        THEN [ata[u][m] EXCEPT !.delegate = None, !.delegated = 0]
        ELSE ata[u][m]]]

(* Mutant: a revoked session need not wait for its expiration. *)
CloseRevokedEarly(k) ==
    /\ session[k] # None
    /\ \/ ~ IsLive(session[k], now)
       \/ ~ CheckIsUnrevoked(session[k])
    /\ Closable(session[k])
    /\ ata' = RevokeTokens(k)
    /\ session' = [session EXCEPT ![k] = None]
    /\ wallet' = [wallet EXCEPT ![session[k].sponsor] = @ + lamports[k]]
    /\ lamports' = [lamports EXCEPT ![k] = 0]
    /\ UNCHANGED << now, donated, registry, history >>

CloseSession(k) ==
    /\ session[k] # None
    /\ ~ IsLive(session[k], now)
    /\ Closable(session[k])
    /\ ata' = RevokeTokens(k)
    /\ session' = [session EXCEPT ![k] = None]
    /\ wallet' = [wallet EXCEPT ![session[k].sponsor] = @ + lamports[k]]
    /\ lamports' = [lamports EXCEPT ![k] = 0]
    /\ UNCHANGED << now, donated, registry, history >>

-----------------------------------------------------------------------------
(***************************************************************************)
(* Token transfers                                                         *)
(***************************************************************************)

(* SPL Token: a transfer by the delegate uses up the delegation, and one   *)
(* that uses all of it clears the delegate.                                *)
DebitDelegated(acc, a) ==
    [acc EXCEPT !.amount = @ - a,
                !.delegate = IF acc.delegated = a THEN None ELSE @,
                !.delegated = @ - a]

CountSpend(k, m, a) ==
    /\ used[origin[k]][m] + a <= MaxSpend
    /\ used' = [used EXCEPT ![origin[k]][m] = @ + a]

(* A transfer whose authority is the session account at k, sent by program *)
(* p with its signer PDA (example_transfer; the token program checks       *)
(* get_token_permissions_checked).                                         *)
SpendAsSession(k, u, m, a, p) ==
    /\ session[k] # None
    /\ TokenPermissionsChecked(session[k], u, p, now)
    /\ ata[u][m].exists
    /\ a <= ata[u][m].amount
    /\ CountSpend(k, m, a)
    /\ IF session[k].unlimited
       THEN ata' = [ata EXCEPT ![u][m].amount = @ - a]
       ELSE /\ ata[u][m].delegate = k
            /\ a <= ata[u][m].delegated
            /\ ata' = [ata EXCEPT ![u][m] = DebitDelegated(@, a)]
    /\ UNCHANGED << now, accounts, registry, origin, listed >>

(* tollbooth::pay_toll: the session's user pays from the associated        *)
(* account; only a session that stores its domain can pay.                 *)
PayToll(k, m, a) ==
    /\ session[k] # None
    /\ UserChecked(session[k], Tollbooth, now)
    /\ DomainHashChecked(session[k], now)
    /\ SpendAsSession(k, session[k].user, m, a, Tollbooth)

(* A transfer signed by a delegate that is an ordinary account.  A closed  *)
(* session key would be one.                                               *)
SpendAsDelegate(d, u, m, a) ==
    /\ d \in Keys => session[d] = None
    /\ ata[u][m].exists
    /\ ata[u][m].delegate = d
    /\ a <= ata[u][m].amount
    /\ a <= ata[u][m].delegated
    /\ ata' = [ata EXCEPT ![u][m] = DebitDelegated(@, a)]
    /\ UNCHANGED << now, accounts, registry, history >>

(***************************************************************************)
(* The rest of the chain: the wallet's own token instructions, the domain  *)
(* registry's authority, lamports sent to a session address, and time.     *)
(***************************************************************************)
OwnerApprove(u, m, d) ==
    /\ ata[u][m].exists
    /\ ata' = [ata EXCEPT ![u][m] = [@ EXCEPT !.delegate = d, !.delegated = 1]]
    /\ UNCHANGED << now, accounts, registry, history >>

OwnerRevoke(u, m) ==
    /\ ata[u][m].exists
    /\ ata' = [ata EXCEPT ![u][m] = [@ EXCEPT !.delegate = None, !.delegated = 0]]
    /\ UNCHANGED << now, accounts, registry, history >>

OwnerSetBalance(u, m, b) ==
    /\ ata[u][m].exists
    /\ ata' = [ata EXCEPT ![u][m].amount = b]
    /\ UNCHANGED << now, accounts, registry, history >>

(* Closing needs an empty account and forgets its delegate; creating it    *)
(* again starts without one.                                               *)
OwnerToggleAccount(u, m) ==
    /\ ata[u][m].amount = 0
    /\ ata' = [ata EXCEPT ![u][m] = [exists |-> ~ @.exists, amount |-> 0,
                                     delegate |-> None, delegated |-> 0]]
    /\ UNCHANGED << now, accounts, registry, history >>

AddProgram(d, p) ==
    /\ p \notin registry[d]
    /\ registry' = [registry EXCEPT ![d] = @ \union {p}]
    /\ listed' = [listed EXCEPT ![d] = @ \union {p}]
    /\ UNCHANGED << now, accounts, ata, origin, used >>

RemoveProgram(d, p) ==
    /\ p \in registry[d]
    /\ registry' = [registry EXCEPT ![d] = @ \ {p}]
    /\ UNCHANGED << now, accounts, ata, history >>

Donate(k) ==
    /\ donated < MaxDonation
    /\ donated' = donated + 1
    /\ lamports' = [lamports EXCEPT ![k] = @ + 1]
    /\ UNCHANGED << now, session, wallet, ata, registry, history >>

Tick == /\ now < MaxTime
        /\ now' = now + 1
        /\ UNCHANGED << accounts, ata, registry, history >>

Next ==
    \/ \E i \in Intents, sp \in Sponsors :
          \E mintOf \in [DOMAIN i.limits -> Mints] : StartSession(i, sp, mintOf)
    \/ \E k \in Keys : RevokeSession(k)
    \/ \E k \in Keys : CloseSession(k)
    \/ \E k \in Keys, u \in Users, m \in Mints, p \in Programs,
          a \in 1 .. U64Max : SpendAsSession(k, u, m, a, p)
    \/ \E k \in Keys, m \in Mints, a \in 1 .. U64Max : PayToll(k, m, a)
    \/ \E d \in Delegates, u \in Users, m \in Mints, a \in 1 .. U64Max :
          SpendAsDelegate(d, u, m, a)
    \/ \E u \in Users, m \in Mints, d \in PlainDelegates : OwnerApprove(u, m, d)
    \/ \E u \in Users, m \in Mints : OwnerRevoke(u, m)
    \/ \E u \in Users, m \in Mints, b \in Balances : OwnerSetBalance(u, m, b)
    \/ \E u \in Users, m \in Mints : OwnerToggleAccount(u, m)
    \/ \E d \in Domains, p \in Programs : AddProgram(d, p)
    \/ \E d \in Domains, p \in Programs : RemoveProgram(d, p)
    \/ \E k \in Keys : Donate(k)
    \/ Tick

Spec == Init /\ [][Next]_vars

-----------------------------------------------------------------------------
(***************************************************************************)
(* Properties                                                              *)
(***************************************************************************)

(* Types; the balances say that no handler pays out of an account more     *)
(* than it holds (initialize_account, reallocate_and_refund_rent, spends). *)
TypeOK ==
    /\ now \in 0 .. MaxTime
    /\ session \in [Keys -> Session \union {None}]
    /\ lamports \in [Keys -> Nat]
    /\ wallet \in [Sponsors -> Nat]
    /\ donated \in 0 .. MaxDonation
    /\ ata \in [Users -> [Mints -> TokenAccount]]
    /\ registry \in [Domains -> SUBSET Programs]
    /\ origin \in [Keys -> Intents \union {None}]
    /\ used \in [Intents -> [Mints -> Nat]]
    /\ listed \in [Domains -> SUBSET Programs]

(* No delegation outlives its session (the comment on                      *)
(* convert_remaining_accounts_and_mints_to_revoke_to_pending_revocations): *)
(* a session key that is a token account's delegate still has its session  *)
(* account, so it can never spend as an ordinary delegate; and if the      *)
(* account can be closed, it still knows the user and the mint, or         *)
(* close_session would miss the delegation.                                *)
NoOrphanDelegation ==
    \A u \in Users, m \in Mints :
        ata[u][m].delegate \in Keys =>
            LET s == session[ata[u][m].delegate]
            IN  /\ s # None
                /\ Closable(s) => s.user = u /\ m \in s.mints

(* What a key has spent of a mint under a message plus what it is still    *)
(* approved for never exceeds the largest limit the wallet signed: not     *)
(* through a second submission of the message, a duplicate entry, a symbol *)
(* shared by two mints, or a revocation followed by a restart.             *)
DelegationWithinGrant ==
    \A u \in Users, m \in Mints :
        LET k == ata[u][m].delegate
        IN  k \in Keys /\ now <= origin[k].expires =>
                /\ u = origin[k].user
                /\ WithinAllowance(origin[k], m,
                                   used[origin[k]][m] + ata[u][m].delegated)

(* The grants that are over: expired, or started and revoked. *)
EndedGrants ==
    {i \in Intents : \/ i.expires < now
                     \/ /\ origin[i.key] = i
                        /\ session[i.key] # None
                        /\ session[i.key].status = "revoked"}

Grants == INSTANCE Grant WITH clock <- now, ended <- EndedGrants

(* The programs implement the wallet's view of a grant (module Grant): a   *)
(* message is spent once however often it is submitted, on its chain, up   *)
(* to its expiration, through programs its domain listed, and never after  *)
(* revoke_session - although the revoked account keeps existing, can be    *)
(* closed by anyone later, and the same message can be submitted again.    *)
ImplementsGrant == Grants!GSpec

(* Closing a session takes away delegations of its own key only: not those *)
(* of another session of the same user, nor of an ordinary delegate.       *)
CloseKeepsOthers ==
    [][\A k \in Keys, u \in Users, m \in Mints :
          session[k] # None /\ session'[k] = None =>
              \/ ata'[u][m] = ata[u][m]
              \/ ata[u][m].delegate = k]_vars

(* Spending under a message debits the wallet that signed it by exactly    *)
(* the amount spent, and no other wallet (check_user).                     *)
SpendDebitsSigner ==
    [][\A i \in Intents, m \in Mints :
          used'[i][m] # used[i][m] =>
              /\ ata[i.user][m].amount - ata'[i.user][m].amount
                    = used'[i][m] - used[i][m]
              /\ \A u \in Users \ {i.user} : ata'[u] = ata[u]]_vars

SumOver(f, S) == MapThenSumSet(LAMBDA x : f[x], S)

(* The session accounts that a sponsor paid for. *)
PaidBy(s) == {k \in Keys : session[k] # None /\ session[k].sponsor = s}

(* The rent of a session account that no instruction closes: limited V1     *)
(* and V2 sessions, and V2 sessions once they are revoked.                  *)
RentOf(s) == IF s.status = "active" THEN ActiveRent ELSE RevokedRent

StrandedRent(s) ==
    SumOver([k \in Keys |-> RentOf(session[k])],
            {k \in PaidBy(s) : ~ Closable(session[k])})

(* What a sponsor has in its wallet, and gets back from the accounts that  *)
(* can be closed, is what it started with, except for the rent of the      *)
(* sessions of the old versions that cannot be closed: one rent for each,  *)
(* the smaller one if it was revoked.  It loses nothing else, after every  *)
(* sequence of start, revoke (twice even), close, restart and lamports     *)
(* sent by others.                                                         *)
SponsorMadeWhole ==
    \A s \in Sponsors :
        wallet[s] + SumOver(lamports, {k \in PaidBy(s) : Closable(session[k])})
            >= InitialWallet - StrandedRent(s)

(* The handlers that write lamports by hand (reallocate_and_refund_rent,   *)
(* close) neither create nor destroy any.                                  *)
LamportsConserved ==
    SumOver(wallet, Sponsors) + SumOver(lamports, Keys)
        = Cardinality(Sponsors) * InitialWallet + donated
=============================================================================
