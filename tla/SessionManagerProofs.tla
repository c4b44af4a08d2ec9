------------------------ MODULE SessionManagerProofs ------------------------
(***************************************************************************)
(* Proofs about SessionManager for any number of wallets, keys, mints,     *)
(* programs, sponsors and signed messages.                                 *)
(*                                                                         *)
(* NoOrphanDelegation and DelegationWithinGrant are not inductive alone:   *)
(* they need to know that a session account still agrees with the message  *)
(* it was started by, and that a message under which something was spent   *)
(* either still has its account or has expired - which is why a second     *)
(* submission of it gives nothing.  From that invariant follow the         *)
(* refinement of Grant and the action properties; the rent of the sponsors *)
(* needs the types only, and facts about sums.                             *)
(***************************************************************************)
EXTENDS SessionManager, FiniteSetTheorems, TLAPS

(* An account agrees with the message it was started by. *)
AccountOK(k) ==
    session[k] # None =>
        /\ origin[k] \in Intents
        /\ origin[k].key = k
        /\ origin[k].chain = ChainId
        /\ session[k].expiration = origin[k].expires
        /\ session[k].status = "active" =>
              /\ session[k].user = origin[k].user
              /\ session[k].unlimited = origin[k].unlimited
              /\ session[k].programs \subseteq listed[origin[k].domain]

AccountMatchesOrigin == \A k \in Keys : AccountOK(k)

(* What is known of a delegation to a session key. *)
DelegationOK(u, m) ==
    LET k == ata[u][m].delegate
    IN  k \in Keys =>
            /\ ata[u][m].exists
            /\ session[k] # None
            /\ Closable(session[k]) => session[k].user = u /\ m \in session[k].mints
            /\ u = origin[k].user
            /\ now <= origin[k].expires =>
                  WithinAllowance(origin[k], m,
                                  used[origin[k]][m] + ata[u][m].delegated)

DelegationsOK == \A u \in Users, m \in Mints : DelegationOK(u, m)

(* A message that was spent from has its account still, or has expired. *)
SpentOnce ==
    \A i \in Intents, m \in Mints :
        used[i][m] # 0 => \/ i.expires < now
                          \/ session[i.key] # None /\ origin[i.key] = i

RegistryListed == \A d \in Domains : registry[d] \subseteq listed[d]

IndInv == /\ TypeOK
          /\ AccountMatchesOrigin
          /\ DelegationsOK
          /\ SpentOnce
          /\ RegistryListed

-----------------------------------------------------------------------------
(* An amount that converts is a natural number. *)
LEMMA AmountType ==
    ASSUME NEW i \in Intents, NEW n \in DOMAIN i.limits,
           NEW m \in Mints, AmountConverts(i.limits[n].ui, m)
    PROVE  IntoAmountInternal(i.limits[n].ui, m) \in Nat
<1>1. i.limits[n] \in TokenLimit
  BY IntentsAssumption DEF Message
<1>2. i.limits[n].ui.mantissa \in Nat /\ i.limits[n].ui.scale \in Nat
  BY <1>1 DEF TokenLimit, UiTokenAmount
<1>3. Decimals[m] - i.limits[n].ui.scale \in 0 .. MaxDecimals
  BY <1>2, TokensAssumption DEF AmountConverts
<1>4. 10^(Decimals[m] - i.limits[n].ui.scale) \in Nat
  BY <1>3, TokensAssumption
<1> DEFINE p == 10^(Decimals[m] - i.limits[n].ui.scale)
<1>5. p \in Nat
  BY <1>4
<1> HIDE DEF p
<1>6. i.limits[n].ui.mantissa * p \in Nat
  BY <1>2, <1>5
<1> QED  BY <1>6 DEF IntoAmountInternal, p

(* A smaller amount is within the allowance too. *)
LEMMA AllowanceMonotone ==
    ASSUME NEW i \in Intents, NEW m \in Mints, NEW x \in Nat, NEW y \in Nat,
           y <= x, WithinAllowance(i, m, x)
    PROVE  WithinAllowance(i, m, y)
<1>1. CASE i.unlimited
  BY <1>1 DEF WithinAllowance
<1>2. CASE x = 0
  <2>1. y = 0
    BY <1>2
  <2> QED  BY <2>1 DEF WithinAllowance
<1>3. CASE \E n \in DOMAIN i.limits :
              /\ m \in Denotes[i.limits[n].token]
              /\ AmountConverts(i.limits[n].ui, m)
              /\ x <= IntoAmountInternal(i.limits[n].ui, m)
  <2>1. PICK n \in DOMAIN i.limits :
              /\ m \in Denotes[i.limits[n].token]
              /\ AmountConverts(i.limits[n].ui, m)
              /\ x <= IntoAmountInternal(i.limits[n].ui, m)
    BY <1>3
  <2>2. IntoAmountInternal(i.limits[n].ui, m) \in Nat
    BY <2>1, AmountType
  <2>3. y <= IntoAmountInternal(i.limits[n].ui, m)
    BY <2>1, <2>2
  <2> QED  BY <2>1, <2>3 DEF WithinAllowance
<1> QED  BY <1>1, <1>2, <1>3 DEF WithinAllowance

-----------------------------------------------------------------------------
(* A new session account is well formed. *)
LEMMA NewSessionType ==
    ASSUME TypeOK, NEW i \in Intents, NEW sp \in Sponsors, i.minor \in 1 .. 4,
           NEW mintOf \in [DOMAIN i.limits -> Mints]
    PROVE  NewSession(i, sp, mintOf) \in Session
<1>1. i \in Message
  BY IntentsAssumption
<1>2. /\ i.user \in Users
      /\ i.domain \in Domains
      /\ i.expires \in Int
      /\ i.unlimited \in BOOLEAN
  BY <1>1 DEF Message
<1>3. registry[i.domain] \in SUBSET Programs
  BY <1>2 DEF TypeOK
<1>4. {mintOf[n] : n \in DOMAIN i.limits} \in SUBSET Mints
  OBVIOUS
<1> QED  BY <1>2, <1>3, <1>4 DEF NewSession, Session

(* Approving the tokens of a message keeps token accounts well formed. *)
LEMMA ApproveTokensType ==
    ASSUME TypeOK, NEW i \in Intents, NEW mintOf \in [DOMAIN i.limits -> Mints],
           PendingApprovals(i, mintOf), NEW last \in LastEntries(i, mintOf)
    PROVE  ApproveTokens(i, last) \in [Users -> [Mints -> TokenAccount]]
<1>1. i.user \in Users /\ i.key \in Keys
  BY IntentsAssumption DEF Message
<1>2. SUFFICES ASSUME NEW m \in Mints, last[m] # 0
               PROVE  [ata[i.user][m] EXCEPT
                          !.delegate = i.key,
                          !.delegated = IntoAmountInternal(i.limits[last[m]].ui, m)]
                      \in TokenAccount
  BY <1>1 DEF ApproveTokens, TypeOK
<1>3. last[m] \in DOMAIN i.limits /\ mintOf[last[m]] = m
  BY <1>2 DEF LastEntries
<1>4. IntoAmountInternal(i.limits[last[m]].ui, m) \in Nat
  BY <1>3, AmountType DEF PendingApprovals
<1>5. ata[i.user][m] \in TokenAccount
  BY <1>1 DEF TypeOK
<1> QED  BY <1>1, <1>4, <1>5 DEF TokenAccount, Delegates

(* Changing one token account. *)
LEMMA UpdateAta ==
    ASSUME TypeOK, NEW u \in Users, NEW m \in Mints, NEW acc \in TokenAccount
    PROVE  [ata EXCEPT ![u][m] = acc] \in [Users -> [Mints -> TokenAccount]]
  BY DEF TypeOK

(* A debited token account is well formed. *)
LEMMA DebitDelegatedType ==
    ASSUME NEW acc \in TokenAccount, NEW a \in 1 .. U64Max,
           a <= acc.amount, a <= acc.delegated
    PROVE  DebitDelegated(acc, a) \in TokenAccount
<1>1. a \in Nat /\ acc.amount \in Nat /\ acc.delegated \in Nat
  BY TokensAssumption DEF TokenAccount
<1>2. acc.amount - a \in Nat /\ acc.delegated - a \in Nat
  BY <1>1
<1>3. (IF acc.delegated = a THEN None ELSE acc.delegate) \in Delegates \union {None}
  BY DEF TokenAccount
<1> QED  BY <1>2, <1>3 DEF DebitDelegated, TokenAccount

(* A spend keeps the token accounts and the spending history well formed. *)
LEMMA SpendType ==
    ASSUME TypeOK, AccountMatchesOrigin,
           NEW k \in Keys, NEW u \in Users, NEW m \in Mints, NEW p \in Programs,
           NEW a \in 1 .. U64Max, SpendAsSession(k, u, m, a, p)
    PROVE  TypeOK'
<1>1. origin[k] \in Intents
  BY DEF AccountMatchesOrigin, AccountOK, SpendAsSession
<1>2. ata[u][m] \in TokenAccount /\ a \in Nat /\ ata[u][m].amount \in Nat
  BY TokensAssumption DEF TypeOK, TokenAccount
<1>3. used' \in [Intents -> [Mints -> Nat]]
  BY <1>1, <1>2 DEF TypeOK, SpendAsSession, CountSpend
<1>4. ata' \in [Users -> [Mints -> TokenAccount]]
  <2>1. CASE session[k].unlimited
    <3>1. [ata[u][m] EXCEPT !.amount = @ - a] \in TokenAccount
      BY <1>2 DEF TokenAccount, SpendAsSession
    <3>2. ata' = [ata EXCEPT ![u][m] = [ata[u][m] EXCEPT !.amount = @ - a]]
      BY <2>1 DEF SpendAsSession
    <3> QED  BY <3>1, <3>2, UpdateAta
  <2>2. CASE ~ session[k].unlimited
    <3>1. DebitDelegated(ata[u][m], a) \in TokenAccount
      BY <1>2, <2>2, DebitDelegatedType DEF SpendAsSession
    <3>2. ata' = [ata EXCEPT ![u][m] = DebitDelegated(ata[u][m], a)]
      BY <2>2 DEF SpendAsSession
    <3> QED  BY <3>1, <3>2, UpdateAta
  <2> QED  BY <2>1, <2>2
<1> QED  BY <1>3, <1>4 DEF SpendAsSession, TypeOK, accounts

(* Every step keeps the types; that an account has an origin is needed to *)
(* know that a spend is counted under a message.                          *)
LEMMA TypeStep == TypeOK /\ AccountMatchesOrigin /\ [Next]_vars => TypeOK'
<1> SUFFICES ASSUME TypeOK, AccountMatchesOrigin, [Next]_vars
             PROVE  TypeOK'
  OBVIOUS
<1> USE ConstantsAssumption, TokensAssumption
<1>1. ASSUME NEW i \in Intents, NEW sp \in Sponsors,
             NEW mintOf \in [DOMAIN i.limits -> Mints],
             StartSession(i, sp, mintOf)
      PROVE  TypeOK'
  <2>1. i.key \in Keys
    BY IntentsAssumption DEF Message
  <2>2. NewSession(i, sp, mintOf) \in Session
    BY <1>1, NewSessionType DEF StartSession
  <2>3. session' \in [Keys -> Session \union {None}]
    BY <1>1, <2>1, <2>2 DEF StartSession, InitializeAccount, TypeOK
  <2>4. TopUp(i.key) \in Nat /\ wallet[sp] \in Nat
    BY <2>1 DEF TopUp, TypeOK
  <2>5. lamports' \in [Keys -> Nat] /\ wallet' \in [Sponsors -> Nat]
    BY <1>1, <2>1, <2>4 DEF StartSession, InitializeAccount, TypeOK
  <2>6. ata' \in [Users -> [Mints -> TokenAccount]]
    BY <1>1, ApproveTokensType DEF StartSession
  <2>7. origin' \in [Keys -> Intents \union {None}]
    BY <1>1, <2>1 DEF StartSession, TypeOK
  <2> QED  BY <1>1, <2>3, <2>5, <2>6, <2>7 DEF StartSession, TypeOK
<1>2. ASSUME NEW k \in Keys, RevokeSession(k)
      PROVE  TypeOK'
  <2>1. session[k] \in Session
    BY <1>2 DEF RevokeSession, TypeOK
  <2>2. RevokedSession(session[k]) \in Session
    BY <2>1 DEF RevokedSession, Session
  <2>3. session' \in [Keys -> Session \union {None}]
    BY <1>2, <2>1, <2>2 DEF RevokeSession, TypeOK
  <2>4. session[k].sponsor \in Sponsors
    BY <2>1 DEF Session
  <2>5. lamports' \in [Keys -> Nat] /\ wallet' \in [Sponsors -> Nat]
    <3>1. lamports \in [Keys -> Nat] /\ wallet \in [Sponsors -> Nat]
      BY DEF TypeOK
    <3>2. CASE RevokedRent < lamports[k]
      <4>1. lamports[k] - RevokedRent \in Nat
        BY <3>1, <3>2
      <4> QED  BY <1>2, <2>4, <3>1, <3>2, <4>1
               DEF RevokeSession, ReallocateAndRefundRent
    <3>3. CASE ~ RevokedRent < lamports[k]
      BY <1>2, <3>1, <3>3 DEF RevokeSession, ReallocateAndRefundRent
    <3> QED  BY <3>2, <3>3
  <2> QED  BY <1>2, <2>3, <2>5 DEF RevokeSession, TypeOK, history
<1>3. ASSUME NEW k \in Keys, CloseSession(k)
      PROVE  TypeOK'
  <2>1. session[k].sponsor \in Sponsors
    BY <1>3 DEF CloseSession, TypeOK, Session
  <2>2. RevokeTokens(k) \in [Users -> [Mints -> TokenAccount]]
    <3>1. SUFFICES ASSUME NEW u \in Users, NEW m \in Mints
                   PROVE  [ata[u][m] EXCEPT !.delegate = None, !.delegated = 0]
                             \in TokenAccount
      BY DEF RevokeTokens, TypeOK
    <3>2. ata[u][m] \in TokenAccount
      BY DEF TypeOK
    <3> QED  BY <3>2 DEF TokenAccount
  <2>3. /\ session' \in [Keys -> Session \union {None}]
        /\ lamports' \in [Keys -> Nat]
        /\ wallet' \in [Sponsors -> Nat]
    BY <1>3, <2>1 DEF CloseSession, TypeOK
  <2> QED  BY <1>3, <2>2, <2>3 DEF CloseSession, TypeOK, history
<1>4. ASSUME NEW k \in Keys, NEW u \in Users, NEW m \in Mints, NEW p \in Programs,
             NEW a \in 1 .. U64Max, SpendAsSession(k, u, m, a, p)
      PROVE  TypeOK'
  BY <1>4, SpendType
<1>5. ASSUME NEW k \in Keys, NEW m \in Mints, NEW a \in 1 .. U64Max,
             PayToll(k, m, a)
      PROVE  TypeOK'
  <2>1. origin[k].user \in Users /\ session[k].user = origin[k].user
    BY <1>5, IntentsAssumption
       DEF PayToll, UserChecked, CheckIsLiveAndUnrevoked, CheckIsUnrevoked,
           AccountMatchesOrigin, AccountOK, Message
  <2> QED  BY <1>5, <2>1, SpendType DEF PayToll
<1>6. ASSUME NEW d \in Delegates, NEW u \in Users, NEW m \in Mints,
             NEW a \in 1 .. U64Max, SpendAsDelegate(d, u, m, a)
      PROVE  TypeOK'
  <2>1. ata[u][m] \in TokenAccount
    BY DEF TypeOK
  <2>2. DebitDelegated(ata[u][m], a) \in TokenAccount
    BY <1>6, <2>1, DebitDelegatedType DEF SpendAsDelegate
  <2>3. ata' \in [Users -> [Mints -> TokenAccount]]
    BY <1>6, <2>2 DEF SpendAsDelegate, TypeOK
  <2> QED  BY <1>6, <2>3 DEF SpendAsDelegate, TypeOK, accounts, history
<1>7. ASSUME NEW u \in Users, NEW m \in Mints, NEW d \in PlainDelegates,
             OwnerApprove(u, m, d)
      PROVE  TypeOK'
  <2>0. ata[u][m] \in TokenAccount
    BY DEF TypeOK
  <2>1. [ata[u][m] EXCEPT !.delegate = d, !.delegated = 1] \in TokenAccount
    BY <2>0 DEF TokenAccount, Delegates
  <2>2. ata' \in [Users -> [Mints -> TokenAccount]]
    BY <1>7, <2>1, UpdateAta DEF OwnerApprove
  <2> QED  BY <1>7, <2>2 DEF OwnerApprove, TypeOK, accounts, history
<1>8. ASSUME NEW u \in Users, NEW m \in Mints, OwnerRevoke(u, m)
      PROVE  TypeOK'
  <2>0. ata[u][m] \in TokenAccount
    BY DEF TypeOK
  <2>1. [ata[u][m] EXCEPT !.delegate = None, !.delegated = 0] \in TokenAccount
    BY <2>0 DEF TokenAccount
  <2>2. ata' \in [Users -> [Mints -> TokenAccount]]
    BY <1>8, <2>1, UpdateAta DEF OwnerRevoke
  <2> QED  BY <1>8, <2>2 DEF OwnerRevoke, TypeOK, accounts, history
<1>9. ASSUME NEW u \in Users, NEW m \in Mints, NEW b \in Balances,
             OwnerSetBalance(u, m, b)
      PROVE  TypeOK'
  <2>0. ata[u][m] \in TokenAccount
    BY DEF TypeOK
  <2>1. [ata[u][m] EXCEPT !.amount = b] \in TokenAccount
    BY <2>0 DEF TokenAccount
  <2>2. ata' \in [Users -> [Mints -> TokenAccount]]
    BY <1>9, <2>1, UpdateAta DEF OwnerSetBalance
  <2> QED  BY <1>9, <2>2 DEF OwnerSetBalance, TypeOK, accounts, history
<1>10. ASSUME NEW u \in Users, NEW m \in Mints, OwnerToggleAccount(u, m)
       PROVE  TypeOK'
  <2>1. ata[u][m].exists \in BOOLEAN
    BY DEF TypeOK, TokenAccount
  <2>2. [exists |-> ~ ata[u][m].exists, amount |-> 0,
         delegate |-> None, delegated |-> 0] \in TokenAccount
    BY <2>1 DEF TokenAccount
  <2>3. ata' \in [Users -> [Mints -> TokenAccount]]
    BY <1>10, <2>2 DEF OwnerToggleAccount, TypeOK
  <2> QED  BY <1>10, <2>3 DEF OwnerToggleAccount, TypeOK, accounts, history
<1>11. ASSUME NEW d \in Domains, NEW p \in Programs, AddProgram(d, p)
       PROVE  TypeOK'
  BY <1>11 DEF AddProgram, TypeOK, accounts
<1>12. ASSUME NEW d \in Domains, NEW p \in Programs, RemoveProgram(d, p)
       PROVE  TypeOK'
  BY <1>12 DEF RemoveProgram, TypeOK, accounts, history
<1>13. ASSUME NEW k \in Keys, Donate(k)
       PROVE  TypeOK'
  BY <1>13 DEF Donate, TypeOK, history
<1>14. CASE Tick
  BY <1>14 DEF Tick, TypeOK, accounts, history
<1>15. CASE UNCHANGED vars
  BY <1>15 DEF vars, TypeOK, accounts, history
<1> QED
  BY <1>1, <1>2, <1>3, <1>4, <1>5, <1>6, <1>7, <1>8, <1>9, <1>10, <1>11,
     <1>12, <1>13, <1>14, <1>15 DEF Next

-----------------------------------------------------------------------------
(* Only four operations touch a session account, its origin or the list of *)
(* programs a domain has had.                                              *)
LEMMA SessionFrame ==
    [Next]_vars =>
        \/ \E i \in Intents, sp \in Sponsors :
              \E mintOf \in [DOMAIN i.limits -> Mints] :
                  StartSession(i, sp, mintOf)
        \/ \E k \in Keys : RevokeSession(k)
        \/ \E k \in Keys : CloseSession(k)
        \/ \E d \in Domains, p \in Programs : AddProgram(d, p)
        \/ UNCHANGED << session, origin, listed >>
<1>1. ASSUME NEW k, NEW u, NEW m, NEW a, NEW p, SpendAsSession(k, u, m, a, p)
      PROVE  UNCHANGED << session, origin, listed >>
  BY <1>1 DEF SpendAsSession, accounts
<1>2. ASSUME NEW k, NEW m, NEW a, PayToll(k, m, a)
      PROVE  UNCHANGED << session, origin, listed >>
  BY <1>1, <1>2 DEF PayToll
<1>3. ASSUME NEW d, NEW u, NEW m, NEW a, SpendAsDelegate(d, u, m, a)
      PROVE  UNCHANGED << session, origin, listed >>
  BY <1>3 DEF SpendAsDelegate, accounts, history
<1>4. ASSUME NEW u, NEW m, NEW x,
             \/ OwnerApprove(u, m, x)
             \/ OwnerRevoke(u, m)
             \/ OwnerSetBalance(u, m, x)
             \/ OwnerToggleAccount(u, m)
      PROVE  UNCHANGED << session, origin, listed >>
  BY <1>4 DEF OwnerApprove, OwnerRevoke, OwnerSetBalance, OwnerToggleAccount,
              accounts, history
<1>5. ASSUME NEW d, NEW p, NEW k, RemoveProgram(d, p) \/ Donate(k) \/ Tick
      PROVE  UNCHANGED << session, origin, listed >>
  BY <1>5 DEF RemoveProgram, Donate, Tick, accounts, history
<1>6. CASE UNCHANGED vars
  BY <1>6 DEF vars, accounts, history
<1> QED  BY <1>1, <1>2, <1>3, <1>4, <1>5, <1>6 DEF Next

(* What revoke_session leaves of an account. *)
LEMMA RevokedKeeps ==
    ASSUME NEW s \in Session
    PROVE  /\ RevokedSession(s) \in Session
           /\ RevokedSession(s) # None
           /\ RevokedSession(s).status = "revoked"
           /\ RevokedSession(s).expiration = s.expiration
           /\ RevokedSession(s).minor = s.minor
           /\ s.minor # 2 => /\ RevokedSession(s).user = s.user
                             /\ RevokedSession(s).mints = s.mints
<1>1. RevokedSession(s) \in Session
  BY DEF RevokedSession, Session
<1>2. RevokedSession(s) # None
  BY <1>1, NoneAssumption
<1> QED  BY <1>1, <1>2 DEF RevokedSession, Session

(* The fields of a session account stay those of the message it was        *)
(* started by.                                                             *)
LEMMA OriginStep ==
    TypeOK /\ AccountMatchesOrigin /\ RegistryListed /\ [Next]_vars
        => AccountMatchesOrigin'
<1> SUFFICES ASSUME TypeOK, AccountMatchesOrigin, RegistryListed, [Next]_vars,
                    NEW j \in Keys
             PROVE  AccountOK(j)'
  BY DEF AccountMatchesOrigin
<1>1. ASSUME NEW i \in Intents, NEW sp \in Sponsors,
             NEW mintOf \in [DOMAIN i.limits -> Mints],
             StartSession(i, sp, mintOf)
      PROVE  AccountOK(j)'
  <2>1. i.key \in Keys /\ i.domain \in Domains
    BY IntentsAssumption DEF Message
  <2>2. CASE j = i.key
    <3>1. session'[j] = NewSession(i, sp, mintOf) /\ origin'[j] = i
      BY <1>1, <2>1, <2>2 DEF StartSession, InitializeAccount, TypeOK
    <3>2. registry[i.domain] \subseteq listed[i.domain] /\ listed' = listed
      BY <1>1, <2>1 DEF RegistryListed, StartSession
    <3>3. i.chain = ChainId
      BY <1>1 DEF StartSession
    <3> QED  BY <2>1, <2>2, <3>1, <3>2, <3>3 DEF NewSession, AccountOK
  <2>3. CASE j # i.key
    <3>1. /\ session'[j] = session[j]
          /\ origin'[j] = origin[j]
          /\ listed' = listed
      BY <1>1, <2>1, <2>3 DEF StartSession, InitializeAccount, TypeOK
    <3> QED  BY <3>1 DEF AccountMatchesOrigin, AccountOK
  <2> QED  BY <2>2, <2>3
<1>2. ASSUME NEW k \in Keys, RevokeSession(k)
      PROVE  AccountOK(j)'
  <2>1. /\ origin' = origin
        /\ listed' = listed
        /\ \/ session'[j] = session[j]
           \/ session[j] # None /\ session'[j] = RevokedSession(session[j])
    BY <1>2 DEF RevokeSession, TypeOK, history
  <2>2. session[j] # None => session[j] \in Session
    BY DEF TypeOK
  <2>3. \/ session'[j] = session[j]
        \/ /\ session[j] # None
           /\ session'[j].expiration = session[j].expiration
           /\ session'[j].status # "active"
    BY <2>1, <2>2, RevokedKeeps
  <2> QED  BY <2>1, <2>3 DEF AccountMatchesOrigin, AccountOK
<1>3. ASSUME NEW k \in Keys, CloseSession(k)
      PROVE  AccountOK(j)'
  <2>1. /\ origin' = origin
        /\ listed' = listed
        /\ session'[j] = session[j] \/ session'[j] = None
    BY <1>3 DEF CloseSession, TypeOK, history
  <2> QED  BY <2>1 DEF AccountMatchesOrigin, AccountOK
<1>4. ASSUME NEW d \in Domains, NEW p \in Programs, AddProgram(d, p)
      PROVE  AccountOK(j)'
  <2> SUFFICES ASSUME session[j] # None
               PROVE  AccountOK(j)'
    BY <1>4 DEF AccountOK, AddProgram, accounts
  <2>1. origin' = origin /\ session' = session
    BY <1>4 DEF AddProgram, accounts
  <2>2. origin[j] \in Intents /\ origin[j].domain \in Domains
    BY <2>1, IntentsAssumption DEF AccountMatchesOrigin, AccountOK, Message
  <2>3. listed[origin[j].domain] \subseteq listed'[origin[j].domain]
    BY <1>4, <2>2 DEF AddProgram, TypeOK
  <2> QED  BY <2>1, <2>3 DEF AccountMatchesOrigin, AccountOK
<1>5. CASE UNCHANGED << session, origin, listed >>
  BY <1>5 DEF AccountMatchesOrigin, AccountOK
<1> QED  BY <1>1, <1>2, <1>3, <1>4, <1>5, SessionFrame

-----------------------------------------------------------------------------
(* A spend by the session at k is a spend under its origin, from the       *)
(* wallet that signed it.                                                  *)
LEMMA SpendUnderOrigin ==
    ASSUME TypeOK, AccountMatchesOrigin,
           NEW k \in Keys, NEW u \in Users, NEW m \in Mints, NEW p \in Programs,
           NEW a \in 1 .. U64Max, SpendAsSession(k, u, m, a, p)
    PROVE  /\ session[k] # None
           /\ origin[k] \in Intents
           /\ origin[k].key = k
           /\ origin[k].chain = ChainId
           /\ origin[k].user = u
           /\ origin[k].unlimited = session[k].unlimited
           /\ now <= origin[k].expires
           /\ session[k].status = "active"
           /\ p \in listed[origin[k].domain]
           /\ used' = [used EXCEPT ![origin[k]][m] = @ + a]
           /\ UNCHANGED << now, session, origin, listed >>
  BY DEF AccountMatchesOrigin, AccountOK, SpendAsSession, CountSpend, accounts,
         TokenPermissionsChecked, CheckIsLiveAndUnrevoked, CheckIsUnrevoked,
         IsLive, CheckAuthorizedProgram

(* pay_toll is such a spend. *)
LEMMA PayTollSpends ==
    ASSUME TypeOK, AccountMatchesOrigin,
           NEW k \in Keys, NEW m \in Mints, NEW a \in 1 .. U64Max,
           PayToll(k, m, a)
    PROVE  \E u \in Users, p \in Programs : SpendAsSession(k, u, m, a, p)
<1>1. origin[k].user \in Users /\ session[k].user = origin[k].user
  BY IntentsAssumption
     DEF PayToll, UserChecked, CheckIsLiveAndUnrevoked, CheckIsUnrevoked,
         AccountMatchesOrigin, AccountOK, Message
<1> QED  BY <1>1, ConstantsAssumption DEF PayToll

(* The remaining operations neither spend under a message nor change a     *)
(* session account.                                                        *)
LEMMA SpendFrame ==
    TypeOK /\ AccountMatchesOrigin /\ [Next]_vars =>
        \/ \E i \in Intents, sp \in Sponsors :
              \E mintOf \in [DOMAIN i.limits -> Mints] :
                  StartSession(i, sp, mintOf)
        \/ \E k \in Keys : RevokeSession(k)
        \/ \E k \in Keys : CloseSession(k)
        \/ \E k \in Keys, u \in Users, m \in Mints, p \in Programs,
              a \in 1 .. U64Max : SpendAsSession(k, u, m, a, p)
        \/ /\ UNCHANGED << session, origin, used >>
           /\ now' = now \/ now' = now + 1
<1>1. ASSUME NEW d, NEW u, NEW m, NEW a, SpendAsDelegate(d, u, m, a)
      PROVE  UNCHANGED << session, origin, used, now >>
  BY <1>1 DEF SpendAsDelegate, accounts, history
<1>2. ASSUME NEW u, NEW m, NEW x,
             \/ OwnerApprove(u, m, x)
             \/ OwnerRevoke(u, m)
             \/ OwnerSetBalance(u, m, x)
             \/ OwnerToggleAccount(u, m)
      PROVE  UNCHANGED << session, origin, used, now >>
  BY <1>2 DEF OwnerApprove, OwnerRevoke, OwnerSetBalance, OwnerToggleAccount,
              accounts, history
<1>3. ASSUME NEW d, NEW p, NEW k, AddProgram(d, p) \/ RemoveProgram(d, p) \/ Donate(k)
      PROVE  UNCHANGED << session, origin, used, now >>
  BY <1>3 DEF AddProgram, RemoveProgram, Donate, accounts, history
<1>4. CASE Tick
  BY <1>4 DEF Tick, accounts, history
<1>5. CASE UNCHANGED vars
  BY <1>5 DEF vars, accounts, history
<1> QED  BY <1>1, <1>2, <1>3, <1>4, <1>5, PayTollSpends DEF Next

(* Nothing is counted under a message before its account exists, and the   *)
(* account is not gone before the message expires.                         *)
LEMMA SpentOnceStep ==
    TypeOK /\ AccountMatchesOrigin /\ SpentOnce /\ [Next]_vars => SpentOnce'
<1> SUFFICES ASSUME TypeOK, AccountMatchesOrigin, SpentOnce, [Next]_vars,
                    NEW j \in Intents, NEW n \in Mints, used'[j][n] # 0
             PROVE  \/ j.expires < now'
                    \/ session'[j.key] # None /\ origin'[j.key] = j
  BY DEF SpentOnce
<1>0. j.key \in Keys /\ j.expires \in Int /\ now \in Int
  BY IntentsAssumption DEF Message, TypeOK
<1>1. ASSUME NEW i \in Intents, NEW sp \in Sponsors,
             NEW mintOf \in [DOMAIN i.limits -> Mints],
             StartSession(i, sp, mintOf)
      PROVE  \/ j.expires < now'
             \/ session'[j.key] # None /\ origin'[j.key] = j
  <2>1. /\ used' = used
        /\ now' = now
        /\ session[i.key] = None
        /\ session' = [session EXCEPT ![i.key] = NewSession(i, sp, mintOf)]
        /\ origin' = [origin EXCEPT ![i.key] = i]
    BY <1>1 DEF StartSession, InitializeAccount
  <2>2. CASE j.key = i.key
    BY <2>1, <2>2 DEF SpentOnce
  <2>3. CASE j.key # i.key
    BY <1>0, <2>1, <2>3 DEF SpentOnce, TypeOK
  <2> QED  BY <2>2, <2>3
<1>2. ASSUME NEW k \in Keys, RevokeSession(k)
      PROVE  \/ j.expires < now'
             \/ session'[j.key] # None /\ origin'[j.key] = j
  <2>1. used' = used /\ now' = now /\ origin' = origin
    BY <1>2 DEF RevokeSession, history
  <2>2. session[k] \in Session
    BY <1>2 DEF RevokeSession, TypeOK
  <2>3. session[j.key] # None => session'[j.key] # None
    BY <1>0, <1>2, <2>2, RevokedKeeps DEF RevokeSession, TypeOK
  <2> QED  BY <2>1, <2>3 DEF SpentOnce
<1>3. ASSUME NEW k \in Keys, CloseSession(k)
      PROVE  \/ j.expires < now'
             \/ session'[j.key] # None /\ origin'[j.key] = j
  <2>1. /\ used' = used
        /\ now' = now
        /\ origin' = origin
        /\ session' = [session EXCEPT ![k] = None]
    BY <1>3 DEF CloseSession, history
  <2>2. CASE j.key = k
    <3>1. session[k] # None /\ now > session[k].expiration
      BY <1>0, <1>3 DEF CloseSession, IsLive, TypeOK, Session
    <3>2. origin[k] = j => j.expires < now
      BY <1>0, <3>1 DEF AccountMatchesOrigin, AccountOK
    <3> QED  BY <2>1, <2>2, <3>2 DEF SpentOnce
  <2>3. CASE j.key # k
    BY <1>0, <2>1, <2>3 DEF SpentOnce, TypeOK
  <2> QED  BY <2>2, <2>3
<1>4. ASSUME NEW k \in Keys, NEW u \in Users, NEW m \in Mints, NEW p \in Programs,
             NEW a \in 1 .. U64Max, SpendAsSession(k, u, m, a, p)
      PROVE  \/ j.expires < now'
             \/ session'[j.key] # None /\ origin'[j.key] = j
  <2>1. /\ session[k] # None
        /\ origin[k] \in Intents
        /\ origin[k].key = k
        /\ used' = [used EXCEPT ![origin[k]][m] = @ + a]
        /\ UNCHANGED << now, session, origin >>
    BY <1>4, SpendUnderOrigin
  <2>2. CASE j = origin[k]
    BY <2>1, <2>2
  <2>3. CASE j # origin[k]
    <3>1. used'[j][n] = used[j][n]
      BY <2>1, <2>3 DEF TypeOK
    <3> QED  BY <2>1, <3>1 DEF SpentOnce
  <2> QED  BY <2>2, <2>3
<1>5. CASE UNCHANGED << session, origin, used >> /\ (now' = now \/ now' = now + 1)
  BY <1>0, <1>5 DEF SpentOnce
<1> QED  BY <1>1, <1>2, <1>3, <1>4, <1>5, SpendFrame

-----------------------------------------------------------------------------
(* The listing history contains the registry: add_program records what it  *)
(* lists.                                                                  *)
LEMMA RegistryStep == TypeOK /\ RegistryListed /\ [Next]_vars => RegistryListed'
<1> SUFFICES ASSUME TypeOK, RegistryListed, [Next]_vars
             PROVE  RegistryListed'
  OBVIOUS
<1>1. ASSUME NEW d \in Domains, NEW p \in Programs, AddProgram(d, p)
      PROVE  RegistryListed'
  BY <1>1 DEF AddProgram, RegistryListed, TypeOK
<1>2. ASSUME NEW d \in Domains, NEW p \in Programs, RemoveProgram(d, p)
      PROVE  RegistryListed'
  BY <1>2 DEF RemoveProgram, RegistryListed, TypeOK, history
<1>3. ASSUME NEW i, NEW sp, NEW mintOf, StartSession(i, sp, mintOf)
      PROVE  UNCHANGED << registry, listed >>
  BY <1>3 DEF StartSession
<1>4. ASSUME NEW k, RevokeSession(k) \/ CloseSession(k) \/ Donate(k) \/ Tick
      PROVE  UNCHANGED << registry, listed >>
  BY <1>4 DEF RevokeSession, CloseSession, Donate, Tick, history
<1>5. ASSUME NEW k, NEW u, NEW m, NEW a, NEW p,
             SpendAsSession(k, u, m, a, p) \/ PayToll(k, m, a)
      PROVE  UNCHANGED << registry, listed >>
  BY <1>5 DEF SpendAsSession, PayToll
<1>6. ASSUME NEW d, NEW u, NEW m, NEW x,
             \/ SpendAsDelegate(d, u, m, x)
             \/ OwnerApprove(u, m, x)
             \/ OwnerRevoke(u, m)
             \/ OwnerSetBalance(u, m, x)
             \/ OwnerToggleAccount(u, m)
      PROVE  UNCHANGED << registry, listed >>
  BY <1>6 DEF SpendAsDelegate, OwnerApprove, OwnerRevoke, OwnerSetBalance,
              OwnerToggleAccount, history
<1>7. CASE UNCHANGED vars
  BY <1>7 DEF vars, history, RegistryListed
<1>8. CASE UNCHANGED << registry, listed >>
  BY <1>8 DEF RegistryListed
<1> QED  BY <1>1, <1>2, <1>3, <1>4, <1>5, <1>6, <1>7, <1>8 DEF Next

-----------------------------------------------------------------------------
(* A delegation that a step leaves alone stays good as time passes. *)
LEMMA DelegationKept ==
    ASSUME TypeOK, NEW v \in Users, NEW n \in Mints, DelegationOK(v, n),
           ata'[v][n].exists = ata[v][n].exists,
           ata'[v][n].delegate = ata[v][n].delegate,
           ata'[v][n].delegated = ata[v][n].delegated,
           ata[v][n].delegate \in Keys =>
              /\ session'[ata[v][n].delegate] = session[ata[v][n].delegate]
              /\ origin'[ata[v][n].delegate] = origin[ata[v][n].delegate]
              /\ used'[origin[ata[v][n].delegate]][n]
                    = used[origin[ata[v][n].delegate]][n],
           ata[v][n].delegate \in Keys =>
               origin[ata[v][n].delegate].expires \in Int,
           now' = now \/ now' = now + 1
    PROVE  DelegationOK(v, n)'
<1>1. now \in Int
  BY DEF TypeOK
<1> DEFINE k == ata[v][n].delegate
<1>2. CASE k \in Keys
  <2>1. now' <= origin[k].expires => now <= origin[k].expires
    BY <1>1, <1>2
  <2> QED  BY <1>2, <2>1 DEF DelegationOK
<1>3. CASE k \notin Keys
  BY <1>3 DEF DelegationOK
<1> QED  BY <1>2, <1>3

(* A delegation made by start_session. *)
LEMMA ApprovedDelegation ==
    ASSUME TypeOK, SpentOnce, NEW i \in Intents, NEW sp \in Sponsors,
           NEW mintOf \in [DOMAIN i.limits -> Mints],
           StartSession(i, sp, mintOf), NEW last \in LastEntries(i, mintOf),
           NEW n \in Mints, last[n] # 0, ata' = ApproveTokens(i, last)
    PROVE  DelegationOK(i.user, n)'
<1>1. i.user \in Users /\ i.key \in Keys /\ i.expires \in Int /\ now \in Int
  BY IntentsAssumption DEF Message, TypeOK
<1>2. last[n] \in DOMAIN i.limits /\ mintOf[last[n]] = n
  BY DEF LastEntries
<1>3. /\ n \in Denotes[i.limits[last[n]].token]
      /\ AmountConverts(i.limits[last[n]].ui, n)
      /\ ata[i.user][n].exists
  BY <1>2 DEF StartSession, PendingApprovals
<1> DEFINE amount == IntoAmountInternal(i.limits[last[n]].ui, n)
<1>4. amount \in Nat
  BY <1>2, <1>3, AmountType
<1>5. ata[i.user][n] \in TokenAccount
  BY <1>1 DEF TypeOK
<1>6. /\ ata'[i.user][n].exists
      /\ ata'[i.user][n].delegate = i.key
      /\ ata'[i.user][n].delegated = amount
  BY <1>1, <1>3, <1>5 DEF ApproveTokens, TypeOK, TokenAccount
<1>7. /\ session'[i.key] = NewSession(i, sp, mintOf)
      /\ origin'[i.key] = i
      /\ session[i.key] = None
      /\ used' = used
      /\ now' = now
  BY <1>1 DEF StartSession, InitializeAccount, TypeOK
<1>8. session'[i.key] # None
  BY <1>7, NewSessionType, NoneAssumption DEF StartSession
<1>9. Closable(session'[i.key])
          => session'[i.key].user = i.user /\ n \in session'[i.key].mints
  <2>1. ~ i.unlimited
    BY <1>2, IntentsAssumption
  <2>2. i.minor < 3 => ~ Closable(NewSession(i, sp, mintOf))
    BY <2>1 DEF Closable, NewSession, StartSession
  <2>3. i.minor >= 3 => n \in NewSession(i, sp, mintOf).mints
    BY <1>2 DEF NewSession
  <2>4. i.minor < 3 \/ i.minor >= 3
    BY DEF StartSession
  <2> QED  BY <1>7, <2>2, <2>3, <2>4 DEF NewSession
<1>10. now' <= i.expires => WithinAllowance(i, n, used'[i][n] + amount)
  <2>1. SUFFICES ASSUME now <= i.expires
                 PROVE  WithinAllowance(i, n, used[i][n] + amount)
    BY <1>7
  <2>2. used[i][n] = 0
    BY <1>1, <1>7, <2>1 DEF SpentOnce
  <2>3. used[i][n] + amount = amount
    BY <1>4, <2>2
  <2>4. amount <= amount
    BY <1>4
  <2> QED  BY <1>2, <1>3, <2>3, <2>4 DEF WithinAllowance
<1> QED  BY <1>6, <1>7, <1>8, <1>9, <1>10 DEF DelegationOK

(* Every instruction keeps each delegation backed by its session account   *)
(* and by what is left of a signed limit.                                  *)
LEMMA DelegationStep ==
    TypeOK /\ AccountMatchesOrigin /\ SpentOnce /\ DelegationsOK /\ [Next]_vars
        => DelegationsOK'
<1> SUFFICES ASSUME TypeOK, AccountMatchesOrigin, SpentOnce, DelegationsOK,
                    [Next]_vars, NEW v \in Users, NEW n \in Mints
             PROVE  DelegationOK(v, n)'
  BY DEF DelegationsOK
<1> DEFINE j == ata[v][n].delegate
<1>a. DelegationOK(v, n) /\ ata[v][n] \in TokenAccount
  BY DEF DelegationsOK, TypeOK
<1>b. j \in Keys =>
          /\ session[j] # None
          /\ session[j] \in Session
          /\ origin[j] \in Intents
          /\ origin[j].key = j
          /\ origin[j].expires \in Int
  BY <1>a, IntentsAssumption
     DEF DelegationOK, AccountMatchesOrigin, AccountOK, Message, TypeOK
<1>c. None \notin Keys
  BY ConstantsAssumption DEF Delegates
<1>1. ASSUME NEW i \in Intents, NEW sp \in Sponsors,
             NEW mintOf \in [DOMAIN i.limits -> Mints],
             StartSession(i, sp, mintOf)
      PROVE  DelegationOK(v, n)'
  <2>1. PICK last \in LastEntries(i, mintOf) : ata' = ApproveTokens(i, last)
    BY <1>1 DEF StartSession
  <2>2. CASE v = i.user /\ last[n] # 0
    BY <1>1, <2>1, <2>2, ApprovedDelegation
  <2>3. CASE ~ (v = i.user /\ last[n] # 0)
    <3>1. ata'[v][n] = ata[v][n]
      BY <2>1, <2>3 DEF ApproveTokens, TypeOK
    <3>2. j \in Keys => j # i.key
      BY <1>1, <1>b DEF StartSession, InitializeAccount
    <3>3. j \in Keys => session'[j] = session[j] /\ origin'[j] = origin[j]
      BY <1>1, <3>2 DEF StartSession, InitializeAccount, TypeOK
    <3>4. used' = used /\ now' = now
      BY <1>1 DEF StartSession
    <3> QED  BY <1>a, <1>b, <3>1, <3>3, <3>4, DelegationKept
  <2> QED  BY <2>2, <2>3
<1>2. ASSUME NEW k \in Keys, RevokeSession(k)
      PROVE  DelegationOK(v, n)'
  <2>1. UNCHANGED << ata, origin, used, now >>
    BY <1>2 DEF RevokeSession, history
  <2>2. j \in Keys => \/ session'[j] = session[j]
                      \/ /\ session'[j] = RevokedSession(session[j])
                         /\ session[j].minor >= 2
    BY <1>2 DEF RevokeSession, TypeOK
  <2>3. CASE j \in Keys /\ session'[j] = RevokedSession(session[j])
                        /\ session[j].minor >= 2
    <3>1. /\ session'[j] # None
          /\ session'[j].status = "revoked"
          /\ session'[j].minor = session[j].minor
          /\ session[j].minor # 2 => /\ session'[j].user = session[j].user
                                     /\ session'[j].mints = session[j].mints
      BY <1>b, <2>3, RevokedKeeps
    <3>2. Closable(session'[j]) => session[j].minor >= 3
      BY <3>1 DEF Closable
    <3>3. Closable(session'[j]) => Closable(session[j]) /\ session[j].minor # 2
      BY <3>2 DEF Closable
    <3> QED  BY <1>a, <2>1, <2>3, <3>1, <3>3 DEF DelegationOK
  <2>4. CASE ~ (j \in Keys /\ session'[j] = RevokedSession(session[j])
                           /\ session[j].minor >= 2)
    BY <1>a, <1>b, <2>1, <2>2, <2>4, DelegationKept
  <2> QED  BY <2>3, <2>4
<1>3. ASSUME NEW k \in Keys, CloseSession(k)
      PROVE  DelegationOK(v, n)'
  <2>1. /\ UNCHANGED << origin, used, now >>
        /\ session' = [session EXCEPT ![k] = None]
        /\ Closable(session[k])
        /\ ata' = RevokeTokens(k)
    BY <1>3 DEF CloseSession, history
  <2>2. CASE j = k
    <3>1. ata[v][n].exists /\ session[k].user = v /\ n \in session[k].mints
      BY <1>a, <2>1, <2>2 DEF DelegationOK
    <3>2. ata'[v][n] = [ata[v][n] EXCEPT !.delegate = None, !.delegated = 0]
      BY <2>1, <2>2, <3>1 DEF RevokeTokens
    <3>3. ata'[v][n].delegate = None
      BY <1>a, <3>2 DEF TokenAccount
    <3> QED  BY <1>c, <3>3 DEF DelegationOK
  <2>3. CASE j # k
    <3>1. ata'[v][n] = ata[v][n]
      BY <2>1, <2>3 DEF RevokeTokens
    <3>2. j \in Keys => session'[j] = session[j]
      BY <2>1, <2>3 DEF TypeOK
    <3> QED  BY <1>a, <1>b, <2>1, <3>1, <3>2, DelegationKept
  <2> QED  BY <2>2, <2>3
<1>4. ASSUME NEW k \in Keys, NEW u \in Users, NEW m \in Mints, NEW p \in Programs,
             NEW a \in 1 .. U64Max, SpendAsSession(k, u, m, a, p)
      PROVE  DelegationOK(v, n)'
  <2>1. /\ session[k] # None
        /\ origin[k] \in Intents
        /\ origin[k].key = k
        /\ origin[k].user = u
        /\ origin[k].unlimited = session[k].unlimited
        /\ used' = [used EXCEPT ![origin[k]][m] = @ + a]
        /\ UNCHANGED << now, session, origin >>
    BY <1>4, SpendUnderOrigin
  <2>2. \/ /\ session[k].unlimited
           /\ ata' = [ata EXCEPT ![u][m].amount = @ - a]
        \/ /\ ~ session[k].unlimited
           /\ ata[u][m].delegate = k
           /\ a <= ata[u][m].delegated
           /\ ata' = [ata EXCEPT ![u][m] = DebitDelegated(@, a)]
    BY <1>4 DEF SpendAsSession
  <2>3. ata[u][m] \in TokenAccount /\ ata[v][n].delegated \in Nat /\ a \in Nat
    BY <1>a, TokensAssumption DEF TypeOK, TokenAccount
  <2>4. CASE session[k].unlimited
    <3>1. /\ ata'[v][n].exists = ata[v][n].exists
          /\ ata'[v][n].delegate = j
          /\ ata'[v][n].delegated = ata[v][n].delegated
      <4>1. ata' = [ata EXCEPT ![u][m] = [ata[u][m] EXCEPT !.amount = @ - a]]
        BY <2>2, <2>4
      <4>2. CASE v = u /\ n = m
        <5>1. ata'[v][n] = [ata[v][n] EXCEPT !.amount = @ - a]
          BY <4>1, <4>2 DEF TypeOK
        <5> QED  BY <1>a, <5>1 DEF TokenAccount
      <4>3. CASE ~ (v = u /\ n = m)
        BY <4>1, <4>3 DEF TypeOK
      <4> QED  BY <4>2, <4>3
    <3>2. CASE j = k
      <4>1. WithinAllowance(origin[k], n, used'[origin[k]][n] + ata[v][n].delegated)
        BY <2>1, <2>4 DEF WithinAllowance
      <4> QED  BY <1>a, <2>1, <3>1, <3>2, <4>1 DEF DelegationOK
    <3>3. CASE j # k
      <4>1. j \in Keys => used'[origin[j]][n] = used[origin[j]][n]
        BY <1>b, <2>1, <3>3 DEF TypeOK
      <4> QED  BY <1>a, <1>b, <2>1, <3>1, <4>1, DelegationKept
    <3> QED  BY <3>2, <3>3
  <2>5. CASE ~ session[k].unlimited /\ v = u /\ n = m
    <3>1. ata'[u][m] = DebitDelegated(ata[u][m], a)
      BY <2>2, <2>5 DEF TypeOK
    <3>2. j = k /\ a <= ata[v][n].delegated
      BY <2>2, <2>5
    <3>3. /\ ata'[v][n].exists = ata[v][n].exists
          /\ ata'[v][n].delegate = k \/ ata'[v][n].delegate = None
          /\ ata'[v][n].delegated = ata[v][n].delegated - a
      BY <2>3, <2>5, <3>1, <3>2 DEF DebitDelegated, TokenAccount
    <3>4. used[origin[k]][m] \in Nat
      BY <2>1 DEF TypeOK
    <3>5. used'[origin[k]][m] = used[origin[k]][m] + a
      BY <2>1 DEF TypeOK
    <3>6. used'[origin[k]][n] + (ata[v][n].delegated - a)
              = used[origin[k]][n] + ata[v][n].delegated
      BY <2>3, <2>5, <3>4, <3>5
    <3> QED  BY <1>a, <1>c, <2>1, <2>5, <3>2, <3>3, <3>6 DEF DelegationOK
  <2>6. CASE ~ session[k].unlimited /\ ~ (v = u /\ n = m)
    <3>1. ata'[v][n] = ata[v][n]
      BY <2>2, <2>6 DEF TypeOK
    <3>2. j = k => v = u
      BY <1>a, <2>1 DEF DelegationOK
    <3>3. j \in Keys => used'[origin[j]][n] = used[origin[j]][n]
      BY <1>b, <2>1, <2>6, <3>2 DEF TypeOK
    <3> QED  BY <1>a, <1>b, <2>1, <3>1, <3>3, DelegationKept
  <2> QED  BY <2>4, <2>5, <2>6
<1>5. ASSUME NEW d \in Delegates, NEW u \in Users, NEW m \in Mints,
             NEW a \in 1 .. U64Max, SpendAsDelegate(d, u, m, a)
      PROVE  DelegationOK(v, n)'
  <2>1. UNCHANGED << session, origin, used, now >>
    BY <1>5 DEF SpendAsDelegate, accounts, history
  <2>2. CASE v = u /\ n = m
    <3>1. j = d /\ d \notin Keys
      BY <1>5, <1>b, <2>2 DEF SpendAsDelegate
    <3>2. ata'[v][n] = DebitDelegated(ata[v][n], a)
      BY <1>5, <2>2 DEF SpendAsDelegate, TypeOK
    <3>3. ata'[v][n].delegate = d \/ ata'[v][n].delegate = None
      BY <1>a, <3>1, <3>2 DEF DebitDelegated, TokenAccount
    <3> QED  BY <1>c, <3>1, <3>3 DEF DelegationOK
  <2>3. CASE ~ (v = u /\ n = m)
    <3>1. ata'[v][n] = ata[v][n]
      BY <1>5, <2>3 DEF SpendAsDelegate, TypeOK
    <3> QED  BY <1>a, <1>b, <2>1, <3>1, DelegationKept
  <2> QED  BY <2>2, <2>3
<1>6. ASSUME NEW u \in Users, NEW m \in Mints, NEW x,
             \/ x \in PlainDelegates /\ OwnerApprove(u, m, x)
             \/ OwnerRevoke(u, m)
             \/ OwnerSetBalance(u, m, x)
             \/ OwnerToggleAccount(u, m)
      PROVE  DelegationOK(v, n)'
  <2>1. UNCHANGED << session, origin, used, now >>
    BY <1>6 DEF OwnerApprove, OwnerRevoke, OwnerSetBalance, OwnerToggleAccount,
                accounts, history
  <2>2. \/ ata'[v][n].delegate \notin Keys
        \/ /\ ata'[v][n].exists = ata[v][n].exists
           /\ ata'[v][n].delegate = j
           /\ ata'[v][n].delegated = ata[v][n].delegated
    <3>1. CASE v = u /\ n = m
      <4>1. x \in PlainDelegates => x \notin Keys
        BY ConstantsAssumption
      <4>2. \/ /\ x \in PlainDelegates
               /\ ata'[v][n] = [ata[v][n] EXCEPT !.delegate = x, !.delegated = 1]
            \/ ata'[v][n] = [ata[v][n] EXCEPT !.delegate = None, !.delegated = 0]
            \/ ata'[v][n] = [ata[v][n] EXCEPT !.amount = x]
            \/ ata'[v][n] = [exists |-> ~ ata[v][n].exists, amount |-> 0,
                             delegate |-> None, delegated |-> 0]
        <5>1. CASE x \in PlainDelegates /\ OwnerApprove(u, m, x)
          BY <3>1, <5>1 DEF OwnerApprove, TypeOK
        <5>2. CASE OwnerRevoke(u, m)
          BY <3>1, <5>2 DEF OwnerRevoke, TypeOK
        <5>3. CASE OwnerSetBalance(u, m, x)
          <6>1. ata' = [ata EXCEPT ![u][m] = [ata[u][m] EXCEPT !.amount = x]]
            BY <5>3 DEF OwnerSetBalance
          <6> QED  BY <3>1, <6>1 DEF TypeOK
        <5>4. CASE OwnerToggleAccount(u, m)
          BY <3>1, <5>4 DEF OwnerToggleAccount, TypeOK
        <5> QED  BY <1>6, <5>1, <5>2, <5>3, <5>4
      <4>3. CASE /\ x \in PlainDelegates
                 /\ ata'[v][n] = [ata[v][n] EXCEPT !.delegate = x, !.delegated = 1]
        BY <1>a, <4>1, <4>3 DEF TokenAccount
      <4>4. CASE ata'[v][n] = [ata[v][n] EXCEPT !.delegate = None, !.delegated = 0]
        BY <1>a, <1>c, <4>4 DEF TokenAccount
      <4>5. CASE ata'[v][n] = [ata[v][n] EXCEPT !.amount = x]
        BY <1>a, <4>5 DEF TokenAccount
      <4>6. CASE ata'[v][n] = [exists |-> ~ ata[v][n].exists, amount |-> 0,
                               delegate |-> None, delegated |-> 0]
        BY <1>c, <4>6
      <4> QED  BY <4>2, <4>3, <4>4, <4>5, <4>6
    <3>2. CASE ~ (v = u /\ n = m)
      BY <1>6, <3>2 DEF OwnerApprove, OwnerRevoke, OwnerSetBalance,
                        OwnerToggleAccount, TypeOK
    <3> QED  BY <3>1, <3>2
  <2>3. CASE ata'[v][n].delegate \notin Keys
    BY <2>3 DEF DelegationOK
  <2> QED  BY <1>a, <1>b, <2>1, <2>2, <2>3, DelegationKept
<1>7. ASSUME NEW d, NEW p, NEW k,
             \/ AddProgram(d, p)
             \/ RemoveProgram(d, p)
             \/ Donate(k)
             \/ Tick
      PROVE  DelegationOK(v, n)'
  <2>1. /\ UNCHANGED << session, origin, used, ata >>
        /\ now' = now \/ now' = now + 1
    BY <1>7 DEF AddProgram, RemoveProgram, Donate, Tick, accounts, history
  <2> QED  BY <1>a, <1>b, <2>1, DelegationKept
<1>8. CASE UNCHANGED vars
  <2>1. UNCHANGED << session, origin, used, ata, now >>
    BY <1>8 DEF vars, accounts, history
  <2> QED  BY <1>a, <1>b, <2>1, DelegationKept
<1> QED
  BY <1>1, <1>2, <1>3, <1>4, <1>5, <1>6, <1>7, <1>8, PayTollSpends DEF Next

-----------------------------------------------------------------------------
(* The invariant holds before the first session. *)
LEMMA InitIndInv == Init => IndInv
<1> SUFFICES ASSUME Init PROVE IndInv
  OBVIOUS
<1>1. TypeOK
  <2>1. ata \in [Users -> [Mints -> TokenAccount]]
    <3>1. [exists : {TRUE}, amount : Balances, delegate : {None}, delegated : {0}]
             \subseteq TokenAccount
      <4>1. /\ {TRUE} \subseteq BOOLEAN
            /\ Balances \subseteq Nat
            /\ {None} \subseteq Delegates \union {None}
            /\ {0} \subseteq Nat
        BY ConstantsAssumption
      <4> QED  BY <4>1, Zenon DEF TokenAccount
    <3> QED  BY <3>1 DEF Init
  <2> QED  BY <2>1, ConstantsAssumption DEF Init, TypeOK
<1>2. AccountMatchesOrigin
  BY DEF Init, AccountMatchesOrigin, AccountOK
<1>3. DelegationsOK
  <2>1. SUFFICES ASSUME NEW u \in Users, NEW m \in Mints
                 PROVE  DelegationOK(u, m)
    BY DEF DelegationsOK
  <2>2. ata[u][m].delegate = None
    BY DEF Init
  <2> QED  BY <2>2, ConstantsAssumption DEF DelegationOK, Delegates
<1>4. SpentOnce
  BY DEF Init, SpentOnce
<1>5. RegistryListed
  BY DEF Init, RegistryListed
<1> QED  BY <1>1, <1>2, <1>3, <1>4, <1>5 DEF IndInv

(* Every instruction keeps the invariant. *)
LEMMA StepIndInv == IndInv /\ [Next]_vars => IndInv'
  BY TypeStep, OriginStep, DelegationStep, SpentOnceStep, RegistryStep DEF IndInv

(* The inductive invariant: accounts agree with their messages, every      *)
(* delegation to a session key is covered by a session that can revoke it  *)
(* and by a signed limit, and what was spent stays attributed.             *)
THEOREM Invariance == Spec => []IndInv
  BY InitIndInv, StepIndInv, PTL DEF Spec

(* The state of the programs, token accounts and rent stays well formed:   *)
(* in particular no balance or delegation ever goes below zero.            *)
THEOREM TypeCorrect == Spec => []TypeOK
<1>1. IndInv => TypeOK
  BY DEF IndInv
<1> QED  BY <1>1, Invariance, PTL

(* close_session never strands a delegation, and a key whose session       *)
(* account is gone is the delegate of no token account.                    *)
THEOREM NoOrphans == Spec => []NoOrphanDelegation
<1>1. IndInv => NoOrphanDelegation
  BY DEF IndInv, DelegationsOK, DelegationOK, NoOrphanDelegation
<1> QED  BY <1>1, Invariance, PTL

(* Spent plus still approved never exceeds the limit the wallet signed,    *)
(* however often the message is submitted.                                 *)
THEOREM WithinGrant == Spec => []DelegationWithinGrant
<1>1. IndInv => DelegationWithinGrant
  BY DEF IndInv, DelegationsOK, DelegationOK, DelegationWithinGrant
<1> QED  BY <1>1, Invariance, PTL

-----------------------------------------------------------------------------
(***************************************************************************)
(* SessionManager implements Grant, and the action properties of closing   *)
(* and spending, step by step, from the inductive invariant:               *)
(*                                                                         *)
(*   start, close, owner instructions, donations  ->  stutter              *)
(*   revoke of the account at k                   ->  GRevoke(origin[k])   *)
(*   spend by the session at k                    ->  GSpend(origin[k])    *)
(*   tick                                         ->  GTick                *)
(*   add_program                                  ->  GList                *)
(*                                                                         *)
(* A close is a stutter only because it needs an expired account: the      *)
(* grant it forgets is over already.                                       *)
(***************************************************************************)
(* Both modules read a message's limits the same way. *)
LEMMA SameAllowance ==
    ASSUME NEW i, NEW m, NEW x
    PROVE  Grants!WithinAllowance(i, m, x) <=> WithinAllowance(i, m, x)
  BY Zenon DEF Grants!WithinAllowance, WithinAllowance, Grants!AmountConverts,
               AmountConverts, Grants!IntoAmountInternal, IntoAmountInternal

(* Messages whose account neither appears nor changes status stay as ended *)
(* as they were.                                                           *)
LEMMA EndedKept ==
    ASSUME UNCHANGED << session, origin, now >>
    PROVE  EndedGrants' = EndedGrants
  BY DEF EndedGrants

(* start_session revives no grant. *)
LEMMA StartKeepsEnded ==
    ASSUME IndInv, NEW i \in Intents, NEW sp \in Sponsors,
           NEW mintOf \in [DOMAIN i.limits -> Mints],
           StartSession(i, sp, mintOf)
    PROVE  EndedGrants' = EndedGrants
<1>1. /\ now' = now
      /\ session[i.key] = None
      /\ session' = [session EXCEPT ![i.key] = NewSession(i, sp, mintOf)]
      /\ origin' = [origin EXCEPT ![i.key] = i]
  BY DEF StartSession, InitializeAccount
<1>2. NewSession(i, sp, mintOf).status = "active"
  BY DEF NewSession
<1>3. SUFFICES ASSUME NEW j \in Intents
               PROVE  (/\ origin[j.key] = j
                       /\ session[j.key] # None
                       /\ session[j.key].status = "revoked")'
                      <=>
                      (/\ origin[j.key] = j
                       /\ session[j.key] # None
                       /\ session[j.key].status = "revoked")
  BY <1>1 DEF EndedGrants
<1>4. j.key \in Keys /\ i.key \in Keys
  BY IntentsAssumption DEF Message
<1>5. CASE j.key = i.key
  BY <1>1, <1>2, <1>4, <1>5 DEF IndInv, TypeOK
<1>6. CASE j.key # i.key
  BY <1>1, <1>4, <1>6 DEF IndInv, TypeOK
<1> QED  BY <1>5, <1>6

(* revoke_session ends exactly the grant its account was started by. *)
LEMMA RevokeEndsOrigin ==
    ASSUME IndInv, NEW k \in Keys, RevokeSession(k)
    PROVE  origin[k] \in Intents /\ EndedGrants' = EndedGrants \union {origin[k]}
<1>1. /\ now' = now
      /\ origin' = origin
      /\ session[k] # None
      /\ session' = [session EXCEPT ![k] = IF @.status = "active"
                                           THEN RevokedSession(@) ELSE @]
  BY DEF RevokeSession, history
<1>2. session[k] \in Session
  BY <1>1 DEF IndInv, TypeOK
<1>3. origin[k] \in Intents /\ origin[k].key = k
  BY <1>1 DEF IndInv, AccountMatchesOrigin, AccountOK
<1>4. session'[k] # None /\ session'[k].status = "revoked"
  <2>1. session[k].status \in {"active", "revoked"}
    BY <1>2 DEF Session
  <2> QED  BY <1>1, <1>2, <2>1, RevokedKeeps DEF IndInv, TypeOK
<1>5. ASSUME NEW j \in Intents
      PROVE  j \in EndedGrants' <=> j \in EndedGrants \/ j = origin[k]
  <2>1. j.key \in Keys
    BY IntentsAssumption DEF Message
  <2>2. CASE j.key = k
    BY <1>1, <1>3, <1>4, <2>2 DEF EndedGrants
  <2>3. CASE j.key # k
    <3>1. session'[j.key] = session[j.key]
      BY <1>1, <2>1, <2>3 DEF IndInv, TypeOK
    <3> QED  BY <1>1, <1>3, <2>3, <3>1 DEF EndedGrants
  <2> QED  BY <2>2, <2>3
<1>6. EndedGrants \subseteq Intents /\ EndedGrants' \subseteq Intents
  BY DEF EndedGrants
<1> QED  BY <1>3, <1>5, <1>6

(* close_session forgets only grants that have expired. *)
LEMMA CloseKeepsEnded ==
    ASSUME IndInv, NEW k \in Keys, CloseSession(k)
    PROVE  EndedGrants' = EndedGrants
<1>1. /\ now' = now
      /\ origin' = origin
      /\ session[k] # None
      /\ ~ now <= session[k].expiration
      /\ session' = [session EXCEPT ![k] = None]
  BY DEF CloseSession, IsLive, history
<1>2. session[k].expiration \in Int /\ now \in Int
  BY <1>1 DEF IndInv, TypeOK, Session
<1>3. origin[k].expires < now
  BY <1>1, <1>2 DEF IndInv, AccountMatchesOrigin, AccountOK
<1>4. SUFFICES ASSUME NEW j \in Intents
               PROVE  j \in EndedGrants' <=> j \in EndedGrants
  BY DEF EndedGrants
<1>5. j.key \in Keys
  BY IntentsAssumption DEF Message
<1>6. CASE j.key = k
  <2>1. CASE origin[k] = j
    BY <1>1, <1>3, <2>1 DEF EndedGrants
  <2>2. CASE origin[k] # j
    BY <1>1, <1>6, <2>2 DEF EndedGrants
  <2> QED  BY <2>1, <2>2
<1>7. CASE j.key # k
  <2>1. session'[j.key] = session[j.key]
    BY <1>1, <1>5, <1>7 DEF IndInv, TypeOK
  <2> QED  BY <1>1, <2>1 DEF EndedGrants
<1> QED  BY <1>6, <1>7

(* A spend is a spend of the grant the account was started by. *)
LEMMA SpendIsGSpend ==
    ASSUME IndInv, NEW k \in Keys, NEW u \in Users, NEW m \in Mints,
           NEW p \in Programs, NEW a \in 1 .. U64Max,
           SpendAsSession(k, u, m, a, p)
    PROVE  Grants!GSpend(origin[k], m, a, p)
<1> DEFINE i == origin[k]
<1>1. /\ session[k] # None
      /\ i \in Intents
      /\ i.key = k
      /\ i.chain = ChainId
      /\ i.user = u
      /\ i.unlimited = session[k].unlimited
      /\ now <= i.expires
      /\ session[k].status = "active"
      /\ p \in listed[i.domain]
      /\ used' = [used EXCEPT ![i][m] = @ + a]
      /\ UNCHANGED << now, session, origin, listed >>
  BY SpendUnderOrigin DEF IndInv
<1>2. i.expires \in Int /\ now \in Int
  BY <1>1, IntentsAssumption DEF Message, IndInv, TypeOK
<1>3. i \notin EndedGrants
  BY <1>1, <1>2 DEF EndedGrants
<1>4. WithinAllowance(i, m, used[i][m] + a)
  <2>1. CASE i.unlimited
    BY <2>1 DEF WithinAllowance
  <2>2. CASE ~ i.unlimited
    <3>1. ata[u][m].delegate = k /\ a <= ata[u][m].delegated
      BY <1>1, <2>2 DEF SpendAsSession
    <3>2. WithinAllowance(i, m, used[i][m] + ata[u][m].delegated)
      BY <1>1, <3>1 DEF IndInv, DelegationsOK, DelegationOK
    <3>3. /\ ata[u][m].delegated \in Nat
          /\ used[i][m] \in Nat
          /\ a \in Nat
      BY <1>1, TokensAssumption DEF IndInv, TypeOK, TokenAccount
    <3>4. /\ used[i][m] + a \in Nat
          /\ used[i][m] + ata[u][m].delegated \in Nat
          /\ used[i][m] + a <= used[i][m] + ata[u][m].delegated
      BY <3>1, <3>3
    <3> HIDE DEF i
    <3> QED  BY <1>1, <3>2, <3>4, AllowanceMonotone
  <2> QED  BY <2>1, <2>2
<1>5. EndedGrants' = EndedGrants
  BY <1>1, EndedKept
<1>6. Grants!WithinAllowance(i, m, used[i][m] + a)
  BY <1>4, SameAllowance
<1> QED  BY <1>1, <1>3, <1>5, <1>6 DEF Grants!GSpend

(* Nothing is spent and no session exists before the first start_session. *)
LEMMA InitGrant == Init => Grants!GInit
<1> SUFFICES ASSUME Init PROVE Grants!GInit
  OBVIOUS
<1>1. \A i \in Intents : session[i.key] = None
  BY IntentsAssumption DEF Init, Message
<1>2. EndedGrants = Grants!Expired(0)
  BY <1>1 DEF Init, EndedGrants, Grants!Expired
<1> QED  BY <1>2 DEF Init, Grants!GInit

(* Each instruction is a spend, a revocation, a tick or a listing of the   *)
(* grant, or invisible to it.                                              *)
LEMMA StepGrant == IndInv /\ [Next]_vars => [Grants!GNext]_(Grants!gvars)
<1> SUFFICES ASSUME IndInv, [Next]_vars
             PROVE  Grants!GNext \/ UNCHANGED << now, used, EndedGrants, listed >>
  BY DEF Grants!gvars
<1>1. ASSUME NEW i \in Intents, NEW sp \in Sponsors,
             NEW mintOf \in [DOMAIN i.limits -> Mints],
             StartSession(i, sp, mintOf)
      PROVE  UNCHANGED << now, used, EndedGrants, listed >>
  <2>1. UNCHANGED << now, used, listed >>
    BY <1>1 DEF StartSession
  <2> QED  BY <1>1, <2>1, StartKeepsEnded
<1>2. ASSUME NEW k \in Keys, RevokeSession(k)
      PROVE  Grants!GNext
  <2>1. UNCHANGED << now, used, listed >>
    BY <1>2 DEF RevokeSession, history
  <2>2. origin[k] \in Intents /\ EndedGrants' = EndedGrants \union {origin[k]}
    BY <1>2, RevokeEndsOrigin
  <2>3. Grants!GRevoke(origin[k])
    BY <2>1, <2>2 DEF Grants!GRevoke
  <2> QED  BY <2>2, <2>3 DEF Grants!GNext
<1>3. ASSUME NEW k \in Keys, CloseSession(k)
      PROVE  UNCHANGED << now, used, EndedGrants, listed >>
  <2>1. UNCHANGED << now, used, listed >>
    BY <1>3 DEF CloseSession, history
  <2> QED  BY <1>3, <2>1, CloseKeepsEnded
<1>4. ASSUME NEW k \in Keys, NEW u \in Users, NEW m \in Mints, NEW p \in Programs,
             NEW a \in 1 .. U64Max, SpendAsSession(k, u, m, a, p)
      PROVE  Grants!GNext
  <2>1. Grants!GSpend(origin[k], m, a, p)
    BY <1>4, SpendIsGSpend
  <2>2. origin[k] \in Intents
    BY <1>4, SpendUnderOrigin DEF IndInv
  <2> QED  BY <2>1, <2>2 DEF Grants!GNext
<1>5. ASSUME NEW k \in Keys, NEW m \in Mints, NEW a \in 1 .. U64Max,
             PayToll(k, m, a)
      PROVE  Grants!GNext
  BY <1>4, <1>5, PayTollSpends DEF IndInv
<1>6. ASSUME NEW d, NEW u, NEW m, NEW x,
             \/ SpendAsDelegate(d, u, m, x)
             \/ OwnerApprove(u, m, x)
             \/ OwnerRevoke(u, m)
             \/ OwnerSetBalance(u, m, x)
             \/ OwnerToggleAccount(u, m)
      PROVE  UNCHANGED << now, used, EndedGrants, listed >>
  <2>1. UNCHANGED << now, used, listed, session, origin >>
    BY <1>6 DEF SpendAsDelegate, OwnerApprove, OwnerRevoke, OwnerSetBalance,
                OwnerToggleAccount, accounts, history
  <2> QED  BY <2>1, EndedKept
<1>7. ASSUME NEW d \in Domains, NEW p \in Programs, AddProgram(d, p)
      PROVE  Grants!GNext
  <2>1. /\ UNCHANGED << now, used, session, origin >>
        /\ listed' = [listed EXCEPT ![d] = @ \union {p}]
    BY <1>7 DEF AddProgram, accounts
  <2>2. Grants!GList(d, p)
    BY <2>1, EndedKept DEF Grants!GList
  <2> QED  BY <2>2 DEF Grants!GNext
<1>8. ASSUME NEW d, NEW p, NEW k, RemoveProgram(d, p) \/ Donate(k) \/ UNCHANGED vars
      PROVE  UNCHANGED << now, used, EndedGrants, listed >>
  <2>1. UNCHANGED << now, used, listed, session, origin >>
    BY <1>8 DEF RemoveProgram, Donate, vars, accounts, history
  <2> QED  BY <2>1, EndedKept
<1>9. CASE Tick
  <2>1. UNCHANGED << used, listed, session, origin >> /\ now' = now + 1
    BY <1>9 DEF Tick, accounts, history
  <2>2. EndedGrants' = EndedGrants \union Grants!Expired(now + 1)
    <3>1. now \in Int /\ \A i \in Intents : i.expires \in Int
      BY IntentsAssumption DEF Message, IndInv, TypeOK
    <3>2. \A i \in Intents : i.expires < now => i.expires < now + 1
      BY <3>1
    <3> QED  BY <2>1, <3>2 DEF EndedGrants, Grants!Expired
  <2>3. Grants!GTick
    BY <2>1, <2>2 DEF Grants!GTick
  <2> QED  BY <2>3 DEF Grants!GNext
<1> QED
  BY <1>1, <1>2, <1>3, <1>4, <1>5, <1>6, <1>7, <1>8, <1>9 DEF Next

(* The session manager implements the wallet's view of a grant: whatever   *)
(* is submitted, however often, a message is spent within its limits, on   *)
(* its chain, through its domain's programs, and never after it expired or *)
(* was revoked.                                                            *)
THEOREM Refinement == Spec => ImplementsGrant
  BY InitGrant, StepGrant, Invariance, PTL DEF Spec, ImplementsGrant, Grants!GSpec

-----------------------------------------------------------------------------
(* close_session takes away delegations of the closed key only, for any    *)
(* number of sessions a wallet has over the same token accounts.           *)
THEOREM CloseIsLocal == Spec => CloseKeepsOthers
<1>1. ASSUME IndInv, [Next]_vars,
             NEW j \in Keys, NEW u \in Users, NEW m \in Mints,
             session[j] # None, session'[j] = None
      PROVE  ata'[u][m] = ata[u][m] \/ ata[u][m].delegate = j
  <2>1. ASSUME NEW i \in Intents, NEW sp \in Sponsors,
               NEW mintOf \in [DOMAIN i.limits -> Mints],
               StartSession(i, sp, mintOf)
        PROVE  FALSE
    <3>1. NewSession(i, sp, mintOf) # None
      BY <1>1, <2>1, NewSessionType, NoneAssumption DEF StartSession, IndInv
    <3> QED  BY <1>1, <2>1, <3>1 DEF StartSession, InitializeAccount, IndInv, TypeOK
  <2>2. ASSUME NEW k \in Keys, RevokeSession(k)
        PROVE  FALSE
    <3>1. session[k] \in Session
      BY <1>1, <2>2 DEF RevokeSession, IndInv, TypeOK
    <3> QED  BY <1>1, <2>2, <3>1, RevokedKeeps DEF RevokeSession, IndInv, TypeOK
  <2>3. ASSUME NEW k \in Keys, CloseSession(k)
        PROVE  ata'[u][m] = ata[u][m] \/ ata[u][m].delegate = j
    <3>1. j = k
      BY <1>1, <2>3 DEF CloseSession, IndInv, TypeOK
    <3> QED  BY <2>3, <3>1 DEF CloseSession, RevokeTokens
  <2>4. ASSUME NEW d \in Domains, NEW p \in Programs, AddProgram(d, p)
        PROVE  FALSE
    BY <1>1, <2>4 DEF AddProgram, accounts
  <2>5. CASE UNCHANGED << session, origin, listed >>
    BY <1>1, <2>5
  <2> QED  BY <1>1, <2>1, <2>2, <2>3, <2>4, <2>5, SessionFrame
<1>2. IndInv /\ [Next]_vars =>
          [\A k \in Keys, u \in Users, m \in Mints :
              session[k] # None /\ session'[k] = None =>
                  \/ ata'[u][m] = ata[u][m]
                  \/ ata[u][m].delegate = k]_vars
  BY <1>1
<1> QED  BY <1>2, Invariance, PTL DEF Spec, CloseKeepsOthers

(* A spend debits the wallet that signed the message, exactly, and leaves  *)
(* every other wallet alone.                                               *)
THEOREM SpendIsExact == Spec => SpendDebitsSigner
<1>1. ASSUME IndInv, [Next]_vars,
             NEW i \in Intents, NEW n \in Mints, used'[i][n] # used[i][n]
      PROVE  /\ ata[i.user][n].amount - ata'[i.user][n].amount
                    = used'[i][n] - used[i][n]
             /\ \A w \in Users \ {i.user} : ata'[w] = ata[w]
  <2>1. ASSUME NEW k \in Keys, NEW u \in Users, NEW m \in Mints,
               NEW p \in Programs, NEW a \in 1 .. U64Max,
               SpendAsSession(k, u, m, a, p)
        PROVE  /\ ata[i.user][n].amount - ata'[i.user][n].amount
                    = used'[i][n] - used[i][n]
               /\ \A w \in Users \ {i.user} : ata'[w] = ata[w]
    <3>1. /\ origin[k] \in Intents
          /\ origin[k].user = u
          /\ used' = [used EXCEPT ![origin[k]][m] = @ + a]
      BY <1>1, <2>1, SpendUnderOrigin DEF IndInv
    <3>2. /\ used[i][n] \in Nat
          /\ a \in Nat
          /\ ata[u][m] \in TokenAccount
          /\ ata[u][m].amount \in Nat
      BY <1>1, TokensAssumption DEF IndInv, TypeOK, TokenAccount
    <3>3. i = origin[k] /\ n = m
      BY <1>1, <3>1 DEF IndInv, TypeOK
    <3>4. used'[i][n] - used[i][n] = a
      BY <1>1, <3>1, <3>2, <3>3 DEF IndInv, TypeOK
    <3>5. \/ ata' = [ata EXCEPT ![u][m] = [ata[u][m] EXCEPT !.amount = @ - a]]
          \/ ata' = [ata EXCEPT ![u][m] = DebitDelegated(ata[u][m], a)]
      BY <2>1 DEF SpendAsSession
    <3>6. /\ \/ ata'[u][m] = [ata[u][m] EXCEPT !.amount = @ - a]
             \/ ata'[u][m] = DebitDelegated(ata[u][m], a)
          /\ \A w \in Users \ {u} : ata'[w] = ata[w]
      BY <1>1, <3>5 DEF IndInv, TypeOK
    <3>7. ata'[u][m].amount = ata[u][m].amount - a
      BY <3>2, <3>6 DEF TokenAccount, DebitDelegated
    <3> QED  BY <3>1, <3>2, <3>3, <3>4, <3>6, <3>7
  <2>2. ASSUME NEW j \in Intents, NEW sp \in Sponsors,
               NEW mintOf \in [DOMAIN j.limits -> Mints],
               StartSession(j, sp, mintOf)
        PROVE  FALSE
    BY <1>1, <2>2 DEF StartSession
  <2>3. ASSUME NEW k \in Keys, RevokeSession(k) \/ CloseSession(k)
        PROVE  FALSE
    BY <1>1, <2>3 DEF RevokeSession, CloseSession, history
  <2>4. CASE UNCHANGED << session, origin, used >>
    BY <1>1, <2>4
  <2> QED  BY <1>1, <2>1, <2>2, <2>3, <2>4, SpendFrame DEF IndInv
<1>2. IndInv /\ [Next]_vars =>
          [\A i \in Intents, m \in Mints :
              used'[i][m] # used[i][m] =>
                  /\ ata[i.user][m].amount - ata'[i.user][m].amount
                        = used'[i][m] - used[i][m]
                  /\ \A u \in Users \ {i.user} : ata'[u] = ata[u]]_vars
  BY <1>1
<1> QED  BY <1>2, Invariance, PTL DEF Spec, SpendDebitsSigner

-----------------------------------------------------------------------------
(***************************************************************************)
(* Sums over finite sets.  MapThenSumSet is a recursive function on the    *)
(* subsets of its set; what it computes is shown with smallest             *)
(* counterexamples (WFMin), which need no induction scheme.                *)
(***************************************************************************)
(* Every nonempty collection of subsets of a finite set has a smallest one. *)
LEMMA SmallestSubset ==
    ASSUME NEW S, IsFiniteSet(S), NEW C \in SUBSET (SUBSET S), C # {}
    PROVE  \E T \in C : \A U \in SUBSET T : U # T => U \notin C
<1>1. IsWellFoundedOn(StrictSubsetOrdering(S), SUBSET S)
  BY FS_StrictSubsetOrderingWellFounded, FS_FiniteSubsetsOfFinite
<1>2. PICK T \in C : \A U \in C : ~ (<<U, T>> \in StrictSubsetOrdering(S))
  BY <1>1, WFMin
<1> QED  BY <1>2 DEF StrictSubsetOrdering

LEMMA LeastNumber ==
    ASSUME NEW N \in SUBSET Nat, N # {}
    PROVE  \E n \in N : \A m \in N : n <= m
<1>1. PICK n \in N : \A m \in N : ~ (<<m, n>> \in OpToRel(<, Nat))
  BY NatLessThanWellFounded, WFMin, Zenon
<1>2. \A m \in N : ~ (m < n)
  BY <1>1 DEF OpToRel
<1> QED  BY <1>2

(* The recursion of the sum, for the subsets of S up to a size. *)
Pick(s) == CHOOSE x \in s : TRUE

UpTo(S, n) == {s \in SUBSET S : Cardinality(s) <= n}

AddsUp(g, f, D) ==
    \A s \in D : g[s] = IF s = {} THEN 0 ELSE f[Pick(s)] + g[s \ {Pick(s)}]

Sums(g, f, D) == g \in [D -> Int] /\ AddsUp(g, f, D)

LEMMA PickIn == ASSUME NEW s, s # {} PROVE Pick(s) \in s
  BY DEF Pick

LEMMA SumsExist ==
    ASSUME NEW S, IsFiniteSet(S), NEW f, \A x \in S : f[x] \in Int
    PROVE  \E g : Sums(g, f, SUBSET S)
<1> DEFINE N == {n \in Nat : ~ \E g : Sums(g, f, UpTo(S, n))}
<1>1. N = {}
  <2> SUFFICES ASSUME N # {} PROVE FALSE
    OBVIOUS
  <2>1. PICK n \in N : \A m \in N : n <= m
    BY LeastNumber
  <2>2. n \in Nat /\ ~ \E g : Sums(g, f, UpTo(S, n))
    OBVIOUS
  <2> HIDE DEF N
  <2>3. \A s \in SUBSET S : IsFiniteSet(s) /\ Cardinality(s) \in Nat
                            /\ (Cardinality(s) = 0 => s = {})
    BY FS_Subset, FS_CardinalityType, FS_EmptySet
  <2>4. \A s \in SUBSET S : s # {} =>
          /\ Pick(s) \in S /\ s \ {Pick(s)} \in SUBSET S
          /\ Cardinality(s \ {Pick(s)}) = Cardinality(s) - 1
    BY <2>3, PickIn, FS_RemoveElement
  <2>5. CASE n = 0
    <3> DEFINE g == [s \in UpTo(S, 0) |-> 0]
    <3>1. \A s \in UpTo(S, 0) : s = {}
      BY <2>3 DEF UpTo
    <3>2. Sums(g, f, UpTo(S, 0))
      BY <3>1 DEF Sums, AddsUp
    <3> QED  BY <2>2, <2>5, <3>2
  <2>6. CASE n # 0
    <3>1. n - 1 \in Nat /\ n - 1 \notin N
      BY <2>1, <2>2, <2>6
    <3>2. PICK h : Sums(h, f, UpTo(S, n - 1))
      BY <3>1 DEF N
    <3> DEFINE g == [s \in UpTo(S, n) |->
                        IF s = {} THEN 0 ELSE f[Pick(s)] + h[s \ {Pick(s)}]]
    <3>3. \A s \in UpTo(S, n) : s # {} =>
            Pick(s) \in S /\ s \ {Pick(s)} \in UpTo(S, n - 1)
                          /\ s \ {Pick(s)} \in UpTo(S, n)
      BY <2>2, <2>3, <2>4 DEF UpTo
    <3>4. \A s \in UpTo(S, n - 1) : s \in UpTo(S, n) /\ h[s] \in Int
            /\ h[s] = IF s = {} THEN 0 ELSE f[Pick(s)] + h[s \ {Pick(s)}]
      BY <2>2, <2>3, <3>2 DEF UpTo, Sums, AddsUp
    <3>5. \A s \in UpTo(S, n - 1) : g[s] = h[s]
      BY <3>4
    <3>6. g \in [UpTo(S, n) -> Int]
      <4>1. ASSUME NEW s \in UpTo(S, n), s # {}
            PROVE  f[Pick(s)] + h[s \ {Pick(s)}] \in Int
        <5>1. f[Pick(s)] \in Int
          BY <3>3, <4>1
        <5>2. h[s \ {Pick(s)}] \in Int
          BY <3>3, <3>4, <4>1
        <5> QED  BY <5>1, <5>2
      <4> QED  BY <4>1
    <3>7. \A s \in UpTo(S, n) : g[s] = IF s = {} THEN 0 ELSE f[Pick(s)] + g[s \ {Pick(s)}]
      BY <3>3, <3>5
    <3> HIDE DEF g
    <3> QED  BY <2>2, <3>6, <3>7 DEF Sums, AddsUp
  <2> QED  BY <2>5, <2>6
<1>2. Cardinality(S) \in Nat /\ \A s \in SUBSET S : Cardinality(s) <= Cardinality(S)
  BY FS_Subset, FS_CardinalityType
<1>3. UpTo(S, Cardinality(S)) = SUBSET S
  BY <1>2 DEF UpTo
<1> QED  BY <1>1, <1>2, <1>3

(* Two sums agree where the functions agree. *)
LEMMA SumsAgree ==
    ASSUME NEW S, IsFiniteSet(S), NEW f, NEW g, NEW h,
           AddsUp(g, f, SUBSET S), AddsUp(h, f, SUBSET S)
    PROVE  \A s \in SUBSET S : g[s] = h[s]
<1> DEFINE C == {s \in SUBSET S : g[s] # h[s]}
<1> SUFFICES ASSUME C # {} PROVE FALSE
  OBVIOUS
<1>0. C \in SUBSET (SUBSET S)
  OBVIOUS
<1>1. PICK T \in C : \A U \in SUBSET T : U # T => U \notin C
  <2> HIDE DEF C
  <2> QED  BY <1>0, SmallestSubset
<1>2. T # {}
  BY DEF AddsUp
<1>3. Pick(T) \in T
  BY <1>2, PickIn
<1>4. g[T \ {Pick(T)}] = h[T \ {Pick(T)}]
  BY <1>1, <1>3
<1> QED  BY <1>2, <1>4 DEF AddsUp

LEMMA SumIs ==
    ASSUME NEW S, IsFiniteSet(S), NEW f, \A x \in S : f[x] \in Int,
           NEW g, Sums(g, f, SUBSET S)
    PROVE  SumOver(f, S) = g[S]
<1> DEFINE Rec(h) == h = [s \in SUBSET S |->
                           IF s = {} THEN 0 ELSE f[Pick(s)] + h[s \ {Pick(s)}]]
           h == CHOOSE e : Rec(e)
<1>1. SumOver(f, S) = h[S]
  BY DEF SumOver, MapThenSumSet, MapThenFoldSet, Pick
<1>2. Rec(g)
  BY DEF Sums, AddsUp
<1>3. Rec(h)
  BY <1>2
<1>4. AddsUp(h, f, SUBSET S)
  <2> HIDE DEF h
  <2> QED  BY <1>3 DEF AddsUp
<1> HIDE DEF h
<1>5. \A s \in SUBSET S : g[s] = h[s]
  BY <1>4, SumsAgree DEF Sums
<1> QED  BY <1>1, <1>5

IntOn(f, S) == IsFiniteSet(S) /\ \A x \in S : f[x] \in Int

LEMMA IntOnPart ==
    ASSUME NEW S, NEW f, IntOn(f, S), NEW T \in SUBSET S
    PROVE  IntOn(f, T)
  BY FS_Subset DEF IntOn

(* The sum by its last element. *)
LEMMA SumRec ==
    ASSUME NEW S, NEW f, IntOn(f, S)
    PROVE  /\ SumOver(f, S) \in Int
           /\ S = {} => SumOver(f, S) = 0
           /\ S # {} => SumOver(f, S) = f[Pick(S)] + SumOver(f, S \ {Pick(S)})
<1>1. PICK g : Sums(g, f, SUBSET S)
  BY SumsExist DEF IntOn
<1>2. SumOver(f, S) = g[S]
  BY <1>1, SumIs DEF IntOn
<1> DEFINE T == S \ {Pick(S)}
           h == [s \in SUBSET T |-> g[s]]
<1>3. T \in SUBSET S /\ IntOn(f, T)
  BY IntOnPart
<1>4. \A s \in SUBSET T : s # {} => s \ {Pick(s)} \in SUBSET T
  OBVIOUS
<1> HIDE DEF T
<1>5. Sums(h, f, SUBSET T)
  BY <1>1, <1>3, <1>4 DEF Sums, AddsUp
<1>6. h[T] = g[T]
  OBVIOUS
<1> HIDE DEF h
<1>7. SumOver(f, T) = g[T]
  BY <1>3, <1>5, <1>6, SumIs DEF IntOn
<1>8. g[S] \in Int /\ g[S] = IF S = {} THEN 0 ELSE f[Pick(S)] + g[T]
  BY <1>1 DEF Sums, AddsUp, T
<1> QED  BY <1>2, <1>7, <1>8 DEF T

(* The sum without any of its elements. *)
LEMMA SumWithout ==
    ASSUME NEW S, NEW f, IntOn(f, S), NEW x \in S
    PROVE  SumOver(f, S) = f[x] + SumOver(f, S \ {x})
<1> DEFINE C == {s \in SUBSET S : \E y \in s : SumOver(f, s) # f[y] + SumOver(f, s \ {y})}
<1>1. C = {}
  <2> SUFFICES ASSUME C # {} PROVE FALSE
    OBVIOUS
  <2>1. C \in SUBSET (SUBSET S)
    OBVIOUS
  <2>2. PICK T \in C : \A U \in SUBSET T : U # T => U \notin C
    <3> HIDE DEF C
    <3> QED  BY <2>1, SmallestSubset DEF IntOn
  <2>3. PICK y \in T : SumOver(f, T) # f[y] + SumOver(f, T \ {y})
    OBVIOUS
  <2> DEFINE p == Pick(T)
             V == T \ {y}
             W == T \ {p}
             Z == V \ {p}
  <2>4. p \in T /\ T \in SUBSET S /\ W \ {y} = Z
    BY PickIn
  <2>5. IntOn(f, T) /\ IntOn(f, V) /\ IntOn(f, W) /\ IntOn(f, Z)
    BY <2>4, IntOnPart
  <2>6. SumOver(f, T) = f[p] + SumOver(f, W)
    BY <2>4, <2>5, SumRec
  <2>7. y # p
    BY <2>3, <2>6
  <2>8. V \notin C /\ W \notin C /\ p \in V /\ y \in W
    BY <2>2, <2>3, <2>4, <2>7
  <2>9. SumOver(f, V) = f[p] + SumOver(f, Z) /\ SumOver(f, W) = f[y] + SumOver(f, W \ {y})
    BY <2>4, <2>8
  <2>10. f[p] \in Int /\ f[y] \in Int
    BY <2>4, <2>5 DEF IntOn
  <2>11. SumOver(f, Z) \in Int
    BY <2>5, SumRec
  <2> HIDE DEF p, V, W, Z, C
  <2>12. SumOver(f, W) = f[y] + SumOver(f, Z)
    BY <2>4, <2>9
  <2>13. SumOver(f, T) = f[y] + SumOver(f, V)
    BY <2>6, <2>9, <2>10, <2>11, <2>12
  <2> QED  BY <2>3, <2>13 DEF V
<1> QED  BY <1>1

(* The sums of functions that agree are the same. *)
LEMMA SumSame ==
    ASSUME NEW S, NEW f, NEW h, IntOn(f, S), \A x \in S : f[x] = h[x]
    PROVE  SumOver(f, S) = SumOver(h, S)
<1> DEFINE C == {s \in SUBSET S : SumOver(f, s) # SumOver(h, s)}
<1>1. C = {}
  <2> SUFFICES ASSUME C # {} PROVE FALSE
    OBVIOUS
  <2>1. C \in SUBSET (SUBSET S)
    OBVIOUS
  <2>2. PICK T \in C : \A U \in SUBSET T : U # T => U \notin C
    <3> HIDE DEF C
    <3> QED  BY <2>1, SmallestSubset DEF IntOn
  <2>3. IntOn(f, T) /\ IntOn(h, T)
    BY IntOnPart DEF IntOn
  <2>4. T # {} /\ Pick(T) \in T
    BY <2>3, SumRec, PickIn
  <2>5. SumOver(f, T \ {Pick(T)}) = SumOver(h, T \ {Pick(T)})
    BY <2>2, <2>4
  <2> QED  BY <2>3, <2>4, <2>5, SumRec
<1> QED  BY <1>1

(* One value changes. *)
LEMMA SumUpdate ==
    ASSUME NEW S, NEW f, NEW h, IntOn(f, S), NEW x \in S, h[x] \in Int,
           \A y \in S \ {x} : h[y] = f[y]
    PROVE  SumOver(h, S) = SumOver(f, S) + (h[x] - f[x])
<1>1. IntOn(h, S) /\ IntOn(f, S \ {x}) /\ f[x] \in Int
  BY IntOnPart DEF IntOn
<1>2. SumOver(f, S \ {x}) = SumOver(h, S \ {x}) /\ SumOver(f, S \ {x}) \in Int
  BY <1>1, SumSame, SumRec
<1>3. SumOver(f, S) = f[x] + SumOver(f, S \ {x})
  BY SumWithout
<1>4. SumOver(h, S) = h[x] + SumOver(h, S \ {x})
  BY <1>1, SumWithout
<1> QED  BY <1>1, <1>2, <1>3, <1>4

(* All values are the same. *)
LEMMA SumOfConstant ==
    ASSUME NEW S, IsFiniteSet(S), NEW f, NEW c \in Int, \A x \in S : f[x] = c
    PROVE  SumOver(f, S) = Cardinality(S) * c
<1> DEFINE C == {s \in SUBSET S : SumOver(f, s) # Cardinality(s) * c}
<1>0. IntOn(f, S)
  BY DEF IntOn
<1>1. C = {}
  <2> SUFFICES ASSUME C # {} PROVE FALSE
    OBVIOUS
  <2>1. C \in SUBSET (SUBSET S)
    OBVIOUS
  <2>2. PICK T \in C : \A U \in SUBSET T : U # T => U \notin C
    <3> HIDE DEF C
    <3> QED  BY <2>1, SmallestSubset
  <2>3. IntOn(f, T) /\ IsFiniteSet(T)
    BY <1>0, IntOnPart DEF IntOn
  <2>4. T # {}
    <3>1. SUFFICES ASSUME T = {} PROVE FALSE
      OBVIOUS
    <3>2. SumOver(f, T) = 0 /\ Cardinality(T) = 0 /\ 0 * c = 0
      BY <2>3, <3>1, SumRec, FS_EmptySet
    <3> QED  BY <3>2
  <2> DEFINE W == T \ {Pick(T)}
  <2>5. Pick(T) \in T /\ f[Pick(T)] = c
    BY <2>4, PickIn
  <2>6. SumOver(f, W) = Cardinality(W) * c
    BY <2>2, <2>5
  <2>7. Cardinality(W) = Cardinality(T) - 1 /\ Cardinality(T) \in Nat
    BY <2>3, <2>5, FS_RemoveElement, FS_CardinalityType
  <2>8. SumOver(f, T) = c + SumOver(f, W)
    BY <2>3, <2>4, <2>5, SumRec
  <2>9. SumOver(f, T) # Cardinality(T) * c
    OBVIOUS
  <2> HIDE DEF C, W
  <2>10. c + (Cardinality(T) - 1) * c = Cardinality(T) * c
    BY <2>7
  <2> QED  BY <2>6, <2>7, <2>8, <2>9, <2>10
<1> QED  BY <1>1

(* A sum is the sum over a part and over the rest. *)
LEMMA SumSplit ==
    ASSUME NEW S, NEW f, IntOn(f, S), NEW A, A \in SUBSET S
    PROVE  SumOver(f, S) = SumOver(f, A) + SumOver(f, S \ A)
<1> DEFINE C == {s \in SUBSET S : SumOver(f, s) # SumOver(f, s \cap A) + SumOver(f, s \ A)}
<1>1. C = {}
  <2> SUFFICES ASSUME C # {} PROVE FALSE
    OBVIOUS
  <2>1. C \in SUBSET (SUBSET S)
    OBVIOUS
  <2>2. PICK T \in C : \A U \in SUBSET T : U # T => U \notin C
    <3> HIDE DEF C
    <3> QED  BY <2>1, SmallestSubset DEF IntOn
  <2>3. IntOn(f, T) /\ IntOn(f, T \cap A) /\ IntOn(f, T \ A)
    BY IntOnPart
  <2>4. T # {}
    <3>1. SUFFICES ASSUME T = {} PROVE FALSE
      OBVIOUS
    <3>2. SumOver(f, T) = 0 /\ T \cap A = T /\ T \ A = T
      BY <2>3, <3>1, SumRec
    <3> QED  BY <3>2
  <2> DEFINE p == Pick(T)
             V == T \ {p}
  <2>5. p \in T /\ f[p] \in Int
    BY <2>3, <2>4, PickIn DEF IntOn
  <2>6. SumOver(f, T) = f[p] + SumOver(f, V)
    BY <2>3, <2>4, SumRec
  <2>7. IntOn(f, V \cap A) /\ IntOn(f, V \ A)
    BY IntOnPart
  <2>8. SumOver(f, V \cap A) \in Int /\ SumOver(f, V \ A) \in Int
    BY <2>7, SumRec
  <2>9. SumOver(f, V) = SumOver(f, V \cap A) + SumOver(f, V \ A)
    BY <2>2, <2>5
  <2>10. CASE p \in A
    <3>1. p \in T \cap A /\ (T \cap A) \ {p} = V \cap A /\ T \ A = V \ A
      BY <2>5, <2>10
    <3>2. SumOver(f, T \cap A) = f[p] + SumOver(f, V \cap A)
      BY <2>3, <3>1, SumWithout
    <3>3. SumOver(f, T \ A) = SumOver(f, V \ A)
      BY <3>1
    <3>4. SumOver(f, T) # SumOver(f, T \cap A) + SumOver(f, T \ A)
      OBVIOUS
    <3> HIDE DEF p, V, C
    <3> QED  BY <2>5, <2>6, <2>8, <2>9, <3>2, <3>3, <3>4
  <2>11. CASE p \notin A
    <3>1. p \in T \ A /\ (T \ A) \ {p} = V \ A /\ T \cap A = V \cap A
      BY <2>5, <2>11
    <3>2. SumOver(f, T \ A) = f[p] + SumOver(f, V \ A)
      BY <2>3, <3>1, SumWithout
    <3>3. SumOver(f, T \cap A) = SumOver(f, V \cap A)
      BY <3>1
    <3>4. SumOver(f, T) # SumOver(f, T \cap A) + SumOver(f, T \ A)
      OBVIOUS
    <3> HIDE DEF p, V, C
    <3> QED  BY <2>5, <2>6, <2>8, <2>9, <3>2, <3>3, <3>4
  <2> QED  BY <2>10, <2>11
<1>2. SumOver(f, S) = SumOver(f, S \cap A) + SumOver(f, S \ A)
  BY <1>1
<1>3. S \cap A = A
  OBVIOUS
<1> QED  BY <1>2, <1>3

-----------------------------------------------------------------------------
(***************************************************************************)
(* Rent.  Lamports move between a session account and the wallet of one    *)
(* sponsor: the one that pays for a new account, or the one the account    *)
(* names when it shrinks or closes.                                        *)
(***************************************************************************)

(* x lamports go from the account at k to the wallet of s. *)
Moves(k, s, x) ==
    /\ lamports' = [lamports EXCEPT ![k] = @ - x]
    /\ wallet' = [wallet EXCEPT ![s] = @ + x]
    /\ UNCHANGED donated

(* What a sponsor can count on from the account at a key: the lamports in  *)
(* it if it can be closed, and else the rent that the property sets aside. *)
CreditOf(s, x) == IF Closable(s) THEN x ELSE RentOf(s)

Credits == [k \in Keys |-> CreditOf(session[k], lamports[k])]

(* An active session account holds the rent of its size. *)
Funded(k) ==
    session[k] # None /\ session[k].status = "active" => lamports[k] >= ActiveRent

AccountsFunded == \A k \in Keys : Funded(k)

(* SponsorMadeWhole as one sum over the accounts of a sponsor. *)
CreditsCover ==
    \A s \in Sponsors : wallet[s] + SumOver(Credits, PaidBy(s)) >= InitialWallet

LEMMA RentTypes ==
    ASSUME TypeOK
    PROVE  /\ \A T \in SUBSET Keys : IntOn(lamports, T)
           /\ IntOn(wallet, Sponsors)
           /\ \A k \in Keys : lamports[k] \in Nat
           /\ \A s \in Sponsors : wallet[s] \in Nat
<1>1. IntOn(lamports, Keys) /\ IntOn(wallet, Sponsors)
  BY ConstantsAssumption DEF IntOn, TypeOK
<1> QED  BY <1>1, IntOnPart DEF TypeOK

(* How each step treats lamports and sponsors. *)
LEMMA RentFrame ==
    ASSUME IndInv, [Next]_vars
    PROVE  \/ \E k \in Keys, s \in Sponsors, x \in Int :
                /\ Moves(k, s, x) /\ x <= 0
                /\ session[k] = None /\ session'[k] # None /\ session'[k].sponsor = s
                /\ Credits'[k] + x >= 0
                /\ \A j \in Keys \ {k} : session'[j] = session[j]
           \/ \E k \in Keys, s \in Sponsors, x \in Int :
                /\ Moves(k, s, x)
                /\ session[k] # None /\ session[k].sponsor = s
                /\ session'[k] # None /\ session'[k].sponsor = s
                /\ Funded(k) => Credits'[k] + x >= Credits[k]
                /\ \A j \in Keys \ {k} : session'[j] = session[j]
           \/ \E k \in Keys, s \in Sponsors :
                /\ Moves(k, s, lamports[k])
                /\ session[k] # None /\ session[k].sponsor = s
                /\ Credits[k] = lamports[k] /\ session'[k] = None
                /\ \A j \in Keys \ {k} : session'[j] = session[j]
           \/ \E k \in Keys :
                /\ lamports' = [lamports EXCEPT ![k] = @ + 1]
                /\ donated' = donated + 1
                /\ UNCHANGED << session, wallet >>
           \/ UNCHANGED accounts
<1> USE DEF IndInv
<1>a. ActiveRent \in Nat /\ RevokedRent \in Nat
  BY ConstantsAssumption
<1>b. \A k \in Keys : lamports[k] \in Nat
  BY DEF TypeOK
<1>1. ASSUME NEW i \in Intents, NEW sp \in Sponsors,
             NEW mintOf \in [DOMAIN i.limits -> Mints],
             StartSession(i, sp, mintOf)
      PROVE  \E k \in Keys, s \in Sponsors, x \in Int :
                /\ Moves(k, s, x) /\ x <= 0
                /\ session[k] = None /\ session'[k] # None /\ session'[k].sponsor = s
                /\ Credits'[k] + x >= 0
                /\ \A j \in Keys \ {k} : session'[j] = session[j]
  <2> DEFINE k == i.key
             x == 0 - TopUp(k)
             n == NewSession(i, sp, mintOf)
  <2>1. k \in Keys
    BY IntentsAssumption DEF Message
  <2>2. TopUp(k) \in Nat
    BY <1>a, <1>b, <2>1 DEF TopUp
  <2>3. n # None /\ n.sponsor = sp
    BY <1>1, NewSessionType, NoneAssumption DEF StartSession, NewSession
  <2>4. /\ session[k] = None /\ session' = [session EXCEPT ![k] = n]
        /\ lamports' = [lamports EXCEPT ![k] = @ + TopUp(k)]
        /\ wallet' = [wallet EXCEPT ![sp] = @ - TopUp(k)]
        /\ UNCHANGED donated
    BY <1>1 DEF StartSession, InitializeAccount
  <2> HIDE DEF k, n
  <2>5. Moves(k, sp, x)
    <3>1. lamports[k] + TopUp(k) = lamports[k] - x /\ wallet[sp] - TopUp(k) = wallet[sp] + x
      BY <1>b, <2>1, <2>2 DEF TypeOK
    <3> QED  BY <2>4, <3>1 DEF Moves
  <2>6. x \in Int /\ x <= 0
    BY <2>2
  <2>8. session'[k] = n /\ \A j \in Keys \ {k} : session'[j] = session[j]
    BY <2>1, <2>4 DEF TypeOK
  <2>9. n.status = "active"
    BY DEF n, NewSession
  <2>10. Credits'[k] + x >= 0
    <3>1. lamports'[k] = lamports[k] + TopUp(k)
      BY <2>1, <2>4 DEF TypeOK
    <3>2. Credits'[k] = IF Closable(n) THEN lamports'[k] ELSE ActiveRent
      BY <2>1, <2>8, <2>9 DEF Credits, CreditOf, RentOf
    <3>3. TopUp(k) <= ActiveRent
      BY <1>a, <1>b, <2>1 DEF TopUp
    <3> QED  BY <1>a, <1>b, <2>1, <2>2, <3>1, <3>2, <3>3
  <2> HIDE DEF x
  <2> QED  BY <2>1, <2>3, <2>4, <2>5, <2>6, <2>8, <2>10
<1>2. ASSUME NEW k \in Keys, RevokeSession(k)
      PROVE  \E s \in Sponsors, x \in Int :
                /\ Moves(k, s, x)
                /\ session[k] # None /\ session[k].sponsor = s
                /\ session'[k] # None /\ session'[k].sponsor = s
                /\ Funded(k) => Credits'[k] + x >= Credits[k]
                /\ \A j \in Keys \ {k} : session'[j] = session[j]
  <2> DEFINE s == session[k].sponsor
             x == IF RevokedRent < lamports[k] THEN lamports[k] - RevokedRent ELSE 0
  <2>1. session[k] \in Session /\ session[k] # None /\ s \in Sponsors
    BY <1>2 DEF RevokeSession, TypeOK, Session
  <2>2. RevokedSession(session[k]).sponsor = s
    BY <2>1 DEF RevokedSession, Session
  <2>3. /\ session'[k] # None /\ session'[k].sponsor = s
        /\ \A j \in Keys \ {k} : session'[j] = session[j]
    BY <1>2, <2>1, <2>2, RevokedKeeps DEF RevokeSession, TypeOK
  <2>4. x \in Int
    BY <1>a, <1>b
  <2>5. Moves(k, s, x)
    <3>1. CASE RevokedRent < lamports[k]
      <4>1. RevokedRent = lamports[k] - (lamports[k] - RevokedRent)
        BY <1>a, <1>b
      <4> QED
        BY <1>2, <3>1, <4>1 DEF RevokeSession, ReallocateAndRefundRent, Moves
    <3>2. CASE ~ (RevokedRent < lamports[k])
      <4>1. UNCHANGED << lamports, wallet, donated >>
        BY <1>2, <3>2 DEF RevokeSession, ReallocateAndRefundRent
      <4>2. lamports[k] - 0 = lamports[k] /\ wallet[s] + 0 = wallet[s]
        BY <1>b, <2>1 DEF TypeOK
      <4>3. /\ lamports = [lamports EXCEPT ![k] = lamports[k]]
            /\ wallet = [wallet EXCEPT ![s] = wallet[s]]
        BY <2>1 DEF TypeOK
      <4> QED  BY <3>2, <4>1, <4>2, <4>3 DEF Moves
    <3> QED  BY <3>1, <3>2
  <2>6. Funded(k) => Credits'[k] + x >= Credits[k]
    <3> DEFINE old == session[k]
               new == session'[k]
    <3>1. new.status = "revoked"
      BY <1>2, <2>1, RevokedKeeps DEF RevokeSession, TypeOK, Session
    <3>2. Closable(new) => Closable(old)
      BY <1>2, <2>1, <3>1, RevokedKeeps DEF RevokeSession, TypeOK, Closable
    <3>3. RentOf(new) = RevokedRent /\ RentOf(old) \in {ActiveRent, RevokedRent}
      BY <3>1 DEF RentOf
    <3>4. old.status = "revoked" => new = old
      BY <1>2, <2>1 DEF RevokeSession, TypeOK
    <3>5. lamports'[k] = lamports[k] - x
      BY <2>5 DEF Moves, TypeOK
    <3>6. old.status \in {"active", "revoked"} /\ (old.status = "revoked" => RentOf(old) = RevokedRent)
      BY <2>1 DEF Session, RentOf
    <3>7. /\ Credits[k] = IF Closable(old) THEN lamports[k] ELSE RentOf(old)
          /\ Credits'[k] = IF Closable(new) THEN lamports'[k] ELSE RevokedRent
      BY <3>3 DEF Credits, CreditOf
    <3>8. old.status = "active" /\ Funded(k) => lamports[k] >= ActiveRent
      BY <2>1 DEF Funded
    <3>9. RevokedRent <= ActiveRent
      BY <1>a, ConstantsAssumption
    <3>10. lamports[k] \in Nat /\ lamports'[k] \in Int
      BY <1>b, <2>4, <3>5
    <3>11. CASE old.status = "active"
      <4>1. Credits[k] = IF Closable(old) THEN lamports[k] ELSE ActiveRent
        BY <3>7, <3>11 DEF RentOf
      <4> HIDE DEF old, new
      <4> QED  BY <1>a, <3>2, <3>5, <3>7, <3>8, <3>9, <3>10, <3>11, <4>1
    <3>12. CASE old.status = "revoked"
      <4>1. Credits[k] = IF Closable(old) THEN lamports[k] ELSE RevokedRent
        BY <3>7, <3>6, <3>12
      <4>2. Closable(new) <=> Closable(old)
        BY <3>4, <3>12
      <4> HIDE DEF old, new
      <4> QED  BY <1>a, <3>5, <3>7, <3>10, <4>1, <4>2
    <3> QED  BY <3>6, <3>11, <3>12
  <2> HIDE DEF s, x
  <2> QED  BY <2>1, <2>3, <2>4, <2>5, <2>6 DEF s
<1>3. ASSUME NEW k \in Keys, CloseSession(k)
      PROVE  \E s \in Sponsors :
                /\ Moves(k, s, lamports[k])
                /\ session[k] # None /\ session[k].sponsor = s
                /\ Credits[k] = lamports[k] /\ session'[k] = None
                /\ \A j \in Keys \ {k} : session'[j] = session[j]
  <2>1. session[k] \in Session /\ session[k] # None /\ session[k].sponsor \in Sponsors
    BY <1>3 DEF CloseSession, TypeOK, Session
  <2>2. lamports[k] - lamports[k] = 0
    BY <1>b
  <2>3. Moves(k, session[k].sponsor, lamports[k])
    BY <1>3, <2>2 DEF CloseSession, Moves
  <2>4. session'[k] = None /\ \A j \in Keys \ {k} : session'[j] = session[j]
    BY <1>3 DEF CloseSession, TypeOK
  <2>5. Credits[k] = lamports[k]
    BY <1>3 DEF CloseSession, Credits, CreditOf
  <2> QED  BY <2>1, <2>3, <2>4, <2>5
<1>4. ASSUME NEW k \in Keys, Donate(k)
      PROVE  /\ lamports' = [lamports EXCEPT ![k] = @ + 1]
             /\ donated' = donated + 1
             /\ UNCHANGED << session, wallet >>
  BY <1>4 DEF Donate
<1>5. ASSUME NEW k, NEW u, NEW m, NEW a, NEW p,
             \/ SpendAsSession(k, u, m, a, p) \/ PayToll(k, m, a)
             \/ SpendAsDelegate(k, u, m, a) \/ OwnerApprove(u, m, k)
             \/ OwnerRevoke(u, m) \/ OwnerSetBalance(u, m, a)
             \/ OwnerToggleAccount(u, m) \/ AddProgram(k, p) \/ RemoveProgram(k, p) \/ Tick
      PROVE  UNCHANGED accounts
  BY <1>5 DEF SpendAsSession, PayToll, SpendAsDelegate, OwnerApprove, OwnerRevoke,
              OwnerSetBalance, OwnerToggleAccount, AddProgram, RemoveProgram, Tick
<1>6. CASE UNCHANGED vars
  BY <1>6 DEF vars
<1> QED  BY <1>1, <1>2, <1>3, <1>4, <1>5, <1>6 DEF Next

(* Every step keeps the total of all lamports, up to what is sent in. *)
LEMMA ConservedStep ==
    ASSUME IndInv, IndInv', LamportsConserved, [Next]_vars
    PROVE  LamportsConserved'
<1>1. /\ IntOn(lamports, Keys) /\ IntOn(wallet, Sponsors) /\ donated \in Int
      /\ \A k \in Keys : lamports[k] \in Int /\ lamports'[k] \in Int
      /\ \A s \in Sponsors : wallet[s] \in Int /\ wallet'[s] \in Int
  BY RentTypes DEF IndInv, TypeOK
<1>2. SumOver(lamports, Keys) \in Int /\ SumOver(wallet, Sponsors) \in Int
  BY <1>1, SumRec
<1> DEFINE total == Cardinality(Sponsors) * InitialWallet
<1>3. total \in Int
  BY ConstantsAssumption, FS_CardinalityType
<1> HIDE DEF total
<1>4. ASSUME NEW k \in Keys, NEW s \in Sponsors, NEW x \in Int, Moves(k, s, x)
      PROVE  LamportsConserved'
  <2>1. /\ lamports'[k] = lamports[k] - x /\ \A j \in Keys \ {k} : lamports'[j] = lamports[j]
        /\ wallet'[s] = wallet[s] + x /\ \A t \in Sponsors \ {s} : wallet'[t] = wallet[t]
        /\ donated' = donated
    BY <1>4 DEF Moves, IndInv, TypeOK
  <2>2. SumOver(lamports', Keys) = SumOver(lamports, Keys) + (lamports'[k] - lamports[k])
    BY <1>1, <2>1, SumUpdate
  <2>3. SumOver(wallet', Sponsors) = SumOver(wallet, Sponsors) + (wallet'[s] - wallet[s])
    BY <1>1, <2>1, SumUpdate
  <2>4. SumOver(wallet', Sponsors) + SumOver(lamports', Keys)
          = SumOver(wallet, Sponsors) + SumOver(lamports, Keys)
    BY <1>1, <1>2, <2>1, <2>2, <2>3
  <2> QED  BY <2>1, <2>4 DEF LamportsConserved
<1>5. ASSUME NEW k \in Keys, lamports' = [lamports EXCEPT ![k] = @ + 1],
             donated' = donated + 1, UNCHANGED << session, wallet >>
      PROVE  LamportsConserved'
  <2>1. lamports'[k] = lamports[k] + 1 /\ \A j \in Keys \ {k} : lamports'[j] = lamports[j]
    BY <1>5 DEF IndInv, TypeOK
  <2>2. SumOver(lamports', Keys) = SumOver(lamports, Keys) + (lamports'[k] - lamports[k])
    BY <1>1, <2>1, SumUpdate
  <2>3. SumOver(wallet, Sponsors) + SumOver(lamports', Keys) = total + donated'
    BY <1>1, <1>2, <1>3, <1>5, <2>1, <2>2 DEF LamportsConserved, total
  <2> QED  BY <1>5, <2>3 DEF LamportsConserved, total
<1>6. CASE UNCHANGED accounts
  BY <1>6 DEF accounts, LamportsConserved
<1> QED  BY <1>4, <1>5, <1>6, <1>1, RentFrame

(* Every step keeps the active accounts funded. *)
LEMMA FundedStep ==
    ASSUME IndInv, IndInv', AccountsFunded, [Next]_vars
    PROVE  AccountsFunded'
<1> SUFFICES ASSUME NEW j \in Keys PROVE Funded(j)'
  BY DEF AccountsFunded
<1> USE DEF IndInv
<1>a. /\ ActiveRent \in Nat /\ RevokedRent \in Nat
      /\ \A k \in Keys : lamports[k] \in Nat
      /\ Funded(j)
  BY ConstantsAssumption DEF TypeOK, AccountsFunded
<1>1. ASSUME NEW i \in Intents, NEW sp \in Sponsors,
             NEW mintOf \in [DOMAIN i.limits -> Mints],
             StartSession(i, sp, mintOf)
      PROVE  Funded(j)'
  <2>1. CASE j = i.key
    <3>1. lamports'[j] = lamports[j] + TopUp(j)
      BY <1>1, <2>1 DEF StartSession, InitializeAccount, TypeOK
    <3> QED  BY <1>a, <3>1 DEF TopUp, Funded
  <2>2. CASE j # i.key
    <3>1. session'[j] = session[j] /\ lamports'[j] = lamports[j]
      BY <1>1, <2>2 DEF StartSession, InitializeAccount, TypeOK
    <3> QED  BY <1>a, <3>1 DEF Funded
  <2> QED  BY <2>1, <2>2
<1>2. ASSUME NEW k \in Keys, RevokeSession(k)
      PROVE  Funded(j)'
  <2>1. CASE j = k
    <3>1. session[k] \in Session
      BY <1>2 DEF RevokeSession, TypeOK
    <3>2. session'[j].status = "revoked"
      BY <1>2, <2>1, <3>1, RevokedKeeps DEF RevokeSession, TypeOK, Session
    <3> QED  BY <3>2 DEF Funded
  <2>2. CASE j # k
    <3>1. session'[j] = session[j]
      BY <1>2, <2>2 DEF RevokeSession, TypeOK
    <3>2. lamports'[j] = lamports[j]
      BY <1>2, <2>2 DEF RevokeSession, ReallocateAndRefundRent, TypeOK
    <3> QED  BY <1>a, <3>1, <3>2 DEF Funded
  <2> QED  BY <2>1, <2>2
<1>3. ASSUME NEW k \in Keys, CloseSession(k)
      PROVE  Funded(j)'
  <2>1. session'[j] = None \/ (session'[j] = session[j] /\ lamports'[j] = lamports[j])
    BY <1>3 DEF CloseSession, TypeOK
  <2> QED  BY <1>a, <2>1 DEF Funded
<1>4. ASSUME NEW k \in Keys, Donate(k)
      PROVE  Funded(j)'
  <2>1. session'[j] = session[j] /\ lamports'[j] >= lamports[j] /\ lamports'[j] \in Nat
    BY <1>4, <1>a DEF Donate, TypeOK
  <2> QED  BY <1>a, <2>1 DEF Funded
<1>5. ASSUME NEW k, NEW u, NEW m, NEW a, NEW p,
             \/ SpendAsSession(k, u, m, a, p) \/ PayToll(k, m, a)
             \/ SpendAsDelegate(k, u, m, a) \/ OwnerApprove(u, m, k)
             \/ OwnerRevoke(u, m) \/ OwnerSetBalance(u, m, a)
             \/ OwnerToggleAccount(u, m) \/ AddProgram(k, p) \/ RemoveProgram(k, p) \/ Tick
      PROVE  UNCHANGED << session, lamports >>
  BY <1>5 DEF SpendAsSession, PayToll, SpendAsDelegate, OwnerApprove, OwnerRevoke,
              OwnerSetBalance, OwnerToggleAccount, AddProgram, RemoveProgram, Tick, accounts
<1>6. CASE UNCHANGED << session, lamports >>
  BY <1>a, <1>6 DEF Funded
<1>7. CASE UNCHANGED vars
  BY <1>6, <1>7 DEF vars, accounts
<1> QED  BY <1>1, <1>2, <1>3, <1>4, <1>5, <1>6, <1>7 DEF Next

(* Every step leaves each sponsor's wallet and credits with at least what  *)
(* the sponsor started with.                                               *)
LEMMA CreditsStep ==
    ASSUME IndInv, IndInv', AccountsFunded, CreditsCover, [Next]_vars
    PROVE  CreditsCover'
<1> SUFFICES ASSUME NEW t \in Sponsors
             PROVE  wallet'[t] + SumOver(Credits', PaidBy(t)') >= InitialWallet
  BY DEF CreditsCover
<1> DEFINE P == PaidBy(t)
           Q == PaidBy(t)'
           C == Credits
           D == Credits'
           held == SumOver(C, P)
<1>1. /\ P \in SUBSET Keys /\ Q \in SUBSET Keys
      /\ IntOn(C, P) /\ IntOn(D, P) /\ IntOn(D, Q)
      /\ \A k \in Keys : C[k] \in Int /\ D[k] \in Int
      /\ \A k \in Keys : lamports[k] \in Nat
      /\ \A s \in Sponsors : wallet[s] \in Nat /\ wallet'[s] \in Nat
  <2>1. P \in SUBSET Keys /\ Q \in SUBSET Keys
    BY DEF PaidBy
  <2>2. TypeOK /\ TypeOK'
    BY DEF IndInv
  <2>3. /\ \A k \in Keys : lamports[k] \in Nat /\ lamports'[k] \in Nat
        /\ \A s \in Sponsors : wallet[s] \in Nat /\ wallet'[s] \in Nat
    BY <2>2 DEF TypeOK
  <2>4. \A k \in Keys : C[k] \in Int /\ D[k] \in Int
    BY <2>3, ConstantsAssumption DEF Credits, CreditOf, RentOf
  <2>5. IntOn(C, Keys) /\ IntOn(D, Keys)
    BY <2>4, ConstantsAssumption DEF IntOn
  <2> HIDE DEF P, Q, C, D
  <2> QED  BY <2>1, <2>3, <2>4, <2>5, IntOnPart
<1>2. held \in Int /\ wallet[t] + held >= InitialWallet /\ InitialWallet \in Int
  <2>1. held \in Int
    BY <1>1, SumRec
  <2>2. wallet[t] + held >= InitialWallet
    BY Zenon DEF CreditsCover
  <2> QED  BY <2>1, <2>2, ConstantsAssumption
<1>3. \A k \in Keys : /\ k \in P <=> (session[k] # None /\ session[k].sponsor = t)
                      /\ k \in Q <=> (session'[k] # None /\ session'[k].sponsor = t)
  BY DEF PaidBy
<1>c. \A j \in Keys : session'[j] = session[j] /\ lamports'[j] = lamports[j] => D[j] = C[j]
  BY DEF Credits
<1>d. \A k \in Keys : Funded(k)
  BY DEF AccountsFunded
<1>x. \A k \in Keys : C[k] = Credits[k] /\ D[k] = Credits'[k]
  OBVIOUS
<1> HIDE DEF P, Q, C, D, held
<1>4. ASSUME P = Q, wallet'[t] = wallet[t], \A j \in P : D[j] = C[j]
      PROVE  wallet'[t] + SumOver(D, Q) >= InitialWallet
  <2>1. SumOver(D, Q) = held
    BY <1>1, <1>4, SumSame DEF held
  <2> QED  BY <1>2, <1>4, <2>1
<1>5. ASSUME NEW k \in Keys, NEW s \in Sponsors, NEW x \in Int, Moves(k, s, x),
             \A j \in Keys \ {k} : session'[j] = session[j]
      PROVE  /\ \A j \in Keys \ {k} : D[j] = C[j]
             /\ wallet'[s] = wallet[s] + x
             /\ t # s => wallet'[t] = wallet[t]
  <2>1. /\ \A j \in Keys \ {k} : lamports'[j] = lamports[j]
        /\ wallet'[s] = wallet[s] + x
        /\ t # s => wallet'[t] = wallet[t]
    BY <1>5 DEF Moves, IndInv, TypeOK
  <2> QED  BY <1>5, <1>c, <2>1
<1>6. ASSUME NEW k \in Keys, NEW s \in Sponsors, NEW x \in Int, Moves(k, s, x),
             session[k] = None, session'[k] # None, session'[k].sponsor = s,
             Credits'[k] + x >= 0,
             \A j \in Keys \ {k} : session'[j] = session[j]
      PROVE  wallet'[t] + SumOver(D, Q) >= InitialWallet
  <2>1. k \notin P
    BY <1>3, <1>6
  <2>2. \A j \in P : D[j] = C[j]
    BY <1>1, <1>5, <1>6, <2>1
  <2>3. CASE s # t
    <3>1. P = Q
      BY <1>1, <1>3, <1>6, <2>3
    <3> QED  BY <1>4, <1>5, <1>6, <2>2, <2>3, <3>1
  <2>4. CASE s = t
    <3>1. k \in Q /\ Q \ {k} = P
      BY <1>1, <1>3, <1>6, <2>1, <2>4
    <3>2. SumOver(D, Q) = D[k] + SumOver(D, P)
      BY <1>1, <3>1, SumWithout
    <3>3. SumOver(D, P) = held
      BY <1>1, <2>2, SumSame DEF held
    <3> QED  BY <1>1, <1>2, <1>5, <1>6, <1>x, <2>4, <3>2, <3>3
  <2> QED  BY <2>3, <2>4
<1>7. ASSUME NEW k \in Keys, NEW s \in Sponsors, NEW x \in Int, Moves(k, s, x),
             session[k] # None, session[k].sponsor = s,
             session'[k] # None, session'[k].sponsor = s,
             Funded(k) => Credits'[k] + x >= Credits[k],
             \A j \in Keys \ {k} : session'[j] = session[j]
      PROVE  wallet'[t] + SumOver(D, Q) >= InitialWallet
  <2>1. P = Q
    BY <1>1, <1>3, <1>7
  <2>2. CASE s # t
    <3>1. k \notin P
      BY <1>3, <1>7, <2>2
    <3>2. \A j \in P : D[j] = C[j]
      BY <1>1, <1>5, <1>7, <3>1
    <3> QED  BY <1>4, <1>5, <1>7, <2>1, <2>2, <3>2
  <2>3. CASE s = t
    <3>1. k \in P
      BY <1>3, <1>7, <2>3
    <3>2. SumOver(D, P) = held + (D[k] - C[k])
      <4>1. D[k] \in Int /\ \A j \in P \ {k} : D[j] = C[j]
        BY <1>1, <1>5, <1>7
      <4> QED  BY <1>1, <3>1, <4>1, SumUpdate DEF held
    <3>3. D[k] + x >= C[k]
      BY <1>7, <1>d, <1>x
    <3> QED  BY <1>1, <1>2, <1>5, <1>7, <2>1, <2>3, <3>2, <3>3
  <2> QED  BY <2>2, <2>3
<1>8. ASSUME NEW k \in Keys, NEW s \in Sponsors, Moves(k, s, lamports[k]),
             session[k] # None, session[k].sponsor = s,
             Credits[k] = lamports[k], session'[k] = None,
             \A j \in Keys \ {k} : session'[j] = session[j]
      PROVE  wallet'[t] + SumOver(D, Q) >= InitialWallet
  <2>0. /\ \A j \in Keys \ {k} : D[j] = C[j]
        /\ wallet'[s] = wallet[s] + lamports[k]
        /\ t # s => wallet'[t] = wallet[t]
    BY <1>1, <1>5, <1>8
  <2>1. CASE s # t
    <3>1. P = Q /\ k \notin P
      <4>1. k \notin P /\ k \notin Q
        BY <1>3, <1>8, <2>1
      <4>2. \A j \in Keys \ {k} : j \in P <=> j \in Q
        BY <1>3, <1>8
      <4> QED  BY <1>1, <4>1, <4>2
    <3>2. \A j \in P : D[j] = C[j]
      BY <1>1, <2>0, <3>1
    <3> QED  BY <1>4, <2>0, <2>1, <3>1, <3>2
  <2>2. CASE s = t
    <3>1. k \in P /\ P \ {k} = Q
      BY <1>1, <1>3, <1>8, <2>2
    <3>2. held = C[k] + SumOver(C, Q)
      BY <1>1, <3>1, SumWithout DEF held
    <3>3. SumOver(D, Q) = SumOver(C, Q) /\ SumOver(C, Q) \in Int
      <4>1. IntOn(C, Q) /\ \A j \in Q : C[j] = D[j]
        BY <1>1, <2>0, <3>1, IntOnPart
      <4> QED  BY <4>1, SumSame, SumRec
    <3> QED  BY <1>1, <1>2, <1>8, <1>x, <2>0, <2>2, <3>2, <3>3
  <2> QED  BY <2>1, <2>2
<1>9. ASSUME NEW k \in Keys, lamports' = [lamports EXCEPT ![k] = @ + 1],
             UNCHANGED << session, wallet >>
      PROVE  wallet'[t] + SumOver(D, Q) >= InitialWallet
  <2>1. /\ lamports'[k] = lamports[k] + 1
        /\ \A j \in Keys \ {k} : lamports'[j] = lamports[j]
    BY <1>9 DEF IndInv, TypeOK
  <2>2. \A j \in Keys \ {k} : D[j] = C[j]
    BY <1>9, <1>c, <2>1
  <2>3. D[k] >= C[k]
    <3>1. /\ C[k] = IF Closable(session[k]) THEN lamports[k] ELSE RentOf(session[k])
          /\ D[k] = IF Closable(session[k]) THEN lamports'[k] ELSE RentOf(session[k])
      BY <1>9 DEF C, D, Credits, CreditOf, RentOf
    <3>2. C[k] \in Int /\ D[k] \in Int /\ lamports[k] \in Nat
      BY <1>1
    <3> QED  BY <2>1, <3>1, <3>2
  <2>4. P = Q
    BY <1>9 DEF P, Q, PaidBy
  <2>5. CASE k \notin P
    BY <1>1, <1>4, <1>9, <2>2, <2>4, <2>5
  <2>6. CASE k \in P
    <3>1. SumOver(D, P) = held + (D[k] - C[k])
      BY <1>1, <2>2, <2>6, SumUpdate DEF held
    <3> QED  BY <1>1, <1>2, <1>9, <2>3, <2>4, <3>1
  <2> QED  BY <2>5, <2>6
<1>10. ASSUME UNCHANGED accounts
       PROVE  wallet'[t] + SumOver(D, Q) >= InitialWallet
  <2>1. P = Q
    BY <1>10 DEF P, Q, PaidBy, accounts
  <2>2. wallet'[t] = wallet[t] /\ \A j \in P : D[j] = C[j]
    BY <1>1, <1>10, <1>c DEF accounts
  <2> QED  BY <1>4, <2>1, <2>2
<1>11. wallet'[t] + SumOver(D, Q) >= InitialWallet
  BY <1>6, <1>7, <1>8, <1>9, <1>10, RentFrame
<1> QED  BY <1>11 DEF Q, D

(* The one sum is the two of SponsorMadeWhole. *)
LEMMA CreditsAreRent ==
    ASSUME IndInv, CreditsCover
    PROVE  SponsorMadeWhole
<1> SUFFICES ASSUME NEW s \in Sponsors
             PROVE  wallet[s] + SumOver(lamports, {k \in PaidBy(s) : Closable(session[k])})
                        >= InitialWallet - StrandedRent(s)
  BY Zenon DEF SponsorMadeWhole
<1> DEFINE P == PaidBy(s)
           A == {k \in P : Closable(session[k])}
           B == {k \in P : ~ Closable(session[k])}
           C == Credits
           R == [k \in Keys |-> RentOf(session[k])]
<1>1. /\ P \in SUBSET Keys /\ A \in SUBSET P /\ P \ A = B
      /\ A \in SUBSET Keys /\ B \in SUBSET Keys
  BY DEF PaidBy
<1>2. \A k \in Keys : C[k] \in Int
  BY RentTypes, ConstantsAssumption DEF IndInv, Credits, CreditOf, RentOf
<1>3. IntOn(C, Keys)
  BY <1>2, ConstantsAssumption DEF IntOn
<1>4. (\A k \in A : C[k] = lamports[k]) /\ (\A k \in B : C[k] = R[k])
  BY <1>1 DEF Credits, CreditOf
<1>5. wallet[s] + SumOver(C, P) >= InitialWallet
  BY Zenon DEF CreditsCover
<1>6. StrandedRent(s) = SumOver(R, B)
  BY Zenon DEF StrandedRent
<1>7. wallet[s] \in Int /\ InitialWallet \in Int
  BY RentTypes, ConstantsAssumption DEF IndInv
<1> HIDE DEF P, A, B, C, R
<1>8. IntOn(C, P) /\ IntOn(C, A) /\ IntOn(C, B)
  BY <1>1, <1>3, IntOnPart
<1>9. SumOver(C, P) = SumOver(C, A) + SumOver(C, B)
  BY <1>1, <1>8, SumSplit
<1>10. SumOver(C, A) = SumOver(lamports, A) /\ SumOver(C, B) = SumOver(R, B)
  BY <1>4, <1>8, SumSame
<1>11. SumOver(C, A) \in Int /\ SumOver(C, B) \in Int
  BY <1>8, SumRec
<1>12. wallet[s] + SumOver(lamports, A) >= InitialWallet - StrandedRent(s)
  BY <1>5, <1>6, <1>7, <1>9, <1>10, <1>11
<1> QED  BY <1>12 DEF A, P

LEMMA RentInit ==
    ASSUME Init
    PROVE  LamportsConserved /\ AccountsFunded /\ CreditsCover
<1>1. /\ IsFiniteSet(Sponsors) /\ IsFiniteSet(Keys) /\ InitialWallet \in Int
      /\ \A s \in Sponsors : wallet[s] = InitialWallet
      /\ \A k \in Keys : lamports[k] = 0
      /\ donated = 0
  BY ConstantsAssumption DEF Init
<1>2. SumOver(wallet, Sponsors) = Cardinality(Sponsors) * InitialWallet
  BY <1>1, SumOfConstant
<1>3. SumOver(lamports, Keys) = 0
  <2>1. SumOver(lamports, Keys) = Cardinality(Keys) * 0
    BY <1>1, SumOfConstant
  <2> QED  BY <1>1, <2>1, FS_CardinalityType
<1>4. Cardinality(Sponsors) * InitialWallet \in Int
  BY <1>1, FS_CardinalityType
<1>5. LamportsConserved
  BY <1>1, <1>2, <1>3, <1>4 DEF LamportsConserved
<1>6. \A s \in Sponsors : PaidBy(s) = {}
  BY DEF Init, PaidBy
<1>7. SumOver(Credits, {}) = 0
  <2>1. IntOn(Credits, {})
    BY FS_EmptySet DEF IntOn
  <2> QED  BY <2>1, SumRec
<1>8. CreditsCover
  <2>1. \A s \in Sponsors : wallet[s] + SumOver(Credits, PaidBy(s)) >= InitialWallet
    <3> SUFFICES ASSUME NEW s \in Sponsors
                 PROVE  wallet[s] + SumOver(Credits, PaidBy(s)) >= InitialWallet
      OBVIOUS
    <3>1. SumOver(Credits, PaidBy(s)) = 0
      BY <1>6, <1>7
    <3> QED  BY <1>1, <3>1
  <2> QED  BY <2>1, Zenon DEF CreditsCover
<1>9. AccountsFunded
  BY DEF Init, AccountsFunded, Funded
<1> QED  BY <1>5, <1>8, <1>9

(* reallocate_and_refund_rent and close, which write balances by hand,     *)
(* create and destroy no lamports, for any number of sponsors and keys.    *)
THEOREM RentIsConserved == Spec => []LamportsConserved
<1>1. IndInv /\ IndInv' /\ LamportsConserved /\ [Next]_vars => LamportsConserved'
  BY ConservedStep
<1>2. Init => LamportsConserved
  BY RentInit
<1> QED  BY <1>1, <1>2, Invariance, PTL DEF Spec

(* No sponsor loses more than the rent of its sessions that cannot be      *)
(* closed, however its accounts are started, revoked, closed and started   *)
(* again.                                                                  *)
THEOREM SponsorsMadeWhole == Spec => []SponsorMadeWhole
<1> DEFINE Covered == AccountsFunded /\ CreditsCover
<1>1. IndInv /\ IndInv' /\ Covered /\ [Next]_vars => Covered'
  BY FundedStep, CreditsStep
<1>2. Init => Covered
  BY RentInit
<1>3. IndInv /\ Covered => SponsorMadeWhole
  BY CreditsAreRent
<1> QED  BY <1>1, <1>2, <1>3, Invariance, PTL DEF Spec
=============================================================================
