---------------------------- MODULE SessionClient ----------------------------
(***************************************************************************)
(* The TypeScript SDK (sessions-sdk-ts): one connection with its caches,   *)
(* the contexts created over it, the calls an application has in flight,   *)
(* and, outside the SDK, the paymaster, the session accounts and the       *)
(* domain registry that those calls read and change.                       *)
(*                                                                         *)
(* sponsorCache  the connection's sponsor of each paymaster domain         *)
(* tableCache    the address lookup table has been loaded                  *)
(* fetches       getSponsor requests on their way; an answer fills the     *)
(*               cache even when the caller has given up                   *)
(* raced         history: the domains whose sponsor was requested while    *)
(*               another request for it was on its way                     *)
(* contexts      createSessionContext, with the two sponsors it captured   *)
(* calls         establishSession, revokeSession, sendTransaction, ...     *)
(* sessions      session objects the application holds                     *)
(***************************************************************************)
EXTENDS Naturals, FiniteSets

CONSTANTS
  Contexts,      \* contexts created over the connection
  Calls,         \* slots for calls in flight
  Keys,          \* session keys
  Sponsors,      \* wallets the paymaster may assign
  Programs,      \* programs the domain registry may list
  Apps,          \* applications, see App
  MaxTime,       \* bound: the clock
  MaxFee,        \* bound: the paymaster's fee
  None

AllOps == {"establish", "reestablish", "revoke", "send", "prebuilt",
           "transfer", "direct", "login"}

ASSUME ClientAssumption ==
  /\ None \notin Contexts \cup Calls \cup Keys \cup Sponsors
  /\ Contexts \cap Calls = {}
  /\ Sponsors # {}
  /\ MaxTime \in Nat
  /\ MaxFee \in Nat

(* An application: the operations it uses, the contexts it creates, the     *)
(* sponsors of its domain, the sponsor option of its connection (given      *)
(* together with a sendToPaymaster function of its own, or None), the       *)
(* programs its domain may list, the minor versions of the sessions that    *)
(* exist when it starts, and how far the clock and the fee move.            *)
App ==
  [ops : SUBSET AllOps, contexts : SUBSET Contexts, sponsors : (SUBSET Sponsors) \ {{}},
   sponsor : Sponsors \cup {None}, programs : SUBSET Programs,
   old : SUBSET (1 .. 4), time : 0 .. MaxTime, fee : 0 .. MaxFee]

ASSUME AppsAssumption == Apps \subseteq App

VARIABLES app, sponsorCache, tableCache, fetches, raced, contexts, calls,
          sessions, chain, registry, live, fee, tokens, now

client == <<sponsorCache, tableCache, fetches, raced, contexts, calls,
            sessions, tokens>>
vars == <<app, client, chain, registry, live, fee, now>>

-----------------------------------------------------------------------------
(* Session accounts, as the SDK reads them *)

SessionAccount ==
  [state : {"none", "active", "revoked"}, minor : 1 .. 4,
   programs : SUBSET Programs, expires : 0 .. MaxTime]

NoAccount == [state |-> "none", minor |-> 4, programs |-> {}, expires |-> 0]

(* Mutant: the Revoked variants of the account are taken for sessions. *)
RevokedIsASession(acc) == acc.state # "none"

(* sessionInfoSchema: V1, and the Active variant of V2, V3 and V4, give the *)
(* session; a Revoked variant and a missing account give undefined.         *)
sessionInfoSchema(acc) == acc.state = "active"

(* authorizedProgramsMatchDomainRegistry: every program of the domain's     *)
(* record is one the session was started with (sessions of this SDK always  *)
(* list their programs).                                                    *)
authorizedProgramsMatchDomainRegistry(acc, listed) == listed \subseteq acc.programs

(* A session that no backend should accept any more. *)
Dead(k) == chain[k].state # "active" \/ chain[k].expires < now

-----------------------------------------------------------------------------
(* Calls in flight *)

Idle == [op |-> "idle", st |-> "idle", ctx |-> None, key |-> None,
         payer |-> None, sponsor |-> None, wait |-> {}, toll |-> 0,
         asks |-> FALSE, own |-> FALSE, got |-> FALSE, read |-> NoAccount,
         listed |-> {}, dead |-> FALSE, result |-> "none"]

Call ==
  [op : AllOps \cup {"idle"},
   st : {"idle", "sign", "build", "post", "answer", "read", "compare", "done"},
   ctx : Contexts \cup {None}, key : Keys \cup {None},
   payer : Sponsors \cup {None},      \* fee payer of the transaction
   sponsor : Sponsors \cup {None},    \* sponsor account of its instruction
   wait : SUBSET {"sponsor", "table", "fee", "account", "registry"},
   toll : 0 .. MaxFee,                \* what its tollbooth instruction pays
   asks : BOOLEAN,                    \* a variation and a fee mint are given
   own : BOOLEAN,                     \* the caller added one of its own
   got : BOOLEAN,                     \* the transaction succeeded
   read : SessionAccount, listed : SUBSET Programs,
   dead : BOOLEAN,                    \* history: see DeadSessionNoLogin
   result : {"none", "success", "failed", "threw", "undefined", "valid"}]

Context ==
  [st : {"none", "sponsors", "chainId", "ready"},
   payer : Sponsors \cup {None}, internal : Sponsors \cup {None}]

NoContext == [st |-> "none", payer |-> None, internal |-> None]

PaymasterDomains == {"app", "sessions"}

(* The paymaster domain of a call: transfers go to the internal one. *)
DomainOf(op) == IF op = "transfer" THEN "sessions" ELSE "app"

Fetch == [who : Contexts \cup Calls, domain : PaymasterDomains]

Settle(c, result) ==
  calls' = [calls EXCEPT ![c] = [Idle EXCEPT !.op = calls[c].op, !.st = "done",
                                 !.dead = calls[c].dead, !.result = result]]

-----------------------------------------------------------------------------
(* getSponsor *)

(* Mutant: the answers are not cached. *)
AskEveryTime(d) == None

(* The cached sponsor of a domain, or None when it must be fetched. *)
getSponsor(d) == sponsorCache[d]

(* The requests that a caller adds for the domains ds. *)
Requests(who, ds) ==
  {[who |-> who, domain |-> d] : d \in {e \in ds : getSponsor(e) = None}}

(* They are sent whether or not a request for the domain is on its way. *)
AddRequests(rs) ==
  /\ fetches' = fetches \cup rs
  /\ raced' = raced \cup {r.domain : r \in {q \in rs :
                             \E f \in fetches : f.domain = q.domain}}

(* createSessionContext: both sponsors are requested at once, also when the *)
(* connection has a sponsor of its own.                                     *)
CreateContext(x) ==
  /\ contexts[x].st = "none"
  /\ \A f \in fetches : f.who # x
  /\ contexts' = [contexts EXCEPT ![x] =
       [st |-> IF Requests(x, PaymasterDomains) = {} THEN "chainId" ELSE "sponsors",
        payer |-> getSponsor("app"), internal |-> getSponsor("sessions")]]
  /\ AddRequests(Requests(x, PaymasterDomains))
  /\ UNCHANGED <<sponsorCache, tableCache, calls, sessions, tokens,
                 chain, registry, live, fee, now, app>>

(* The context takes the sponsor s of domain d. *)
TakeInContext(x, d, s) ==
  LET y == IF d = "app" THEN [contexts[x] EXCEPT !.payer = s]
                        ELSE [contexts[x] EXCEPT !.internal = s]
  IN contexts' = [contexts EXCEPT ![x] =
       [y EXCEPT !.st = IF y.payer # None /\ y.internal # None THEN "chainId" ELSE @]]

(* The call takes the sponsor s as its fee payer. *)
TakeInCall(c, s) ==
  calls' = [calls EXCEPT ![c].payer = s, ![c].wait = @ \ {"sponsor"}]

(* Status 200: the paymaster assigns one of its sponsors, which is cached   *)
(* for the domain and returned to the caller, if it still waits.            *)
SponsorAnswers(f, s) ==
  /\ f \in fetches
  /\ s \in live
  /\ fetches' = fetches \ {f}
  /\ sponsorCache' = [sponsorCache EXCEPT ![f.domain] = s]
  /\ \/ /\ f.who \in Contexts
        /\ contexts[f.who].st = "sponsors"
        /\ TakeInContext(f.who, f.domain, s)
        /\ UNCHANGED calls
     \/ /\ f.who \in Calls
        /\ "sponsor" \in calls[f.who].wait
        /\ TakeInCall(f.who, s)
        /\ UNCHANGED contexts
     \/ /\ f.who \in Contexts => contexts[f.who].st # "sponsors"
        /\ f.who \in Calls => "sponsor" \notin calls[f.who].wait
        /\ UNCHANGED <<calls, contexts>>
  /\ UNCHANGED <<tableCache, raced, sessions, tokens, chain, registry, live, fee, now, app>>

(* Mutant: the text of an error response is cached as if it were a key. *)
SponsorErrorCached(f) ==
  /\ f \in fetches
  /\ fetches' = fetches \ {f}
  /\ sponsorCache' = [sponsorCache EXCEPT ![f.domain] = "error"]
  /\ IF f.who \in Contexts
     THEN contexts' = [contexts EXCEPT ![f.who] = NoContext] /\ UNCHANGED calls
     ELSE Settle(f.who, "threw") /\ UNCHANGED contexts
  /\ UNCHANGED <<tableCache, raced, sessions, tokens, chain, registry, live, fee, now, app>>

(* Any other status, or no answer: the caller's promise rejects and nothing *)
(* is cached.                                                               *)
SponsorFails(f) ==
  /\ f \in fetches
  /\ fetches' = fetches \ {f}
  /\ \/ /\ f.who \in Contexts
        /\ contexts' = [contexts EXCEPT ![f.who] =
                          IF @.st = "sponsors" THEN NoContext ELSE @]
        /\ UNCHANGED calls
     \/ /\ f.who \in Calls
        /\ IF "sponsor" \in calls[f.who].wait
           THEN Settle(f.who, "threw") ELSE UNCHANGED calls
        /\ UNCHANGED contexts
  /\ UNCHANGED <<sponsorCache, tableCache, raced, sessions, tokens,
                 chain, registry, live, fee, now, app>>

(* fetchChainId, the last await of createSessionContext. *)
FetchChainId(x) ==
  /\ contexts[x].st = "chainId"
  /\ \E c \in {[contexts[x] EXCEPT !.st = "ready"], NoContext} :
        contexts' = [contexts EXCEPT ![x] = c]
  /\ UNCHANGED <<sponsorCache, tableCache, fetches, raced, calls, sessions, tokens,
                 chain, registry, live, fee, now, app>>

-----------------------------------------------------------------------------
(* Starting a call *)

Usable(c) == calls[c].st \in {"idle", "done"} /\ \A f \in fetches : f.who # c

UsedKeys == {calls[c].key : c \in Calls}

(* buildTransaction's fee payer: the connection's own sponsor, or that of   *)
(* the paymaster domain, None while it has to be fetched.                   *)
FeePayer(op) == IF app.sponsor # None THEN app.sponsor ELSE getSponsor(DomainOf(op))

(* buildTransaction asks at once for the fee payer, the lookup table (if    *)
(* none is given there is nothing to wait for: GetAddressLookupTable) and,  *)
(* when a variation and a fee mint are given, the fee.                      *)
StartBuild(c, r) ==
  /\ calls' = [calls EXCEPT ![c] =
       [r EXCEPT !.st = "build", !.payer = FeePayer(r.op),
                 !.wait = (IF FeePayer(r.op) = None THEN {"sponsor"} ELSE {})
                     \cup (IF tableCache THEN {} ELSE {"table"})
                     \cup (IF r.asks THEN {"fee"} ELSE {})]]
  /\ AddRequests(IF app.sponsor # None THEN {} ELSE Requests(c, {DomainOf(r.op)}))

Begin(c, op, x, k) == [Idle EXCEPT !.op = op, !.ctx = x, !.key = k]

(* establishSession: a new key; the limits of 0 are dropped; the wallet is  *)
(* asked to sign the intent.                                                *)
EstablishSession(c, x, k) ==
  /\ "establish" \in app.ops
  /\ Usable(c)
  /\ contexts[x].st = "ready"
  /\ chain[k].state = "none" /\ k \notin UsedKeys
  /\ calls' = [calls EXCEPT ![c] = [Begin(c, "establish", x, k) EXCEPT !.st = "sign"]]
  /\ UNCHANGED <<sponsorCache, tableCache, fetches, raced, contexts, sessions, tokens,
                 chain, registry, live, fee, now, app>>

(* The wallet signs: buildStartSessionInstruction names the context's payer *)
(* as the sponsor of the session.                                           *)
BuildStartSession(c) ==
  /\ calls[c].st = "sign"
  /\ StartBuild(c, [calls[c] EXCEPT !.sponsor = contexts[calls[c].ctx].payer])
  /\ UNCHANGED <<sponsorCache, tableCache, contexts, sessions, tokens,
                 chain, registry, live, fee, now, app>>

SignatureRefused(c) ==
  /\ calls[c].st = "sign"
  /\ Settle(c, "threw")
  /\ UNCHANGED <<sponsorCache, tableCache, fetches, raced, contexts, sessions, tokens,
                 chain, registry, live, fee, now, app>>

(* revokeSession: a session of minor version 1 is left alone. *)
RevokeSession(c, k) ==
  /\ "revoke" \in app.ops
  /\ Usable(c)
  /\ sessions[k] # None
  /\ IF chain[k].minor >= 2
     THEN StartBuild(c, Begin(c, "revoke", sessions[k], k))
     ELSE /\ calls' = [calls EXCEPT ![c] = [Idle EXCEPT !.op = "revoke", !.st = "done",
                                                       !.result = "undefined"]]
          /\ UNCHANGED <<fetches, raced>>
  /\ UNCHANGED <<sponsorCache, tableCache, contexts, sessions, tokens,
                 chain, registry, live, fee, now, app>>

(* sendTransfer, sendNativeTransfer, bridgeOut: the sponsor account is the  *)
(* context's internalPayer, and the internal paymaster domain is used.      *)
SendTransfer(c, x) ==
  /\ "transfer" \in app.ops
  /\ Usable(c)
  /\ contexts[x].st = "ready"
  /\ StartBuild(c, [Begin(c, "transfer", x, None)
                      EXCEPT !.sponsor = contexts[x].internal])
  /\ UNCHANGED <<sponsorCache, tableCache, contexts, sessions, tokens,
                 chain, registry, live, fee, now, app>>

(* connection.sendToPaymaster, which needs no context (nor a session key). *)
SendToPaymaster(c, asks) ==
  /\ "direct" \in app.ops
  /\ Usable(c)
  /\ StartBuild(c, [Begin(c, "direct", None, None) EXCEPT !.asks = asks])
  /\ UNCHANGED <<sponsorCache, tableCache, contexts, sessions, tokens,
                 chain, registry, live, fee, now, app>>

(* session.sendTransaction with instructions, a variation and a fee mint or *)
(* without; the caller may have added a tollbooth instruction for the fee   *)
(* it asked for (getPaymasterFee).                                          *)
SendTransaction(c, k, asks, own) ==
  /\ "send" \in app.ops
  /\ Usable(c)
  /\ sessions[k] # None
  /\ StartBuild(c, [Begin(c, "send", sessions[k], k)
                      EXCEPT !.asks = asks, !.own = own, !.toll = IF own THEN fee ELSE 0])
  /\ UNCHANGED <<sponsorCache, tableCache, contexts, sessions, tokens,
                 chain, registry, live, fee, now, app>>

(* session.sendTransaction with a transaction built for session.payer: only *)
(* signatures are added.                                                    *)
AddSignaturesToExistingTransaction(c, k) ==
  /\ "prebuilt" \in app.ops
  /\ Usable(c)
  /\ sessions[k] # None
  /\ calls' = [calls EXCEPT ![c] =
       [Begin(c, "prebuilt", sessions[k], k)
          EXCEPT !.st = "post", !.payer = contexts[sessions[k]].payer,
                 !.toll = fee]]
  /\ UNCHANGED <<sponsorCache, tableCache, fetches, raced, contexts, sessions, tokens,
                 chain, registry, live, fee, now, app>>

(* reestablishSession: no transaction, only the two reads of createSession. *)
ReestablishSession(c, x, k) ==
  /\ "reestablish" \in app.ops
  /\ Usable(c)
  /\ contexts[x].st = "ready"
  /\ chain[k].state # "none"
  /\ calls' = [calls EXCEPT ![c] =
       [Begin(c, "reestablish", x, k)
          EXCEPT !.st = "read", !.wait = {"account", "registry"}]]
  /\ UNCHANGED <<sponsorCache, tableCache, fetches, raced, contexts, sessions, tokens,
                 chain, registry, live, fee, now, app>>

-----------------------------------------------------------------------------
(* buildTransaction and sendToPaymaster *)

(* getAddressLookupTable: only a table that exists is cached; a call for    *)
(* which no table is given goes on without one.                             *)
GetAddressLookupTable(c) ==
  /\ calls[c].st = "build" /\ "table" \in calls[c].wait
  /\ calls' = [calls EXCEPT ![c].wait = @ \ {"table"}]
  /\ tableCache' \in {tableCache, TRUE}
  /\ UNCHANGED <<sponsorCache, fetches, raced, contexts, sessions, tokens,
                 chain, registry, live, fee, now, app>>

(* A tollbooth instruction for a fee above 0 if a session pays it, unless   *)
(* the caller's own is there.                                               *)
buildTollboothInstructionIfNeeded(r) ==
  IF r.own THEN r.toll ELSE IF r.key = None THEN 0 ELSE fee

GetPaymasterFee(c) ==
  /\ calls[c].st = "build" /\ "fee" \in calls[c].wait
  /\ calls' = [calls EXCEPT ![c].wait = @ \ {"fee"},
                            ![c].toll = buildTollboothInstructionIfNeeded(calls[c])]
  /\ UNCHANGED <<sponsorCache, tableCache, fetches, raced, contexts, sessions, tokens,
                 chain, registry, live, fee, now, app>>

(* The transaction is signed and posted once everything is there. *)
BuildTransaction(c) ==
  /\ calls[c].st = "build" /\ calls[c].wait = {}
  /\ calls' = [calls EXCEPT ![c].st = "post"]
  /\ UNCHANGED <<sponsorCache, tableCache, fetches, raced, contexts, sessions, tokens,
                 chain, registry, live, fee, now, app>>

(* One of the requests of buildTransaction fails. *)
BuildFails(c) ==
  /\ calls[c].st = "build"
  /\ Settle(c, "threw")
  /\ UNCHANGED <<sponsorCache, tableCache, fetches, raced, contexts, sessions, tokens,
                 chain, registry, live, fee, now, app>>

(* The paymaster's validation, and that of an application's own sender: a   *)
(* fee payer it holds the key of, every other signature present (it adds    *)
(* only the fee payer's, so an instruction whose sponsor is someone else    *)
(* lacks one) and, if the variation has a fee, what it asks for now.        *)
Accepts(r, charged) ==
  /\ IF app.sponsor # None THEN r.payer = app.sponsor ELSE r.payer \in live
  /\ r.sponsor \in {None, r.payer}
  /\ charged /\ app.sponsor = None => r.toll >= fee

(* Whether the variation that the transaction falls under has a fee: the    *)
(* templates of establishing and revoking have none, and those of transfers *)
(* (which pay in their own way) are taken to have none.                     *)
Charged(op) == IF op \in {"send", "prebuilt", "direct"} THEN BOOLEAN ELSE {FALSE}

PaymasterRejects(c) ==
  /\ calls[c].st = "post"
  /\ \E charged \in Charged(calls[c].op) : ~Accepts(calls[c], charged)
  /\ Settle(c, "threw")
  /\ UNCHANGED <<sponsorCache, tableCache, fetches, raced, contexts, sessions, tokens,
                 chain, registry, live, fee, now, app>>

(* The transaction executes: start_session creates the account for the      *)
(* programs listed now, revoke_session revokes it.                          *)
Executes(c) ==
  /\ calls[c].st = "post"
  /\ \E charged \in Charged(calls[c].op) : Accepts(calls[c], charged)
  /\ \/ /\ calls[c].op = "establish"
        /\ \E e \in now .. app.time :
             chain' = [chain EXCEPT ![calls[c].key] =
                         [state |-> "active", minor |-> 4,
                          programs |-> registry, expires |-> e]]
     \/ /\ calls[c].op = "revoke" /\ chain[calls[c].key].state = "active"
        /\ chain' = [chain EXCEPT ![calls[c].key].state = "revoked"]
     \/ /\ calls[c].op \in {"send", "prebuilt", "transfer", "direct"}
        /\ UNCHANGED chain
  /\ calls' = [calls EXCEPT ![c].st = "answer", ![c].got = TRUE]
  /\ UNCHANGED <<sponsorCache, tableCache, fetches, raced, contexts, sessions, tokens,
                 registry, live, fee, now, app>>

(* The transaction is sponsored but fails on chain. *)
ExecutionFails(c) ==
  /\ calls[c].st = "post"
  /\ \E charged \in Charged(calls[c].op) : Accepts(calls[c], charged)
  /\ calls' = [calls EXCEPT ![c].st = "answer"]
  /\ UNCHANGED <<sponsorCache, tableCache, fetches, raced, contexts, sessions, tokens,
                 chain, registry, live, fee, now, app>>

(* The response arrives: sendSessionEstablishTransaction goes on to read    *)
(* the new session, the other calls return the result.                      *)
PaymasterAnswers(c) ==
  /\ calls[c].st = "answer"
  /\ IF calls[c].op = "establish" /\ calls[c].got
     THEN calls' = [calls EXCEPT ![c].st = "read",
                                 ![c].wait = {"account", "registry"}]
     ELSE Settle(c, IF calls[c].got THEN "success" ELSE "failed")
  /\ UNCHANGED <<sponsorCache, tableCache, fetches, raced, contexts, sessions, tokens,
                 chain, registry, live, fee, now, app>>

(* The response is lost, or is a failure the response schema refuses. *)
AnswerLost(c) ==
  /\ calls[c].st = "answer"
  /\ Settle(c, "threw")
  /\ UNCHANGED <<sponsorCache, tableCache, fetches, raced, contexts, sessions, tokens,
                 chain, registry, live, fee, now, app>>

-----------------------------------------------------------------------------
(* createSession *)

GetSessionAccount(c) ==
  /\ calls[c].st = "read" /\ "account" \in calls[c].wait
  /\ calls' = [calls EXCEPT ![c].wait = @ \ {"account"},
                            ![c].read = chain[calls[c].key]]
  /\ UNCHANGED <<sponsorCache, tableCache, fetches, raced, contexts, sessions, tokens,
                 chain, registry, live, fee, now, app>>

GetDomainRegistryAuthorizedPrograms(c) ==
  /\ calls[c].st = "read" /\ "registry" \in calls[c].wait
  /\ calls' = [calls EXCEPT ![c].wait = @ \ {"registry"}, ![c].listed = registry]
  /\ UNCHANGED <<sponsorCache, tableCache, fetches, raced, contexts, sessions, tokens,
                 chain, registry, live, fee, now, app>>

(* Both reads are in: a session object, or undefined (for establishSession  *)
(* the error "the session was not created").                                *)
CreateSession(c) ==
  /\ calls[c].op # "login" /\ calls[c].st = "read" /\ calls[c].wait = {}
  /\ LET r  == calls[c]
         ok == /\ sessionInfoSchema(r.read)
               /\ authorizedProgramsMatchDomainRegistry(r.read, r.listed)
     IN /\ sessions' = IF ok THEN [sessions EXCEPT ![r.key] = r.ctx] ELSE sessions
        /\ Settle(c, IF ok THEN "success"
                     ELSE IF r.op = "establish" THEN "failed" ELSE "undefined")
  /\ UNCHANGED <<sponsorCache, tableCache, fetches, raced, contexts, tokens,
                 chain, registry, live, fee, now, app>>

-----------------------------------------------------------------------------
(* Login tokens *)

(* createLogInToken: signed with the session key, with no expiry of its own *)
CreateLogInToken(k) ==
  /\ "login" \in app.ops
  /\ sessions[k] # None
  /\ tokens' = tokens \cup {k}
  /\ UNCHANGED <<sponsorCache, tableCache, fetches, raced, contexts, calls, sessions,
                 chain, registry, live, fee, now, app>>

(* verifyLogInToken up to getSessionAccount: a signature that is not the    *)
(* session key's gives undefined.                                           *)
VerifyLogInToken(c, k, genuine) ==
  /\ "login" \in app.ops
  /\ Usable(c)
  /\ k \in tokens
  /\ calls' = [calls EXCEPT ![c] =
       IF genuine THEN [Begin(c, "login", None, k)
                          EXCEPT !.st = "read", !.wait = {"account"}, !.dead = Dead(k)]
       ELSE [Idle EXCEPT !.op = "login", !.st = "done", !.result = "undefined"]]
  /\ UNCHANGED <<sponsorCache, tableCache, fetches, raced, contexts, sessions, tokens,
                 chain, registry, live, fee, now, app>>

(* Mutant: the expiry is not looked at. *)
LogInTokenReturnsExpired(c) ==
  /\ calls[c].op = "login" /\ calls[c].st = "read" /\ calls[c].wait = {}
  /\ Settle(c, IF sessionInfoSchema(calls[c].read) THEN "valid" ELSE "undefined")
  /\ UNCHANGED <<sponsorCache, tableCache, fetches, raced, contexts, sessions, tokens,
                 chain, registry, live, fee, now, app>>

(* The rest: no session gives undefined, a session past its expiry throws.  *)
LogInTokenReturns(c) ==
  /\ calls[c].op = "login" /\ calls[c].st = "read" /\ calls[c].wait = {}
  /\ Settle(c, IF ~sessionInfoSchema(calls[c].read) THEN "undefined"
               ELSE IF calls[c].read.expires < now THEN "threw" ELSE "valid")
  /\ UNCHANGED <<sponsorCache, tableCache, fetches, raced, contexts, sessions, tokens,
                 chain, registry, live, fee, now, app>>

-----------------------------------------------------------------------------
(* The world outside *)

Tick ==
  /\ now < app.time
  /\ now' = now + 1
  /\ UNCHANGED <<client, chain, registry, live, fee, app>>

RegistryChanges ==
  /\ registry' \in SUBSET app.programs
  /\ UNCHANGED <<client, chain, live, fee, now, app>>

(* The paymaster's configuration changes: other sponsors, or another fee. *)
SponsorsChange ==
  /\ live' \in (SUBSET app.sponsors) \ {{}}
  /\ UNCHANGED <<client, chain, registry, fee, now, app>>

FeeChanges ==
  /\ fee' \in 0 .. app.fee
  /\ UNCHANGED <<client, chain, registry, live, now, app>>

-----------------------------------------------------------------------------
Init ==
  /\ app \in Apps
  /\ sponsorCache = [d \in PaymasterDomains |-> None]
  /\ tableCache = FALSE
  /\ fetches = {}
  /\ raced = {}
  /\ contexts = [x \in Contexts |-> NoContext]
  /\ calls = [c \in Calls |-> Idle]
  /\ sessions = [k \in Keys |-> None]
  /\ chain \in [Keys -> {NoAccount} \cup
                 [state : {"active"}, minor : app.old, programs : {{}, app.programs},
                  expires : 0 .. app.time]]
  /\ registry = app.programs
  /\ live = app.sponsors
  /\ fee = 0
  /\ tokens = {}
  /\ now = 0

ContextStep ==
  \/ \E x \in app.contexts : CreateContext(x) \/ FetchChainId(x)
  \/ \E f \in fetches : SponsorFails(f) \/ \E s \in live : SponsorAnswers(f, s)

StartStep(c) ==
  \/ \E x \in Contexts, k \in Keys : EstablishSession(c, x, k) \/ ReestablishSession(c, x, k)
  \/ \E x \in Contexts : SendTransfer(c, x)
  \/ \E k \in Keys : RevokeSession(c, k) \/ AddSignaturesToExistingTransaction(c, k)
  \/ \E k \in Keys, genuine \in BOOLEAN : VerifyLogInToken(c, k, genuine)
  \/ \E asks \in BOOLEAN : \/ SendToPaymaster(c, asks)
                           \/ \E k \in Keys, own \in BOOLEAN :
                                SendTransaction(c, k, asks, own)

CallStep(c) ==
  \/ BuildStartSession(c) \/ SignatureRefused(c)
  \/ GetAddressLookupTable(c) \/ GetPaymasterFee(c)
  \/ BuildTransaction(c) \/ BuildFails(c)
  \/ PaymasterRejects(c) \/ Executes(c) \/ ExecutionFails(c)
  \/ PaymasterAnswers(c) \/ AnswerLost(c)
  \/ GetSessionAccount(c) \/ GetDomainRegistryAuthorizedPrograms(c)
  \/ CreateSession(c) \/ LogInTokenReturns(c)

Environment == Tick \/ RegistryChanges \/ SponsorsChange \/ FeeChanges

Next ==
  \/ ContextStep
  \/ \E c \in Calls : StartStep(c) \/ CallStep(c)
  \/ \E k \in Keys : CreateLogInToken(k)
  \/ Environment

Spec == Init /\ [][Next]_vars

-----------------------------------------------------------------------------
(* Properties *)

(* Type invariant; in particular the sponsor cache never holds anything but *)
(* a sponsor the paymaster answered (getSponsor's error path caches nothing) *)
SCTypeOK ==
  /\ app \in Apps
  /\ sponsorCache \in [PaymasterDomains -> Sponsors \cup {None}]
  /\ tableCache \in BOOLEAN
  /\ fetches \subseteq Fetch
  /\ raced \subseteq PaymasterDomains
  /\ contexts \in [Contexts -> Context]
  /\ calls \in [Calls -> Call]
  /\ sessions \in [Keys -> Contexts \cup {None}]
  /\ chain \in [Keys -> SessionAccount]
  /\ registry \subseteq Programs
  /\ live \subseteq Sponsors
  /\ fee \in 0 .. MaxFee
  /\ tokens \subseteq Keys
  /\ now \in 0 .. MaxTime

(* A transaction whose instruction names a sponsor account (start_session,  *)
(* the transfers) has that sponsor as its fee payer.  The two come from     *)
(* different places: the account from the context, captured when it was     *)
(* created, the fee payer from the connection's cache when the transaction  *)
(* is built; the paymaster assigns another sponsor to every request, and it *)
(* signs for the fee payer alone.  There are two exceptions, and no others: *)
(* the sponsor of that domain was once requested while another request for  *)
(* it was on its way (getSponsor does not share a request in flight), and a *)
(* connection with a sponsor of its own, which its contexts do not ask for. *)
PayerIsFeePayer ==
  \A c \in Calls : calls[c].st \in {"post", "answer"} =>
     \/ calls[c].sponsor \in {None, calls[c].payer}
     \/ DomainOf(calls[c].op) \in raced
     \/ app.sponsor # None

(* verifyLogInToken never accepts the token of a session that was already   *)
(* revoked, or past its expiry, when the verification began: the token      *)
(* itself never expires, so logging out must end every login made with it.  *)
DeadSessionNoLogin ==
  \A c \in Calls : calls[c].result = "valid" => ~calls[c].dead
=============================================================================
