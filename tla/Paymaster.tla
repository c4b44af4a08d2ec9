------------------------------ MODULE Paymaster ------------------------------
(***************************************************************************)
(* The paymaster's sponsor_and_send handler (services/paymaster/src/       *)
(* api.rs), the tasks it spawns, and the two background tasks that replace *)
(* the domain configuration and the wallet balances while requests are     *)
(* being served.                                                           *)
(*                                                                         *)
(* A request validates the transaction of an app user against the          *)
(* configuration of its domain, signs it as fee payer with a wallet of the *)
(* domain and sends it; sending and confirming is module Confirmation.     *)
(* Whether a variation of the configuration accepts a transaction is       *)
(* abstract here (services/paymaster/src/constraint).                      *)
(***************************************************************************)
EXTENDS Confirmation

CONSTANTS
    Requests,       \* calls of sponsor_and_send; they are tasks
    SwapOf,         \* SwapOf[r]: the task that swaps fee tokens after r
    Domains,        \* domain names
    DomainOf,       \* DomainOf[r]: the request's domain
    VariationOf,    \* VariationOf[r]: the variation it names, or AnyVariation
    AnyVariation,   \* no variation was named
    Wallets,        \* fee payers
    PayerOf,        \* PayerOf[x]: fee payer of transaction x
    UserSigned,     \* transactions whose other signatures are valid
    Configs         \* configurations that the database may hold

(* A configuration maps the registered domains to                          *)
(*   sponsors, the wallets derived for the domain,                         *)
(*   preflight, whether transactions are simulated, and                    *)
(*   variations, records of the name, the transactions that pass the       *)
(*   constraints, and whether tokens are swapped afterwards.               *)
Variation(c, r) == {v \in c[DomainOf[r]].variations : VariationOf[r] \in {v.name, AnyVariation}}

ASSUME PaymasterAssumption ==
    /\ Requests \subseteq Tasks
    /\ SwapOf \in [Requests -> Tasks \ (Requests \union Ftl)]
    /\ \A r, s \in Requests : SwapOf[r] = SwapOf[s] => r = s
    /\ DomainOf \in [Requests -> Domains]
    /\ PayerOf \in [Txs -> Wallets]
    /\ Configs # {}
    /\ \A c \in Configs : \A d \in DOMAIN c :
          /\ c[d].preflight \in BOOLEAN
          /\ \A v \in c[d].variations : v.swap \in BOOLEAN

VARIABLES
    domains,        \* the current configuration (ArcSwap)
    lowFunds,       \* wallets whose last known balance is too low
    polled,         \* {c} while the refresher asks for the balances of c
    handler,        \* handler[r]: where the request is, outside of send
    guard,          \* guard[r]: the configuration the request holds
    swap,           \* swap[r]: swap_into_fogo of the matched variation
    answer,         \* answer[r]: the response
    fetched,        \* requests whose transaction cost is fetched afterwards
    seen            \* history: configurations since the request arrived,
                    \* until it is signed

server == << domains, lowFunds, polled >>
requests == << handler, guard, swap, answer, fetched, seen >>
vars == << cvars, server, requests >>

NoConfig == [d \in {} |-> {}]

Init == /\ CInit
        /\ domains \in Configs
        /\ lowFunds = {}
        /\ polled = {}
        /\ handler = [r \in Requests |-> "idle"]
        /\ guard = [r \in Requests |-> NoConfig]
        /\ swap = [r \in Requests |-> FALSE]
        /\ answer = [r \in Requests |-> "none"]
        /\ fetched = {}
        /\ seen = [r \in Requests |-> {}]

-----------------------------------------------------------------------------
(* The response, after which the guard is dropped. *)
Respond(r, a) == /\ handler' = [handler EXCEPT ![r] = "done"]
                 /\ answer' = [answer EXCEPT ![r] = a]
                 /\ guard' = [guard EXCEPT ![r] = NoConfig]
                 /\ seen' = [seen EXCEPT ![r] = {}]

PayerOk(c, r) == PayerOf[TxOf[r]] \in c[DomainOf[r]].sponsors

(* From the arrival to the first await: the domain is registered, the fee  *)
(* payer is not known to be out of funds, and it is one of the sponsors.   *)
Admissible(r) == /\ DomainOf[r] \in DOMAIN domains
                 /\ PayerOf[TxOf[r]] \notin lowFunds
                 /\ PayerOk(domains, r)

Arrive(r) ==
    /\ handler[r] = "idle"
    /\ IF Admissible(r)
       THEN /\ handler' = [handler EXCEPT ![r] = "validate"]
            /\ seen' = [seen EXCEPT ![r] = {domains}]
            /\ guard' = [guard EXCEPT ![r] = domains]
            /\ UNCHANGED answer
       ELSE Respond(r, "refused")
    /\ UNCHANGED << cvars, server, swap, fetched >>

(* Mutant: the configuration is loaded anew for the validation. *)
ReloadedVariations(r) ==
    IF DomainOf[r] \in DOMAIN domains THEN Variation(domains, r) ELSE {}

(* The variations of the configuration the request holds that its          *)
(* transaction may be matched with.                                        *)
Candidates(r) == Variation(guard[r], r)

(* parse and validate_transaction succeed.  Of several variations that     *)
(* match, the one whose validation ends first is taken.  The sponsor signs *)
(* and the transaction is sent.                                            *)
Validated(r) ==
    /\ handler[r] = "validate"
    /\ TxOf[r] \in UserSigned
    /\ \E v \in Candidates(r) :
          /\ TxOf[r] \in v.accepts
          /\ swap' = [swap EXCEPT ![r] = v.swap]
    /\ handler' = [handler EXCEPT ![r] = "sending"]
    /\ Begin(r, guard[r][DomainOf[r]].preflight)
    /\ UNCHANGED << server, guard, answer, fetched, seen >>

(* No variation accepts the transaction, or a lookup table it uses cannot  *)
(* be read.                                                                *)
Rejected(r) ==
    /\ handler[r] = "validate"
    /\ Respond(r, "refused")
    /\ UNCHANGED << cvars, server, swap, fetched >>

(* The response says Failed also if the transaction was never sent. *)
ConfirmationResult(s) == IF s = "preflight" THEN "failed" ELSE s

(* Mutant: the swap does not depend on the confirmation. *)
SwapAlways(r) == TRUE

(* The signature to look at afterwards: that of a confirmed transaction. *)
Confirmed(r) == result[r] \in {"success", "failed"}

(* Sending has returned: the cost of a transaction that was confirmed is   *)
(* fetched in the background, the swap is spawned, and the request is      *)
(* answered.                                                               *)
Sent(r) ==
    /\ handler[r] = "sending"
    /\ pc[r] = "returned"
    /\ fetched' = fetched \union {q \in {r} : Confirmed(q)}
    /\ swap' = [swap EXCEPT ![r] = @ /\ Confirmed(r)]
    /\ Respond(r, ConfirmationResult(result[r]))
    /\ UNCHANGED << cvars, server >>

(* swap_token: the rate is sampled and Valiant makes a transaction, or     *)
(* not.                                                                    *)
StartSwap(r) == /\ handler[r] = "done"
                /\ swap[r]
                /\ swap' = [swap EXCEPT ![r] = FALSE]
                /\ Begin(SwapOf[r], FALSE)
                /\ UNCHANGED << server, handler, guard, answer, fetched, seen >>

SkipSwap(r) == /\ handler[r] = "done"
               /\ swap[r]
               /\ swap' = [swap EXCEPT ![r] = FALSE]
               /\ UNCHANGED << cvars, server, handler, guard, answer, fetched, seen >>

-----------------------------------------------------------------------------
(* spawn_config_refresher; when loading fails the configuration stays. *)
RefreshConfig(c) ==
    /\ domains' = c
    /\ seen' = [r \in Requests |-> IF handler[r] = "validate" THEN seen[r] \union {c} ELSE seen[r]]
    /\ UNCHANGED << cvars, lowFunds, polled, handler, guard, swap, answer, fetched >>

(* spawn_balances_refresher: load the wallets, ask the node, store what it *)
(* said, or an empty map if it did not answer.                             *)
PollBalances ==
    /\ polled = {}
    /\ polled' = {domains}
    /\ UNCHANGED << cvars, domains, lowFunds, requests >>

StoreBalances(low) ==
    /\ \E c \in polled : low \subseteq UNION {c[d].sponsors : d \in DOMAIN c}
    /\ lowFunds' = low
    /\ polled' = {}
    /\ UNCHANGED << cvars, domains, requests >>

HandlerStep(r) == Arrive(r) \/ Validated(r) \/ Rejected(r) \/ Sent(r)

Next ==
    \/ \E r \in Requests : HandlerStep(r) \/ StartSwap(r) \/ SkipSwap(r)
    \/ (\E t \in Tasks : TimedStep(t) \/ ServerStep(t)) /\ UNCHANGED << server, requests >>
    \/ Environment /\ UNCHANGED << server, requests >>
    \/ \E c \in Configs : RefreshConfig(c)
    \/ PollBalances
    \/ \E low \in SUBSET Wallets : StoreBalances(low)

Spec == Init /\ [][Next]_vars

-----------------------------------------------------------------------------
(* A sponsor signs only what one configuration, current at some moment of  *)
(* the request, allows as a whole: it lists the wallet as a sponsor of the *)
(* domain and accepts the transaction.  The configuration may be replaced  *)
(* at every await between the two checks.                                  *)
SignedUnderOneConfig ==
    \A r \in Requests :
        handler[r] = "sending" =>
            \E c \in seen[r] : /\ DomainOf[r] \in DOMAIN c
                               /\ PayerOk(c, r)
                               /\ \E v \in Variation(c, r) : TxOf[r] \in v.accepts

(* The paymaster swaps the fee tokens of a wallet only after the           *)
(* transaction that may have paid them has landed, never after one that    *)
(* failed preflight or whose fate is unknown.                              *)
SwapFollowsLanding ==
    \A r \in Requests : pc[SwapOf[r]] # "idle" => Landed(TxOf[r])

(* What the comment in sponsor_and_send_handler says of the cost lookup:   *)
(* "Only fetch if the transaction actually succeeded on chain".            *)
FetchedOnlyIfSucceeded == \A r \in fetched : chain[TxOf[r]] = "ok"
=============================================================================
