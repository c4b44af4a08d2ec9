----------------------------- MODULE SignedIntent -----------------------------
(***************************************************************************)
(* The messages a wallet signs to start a session, as the session manager  *)
(* program reads them (programs/session-manager/src/message.rs, and the    *)
(* token section resolved by src/token/approve.rs).                        *)
(*                                                                         *)
(* A signed message has no nonce: whoever holds the session key can        *)
(* submit it again at any time.  The constant Intents is therefore the set *)
(* of all messages the wallets ever sign, and every one of them may be     *)
(* submitted any number of times.  Messages whose major version is not 0,  *)
(* or whose text does not parse, never get past Intent::load and are not   *)
(* members of Intents.                                                     *)
(***************************************************************************)
EXTENDS TokenAmount, Sequences

CONSTANTS
    Users,          \* wallets
    Keys,           \* session public keys
    Domains,        \* application origins
    Programs,       \* on-chain programs, each with its one signer PDA
    Chains,         \* chain identifiers
    Intents         \* the signed messages

(* A token limit of the message: a token and an amount. *)
TokenLimit == [token : Designators, ui : UiTokenAmount]

(* Message, with Tokens::All as unlimited = TRUE and Tokens::Specific(l) as *)
(* limits = l; "extra" carries no control and is left out.                  *)
Message == [user      : Users,
            key       : Keys,
            chain     : Chains,
            domain    : Domains,
            minor     : Nat,
            expires   : Int,
            unlimited : BOOLEAN,
            limits    : Seq(TokenLimit)]

(* x is within what message i lets its session key spend of mint m: at most *)
(* the largest limit among the entries that can denote m.                   *)
WithinAllowance(i, m, x) ==
    \/ i.unlimited
    \/ x = 0
    \/ \E n \in DOMAIN i.limits :
          /\ m \in Denotes[i.limits[n].token]
          /\ AmountConverts(i.limits[n].ui, m)
          /\ x <= IntoAmountInternal(i.limits[n].ui, m)

ASSUME IntentsAssumption ==
    /\ Intents \subseteq Message
    /\ \A i \in Intents : i.unlimited => i.limits = << >>
=============================================================================
