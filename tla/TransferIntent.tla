---------------------------- MODULE TransferIntent ----------------------------
(***************************************************************************)
(* The transfer and bridge messages a wallet signs (programs/              *)
(* intent-transfer/src/intrachain/message.rs and bridge/message.rs) and    *)
(* the token accounts they move funds between.                             *)
(*                                                                         *)
(* Unlike a session message, a transfer carries a nonce.  Anyone can       *)
(* submit a signed message, any number of times; messages of another       *)
(* version, or that do not parse, are not members of Intents.              *)
(***************************************************************************)
EXTENDS TokenAmount

CONSTANTS
    Wallets,        \* users, recipients and sponsors
    Chains,         \* chain identifiers
    Malformed,      \* a recipient text that is no address
    Native,         \* FOGO itself, as a mint that no designator denotes
    FogoSymbol,     \* the designator Symbol("FOGO")
    Accounts,       \* token accounts, and system accounts for Native
    OwnerOf,        \* OwnerOf[a]: the wallet that owns account a
    MintOf,         \* MintOf[a]: the mint of account a
    AtaOf,          \* AtaOf[w][m]: associated account of w for m; for
                    \* Native the account of the wallet itself
    Intents         \* the signed messages

(* kind is the message's prefix: Message or NttMessage.  chain and to are  *)
(* chain_id for a transfer, from_chain_id and to_chain_id for a bridge.    *)
Message == [kind      : {"transfer", "bridge"},
            user      : Wallets,
            chain     : Chains,
            to        : Chains,
            token     : Designators,
            amount    : UiTokenAmount,
            recipient : Wallets \union {Malformed},
            feeToken  : Designators,
            feeAmount : UiTokenAmount,
            nonce     : Nat]

ASSUME MessagesAssumption ==
    /\ Intents \subseteq Message
    /\ FogoSymbol \in Designators

ASSUME AccountsAssumption ==
    /\ Native \in Mints
    /\ \A t \in Designators : Native \notin Denotes[t]
    /\ OwnerOf \in [Accounts -> Wallets]
    /\ MintOf \in [Accounts -> Mints]
    /\ AtaOf \in [Wallets -> [Mints -> Accounts]]
    /\ \A w \in Wallets, m \in Mints : /\ OwnerOf[AtaOf[w][m]] = w
                                       /\ MintOf[AtaOf[w][m]] = m

(* Two messages counted by the same nonce. *)
SameStream(i, j) == i.kind = j.kind /\ i.user = j.user

(* bal after x was moved from account a to account b, which may be the     *)
(* same account.                                                           *)
Move(bal, a, b, x) == [bal EXCEPT ![a] = @ - x, ![b] = @ + x]
=============================================================================
