---------------------------- MODULE IntentTransfer ----------------------------
(***************************************************************************)
(* The intent transfer program (programs/intent-transfer): it moves tokens *)
(* or FOGO of a wallet that signed a message but sends no transaction.     *)
(* Each instruction is atomic; a failed one changes nothing and is no      *)
(* step.  The token program, the system program and the NTT manager are    *)
(* external, and trust the program's setter PDA.                           *)
(*                                                                         *)
(* Not modelled: lamports the sponsor pays for account rent and for the    *)
(* relay (compute_exec_amount), and the contents of the Wormhole message   *)
(* beyond the amount.                                                      *)
(***************************************************************************)
EXTENDS TransferIntent

CONSTANTS
    ChainId,            \* chain_id program's account
    WormholeChains,     \* convert_chain_id_to_wormhole: solana and fogo
    Solana,             \* the one chain compute_relay_ntt_args accepts
    Managers,           \* NTT manager programs
    DustUnit,           \* DustUnit[m]: what NTT cannot express of m
    NotRegistered,      \* a config account that does not exist
    Fees,               \* fees the upgrade authority sets
    InitialBalance,     \* InitialBalance[a]
    MaxDeposit          \* bound on money received otherwise

ASSUME TransferAssumption ==
    /\ Solana \in WormholeChains
    /\ NotRegistered \notin Managers
    /\ Fees \subseteq 0 .. U64Max
    /\ NotRegistered \notin [intrachain : Fees, bridge : Fees]
    /\ InitialBalance \in [Accounts -> Nat]
    /\ DustUnit \in [Mints -> Nat \ {0}]
    /\ MaxDeposit \in Nat

VARIABLES
    nonce,          \* nonce["transfer"][w], nonce["bridge"][w]: the two PDAs
    balance,        \* balance[a]
    feeConfig,      \* feeConfig[m]: FeeConfig account
    nttManager,     \* nttManager[m]: ExpectedNttConfig account
    outbox,         \* amounts the NTT manager announced to other chains
    deposited,      \* bounds Deposit
    executed        \* history: messages that were carried out

configs == << feeConfig, nttManager >>
vars == << nonce, balance, configs, outbox, deposited, executed >>

Init == /\ nonce = [k \in {"transfer", "bridge"} |-> [w \in Wallets |-> 0]]
        /\ balance = InitialBalance
        /\ feeConfig = [m \in Mints |-> NotRegistered]
        /\ nttManager = [m \in Mints |-> NotRegistered]
        /\ outbox = {}
        /\ deposited = 0
        /\ executed = {}

-----------------------------------------------------------------------------
(* verify_symbol_or_mint, for the mint account that was passed. *)
VerifySymbolOrMint(t, m) == m \in Denotes[t]

(* Mutant: the nonce is checked and not stored. *)
NonceNotStored(i) ==
    /\ i.nonce = nonce[i.kind][i.user] + 1
    /\ nonce' = nonce

(* Mutant: any nonce that is not used up is accepted. *)
NonceMayJump(i) ==
    /\ i.nonce > nonce[i.kind][i.user]
    /\ nonce' = [nonce EXCEPT ![i.kind][i.user] = i.nonce]

VerifyAndUpdateNonce(i) ==
    /\ i.nonce = nonce[i.kind][i.user] + 1
    /\ nonce' = [nonce EXCEPT ![i.kind][i.user] = i.nonce]

(* What every instruction checks of a message for source account a, and    *)
(* how much it then takes from it.                                         *)
VerifyMessage(i, kind, a) ==
    /\ i.kind = kind
    /\ i.chain = ChainId
    /\ OwnerOf[a] = i.user
    /\ i.recipient # Malformed
    /\ VerifyAndUpdateNonce(i)
    /\ executed' = executed \union {i}

Amount(i, a) == IntoAmountInternal(i.amount, MintOf[a])

CanDebit(i, a) == /\ AmountConverts(i.amount, MintOf[a])
                  /\ Amount(i, a) <= balance[a]

(* Mutant: the fee is the configured one, whatever was signed. *)
CollectAnyFee(bal, i, f, sp, fee) ==
    /\ OwnerOf[f] = i.user
    /\ VerifySymbolOrMint(i.feeToken, MintOf[f])
    /\ AmountConverts(i.feeAmount, MintOf[f])
    /\ fee <= bal[f]
    /\ balance' = Move(bal, f, AtaOf[sp][MintOf[f]], fee)

(* verify_and_collect_fee: the sponsor gets the configured fee, which the  *)
(* signed fee must cover.  It is taken after the transfer (balances bal),  *)
(* from account f, which may be the account the transfer used.             *)
VerifyAndCollectFee(bal, i, f, sp, fee) ==
    /\ OwnerOf[f] = i.user
    /\ VerifySymbolOrMint(i.feeToken, MintOf[f])
    /\ AmountConverts(i.feeAmount, MintOf[f])
    /\ IntoAmountInternal(i.feeAmount, MintOf[f]) >= fee
    /\ fee <= bal[f]
    /\ balance' = Move(bal, f, AtaOf[sp][MintOf[f]], fee)

SendTokens(i, a, f, sp) ==
    /\ VerifyMessage(i, "transfer", a)
    /\ VerifySymbolOrMint(i.token, MintOf[a])
    /\ CanDebit(i, a)
    /\ feeConfig[MintOf[f]] # NotRegistered
    /\ VerifyAndCollectFee(Move(balance, a, AtaOf[i.recipient][MintOf[a]], Amount(i, a)),
                           i, f, sp, feeConfig[MintOf[f]].intrachain)
    /\ UNCHANGED << configs, outbox, deposited >>

(* The account of a fee configuration must be passed, but no fee is taken. *)
SendNative(i) ==
    LET a == AtaOf[i.user][Native]
    IN  /\ VerifyMessage(i, "transfer", a)
        /\ i.token = FogoSymbol
        /\ CanDebit(i, a)
        /\ \E m \in Mints : feeConfig[m] # NotRegistered
        /\ balance' = Move(balance, a, AtaOf[i.recipient][Native], Amount(i, a))
        /\ UNCHANGED << configs, outbox, deposited >>

(* The NTT manager announces what it can express of x and takes it from    *)
(* the intermediate account; the rest stays there.                         *)
Burned(m, x) == x - (x % DustUnit[m])

(* Mutant: the intermediate account is left behind with the rest. *)
LeaveIntermediate(left) == left >= 0

(* close_account fails on an account that still holds tokens. *)
CloseIntermediate(left) == left = 0

BridgeNttTokens(i, a, mgr, f, sp) ==
    LET burned == Burned(MintOf[a], Amount(i, a))
    IN  /\ VerifyMessage(i, "bridge", a)
        /\ VerifySymbolOrMint(i.token, MintOf[a])
        /\ mgr = nttManager[MintOf[a]]
        /\ CanDebit(i, a)
        /\ i.to \in WormholeChains
        /\ i.to = Solana
        /\ outbox' = outbox \union {[intent |-> i, amount |-> burned]}
        /\ CloseIntermediate(Amount(i, a) - burned)
        /\ feeConfig[MintOf[f]] # NotRegistered
        /\ VerifyAndCollectFee([balance EXCEPT ![a] = @ - Amount(i, a)],
                               i, f, sp, feeConfig[MintOf[f]].bridge)
        /\ UNCHANGED << configs, deposited >>

(* The upgrade authority's instructions. *)
RegisterFeeConfig(m, fee) ==
    /\ feeConfig' = [feeConfig EXCEPT ![m] = fee]
    /\ UNCHANGED << nonce, balance, nttManager, outbox, deposited, executed >>

RegisterNttConfig(m, mgr) ==
    /\ nttManager' = [nttManager EXCEPT ![m] = mgr]
    /\ UNCHANGED << nonce, balance, feeConfig, outbox, deposited, executed >>

Deposit(a) == /\ deposited < MaxDeposit
              /\ deposited' = deposited + 1
              /\ balance' = [balance EXCEPT ![a] = @ + 1]
              /\ UNCHANGED << nonce, configs, outbox, executed >>

Next ==
    \/ \E i \in Intents, a, f \in Accounts, sp \in Wallets : SendTokens(i, a, f, sp)
    \/ \E i \in Intents : SendNative(i)
    \/ \E i \in Intents, a, f \in Accounts, sp \in Wallets, mgr \in Managers :
          BridgeNttTokens(i, a, mgr, f, sp)
    \/ \E m \in Mints \ {Native}, x, y \in Fees :
          RegisterFeeConfig(m, [intrachain |-> x, bridge |-> y])
    \/ \E m \in Mints \ {Native}, mgr \in Managers : RegisterNttConfig(m, mgr)
    \/ \E a \in Accounts : Deposit(a)

Spec == Init /\ [][Next]_vars

-----------------------------------------------------------------------------
(* The nonce PDA of a wallet counts the messages that were carried out:    *)
(* they are numbered from 1 without a gap and one of each, although two    *)
(* may be signed with the same number and send_tokens and send_native      *)
(* share a nonce while bridge_ntt_tokens has its own.                      *)
NoncesInOrder ==
    \A i \in executed :
        /\ i.nonce \in 1 .. nonce[i.kind][i.user]
        /\ \A n \in 1 .. i.nonce - 1 :
              \E j \in executed : SameStream(i, j) /\ j.nonce = n
        /\ \A j \in executed : SameStream(i, j) /\ j.nonce = i.nonce => i = j

(* No balance goes down unless a message that its owner signed for this    *)
(* chain is carried out for the first time: a message cannot be replayed,  *)
(* not even through the other instruction that accepts it.                 *)
DebitNeedsFreshIntent ==
    [][\A a \in Accounts : balance'[a] < balance[a] =>
          \E i \in Intents \ executed :
              /\ executed' = executed \union {i}
              /\ i.user = OwnerOf[a]
              /\ i.chain = ChainId]_vars

Book == INSTANCE TransferBook

(* The program implements the wallets' view of it (module TransferBook):   *)
(* exactly the signed amount reaches the recipient or leaves the chain,    *)
(* and the fee stays within the signed one, whatever the upgrade authority *)
(* sets while the message is on its way, whichever accounts are the same,  *)
(* and although NTT cannot express every amount.                           *)
ImplementsBook == Book!BSpec
=============================================================================
