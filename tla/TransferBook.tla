----------------------------- MODULE TransferBook -----------------------------
(***************************************************************************)
(* What the intent transfer program promises the wallets.  A message is    *)
(* carried out at most once, on its chain, and the messages of a wallet in *)
(* the order it numbered them; it moves exactly the signed amount to the   *)
(* signed recipient, and at most the signed fee to one sponsor; nothing    *)
(* else takes money out of an account.                                     *)
(*                                                                         *)
(* The book knows nothing of nonce accounts, fee configurations, NTT       *)
(* managers or intermediate accounts; IntentTransfer is shown to implement *)
(* it.                                                                     *)
(***************************************************************************)
EXTENDS TransferIntent

CONSTANT ChainId        \* the chain the program runs on

VARIABLES
    executed,       \* messages that were carried out
    balance,        \* balance[a]
    outbox          \* what was announced to other chains

bvars == << executed, balance, outbox >>

BInit == /\ executed = {}
         /\ balance \in [Accounts -> Nat]
         /\ outbox = {}

(* All earlier messages of the stream are done, and none with this number. *)
InTurn(i) ==
    /\ i.nonce > 0
    /\ \A j \in executed : SameStream(i, j) => j.nonce < i.nonce
    /\ \A n \in 1 .. i.nonce - 1 :
          \E j \in executed : SameStream(i, j) /\ j.nonce = n

(* The mints that message i may move, and how much. *)
Movable(i, m) ==
    /\ \/ m \in Denotes[i.token]
       \/ i.kind = "transfer" /\ m = Native /\ i.token = FogoSymbol
    /\ AmountConverts(i.amount, m)

SignedFee(i, m, x) ==
    \/ x = 0
    \/ /\ m \in Denotes[i.feeToken]
       /\ AmountConverts(i.feeAmount, m)
       /\ x <= IntoAmountInternal(i.feeAmount, m)

(* The balances after the signed amount x has left account a: it goes to   *)
(* the recipient's associated account, or off the chain.                   *)
Paid(i, a, x) == IF i.kind = "transfer"
                 THEN Move(balance, a, AtaOf[i.recipient][MintOf[a]], x)
                 ELSE [balance EXCEPT ![a] = @ - x]

(* Pay the amount of message i from account a, and then a fee from f. *)
BPay(i, a, f, sp, fee) ==
    LET x == IntoAmountInternal(i.amount, MintOf[a])
    IN  /\ OwnerOf[a] = i.user
        /\ OwnerOf[f] = i.user
        /\ Movable(i, MintOf[a])
        /\ x <= balance[a]
        /\ SignedFee(i, MintOf[f], fee)
        /\ fee <= Paid(i, a, x)[f]
        /\ balance' = Move(Paid(i, a, x), f, AtaOf[sp][MintOf[f]], fee)
        /\ outbox' = IF i.kind = "transfer"
                     THEN outbox
                     ELSE outbox \union {[intent |-> i, amount |-> x]}

BExecute(i) ==
    /\ i \notin executed
    /\ executed' = executed \union {i}
    /\ i.chain = ChainId
    /\ InTurn(i)
    /\ i.recipient # Malformed
    /\ \E a, f \in Accounts, sp \in Wallets, fee \in 0 .. U64Max :
          BPay(i, a, f, sp, fee)

(* Money an account receives otherwise. *)
BDeposit(a) == /\ balance' = [balance EXCEPT ![a] = @ + 1]
               /\ UNCHANGED << executed, outbox >>

BNext == \/ \E i \in Intents : BExecute(i)
         \/ \E a \in Accounts : BDeposit(a)

BSpec == BInit /\ [][BNext]_bvars
=============================================================================
