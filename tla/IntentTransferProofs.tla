------------------------- MODULE IntentTransferProofs -------------------------
(***************************************************************************)
(* Proofs about intents, on the way to the program and in it.              *)
(*                                                                         *)
(* IntentTransfer, for any wallets, accounts, messages and fees.  The      *)
(* invariant says that the two nonces of a wallet count the messages       *)
(* carried out: then a message whose nonce is the next one is fresh, which *)
(* is what the action property and the refinement need.                    *)
(*                                                                         *)
(* AmountText and SignedMessage, for any amounts, decimals, keys, lists of *)
(* signers and lengths.  Numbers and their decimal digits determine each   *)
(* other, so texts of amounts are read back; every field of the bytes has  *)
(* a length, so a slice at an offset is unique and each of the two layouts *)
(* of the instruction is taken apart into what it was put together from.   *)
(* Folds and recursive functions are reasoned about by their smallest      *)
(* counterexample.                                                         *)
(***************************************************************************)
EXTENDS IntentTransfer, SignedMessage,
        SequenceTheorems, NaturalsInduction, WellFoundedInduction, TLAPS

Kinds == {"transfer", "bridge"}

TypeInv ==
    /\ nonce \in [Kinds -> [Wallets -> Nat]]
    /\ balance \in [Accounts -> Nat]
    /\ feeConfig \in [Mints -> [intrachain : Fees, bridge : Fees] \union {NotRegistered}]
    /\ executed \subseteq Intents

(* The messages of wallet w counted by its nonce of kind k. *)
Stream(k, w) == {i \in executed : i.kind = k /\ i.user = w}

StreamOK(k, w) ==
    /\ \A i \in Stream(k, w) : i.nonce \in 1 .. nonce[k][w]
    /\ \A n \in 1 .. nonce[k][w] : \E j \in Stream(k, w) : j.nonce = n
    /\ \A i, j \in Stream(k, w) : i.nonce = j.nonce => i = j

TransferInv == /\ TypeInv
               /\ \A k \in Kinds, w \in Wallets : StreamOK(k, w)

-----------------------------------------------------------------------------
(* An amount that converts is a natural number that fits. *)
LEMMA AmountFits ==
    ASSUME NEW ui \in UiTokenAmount, NEW m \in Mints, AmountConverts(ui, m)
    PROVE  IntoAmountInternal(ui, m) \in 0 .. U64Max
<1> DEFINE e == Decimals[m] - ui.scale
<1>1. /\ ui.mantissa \in Nat
      /\ ui.scale \in Nat
      /\ Decimals[m] \in 0 .. MaxDecimals
      /\ MaxDecimals \in Nat
      /\ ui.scale <= Decimals[m]
  BY TokensAssumption DEF UiTokenAmount, AmountConverts
<1>2. e \in 0 .. MaxDecimals
  BY <1>1
<1>3. 10^e \in Nat
  BY <1>2, TokensAssumption
<1> HIDE DEF e
<1>4. ui.mantissa * 10^e \in Nat
  BY <1>1, <1>3
<1>5. IntoAmountInternal(ui, m) = ui.mantissa * 10^e
  BY DEF IntoAmountInternal, e
<1> QED  BY <1>4, <1>5, TokensAssumption DEF AmountConverts

(* Moving what an account holds: only that account gets poorer. *)
LEMMA MoveLemma ==
    ASSUME NEW bal \in [Accounts -> Nat], NEW a \in Accounts, NEW b \in Accounts,
           NEW x \in Nat, x <= bal[a]
    PROVE  /\ Move(bal, a, b, x) \in [Accounts -> Nat]
           /\ \A c \in Accounts : Move(bal, a, b, x)[c] < bal[c] => c = a
BY DEF Move

(* Taking what an account holds. *)
LEMMA TakeLemma ==
    ASSUME NEW bal \in [Accounts -> Nat], NEW a \in Accounts, NEW x \in Nat,
           x <= bal[a]
    PROVE  /\ [bal EXCEPT ![a] = @ - x] \in [Accounts -> Nat]
           /\ \A c \in Accounts : [bal EXCEPT ![a] = @ - x][c] < bal[c] => c = a
OBVIOUS

(* The fields of a signed message. *)
LEMMA MessageLemma ==
    ASSUME NEW i \in Intents
    PROVE  /\ i.kind \in Kinds
           /\ i.user \in Wallets
           /\ i.nonce \in Nat
           /\ i.amount \in UiTokenAmount
           /\ i.feeAmount \in UiTokenAmount
           /\ i.recipient # Malformed => i.recipient \in Wallets
           /\ i.token \in Designators
           /\ i.feeToken \in Designators
BY MessagesAssumption DEF Message, Kinds

(* verify_and_update_nonce lets only a fresh message pass, the next one of *)
(* its stream, and counts it.                                              *)
LEMMA NonceStep ==
    ASSUME TransferInv, NEW i \in Intents,
           VerifyAndUpdateNonce(i), executed' = executed \union {i}
    PROVE  /\ i \notin executed
           /\ Book!InTurn(i)
           /\ nonce' \in [Kinds -> [Wallets -> Nat]]
           /\ executed' \subseteq Intents
           /\ \A k \in Kinds, w \in Wallets : StreamOK(k, w)'
<1> DEFINE k0 == i.kind
           w0 == i.user
<1>0. k0 \in Kinds /\ w0 \in Wallets /\ i.nonce \in Nat
  BY MessageLemma
<1>1. /\ i.nonce = nonce[k0][w0] + 1
      /\ nonce' = [nonce EXCEPT ![k0][w0] = i.nonce]
      /\ nonce \in [Kinds -> [Wallets -> Nat]]
      /\ nonce[k0][w0] \in Nat
      /\ executed \subseteq Intents
  BY <1>0 DEF VerifyAndUpdateNonce, TransferInv, TypeInv
<1>2. StreamOK(k0, w0)
  BY <1>0 DEF TransferInv
<1>3. i \notin executed
  <2> SUFFICES ASSUME i \in executed PROVE FALSE
    OBVIOUS
  <2>1. i \in Stream(k0, w0)
    BY DEF Stream
  <2> QED  BY <2>1, <1>1, <1>2 DEF StreamOK
<1>4. Book!InTurn(i)
  <2>1. \A j \in executed : SameStream(i, j) => j \in Stream(k0, w0)
    BY DEF SameStream, Stream
  <2>2. \A j \in Stream(k0, w0) : j \in executed /\ SameStream(i, j)
    BY DEF SameStream, Stream
  <2>3. \A j \in executed : SameStream(i, j) => j.nonce < i.nonce
    BY <2>1, <1>1, <1>2 DEF StreamOK
  <2>4. \A n \in 1 .. i.nonce - 1 :
           \E j \in executed : SameStream(i, j) /\ j.nonce = n
    BY <2>2, <1>1, <1>2 DEF StreamOK
  <2>5. i.nonce > 0
    BY <1>1
  <2> QED  BY <2>3, <2>4, <2>5 DEF Book!InTurn, Book!SameStream, SameStream
<1>5. nonce' \in [Kinds -> [Wallets -> Nat]]
  BY <1>0, <1>1
<1>6. \A k \in Kinds, w \in Wallets : StreamOK(k, w)'
  <2> SUFFICES ASSUME NEW k \in Kinds, NEW w \in Wallets PROVE StreamOK(k, w)'
    OBVIOUS
  <2>1. StreamOK(k, w) /\ nonce[k][w] \in Nat
    BY <1>1 DEF TransferInv
  <2>2. CASE k = k0 /\ w = w0
    <3>1. nonce'[k][w] = nonce[k][w] + 1 /\ i.nonce = nonce[k][w] + 1
      BY <2>2, <1>0, <1>1
    <3>2. Stream(k, w)' = Stream(k, w) \union {i}
      BY <2>2 DEF Stream
    <3> QED  BY <2>1, <3>1, <3>2 DEF StreamOK
  <2>3. CASE ~ (k = k0 /\ w = w0)
    <3>1. nonce'[k][w] = nonce[k][w]
      BY <2>3, <1>0, <1>1
    <3>2. Stream(k, w)' = Stream(k, w)
      BY <2>3 DEF Stream
    <3> QED  BY <2>1, <3>1, <3>2 DEF StreamOK
  <2> QED  BY <2>2, <2>3
<1> QED  BY <1>1, <1>3, <1>4, <1>5, <1>6

-----------------------------------------------------------------------------
(* Both modules read amounts the same way. *)
LEMMA SameAmounts ==
    /\ \A ui, m : Book!IntoAmountInternal(ui, m) = IntoAmountInternal(ui, m)
    /\ \A ui, m : Book!AmountConverts(ui, m) = AmountConverts(ui, m)
    /\ \A bal, a, b, x : Book!Move(bal, a, b, x) = Move(bal, a, b, x)
BY DEF Book!IntoAmountInternal, IntoAmountInternal, Book!AmountConverts,
       AmountConverts, Book!Move, Move

(* verify_and_collect_fee takes a signed fee from an account of the signer. *)
LEMMA FeeLemma ==
    ASSUME NEW bal \in [Accounts -> Nat], NEW i \in Intents, NEW f \in Accounts,
           NEW sp \in Wallets, NEW fee \in Fees,
           VerifyAndCollectFee(bal, i, f, sp, fee)
    PROVE  /\ fee \in 0 .. U64Max
           /\ balance' \in [Accounts -> Nat]
           /\ \A c \in Accounts : balance'[c] < bal[c] => c = f
           /\ OwnerOf[f] = i.user
           /\ Book!SignedFee(i, MintOf[f], fee)
           /\ fee <= bal[f]
           /\ balance' = Move(bal, f, AtaOf[sp][MintOf[f]], fee)
<1>1. fee \in 0 .. U64Max /\ fee \in Nat
  BY TransferAssumption, TokensAssumption
<1>2. AtaOf[sp][MintOf[f]] \in Accounts /\ MintOf[f] \in Mints
  BY AccountsAssumption
<1>3. /\ OwnerOf[f] = i.user
      /\ MintOf[f] \in Denotes[i.feeToken]
      /\ AmountConverts(i.feeAmount, MintOf[f])
      /\ IntoAmountInternal(i.feeAmount, MintOf[f]) >= fee
      /\ fee <= bal[f]
      /\ balance' = Move(bal, f, AtaOf[sp][MintOf[f]], fee)
  BY DEF VerifyAndCollectFee, VerifySymbolOrMint
<1>4. IntoAmountInternal(i.feeAmount, MintOf[f]) \in 0 .. U64Max
  BY <1>2, <1>3, MessageLemma, AmountFits
<1>5. fee <= IntoAmountInternal(i.feeAmount, MintOf[f])
  BY <1>1, <1>3, <1>4, TokensAssumption
<1>6. Book!SignedFee(i, MintOf[f], fee)
  BY <1>3, <1>5, SameAmounts DEF Book!SignedFee
<1> QED  BY <1>1, <1>2, <1>3, <1>6, MoveLemma

(* A message is carried out, for accounts of its signer. *)
CarriesOut(i) ==
    /\ TransferInv'
    /\ i \notin executed
    /\ executed' = executed \union {i}
    /\ i.chain = ChainId
    /\ \A c \in Accounts : balance'[c] < balance[c] => OwnerOf[c] = i.user
    /\ Book!BExecute(i)

(* What the common checks of the instructions establish. *)
LEMMA VerifyLemma ==
    ASSUME TransferInv, NEW i \in Intents, NEW a \in Accounts, NEW kind,
           VerifyMessage(i, kind, a), CanDebit(i, a), UNCHANGED feeConfig
    PROVE  /\ i.kind = kind
           /\ i.recipient \in Wallets /\ i.recipient # Malformed
           /\ OwnerOf[a] = i.user
           /\ MintOf[a] \in Mints
           /\ AmountConverts(i.amount, MintOf[a])
           /\ Amount(i, a) \in Nat
           /\ Amount(i, a) <= balance[a]
           /\ i \notin executed
           /\ executed' = executed \union {i}
           /\ i.chain = ChainId
           /\ Book!InTurn(i)
           /\ balance' \in [Accounts -> Nat] => TransferInv'
<1>1. /\ i.kind = kind
      /\ i.recipient # Malformed
      /\ OwnerOf[a] = i.user
      /\ i.chain = ChainId
      /\ VerifyAndUpdateNonce(i)
      /\ executed' = executed \union {i}
  BY DEF VerifyMessage
<1>2. MintOf[a] \in Mints
  BY AccountsAssumption
<1>3. /\ AmountConverts(i.amount, MintOf[a])
      /\ Amount(i, a) <= balance[a]
      /\ Amount(i, a) \in Nat
  BY <1>2, AmountFits, MessageLemma, TokensAssumption DEF CanDebit, Amount
<1>4. /\ i \notin executed
      /\ Book!InTurn(i)
      /\ nonce' \in [Kinds -> [Wallets -> Nat]]
      /\ executed' \subseteq Intents
      /\ \A k \in Kinds, w \in Wallets : StreamOK(k, w)'
  BY <1>1, NonceStep
<1>5. balance' \in [Accounts -> Nat] => TransferInv'
  BY <1>4 DEF TransferInv, TypeInv
<1> QED  BY <1>1, <1>2, <1>3, <1>4, <1>5, MessageLemma

(* send_tokens carries out its message. *)
LEMMA SendTokensStep ==
    ASSUME TransferInv, NEW i \in Intents, NEW a \in Accounts,
           NEW f \in Accounts, NEW sp \in Wallets, SendTokens(i, a, f, sp)
    PROVE  CarriesOut(i)
<1> DEFINE x == Amount(i, a)
           paid == Move(balance, a, AtaOf[i.recipient][MintOf[a]], x)
           fee == feeConfig[MintOf[f]].intrachain
<1>1. /\ VerifyMessage(i, "transfer", a)
      /\ MintOf[a] \in Denotes[i.token]
      /\ CanDebit(i, a)
      /\ feeConfig[MintOf[f]] # NotRegistered
      /\ VerifyAndCollectFee(paid, i, f, sp, fee)
      /\ UNCHANGED << feeConfig, outbox >>
  BY DEF SendTokens, VerifySymbolOrMint, configs
<1>2. /\ i.kind = "transfer"
      /\ i.recipient \in Wallets /\ i.recipient # Malformed
      /\ OwnerOf[a] = i.user
      /\ MintOf[a] \in Mints
      /\ AmountConverts(i.amount, MintOf[a])
      /\ x \in Nat
      /\ x <= balance[a]
      /\ i \notin executed
      /\ executed' = executed \union {i}
      /\ i.chain = ChainId
      /\ Book!InTurn(i)
      /\ balance' \in [Accounts -> Nat] => TransferInv'
  BY <1>1, VerifyLemma
<1>3. fee \in Fees
  BY <1>1, AccountsAssumption DEF TransferInv, TypeInv
<1>4. AtaOf[i.recipient][MintOf[a]] \in Accounts
  BY <1>2, AccountsAssumption
<1>5. balance \in [Accounts -> Nat]
  BY DEF TransferInv, TypeInv
<1>6. /\ paid \in [Accounts -> Nat]
      /\ \A c \in Accounts : paid[c] < balance[c] => c = a
  <2> HIDE DEF x
  <2> QED  BY <1>2, <1>4, <1>5, MoveLemma
<1> HIDE DEF paid, fee
<1>7. /\ fee \in 0 .. U64Max
      /\ balance' \in [Accounts -> Nat]
      /\ \A c \in Accounts : balance'[c] < paid[c] => c = f
      /\ OwnerOf[f] = i.user
      /\ Book!SignedFee(i, MintOf[f], fee)
      /\ fee <= paid[f]
      /\ balance' = Move(paid, f, AtaOf[sp][MintOf[f]], fee)
  BY <1>1, <1>3, <1>6, FeeLemma
<1>8. ASSUME NEW c \in Accounts, balance'[c] < balance[c]
      PROVE  OwnerOf[c] = i.user
  <2>1. balance'[c] \in Nat /\ paid[c] \in Nat /\ balance[c] \in Nat
    BY <1>5, <1>6, <1>7
  <2>2. balance'[c] < paid[c] \/ paid[c] < balance[c]
    BY <2>1, <1>8
  <2> QED  BY <2>2, <1>2, <1>6, <1>7
<1>9. Book!Paid(i, a, x) = paid
  BY <1>2, SameAmounts DEF Book!Paid, paid
<1>10. x = Book!IntoAmountInternal(i.amount, MintOf[a])
  BY SameAmounts DEF Amount
<1>11. Book!Movable(i, MintOf[a])
  BY <1>1, <1>2, SameAmounts DEF Book!Movable
<1> HIDE DEF x
<1>12. Book!BPay(i, a, f, sp, fee)
  BY <1>1, <1>2, <1>7, <1>9, <1>10, <1>11, SameAmounts DEF Book!BPay
<1>13. Book!BExecute(i)
  BY <1>2, <1>7, <1>12 DEF Book!BExecute
<1> QED  BY <1>2, <1>7, <1>8, <1>13 DEF CarriesOut

(* send_native carries out its message; its fee is nothing. *)
LEMMA SendNativeStep ==
    ASSUME TransferInv, NEW i \in Intents, SendNative(i)
    PROVE  CarriesOut(i)
<1> DEFINE a == AtaOf[i.user][Native]
           x == Amount(i, a)
           b == AtaOf[i.recipient][Native]
<1>0. a \in Accounts /\ OwnerOf[a] = i.user /\ MintOf[a] = Native /\ Native \in Mints
  BY MessageLemma, AccountsAssumption
<1>1. /\ VerifyMessage(i, "transfer", a)
      /\ i.token = FogoSymbol
      /\ CanDebit(i, a)
      /\ balance' = Move(balance, a, b, x)
      /\ UNCHANGED << feeConfig, outbox >>
  BY DEF SendNative, configs
<1> HIDE DEF a
<1>2. /\ i.kind = "transfer"
      /\ i.recipient \in Wallets /\ i.recipient # Malformed
      /\ OwnerOf[a] = i.user
      /\ AmountConverts(i.amount, MintOf[a])
      /\ x \in Nat
      /\ x <= balance[a]
      /\ i \notin executed
      /\ executed' = executed \union {i}
      /\ i.chain = ChainId
      /\ Book!InTurn(i)
      /\ balance' \in [Accounts -> Nat] => TransferInv'
  BY <1>0, <1>1, VerifyLemma
<1>3. b \in Accounts
  BY <1>0, <1>2, AccountsAssumption
<1>4. balance \in [Accounts -> Nat]
  BY DEF TransferInv, TypeInv
<1>5. x = Book!IntoAmountInternal(i.amount, MintOf[a])
  BY SameAmounts DEF Amount
<1> HIDE DEF x, b
<1>6. /\ balance' \in [Accounts -> Nat]
      /\ \A c \in Accounts : balance'[c] < balance[c] => c = a
  BY <1>0, <1>1, <1>2, <1>3, <1>4, MoveLemma
<1>7. Book!Paid(i, a, x) = balance'
  BY <1>0, <1>1, <1>2, SameAmounts DEF Book!Paid, b
<1>8. Book!Movable(i, MintOf[a])
  BY <1>0, <1>1, <1>2, SameAmounts DEF Book!Movable
<1>9. /\ i.user \in Wallets
      /\ AtaOf[i.user][MintOf[a]] \in Accounts
      /\ Book!SignedFee(i, MintOf[a], 0)
      /\ 0 \in 0 .. U64Max
  BY <1>0, MessageLemma, AccountsAssumption, TokensAssumption DEF Book!SignedFee
<1>10. balance' = Move(balance', a, AtaOf[i.user][MintOf[a]], 0)
  BY <1>0, <1>6, <1>9 DEF Move
<1>11. 0 <= balance'[a]
  BY <1>0, <1>6
<1>12. Book!BPay(i, a, a, i.user, 0)
  BY <1>0, <1>1, <1>2, <1>5, <1>7, <1>8, <1>9, <1>10, <1>11, SameAmounts
     DEF Book!BPay
<1>13. Book!BExecute(i)
  BY <1>0, <1>2, <1>9, <1>12 DEF Book!BExecute
<1>14. \A c \in Accounts : balance'[c] < balance[c] => OwnerOf[c] = i.user
  BY <1>0, <1>6
<1> QED  BY <1>2, <1>6, <1>13, <1>14 DEF CarriesOut

(* bridge_ntt_tokens carries out its message: since the intermediate       *)
(* account could be closed, the manager announced all of the amount.       *)
LEMMA BridgeStep ==
    ASSUME TransferInv, NEW i \in Intents, NEW a \in Accounts,
           NEW f \in Accounts, NEW sp \in Wallets, NEW mgr \in Managers,
           BridgeNttTokens(i, a, mgr, f, sp)
    PROVE  CarriesOut(i)
<1> DEFINE x == Amount(i, a)
           paid == [balance EXCEPT ![a] = @ - x]
           fee == feeConfig[MintOf[f]].bridge
           burned == Burned(MintOf[a], x)
<1>1. /\ VerifyMessage(i, "bridge", a)
      /\ MintOf[a] \in Denotes[i.token]
      /\ CanDebit(i, a)
      /\ x - burned = 0
      /\ outbox' = outbox \union {[intent |-> i, amount |-> burned]}
      /\ feeConfig[MintOf[f]] # NotRegistered
      /\ VerifyAndCollectFee(paid, i, f, sp, fee)
      /\ UNCHANGED feeConfig
  BY DEF BridgeNttTokens, VerifySymbolOrMint, CloseIntermediate, configs
<1>2. /\ i.kind = "bridge"
      /\ i.recipient \in Wallets /\ i.recipient # Malformed
      /\ OwnerOf[a] = i.user
      /\ MintOf[a] \in Mints
      /\ AmountConverts(i.amount, MintOf[a])
      /\ x \in Nat
      /\ x <= balance[a]
      /\ i \notin executed
      /\ executed' = executed \union {i}
      /\ i.chain = ChainId
      /\ Book!InTurn(i)
      /\ balance' \in [Accounts -> Nat] => TransferInv'
  BY <1>1, VerifyLemma
<1>3. fee \in Fees
  BY <1>1, AccountsAssumption DEF TransferInv, TypeInv
<1>4. burned = x
  <2> HIDE DEF x
  <2>1. x % DustUnit[MintOf[a]] \in Nat
    BY <1>2, TransferAssumption
  <2> QED  BY <1>1, <1>2, <2>1 DEF Burned
<1>5. balance \in [Accounts -> Nat]
  BY DEF TransferInv, TypeInv
<1>6. /\ paid \in [Accounts -> Nat]
      /\ \A c \in Accounts : paid[c] < balance[c] => c = a
  <2> HIDE DEF x
  <2> QED  BY <1>2, <1>5, TakeLemma
<1>7. Book!Paid(i, a, x) = paid
  BY <1>2 DEF Book!Paid
<1> HIDE DEF paid, fee, burned
<1>8. /\ fee \in 0 .. U64Max
      /\ balance' \in [Accounts -> Nat]
      /\ \A c \in Accounts : balance'[c] < paid[c] => c = f
      /\ OwnerOf[f] = i.user
      /\ Book!SignedFee(i, MintOf[f], fee)
      /\ fee <= paid[f]
      /\ balance' = Move(paid, f, AtaOf[sp][MintOf[f]], fee)
  BY <1>1, <1>3, <1>6, FeeLemma
<1>9. ASSUME NEW c \in Accounts, balance'[c] < balance[c]
      PROVE  OwnerOf[c] = i.user
  <2>1. balance'[c] \in Nat /\ paid[c] \in Nat /\ balance[c] \in Nat
    BY <1>5, <1>6, <1>8
  <2>2. balance'[c] < paid[c] \/ paid[c] < balance[c]
    BY <2>1, <1>9
  <2> QED  BY <2>2, <1>2, <1>6, <1>8
<1>10. x = Book!IntoAmountInternal(i.amount, MintOf[a])
  BY SameAmounts DEF Amount
<1>11. Book!Movable(i, MintOf[a])
  BY <1>1, <1>2, SameAmounts DEF Book!Movable
<1> HIDE DEF x
<1>12. Book!BPay(i, a, f, sp, fee)
  BY <1>1, <1>2, <1>4, <1>7, <1>8, <1>10, <1>11, SameAmounts DEF Book!BPay
<1>13. Book!BExecute(i)
  BY <1>2, <1>8, <1>12 DEF Book!BExecute
<1> QED  BY <1>2, <1>8, <1>9, <1>13 DEF CarriesOut

(* Every step carries out a message, receives money or changes no balance. *)
LEMMA StepCases ==
    ASSUME TransferInv, [Next]_vars
    PROVE  \/ \E i \in Intents : CarriesOut(i)
           \/ TransferInv' /\ \E a \in Accounts : Book!BDeposit(a)
           \/ TransferInv' /\ UNCHANGED << executed, balance, outbox >>
<1> USE DEF TransferInv, TypeInv
<1>1. CASE \E i \in Intents, a, f \in Accounts, sp \in Wallets :
              SendTokens(i, a, f, sp)
  BY <1>1, SendTokensStep
<1>2. CASE \E i \in Intents : SendNative(i)
  BY <1>2, SendNativeStep
<1>3. CASE \E i \in Intents, a, f \in Accounts, sp \in Wallets, mgr \in Managers :
              BridgeNttTokens(i, a, mgr, f, sp)
  BY <1>3, BridgeStep
<1>4. CASE \E m \in Mints \ {Native}, x, y \in Fees :
              RegisterFeeConfig(m, [intrachain |-> x, bridge |-> y])
  BY <1>4 DEF RegisterFeeConfig, StreamOK, Stream
<1>5. CASE \E m \in Mints \ {Native}, mgr \in Managers : RegisterNttConfig(m, mgr)
  BY <1>5 DEF RegisterNttConfig, StreamOK, Stream
<1>6. CASE \E a \in Accounts : Deposit(a)
  <2>1. PICK a \in Accounts : Deposit(a)
    BY <1>6
  <2>2. Book!BDeposit(a)
    BY <2>1 DEF Deposit, Book!BDeposit
  <2>3. TransferInv'
    BY <2>1 DEF Deposit, StreamOK, Stream, configs
  <2> QED  BY <2>2, <2>3
<1>7. CASE UNCHANGED vars
  BY <1>7 DEF vars, configs, StreamOK, Stream
<1> QED  BY <1>1, <1>2, <1>3, <1>4, <1>5, <1>6, <1>7 DEF Next

(* The inductive invariant: typed, and every nonce counts its stream. *)
THEOREM TransferInvariance == Spec => []TransferInv
<1>1. Init => TransferInv
  BY TransferAssumption
     DEF Init, TransferInv, TypeInv, StreamOK, Stream, Kinds
<1>2. TransferInv /\ [Next]_vars => TransferInv'
  BY StepCases DEF CarriesOut
<1> QED  BY <1>1, <1>2, PTL DEF Spec

(* For any messages, however many share a nonce: those that are carried    *)
(* out by the three instructions are numbered 1, 2, 3 ... in each stream.  *)
THEOREM NoncesCount == Spec => []NoncesInOrder
<1>1. TransferInv => NoncesInOrder
  <2> SUFFICES ASSUME TransferInv, NEW i \in executed
               PROVE  /\ i.nonce \in 1 .. nonce[i.kind][i.user]
                      /\ \A n \in 1 .. i.nonce - 1 :
                            \E j \in executed : SameStream(i, j) /\ j.nonce = n
                      /\ \A j \in executed :
                            SameStream(i, j) /\ j.nonce = i.nonce => i = j
    BY DEF NoncesInOrder
  <2>1. i \in Intents /\ i.kind \in Kinds /\ i.user \in Wallets
    BY MessageLemma DEF TransferInv, TypeInv
  <2>2. /\ StreamOK(i.kind, i.user)
        /\ nonce[i.kind][i.user] \in Nat
    BY <2>1 DEF TransferInv, TypeInv
  <2>3. \A j \in executed : SameStream(i, j) <=> j \in Stream(i.kind, i.user)
    BY DEF SameStream, Stream
  <2>4. i \in Stream(i.kind, i.user) /\ Stream(i.kind, i.user) \subseteq executed
    BY DEF Stream
  <2> QED  BY <2>2, <2>3, <2>4 DEF StreamOK
<1> QED  BY <1>1, TransferInvariance, PTL

(* For any messages, accounts and fees: no instruction takes money from an *)
(* account unless it carries out, for the first time, a message that the   *)
(* owner of the account signed for this chain.                             *)
THEOREM DebitsAreFresh == Spec => DebitNeedsFreshIntent
<1>1. ASSUME TransferInv, [Next]_vars, NEW a \in Accounts, balance'[a] < balance[a]
      PROVE  \E i \in Intents \ executed : /\ executed' = executed \union {i}
                                          /\ i.user = OwnerOf[a]
                                          /\ i.chain = ChainId
  <2>1. balance[a] \in Nat
    BY <1>1 DEF TransferInv, TypeInv
  <2>2. ~ UNCHANGED << executed, balance, outbox >>
    BY <2>1, <1>1
  <2>3. ~ \E b \in Accounts : Book!BDeposit(b)
    BY <2>1, <1>1 DEF Book!BDeposit, TransferInv, TypeInv
  <2>4. PICK i \in Intents : CarriesOut(i)
    BY <1>1, <2>2, <2>3, StepCases
  <2> QED  BY <2>4, <1>1 DEF CarriesOut
<1>2. TransferInv /\ [Next]_vars =>
         [\A a \in Accounts : balance'[a] < balance[a] =>
             \E i \in Intents \ executed : /\ executed' = executed \union {i}
                                           /\ i.user = OwnerOf[a]
                                           /\ i.chain = ChainId]_vars
  BY <1>1
<1> QED  BY <1>2, TransferInvariance, PTL DEF Spec, DebitNeedsFreshIntent

(* The program implements the book: for any interleaving of submissions    *)
(* and configuration changes, a message is carried out once, in its turn,  *)
(* with the signed amount and at most the signed fee.                      *)
THEOREM BookRefinement == Spec => ImplementsBook
<1>1. Init => Book!BInit
  BY TransferAssumption DEF Init, Book!BInit
<1>2. TransferInv /\ [Next]_vars => [Book!BNext]_(Book!bvars)
  BY StepCases DEF CarriesOut, Book!BNext, Book!bvars
<1> QED  BY <1>1, <1>2, TransferInvariance, PTL DEF Spec, ImplementsBook, Book!BSpec

-----------------------------------------------------------------------------
(* Least members, maxima and folds *)

(* A set of natural numbers that is not empty has a least member: the       *)
(* inductions below look at the smallest counterexample.                    *)
LEMMA LeastOf ==
  ASSUME NEW N \in SUBSET Nat, N # {}
  PROVE  \E n \in N : \A m \in N : n <= m
<1>1. PICK n \in N : \A m \in N : ~ (<<m, n>> \in OpToRel(<, Nat))
  BY NatLessThanWellFounded, WFMin, Zenon
<1>2. \A m \in N : ~ (m < n)
  BY <1>1 DEF OpToRel
<1> QED  BY <1>2

(* A member of the set that bounds it is its maximum. *)
LEMMA MaxIs ==
  ASSUME NEW S \in SUBSET Int, NEW x \in S, \A y \in S : y <= x
  PROVE  Max(S) = x
<1>1. \A y \in S : x >= y
  OBVIOUS
<1>2. Max(S) \in S /\ \A y \in S : Max(S) >= y
  BY <1>1 DEF Max
<1>3. x \in Int /\ Max(S) \in Int /\ x >= Max(S) /\ Max(S) >= x
  BY <1>1, <1>2
<1> QED  BY <1>3

(* Max of a set of indices is a member that bounds it. *)
LEMMA MaxIn ==
  ASSUME NEW n \in Nat, NEW t \in SUBSET (1 .. n), t # {}
  PROVE  Max(t) \in t /\ \A y \in t : y <= Max(t)
<1> DEFINE N == {k \in 0 .. n : \A y \in t : y <= k}
<1>1. N \in SUBSET Nat /\ n \in N
  OBVIOUS
<1>2. PICK k \in N : \A m \in N : k <= m
  <2> HIDE DEF N
  <2> QED  BY <1>1, LeastOf
<1>3. k \in t
  <2> SUFFICES ASSUME k \notin t PROVE FALSE
    OBVIOUS
  <2>1. PICK y \in t : TRUE
    OBVIOUS
  <2>2. k - 1 \in 0 .. n /\ \A z \in t : z <= k - 1
    BY <2>1
  <2> QED  BY <1>2, <2>2
<1>4. Max(t) = k
  BY <1>3, MaxIs
<1> QED  BY <1>3, <1>4

(* g folds w[1], w[2], ... with a * sum + w[k], as FoldLeft does: over the  *)
(* sets of indices, taking out their maximum.                               *)
Folds(g, a, w, n) ==
  g = [t \in SUBSET (1 .. n) |-> IF t = {} THEN 0 ELSE a * g[t \ {Max(t)}] + w[Max(t)]]

(* What the proofs use of it. *)
Steps(g, a, w, n) ==
  g[{}] = 0 /\ \A k \in 1 .. n : g[1 .. k] = a * g[1 .. (k - 1)] + w[k]

IntegersTo(w, n) == \A k \in 1 .. n : w[k] \in Int

(* The function that a fold is defined by exists, for any numbers. *)
LEMMA FoldsExist ==
  ASSUME NEW a \in Int, NEW w, NEW n \in Nat, IntegersTo(w, n)
  PROVE  \E g \in [SUBSET (1 .. n) -> Int] : Folds(g, a, w, n)
<1> DEFINE Exists(k) == \E g \in [SUBSET (1 .. k) -> Int] : Folds(g, a, w, k)
           N == {k \in 0 .. n : ~ Exists(k)}
<1>0. N = {} => Exists(n)
  <2> HIDE DEF Exists
  <2> QED  OBVIOUS
<1> SUFFICES ASSUME N # {} PROVE FALSE
  BY <1>0
<1>1. PICK k \in N : \A m \in N : k <= m
  <2>1. N \in SUBSET Nat
    <3> HIDE DEF Exists
    <3> QED  OBVIOUS
  <2> HIDE DEF N
  <2> QED  BY <2>1, LeastOf
<1>2. k \in Nat /\ k <= n /\ ~ Exists(k)
  <2> HIDE DEF Exists
  <2> QED  OBVIOUS
<1>3. CASE k = 0
  <2>1. SUBSET (1 .. 0) = {{}}
    OBVIOUS
  <2> DEFINE g == [t \in SUBSET (1 .. 0) |-> 0]
  <2>2. g \in [SUBSET (1 .. 0) -> Int] /\ Folds(g, a, w, 0)
    BY <2>1 DEF Folds
  <2> HIDE DEF g
  <2> QED  BY <1>2, <1>3, <2>2
<1>4. CASE k # 0
  <2>1. k - 1 \in 0 .. n /\ k - 1 \notin N
    <3> HIDE DEF N
    <3> QED  BY <1>1, <1>2, <1>4
  <2>2. PICK h \in [SUBSET (1 .. (k - 1)) -> Int] : Folds(h, a, w, k - 1)
    BY <2>1
  <2> DEFINE g == [t \in SUBSET (1 .. k) |->
                     IF k \in t THEN a * h[t \ {k}] + w[k] ELSE h[t]]
  <2>3. ASSUME NEW t \in SUBSET (1 .. k), k \notin t
        PROVE  /\ t \in SUBSET (1 .. (k - 1))
               /\ g[t] = h[t]
               /\ t \ {Max(t)} \in SUBSET (1 .. k) /\ g[t \ {Max(t)}] = h[t \ {Max(t)}]
    <3>1. t \in SUBSET (1 .. (k - 1))
      BY <1>2, <2>3
    <3>2. t \ {Max(t)} \in SUBSET (1 .. k) /\ k \notin t \ {Max(t)}
      BY <2>3
    <3> QED  BY <2>3, <3>1, <3>2
  <2>4. ASSUME NEW t \in SUBSET (1 .. k), k \in t
        PROVE  /\ t \ {k} \in SUBSET (1 .. k) /\ g[t \ {k}] = h[t \ {k}]
               /\ Max(t) = k /\ g[t] = a * h[t \ {k}] + w[k]
    <3>1. Max(t) = k
      <4>1. t \in SUBSET Int /\ \A y \in t : y <= k
        BY <1>2, <2>4
      <4> QED  BY <2>4, <4>1, MaxIs
    <3> QED  BY <2>4, <3>1
  <2>5. \A t \in SUBSET (1 .. (k - 1)) :
           h[t] = IF t = {} THEN 0 ELSE a * h[t \ {Max(t)}] + w[Max(t)]
    BY <2>2 DEF Folds
  <2>6. \A t \in SUBSET (1 .. k) :
           g[t] = IF t = {} THEN 0 ELSE a * g[t \ {Max(t)}] + w[Max(t)]
    <3> HIDE DEF g
    <3> SUFFICES ASSUME NEW t \in SUBSET (1 .. k)
                 PROVE  g[t] = IF t = {} THEN 0 ELSE a * g[t \ {Max(t)}] + w[Max(t)]
      OBVIOUS
    <3>1. CASE k \in t
      BY <2>4, <3>1
    <3>2. CASE k \notin t
      BY <2>3, <2>5, <3>2
    <3> QED  BY <3>1, <3>2
  <2>7. g = [t \in SUBSET (1 .. k) |-> g[t]]
    OBVIOUS
  <2> HIDE DEF g
  <2>8. Folds(g, a, w, k)
    BY <2>6, <2>7 DEF Folds
  <2>9. \A t \in SUBSET (1 .. k) : g[t] \in Int
    <3> SUFFICES ASSUME NEW t \in SUBSET (1 .. k) PROVE g[t] \in Int
      OBVIOUS
    <3>1. CASE k \in t
      <4>1. t \ {k} \in SUBSET (1 .. (k - 1)) /\ w[k] \in Int
        BY <1>2, <1>4 DEF IntegersTo
      <4>2. h[t \ {k}] \in Int
        BY <4>1
      <4>3. g[t] = a * h[t \ {k}] + w[k]
        BY <2>4, <3>1
      <4> QED  BY <4>1, <4>2, <4>3
    <3>2. CASE k \notin t
      BY <2>3, <3>2
    <3> QED  BY <3>1, <3>2
  <2>10. g \in [SUBSET (1 .. k) -> Int]
    BY <2>7, <2>9
  <2> QED  BY <1>2, <2>8, <2>10
<1> QED  BY <1>3, <1>4

(* Along the prefixes 1 .. k the fold takes one step after the other. *)
LEMMA FoldsStep ==
  ASSUME NEW a, NEW w, NEW n \in Nat, NEW g, Folds(g, a, w, n)
  PROVE  Steps(g, a, w, n)
<1>1. \A t \in SUBSET (1 .. n) : g[t] = IF t = {} THEN 0 ELSE a * g[t \ {Max(t)}] + w[Max(t)]
  BY DEF Folds
<1>2. ASSUME NEW k \in 1 .. n
      PROVE  Max(1 .. k) = k /\ (1 .. k) \ {k} = 1 .. (k - 1) /\ 1 .. k \in SUBSET (1 .. n)
             /\ 1 .. k # {}
  <2>1. 1 .. k \in SUBSET Int /\ k \in 1 .. k /\ \A y \in 1 .. k : y <= k
    OBVIOUS
  <2>2. Max(1 .. k) = k
    BY <2>1, MaxIs
  <2> QED  BY <2>2
<1>3. \A k \in 1 .. n : g[1 .. k] = a * g[1 .. (k - 1)] + w[k]
  BY <1>1, <1>2
<1> QED  BY <1>1, <1>3 DEF Steps

(* w and v begin alike. *)
Agree(w, v, n) == \A k \in 1 .. n : w[k] \in Int /\ v[k] = w[k]

(* What the steps compute is a number, and the same for functions that agree. *)
LEMMA StepsAgree ==
  ASSUME NEW a \in Int, NEW w, NEW v, NEW n \in Nat, NEW m \in Nat, n <= m,
         Agree(w, v, n),
         NEW g, NEW h, Steps(g, a, w, n), Steps(h, a, v, m)
  PROVE  \A k \in 0 .. n : g[1 .. k] \in Int /\ g[1 .. k] = h[1 .. k]
<1> DEFINE N == {k \in 0 .. n : ~ (g[1 .. k] \in Int /\ g[1 .. k] = h[1 .. k])}
<1> SUFFICES ASSUME N # {} PROVE FALSE
  OBVIOUS
<1>1. PICK k \in N : \A j \in N : k <= j
  <2>1. N \in SUBSET Nat
    OBVIOUS
  <2> HIDE DEF N
  <2> QED  BY <2>1, LeastOf
<1>2. k # 0
  <2>1. 1 .. 0 = {}
    OBVIOUS
  <2> QED  BY <2>1 DEF Steps
<1>3. k \in 1 .. n /\ k \in 1 .. m /\ k - 1 \in 0 .. n /\ k - 1 \notin N
  BY <1>1, <1>2
<1>4. g[1 .. (k - 1)] \in Int /\ g[1 .. (k - 1)] = h[1 .. (k - 1)]
  BY <1>3
<1>5. /\ g[1 .. k] = a * g[1 .. (k - 1)] + w[k]
      /\ h[1 .. k] = a * h[1 .. (k - 1)] + v[k]
  BY <1>3 DEF Steps
<1>6. g[1 .. k] \in Int /\ g[1 .. k] = h[1 .. k]
  <2> HIDE DEF N
  <2> QED BY <1>3, <1>4, <1>5 DEF Agree
<1> QED  BY <1>6

-----------------------------------------------------------------------------
(* The value of a text of digits *)

(* Digits and the numbers 0 to 9 stand for each other. *)
LEMMA Values ==
  /\ ValueOf \in [Digits -> 0 .. 9]
  /\ \A i \in 0 .. 9 : Numeral[i + 1] \in Digits /\ ValueOf[Numeral[i + 1]] = i
<1>1. \A i \in 1 .. 10 : Numeral[i] \in Digits
  BY DEF Numeral, Digits
<1>2. \A c \in Digits : \E i \in 1 .. 10 : Numeral[i] = c
  BY DEF Numeral, Digits
<1>3. \A i, j \in 1 .. 10 : Numeral[i] = Numeral[j] => i = j
  BY DEF Numeral
<1>4. ASSUME NEW c \in Digits
      PROVE  ValueOf[c] \in 0 .. 9 /\ Numeral[ValueOf[c] + 1] = c
  <2> DEFINE i == CHOOSE i \in 1 .. 10 : Numeral[i] = c
  <2>1. i \in 1 .. 10 /\ Numeral[i] = c
    BY <1>2
  <2>2. ValueOf[c] = i - 1
    BY DEF ValueOf
  <2> HIDE DEF i
  <2>3. ValueOf[c] + 1 = i /\ ValueOf[c] \in 0 .. 9
    BY <2>1, <2>2
  <2> QED  BY <2>1, <2>3
<1>5. ValueOf \in [Digits -> 0 .. 9]
  <2>1. ValueOf = [c \in Digits |-> ValueOf[c]]
    BY DEF ValueOf
  <2> QED  BY <1>4, <2>1
<1>6. ASSUME NEW i \in 0 .. 9
      PROVE  Numeral[i + 1] \in Digits /\ ValueOf[Numeral[i + 1]] = i
  <2>1. i + 1 \in 1 .. 10 /\ Numeral[i + 1] \in Digits
    BY <1>1
  <2>2. ValueOf[Numeral[i + 1]] \in 0 .. 9 /\ Numeral[ValueOf[Numeral[i + 1]] + 1] = Numeral[i + 1]
    BY <1>4, <2>1
  <2>3. ValueOf[Numeral[i + 1]] + 1 \in 1 .. 10
    BY <2>2
  <2>4. ValueOf[Numeral[i + 1]] + 1 = i + 1
    BY <1>3, <2>1, <2>2, <2>3
  <2> QED  BY <2>1, <2>2, <2>4
<1> QED  BY <1>5, <1>6

(* The digits of a text as numbers. *)
Weights(s) == [i \in 1 .. Len(s) |-> ValueOf[s[i]]]

(* The value of a text of digits is computed by such steps. *)
LEMMA NumberIs ==
  ASSUME NEW s \in Seq(Digits)
  PROVE  \E g : Steps(g, 10, Weights(s), Len(s)) /\ Number(s) = g[1 .. Len(s)]
<1> DEFINE n == Len(s)
           Rec(g) == g = [t \in SUBSET (DOMAIN s) |->
                            IF t = {} THEN 0 ELSE 10 * g[t \ {Max(t)}] + ValueOf[s[Max(t)]]]
           h == CHOOSE e : Rec(e)
<1>1. Number(s) = h[DOMAIN s]
  BY DEF Number, FoldLeft, MapThenFoldSet
<1>2. DOMAIN s = 1 .. n /\ n \in Nat
  OBVIOUS
<1>3. ASSUME NEW t \in SUBSET (1 .. n), t # {}
      PROVE  Max(t) \in 1 .. n /\ Weights(s)[Max(t)] = ValueOf[s[Max(t)]]
  <2>1. Max(t) \in 1 .. n
    BY <1>2, <1>3, MaxIn
  <2> QED  BY <2>1 DEF Weights
<1>4. ASSUME NEW g PROVE Rec(g) <=> Folds(g, 10, Weights(s), n)
  BY <1>2, <1>3 DEF Folds
<1>5. Rec(h)
  <2>1. IntegersTo(Weights(s), n)
    <3> SUFFICES ASSUME NEW i \in 1 .. n PROVE Weights(s)[i] \in Int
      BY DEF IntegersTo
    <3>1. s[i] \in Digits
      BY <1>2
    <3>2. ValueOf[s[i]] \in 0 .. 9
      BY <3>1, Values
    <3>3. ValueOf[s[i]] \in Int
      BY <3>2
    <3> QED  BY <3>3 DEF Weights
  <2>2. PICK g : Folds(g, 10, Weights(s), n)
    <3>1. 10 \in Int
      OBVIOUS
    <3> QED  BY <1>2, <2>1, <3>1, FoldsExist, Zenon
  <2>3. Rec(g)
    BY <1>4, <2>2
  <2> QED  BY <2>3
<1> HIDE DEF h
<1>6. Steps(h, 10, Weights(s), n)
  BY <1>2, <1>4, <1>5, FoldsStep
<1> QED  BY <1>1, <1>2, <1>6

(* The empty text is 0. *)
LEMMA NumberEmpty == Number(<<>>) = 0
<1>1. <<>> \in Seq(Digits) /\ Len(<<>>) = 0 /\ 1 .. 0 = {}
  OBVIOUS
<1>2. PICK g : Steps(g, 10, Weights(<<>>), Len(<<>>)) /\ Number(<<>>) = g[1 .. Len(<<>>)]
  BY <1>1, NumberIs
<1> QED  BY <1>1, <1>2 DEF Steps

(* One more digit: ten times the value and the digit. *)
LEMMA NumberAppend ==
  ASSUME NEW s \in Seq(Digits), NEW c \in Digits
  PROVE  Number(s) \in Int /\ Number(Append(s, c)) = 10 * Number(s) + ValueOf[c]
<1> DEFINE n == Len(s)
           t == Append(s, c)
           w == Weights(s)
           v == Weights(t)
<1>1. n \in Nat /\ t \in Seq(Digits) /\ Len(t) = n + 1 /\ t[n + 1] = c /\ \A k \in 1 .. n : t[k] = s[k] /\ s[k] \in Digits
  OBVIOUS
<1>2. PICK g : Steps(g, 10, w, n) /\ Number(s) = g[1 .. n]
  BY NumberIs
<1>3. PICK h : Steps(h, 10, v, n + 1) /\ Number(t) = h[1 .. (n + 1)]
  <2> HIDE DEF t
  <2> QED  BY <1>1, NumberIs
<1>4. v[n + 1] = ValueOf[c] /\ \A k \in 1 .. n : w[k] \in Int /\ v[k] = w[k]
  <2>1. \A x \in Digits : ValueOf[x] \in Int
    BY Values
  <2>2. \A k \in 1 .. (n + 1) : v[k] = ValueOf[t[k]]
    BY <1>1 DEF Weights
  <2>3. \A k \in 1 .. n : w[k] = ValueOf[s[k]]
    BY <1>1 DEF Weights
  <2> HIDE DEF t, w, v
  <2> QED  BY <1>1, <2>1, <2>2, <2>3
<1> HIDE DEF n, t, w, v
<1>5. \A k \in 0 .. n : g[1 .. k] \in Int /\ g[1 .. k] = h[1 .. k]
  <2>1. 10 \in Int /\ n + 1 \in Nat /\ n <= n + 1
    BY <1>1
  <2>2. Agree(w, v, n)
    BY <1>4 DEF Agree
  <2>3. Steps(g, 10, w, n) /\ Steps(h, 10, v, n + 1) /\ n \in Nat
    BY <1>1, <1>2, <1>3
  <2> QED  BY <2>1, <2>2, <2>3, StepsAgree
<1>6. h[1 .. (n + 1)] = 10 * h[1 .. n] + v[n + 1]
  <2>1. n + 1 \in 1 .. (n + 1) /\ (n + 1) - 1 = n
    BY <1>1
  <2> QED  BY <1>3, <2>1 DEF Steps
<1> QED  BY <1>1, <1>2, <1>3, <1>4, <1>5, <1>6 DEF t

(* A sequence that is not empty, without its last element. *)
LEMMA Shorter ==
  ASSUME NEW S, NEW s \in Seq(S), s # <<>>
  PROVE  /\ Front(s) \in Seq(S) /\ Len(Front(s)) = Len(s) - 1
         /\ s[Len(s)] \in S /\ s = Append(Front(s), s[Len(s)])
<1>1. Len(s) \in Nat \ {0} /\ \A i \in 1 .. Len(s) : s[i] \in S
  OBVIOUS
<1> DEFINE f == Front(s)
<1>2. /\ f \in Seq(S) /\ Len(f) = Len(s) - 1
      /\ \A i \in 1 .. (Len(s) - 1) : f[i] = s[i]
  <2>1. \A i \in 1 .. (Len(s) - 1) : s[i] \in S
    BY <1>1
  <2>2. 1 \in Int /\ Len(s) - 1 \in Int
    BY <1>1
  <2>3. /\ f \in Seq(S) /\ Len(f) = IF 1 <= Len(s) - 1 THEN (Len(s) - 1) - 1 + 1 ELSE 0
        /\ \A i \in 1 .. ((Len(s) - 1) - 1 + 1) : f[i] = s[1 + i - 1]
    BY <2>1, <2>2, SubSeqProperties DEF Front
  <2> HIDE DEF f
  <2>4. Len(f) = Len(s) - 1
    <3>1. \A n \in Nat \ {0} : (IF 1 <= n - 1 THEN (n - 1) - 1 + 1 ELSE 0) = n - 1
      OBVIOUS
    <3> QED  BY <1>1, <2>3, <3>1, Zenon
  <2>5. \A i \in 1 .. (Len(s) - 1) : i \in 1 .. ((Len(s) - 1) - 1 + 1) /\ 1 + i - 1 = i
    BY <1>1
  <2> QED  BY <2>3, <2>4, <2>5
<1> HIDE DEF f
<1>3. s = Append(f, s[Len(s)])
  <2> DEFINE t == Append(f, s[Len(s)])
  <2>1. t \in Seq(S) /\ Len(t) = Len(s) /\ \A i \in 1 .. Len(s) : t[i] = s[i]
    BY <1>1, <1>2
  <2> HIDE DEF t
  <2>2. s = t
    BY <2>1, SeqEqual
  <2> QED  BY <2>2 DEF t
<1> QED  BY <1>1, <1>2, <1>3 DEF f

(* The value of digits is a natural number. *)
LEMMA NumberNat ==
  ASSUME NEW s \in Seq(Digits)
  PROVE  Number(s) \in Nat
<1> DEFINE N == {n \in Nat : \E t \in Seq(Digits) : Len(t) = n /\ Number(t) \notin Nat}
<1> SUFFICES ASSUME N # {} PROVE FALSE
  OBVIOUS
<1>1. PICK n \in N : \A j \in N : n <= j
  <2>1. N \in SUBSET Nat
    OBVIOUS
  <2> HIDE DEF N
  <2> QED  BY <2>1, LeastOf
<1>2. PICK t \in Seq(Digits) : Len(t) = n /\ Number(t) \notin Nat
  OBVIOUS
<1>3. t # <<>>
  BY <1>2, NumberEmpty
<1> DEFINE f == Front(t)
           c == t[Len(t)]
<1>4. f \in Seq(Digits) /\ Len(f) = n - 1 /\ c \in Digits /\ t = Append(f, c)
  BY <1>2, <1>3, Shorter
<1>5. Len(f) \in Nat /\ Len(f) \notin N
  <2>1. Len(f) \in Nat /\ n \in Nat /\ Len(f) < n
    BY <1>4
  <2> HIDE DEF N, f, c
  <2> QED  BY <1>1, <2>1
<1>6. Number(f) \in Nat
  BY <1>4, <1>5
<1>7. Number(t) = 10 * Number(f) + ValueOf[c] /\ ValueOf[c] \in Nat
  <2> HIDE DEF f, c
  <2>1. Number(Append(f, c)) = 10 * Number(f) + ValueOf[c]
    BY <1>4, NumberAppend
  <2>2. ValueOf[c] \in 0 .. 9
    BY <1>4, Values
  <2> QED  BY <1>4, <2>1, <2>2
<1> HIDE DEF f, c, N
<1> QED  BY <1>2, <1>6, <1>7

-----------------------------------------------------------------------------
(* Powers of ten *)

(* Powers of ten *)

(* g is the function PowerOf10 up to n. *)
Powers(g, n) == g = [k \in 0 .. n |-> IF k = 0 THEN 1 ELSE 10 * g[k - 1]]

(* What a table of powers up to n holds. *)
LEMMA PowersStep ==
  ASSUME NEW n \in Nat, NEW g, Powers(g, n)
  PROVE  \A k \in 0 .. n : g[k] = IF k = 0 THEN 1 ELSE 10 * g[k - 1]
  BY DEF Powers

(* There is such a table for every n. *)
LEMMA PowersExist == \A n \in Nat : \E g : Powers(g, n)
<1> DEFINE N == {k \in Nat : ~ \E g : Powers(g, k)}
<1> SUFFICES ASSUME N # {} PROVE FALSE
  OBVIOUS
<1>1. PICK k \in N : \A m \in N : k <= m
  <2>1. N \in SUBSET Nat
    OBVIOUS
  <2> HIDE DEF N
  <2> QED  BY <2>1, LeastOf
<1>2. k \in Nat /\ ~ \E g : Powers(g, k)
  OBVIOUS
<1>3. CASE k = 0
  <2>1. Powers([i \in 0 .. 0 |-> 1], 0)
    BY DEF Powers
  <2> QED  BY <1>2, <1>3, <2>1
<1>4. CASE k # 0
  <2>1. k - 1 \in Nat /\ k - 1 \notin N
    BY <1>1, <1>2, <1>4
  <2>2. PICK h : Powers(h, k - 1)
    BY <2>1
  <2> DEFINE g == [i \in 0 .. k |-> IF i = 0 THEN 1 ELSE 10 * h[i - 1]]
  <2>3. \A i \in 0 .. (k - 1) : h[i] = IF i = 0 THEN 1 ELSE 10 * h[i - 1]
    BY <2>1, <2>2, PowersStep
  <2>4. \A i \in 0 .. (k - 1) : i \in 0 .. k /\ g[i] = h[i]
    BY <2>1, <2>3
  <2>5. \A i \in 0 .. k : g[i] = IF i = 0 THEN 1 ELSE 10 * g[i - 1]
    <3> SUFFICES ASSUME NEW i \in 0 .. k, i # 0 PROVE g[i] = 10 * g[i - 1]
      OBVIOUS
    <3>1. i - 1 \in 0 .. (k - 1)
      BY <1>2
    <3>2. g[i] = 10 * h[i - 1]
      OBVIOUS
    <3> HIDE DEF g
    <3> QED  BY <2>4, <3>1, <3>2
  <2>6. g = [i \in 0 .. k |-> g[i]]
    OBVIOUS
  <2> HIDE DEF g
  <2>7. Powers(g, k)
    BY <2>5, <2>6 DEF Powers
  <2> QED  BY <1>2, <2>7
<1> QED  BY <1>3, <1>4

(* Two tables agree where both are defined. *)
LEMMA PowersAgree ==
  ASSUME NEW n \in Nat, NEW m \in Nat, n <= m, NEW g, NEW h, Powers(g, n), Powers(h, m)
  PROVE  \A k \in 0 .. n : g[k] = h[k]
<1> DEFINE N == {k \in 0 .. n : g[k] # h[k]}
<1> SUFFICES ASSUME N # {} PROVE FALSE
  OBVIOUS
<1>1. PICK k \in N : \A j \in N : k <= j
  <2>1. N \in SUBSET Nat
    OBVIOUS
  <2> HIDE DEF N
  <2> QED  BY <2>1, LeastOf
<1>2. k \in 0 .. n /\ k \in 0 .. m
  OBVIOUS
<1>3. /\ g[k] = IF k = 0 THEN 1 ELSE 10 * g[k - 1]
      /\ h[k] = IF k = 0 THEN 1 ELSE 10 * h[k - 1]
  BY <1>2, PowersStep
<1>4. k # 0
  BY <1>3
<1>5. k - 1 \in 0 .. n /\ k - 1 \notin N
  BY <1>1, <1>2, <1>4
<1>6. g[k - 1] = h[k - 1]
  BY <1>5
<1> QED  BY <1>3, <1>6

(* PowerOf10 satisfies its recursion. *)
LEMMA PowerOf10Rec ==
  /\ PowerOf10 \in [Nat -> Nat]
  /\ PowerOf10[0] = 1
  /\ \A n \in Nat : PowerOf10[n + 1] = 10 * PowerOf10[n]
<1> DEFINE Rec(f) == f = [n \in Nat |-> IF n = 0 THEN 1 ELSE 10 * f[n - 1]]
           P(n) == CHOOSE g : Powers(g, n)
           f == [n \in Nat |-> P(n)[n]]
<1>1. \A n \in Nat : Powers(P(n), n)
  BY PowersExist
<1> HIDE DEF P
<1>2. \A n \in Nat : f[n] = IF n = 0 THEN 1 ELSE 10 * f[n - 1]
  <2> SUFFICES ASSUME NEW n \in Nat PROVE f[n] = IF n = 0 THEN 1 ELSE 10 * f[n - 1]
    OBVIOUS
  <2>1. P(n)[n] = IF n = 0 THEN 1 ELSE 10 * P(n)[n - 1]
    BY <1>1, PowersStep
  <2>2. CASE n # 0
    <3>1. n - 1 \in Nat /\ n - 1 <= n /\ n - 1 \in 0 .. (n - 1)
      BY <2>2
    <3>2. P(n - 1)[n - 1] = P(n)[n - 1]
      BY <1>1, <3>1, PowersAgree
    <3> QED  BY <2>1, <2>2, <3>1, <3>2
  <2> QED  BY <2>1, <2>2
<1>3. Rec(f)
  <2>1. f = [n \in Nat |-> f[n]]
    OBVIOUS
  <2> HIDE DEF f
  <2> QED  BY <1>2, <2>1
<1>4. Rec(PowerOf10)
  <2>1. \E e : Rec(e)
    BY <1>3
  <2>2. PowerOf10 = CHOOSE e : Rec(e)
    BY DEF PowerOf10
  <2> QED  BY <2>1, <2>2
<1>5. \A n \in Nat : PowerOf10[n] = IF n = 0 THEN 1 ELSE 10 * PowerOf10[n - 1]
  BY <1>4
<1>6. PowerOf10[0] = 1 /\ \A n \in Nat : PowerOf10[n + 1] = 10 * PowerOf10[n]
  BY <1>5
<1>7. \A n \in Nat : PowerOf10[n] \in Nat
  <2> DEFINE N == {k \in Nat : PowerOf10[k] \notin Nat}
  <2> SUFFICES ASSUME N # {} PROVE FALSE
    OBVIOUS
  <2>1. PICK k \in N : \A j \in N : k <= j
    <3>1. N \in SUBSET Nat
      OBVIOUS
    <3> HIDE DEF N
    <3> QED  BY <3>1, LeastOf
  <2>2. k # 0
    BY <1>6
  <2>3. k - 1 \in Nat /\ k - 1 \notin N
    BY <2>1, <2>2
  <2>4. PowerOf10[k - 1] \in Nat /\ PowerOf10[k] = 10 * PowerOf10[k - 1]
    BY <1>5, <2>2, <2>3
  <2>5. PowerOf10[k] \in Nat
    BY <2>4
  <2> QED  BY <2>5
<1>8. PowerOf10 = [n \in Nat |-> PowerOf10[n]]
  BY <1>4
<1> QED  BY <1>6, <1>7, <1>8

-----------------------------------------------------------------------------
(* Numbers and their digits *)

(* g is the function DigitsOf up to n. *)
Digital(g, n) ==
  g = [k \in 0 .. n |->
         IF k < 10 THEN <<Numeral[k + 1]>> ELSE Append(g[k \div 10], Numeral[(k % 10) + 1])]

(* Division by 10. *)
LEMMA Division ==
  \A k \in Nat : /\ k \div 10 \in Nat /\ k % 10 \in 0 .. 9
                 /\ k = 10 * (k \div 10) + (k % 10)
                 /\ k > 0 => k \div 10 < k
  OBVIOUS

(* What a table of the digits of the numbers up to n holds. *)
LEMMA DigitalStep ==
  ASSUME NEW n \in Nat, NEW g, Digital(g, n)
  PROVE  \A k \in 0 .. n :
           g[k] = IF k < 10 THEN <<Numeral[k + 1]>>
                  ELSE Append(g[k \div 10], Numeral[(k % 10) + 1])
  BY DEF Digital

(* There is such a table for every n. *)
LEMMA DigitalExist == \A n \in Nat : \E g : Digital(g, n)
<1> DEFINE N == {k \in Nat : ~ \E g : Digital(g, k)}
<1> SUFFICES ASSUME N # {} PROVE FALSE
  OBVIOUS
<1>1. PICK k \in N : \A m \in N : k <= m
  <2>1. N \in SUBSET Nat
    OBVIOUS
  <2> HIDE DEF N
  <2> QED  BY <2>1, LeastOf
<1>2. k \in Nat /\ ~ \E g : Digital(g, k)
  OBVIOUS
<1>3. CASE k = 0
  <2>1. Digital([i \in 0 .. 0 |-> <<Numeral[i + 1]>>], 0)
    BY DEF Digital
  <2> QED  BY <1>2, <1>3, <2>1
<1>4. CASE k # 0
  <2>1. k - 1 \in Nat /\ k - 1 \notin N
    BY <1>1, <1>2, <1>4
  <2>2. PICK h : Digital(h, k - 1)
    BY <2>1
  <2> DEFINE Value(e, i) == IF i < 10 THEN <<Numeral[i + 1]>>
                            ELSE Append(e[i \div 10], Numeral[(i % 10) + 1])
             g == [i \in 0 .. k |-> Value(h, i)]
  <2>3. \A i \in 0 .. (k - 1) : h[i] = Value(h, i)
    BY <2>1, <2>2, DigitalStep
  <2>4. \A i \in 0 .. (k - 1) : i \in 0 .. k /\ g[i] = h[i]
    <3>1. \A i \in 0 .. (k - 1) : i \in 0 .. k
      BY <1>2
    <3> HIDE DEF Value
    <3> QED  BY <2>3, <3>1
  <2>5. \A i \in 0 .. k : g[i] = Value(g, i)
    <3> SUFFICES ASSUME NEW i \in 0 .. k PROVE g[i] = Value(g, i)
      OBVIOUS
    <3>1. i >= 10 => i \div 10 \in 0 .. (k - 1)
      BY <1>2, Division
    <3>2. g[i] = Value(h, i)
      OBVIOUS
    <3>3. i >= 10 => g[i \div 10] = h[i \div 10]
      <4> HIDE DEF g
      <4> QED  BY <2>4, <3>1
    <3>4. i < 10 \/ i >= 10
      OBVIOUS
    <3> HIDE DEF g
    <3> QED  BY <3>2, <3>3, <3>4
  <2>6. g = [i \in 0 .. k |-> g[i]]
    OBVIOUS
  <2> HIDE DEF g
  <2>7. Digital(g, k)
    BY <2>5, <2>6 DEF Digital
  <2> QED  BY <1>2, <2>7
<1> QED  BY <1>3, <1>4

(* Two tables agree where both are defined. *)
LEMMA DigitalAgree ==
  ASSUME NEW n \in Nat, NEW m \in Nat, n <= m, NEW g, NEW h, Digital(g, n), Digital(h, m)
  PROVE  \A k \in 0 .. n : g[k] = h[k]
<1> DEFINE N == {k \in 0 .. n : g[k] # h[k]}
<1> SUFFICES ASSUME N # {} PROVE FALSE
  OBVIOUS
<1>1. PICK k \in N : \A j \in N : k <= j
  <2>1. N \in SUBSET Nat
    OBVIOUS
  <2> HIDE DEF N
  <2> QED  BY <2>1, LeastOf
<1>2. k \in 0 .. n /\ k \in 0 .. m
  OBVIOUS
<1>3. /\ g[k] = IF k < 10 THEN <<Numeral[k + 1]>> ELSE Append(g[k \div 10], Numeral[(k % 10) + 1])
      /\ h[k] = IF k < 10 THEN <<Numeral[k + 1]>> ELSE Append(h[k \div 10], Numeral[(k % 10) + 1])
  BY <1>2, DigitalStep
<1>4. ~ (k < 10)
  BY <1>3
<1>5. k \div 10 \in 0 .. n /\ k \div 10 < k
  BY <1>2, <1>4, Division
<1>6. k \div 10 \notin N
  <2> HIDE DEF N
  <2> QED  BY <1>1, <1>2, <1>5
<1>7. g[k \div 10] = h[k \div 10]
  BY <1>5, <1>6
<1> QED  BY <1>3, <1>7

(* DigitsOf satisfies its recursion. *)
LEMMA DigitsOfRec ==
  \A n \in Nat : DigitsOf[n] = IF n < 10 THEN <<Numeral[n + 1]>>
                               ELSE Append(DigitsOf[n \div 10], Numeral[(n % 10) + 1])
<1> DEFINE Value(e, i) == IF i < 10 THEN <<Numeral[i + 1]>>
                          ELSE Append(e[i \div 10], Numeral[(i % 10) + 1])
           Rec(f) == f = [n \in Nat |-> Value(f, n)]
           P(n) == CHOOSE g : Digital(g, n)
           f == [n \in Nat |-> P(n)[n]]
<1>1. \A n \in Nat : Digital(P(n), n)
  BY DigitalExist
<1> HIDE DEF P
<1>2. \A n \in Nat : f[n] = Value(f, n)
  <2> SUFFICES ASSUME NEW n \in Nat PROVE f[n] = Value(f, n)
    OBVIOUS
  <2>1. P(n)[n] = Value(P(n), n)
    BY <1>1, DigitalStep
  <2>2. CASE n >= 10
    <3> DEFINE q == n \div 10
    <3>1. q \in Nat /\ q <= n /\ q \in 0 .. q
      BY <2>2, Division
    <3> HIDE DEF q
    <3>2. P(q)[q] = P(n)[q]
      BY <1>1, <3>1, DigitalAgree
    <3>3. f[n] = P(n)[n] /\ f[q] = P(q)[q]
      BY <3>1
    <3> QED  BY <2>1, <2>2, <3>2, <3>3 DEF q
  <2>3. CASE n < 10
    BY <2>1, <2>3
  <2> QED  BY <2>2, <2>3
<1>3. Rec(f)
  <2>1. f = [n \in Nat |-> f[n]]
    OBVIOUS
  <2> HIDE DEF f, Value
  <2> QED  BY <1>2, <2>1
<1>4. Rec(DigitsOf)
  <2>1. \E e : Rec(e)
    BY <1>3
  <2>2. DigitsOf = CHOOSE e : Rec(e)
    BY DEF DigitsOf
  <2> QED  BY <2>1, <2>2
<1> QED  BY <1>4

(* What DigitsOf writes is read back. *)
LEMMA DigitsReadBack ==
  ASSUME NEW a \in Nat
  PROVE  DigitsOf[a] \in Seq(Digits) /\ DigitsOf[a] # <<>> /\ Number(DigitsOf[a]) = a
<1> DEFINE OK(n) == DigitsOf[n] \in Seq(Digits) /\ DigitsOf[n] # <<>> /\ Number(DigitsOf[n]) = n
           N == {n \in Nat : ~ OK(n)}
<1> SUFFICES ASSUME N # {} PROVE FALSE
  OBVIOUS
<1>1. PICK k \in N : \A j \in N : k <= j
  <2>1. N \in SUBSET Nat
    OBVIOUS
  <2> HIDE DEF N
  <2> QED  BY <2>1, LeastOf
<1>2. k \in Nat /\ ~ OK(k)
  OBVIOUS
<1>3. CASE k < 10
  <2> DEFINE c == Numeral[k + 1]
  <2>1. c \in Digits /\ ValueOf[c] = k
    <3>1. k \in 0 .. 9
      BY <1>2, <1>3
    <3> QED  BY <3>1, Values, Zenon
  <2>2. DigitsOf[k] = <<c>>
    BY <1>2, <1>3, DigitsOfRec
  <2> HIDE DEF c
  <2>3. <<>> \in Seq(Digits) /\ <<c>> = Append(<<>>, c) /\ <<c>> \in Seq(Digits) /\ <<c>> # <<>>
    BY <2>1
  <2>4. Number(<<c>>) = 10 * Number(<<>>) + ValueOf[c]
    BY <2>1, <2>3, NumberAppend
  <2>5. Number(<<c>>) = k
    BY <1>2, <2>1, <2>4, NumberEmpty
  <2> QED  BY <1>2, <2>2, <2>3, <2>5
<1>4. CASE k >= 10
  <2> DEFINE c == Numeral[(k % 10) + 1]
             q == k \div 10
  <2>1. k % 10 \in 0 .. 9 /\ q \in Nat /\ q < k /\ k = 10 * q + (k % 10)
    BY <1>2, <1>4, Division
  <2>2. c \in Digits /\ ValueOf[c] = k % 10
    BY <2>1, Values
  <2>3. DigitsOf[k] = Append(DigitsOf[q], c)
    <3>1. ~ (k < 10)
      BY <1>2, <1>4
    <3> QED  BY <1>2, <3>1, DigitsOfRec
  <2>4. OK(q)
    <3>1. q \notin N
      <4> HIDE DEF N, q
      <4> QED  BY <1>1, <1>2, <2>1
    <3> HIDE DEF q
    <3> QED  BY <2>1, <3>1
  <2> HIDE DEF c, q
  <2>5. Number(DigitsOf[k]) = 10 * q + ValueOf[c]
    BY <2>2, <2>3, <2>4, NumberAppend
  <2>6. DigitsOf[k] \in Seq(Digits) /\ DigitsOf[k] # <<>>
    BY <2>2, <2>3, <2>4, AppendProperties
  <2> QED  BY <1>2, <2>1, <2>2, <2>5, <2>6
<1> QED  BY <1>2, <1>3, <1>4

-----------------------------------------------------------------------------
(* Digits one after the other *)

(* The value of two texts of digits, one after the other. *)
LEMMA NumberConcat ==
  ASSUME NEW s \in Seq(Digits), NEW t \in Seq(Digits)
  PROVE  Number(s \o t) = Number(s) * PowerOf10[Len(t)] + Number(t)
<1> DEFINE OK(u) == Number(s \o u) = Number(s) * PowerOf10[Len(u)] + Number(u)
           N == {n \in Nat : \E u \in Seq(Digits) : Len(u) = n /\ ~ OK(u)}
<1> SUFFICES ASSUME N # {} PROVE FALSE
  OBVIOUS
<1>1. PICK n \in N : \A j \in N : n <= j
  <2>1. N \in SUBSET Nat
    OBVIOUS
  <2> HIDE DEF N
  <2> QED  BY <2>1, LeastOf
<1>2. PICK u \in Seq(Digits) : Len(u) = n /\ ~ OK(u)
  OBVIOUS
<1>3. Number(s) \in Nat /\ \A k \in Nat : PowerOf10[k] \in Nat
  BY NumberNat, PowerOf10Rec
<1>4. CASE u = <<>>
  <2>1. s \o u = s /\ Len(u) = 0
    BY <1>4
  <2>2. Number(u) = 0 /\ PowerOf10[Len(u)] = 1
    BY <1>4, <2>1, NumberEmpty, PowerOf10Rec
  <2>3. OK(u)
    BY <1>3, <2>1, <2>2
  <2> QED  BY <1>2, <2>3
<1>5. CASE u # <<>>
  <2> DEFINE f == Front(u)
             c == u[Len(u)]
  <2>1. f \in Seq(Digits) /\ Len(f) = n - 1 /\ c \in Digits /\ u = Append(f, c) /\ n \in Nat
    BY <1>2, <1>5, Shorter
  <2> HIDE DEF f, c
  <2>2. Len(f) \in Nat /\ Len(f) < n /\ Len(u) = Len(f) + 1
    BY <1>2, <2>1
  <2>3. OK(f)
    <3>1. Len(f) \notin N
      <4> HIDE DEF N
      <4> QED  BY <1>1, <2>1, <2>2
    <3> HIDE DEF OK
    <3> QED  BY <2>1, <2>2, <3>1
  <2> HIDE DEF N, OK
  <2>4. s \o f \in Seq(Digits) /\ s \o u = Append(s \o f, c)
    <3>1. s \o f \in Seq(Digits) /\ <<c>> \in Seq(Digits)
      BY <2>1, ConcatProperties
    <3>2. u = f \o <<c>>
      BY <2>1, AppendIsConcat
    <3>3. Append(s \o f, c) = (s \o f) \o <<c>>
      BY <2>1, <3>1, AppendIsConcat
    <3>4. (s \o f) \o <<c>> = s \o (f \o <<c>>)
      BY <2>1, <3>1, ConcatAssociative
    <3> QED  BY <3>1, <3>2, <3>3, <3>4
  <2>5. /\ Number(s \o u) = 10 * Number(s \o f) + ValueOf[c]
        /\ Number(u) = 10 * Number(f) + ValueOf[c]
    BY <2>1, <2>4, NumberAppend
  <2> DEFINE p == Number(s)
             q == PowerOf10[Len(f)]
             w == Number(f)
             v == ValueOf[c]
  <2>6. p \in Int /\ q \in Int /\ w \in Int /\ v \in Int
    <3>1. ValueOf[c] \in 0 .. 9
      BY <2>1, Values
    <3>2. Number(f) \in Nat
      BY <2>1, NumberNat
    <3>3. PowerOf10[Len(f)] \in Nat
      BY <1>3, <2>2
    <3> QED  BY <1>3, <3>1, <3>2, <3>3
  <2>7. PowerOf10[Len(u)] = 10 * q
    BY <2>2, PowerOf10Rec
  <2>8. Number(s \o f) = p * q + w
    BY <2>3 DEF OK
  <2>9. Number(s \o u) = 10 * (p * q + w) + v /\ Number(u) = 10 * w + v
    BY <2>5, <2>8
  <2> HIDE DEF p, q, w, v
  <2>10. Number(s \o u) = p * (10 * q) + (10 * w + v)
    BY <2>6, <2>9
  <2>11. OK(u)
    BY <2>7, <2>9, <2>10 DEF OK, p
  <2> QED  BY <1>2, <2>11
<1> QED  BY <1>4, <1>5

(* Zeros(n) is n times the digit 0. *)
LEMMA ZerosAre ==
  ASSUME NEW n \in Nat
  PROVE  Zeros(n) \in Seq(Digits) /\ Len(Zeros(n)) = n /\ \A i \in 1 .. n : Zeros(n)[i] = "0"
<1>1. "0" \in Digits
  BY DEF Digits
<1> QED  BY <1>1 DEF Zeros

(* ... and is worth nothing. *)
LEMMA ZerosCount ==
  ASSUME NEW n \in Nat
  PROVE  Number(Zeros(n)) = 0
<1> DEFINE N == {k \in Nat : Number(Zeros(k)) # 0}
<1> SUFFICES ASSUME N # {} PROVE FALSE
  OBVIOUS
<1>1. PICK k \in N : \A j \in N : k <= j
  <2>1. N \in SUBSET Nat
    OBVIOUS
  <2> HIDE DEF N
  <2> QED  BY <2>1, LeastOf
<1>2. k # 0
  <2>1. Zeros(0) = <<>>
    BY DEF Zeros
  <2> QED  BY <2>1, NumberEmpty
<1>3. k \in Nat /\ k - 1 \in Nat /\ k - 1 \notin N
  BY <1>1, <1>2
<1>4. Number(Zeros(k - 1)) = 0
  BY <1>3
<1>5. "0" \in Digits /\ ValueOf["0"] = 0
  <2>1. Numeral[0 + 1] = "0"
    BY DEF Numeral
  <2> QED  BY <2>1, Values DEF Digits
<1>6. Zeros(k) = Append(Zeros(k - 1), "0")
  <2> DEFINE x == Zeros(k)
             y == Append(Zeros(k - 1), "0")
  <2>1. x \in Seq(Digits) /\ Len(x) = k /\ \A i \in 1 .. k : x[i] = "0"
    BY <1>3, ZerosAre
  <2>2. Zeros(k - 1) \in Seq(Digits) /\ Len(Zeros(k - 1)) = k - 1 /\ \A i \in 1 .. (k - 1) : Zeros(k - 1)[i] = "0"
    BY <1>3, ZerosAre
  <2>3. y \in Seq(Digits) /\ Len(y) = k /\ \A i \in 1 .. k : y[i] = "0"
    BY <1>3, <1>5, <2>2
  <2> HIDE DEF x, y
  <2>4. x = y
    BY <2>1, <2>3, SeqEqual
  <2> QED  BY <2>4 DEF x, y
<1>7. Number(Zeros(k)) = 10 * Number(Zeros(k - 1)) + ValueOf["0"]
  BY <1>3, <1>5, <1>6, ZerosAre, NumberAppend
<1>8. Number(Zeros(k)) = 0
  BY <1>4, <1>5, <1>7
<1> QED  BY <1>8

(* Zeros in front do not change the value. *)
LEMMA LeadingZeros ==
  ASSUME NEW n \in Nat, NEW s \in Seq(Digits)
  PROVE  Zeros(n) \o s \in Seq(Digits) /\ Number(Zeros(n) \o s) = Number(s)
<1>1. Zeros(n) \in Seq(Digits) /\ Number(Zeros(n)) = 0
  BY ZerosAre, ZerosCount
<1>2. Number(Zeros(n) \o s) = 0 * PowerOf10[Len(s)] + Number(s)
  BY <1>1, NumberConcat
<1>3. PowerOf10[Len(s)] \in Nat /\ Number(s) \in Nat
  BY PowerOf10Rec, NumberNat
<1> QED  BY <1>1, <1>2, <1>3, ConcatProperties

-----------------------------------------------------------------------------
(* The text of an amount *)

(* What the texts of amounts are made of. *)
Symbols == Digits \cup {"-", "."}

(* padStart keeps the characters. *)
LEMMA PaddedStart ==
  ASSUME NEW S, "0" \in S, NEW s \in Seq(S), NEW d \in Nat
  PROVE  padStart(s, d) \in Seq(S)
<1> DEFINE k == IF Len(s) < d THEN d - Len(s) ELSE 0
<1>1. k \in Nat
  OBVIOUS
<1> HIDE DEF k
<1>2. Zeros(k) \in Seq(S)
  BY <1>1 DEF Zeros
<1>3. Zeros(k) \o s \in Seq(S)
  BY <1>2, ConcatProperties
<1> QED  BY <1>3 DEF padStart, k

(* A part of a sequence. *)
LEMMA Part ==
  ASSUME NEW S, NEW s \in Seq(S), NEW m \in Nat \ {0}, NEW n \in Nat, n <= Len(s)
  PROVE  /\ SubSeq(s, m, n) \in Seq(S)
         /\ Len(SubSeq(s, m, n)) = IF m <= n THEN n - m + 1 ELSE 0
         /\ \A i \in 1 .. (n - m + 1) : SubSeq(s, m, n)[i] = s[m + i - 1]
<1>1. \A i \in m .. n : s[i] \in S
  OBVIOUS
<1> QED  BY <1>1, SubSeqProperties

(* After the last character that is not a zero there are only zeros. *)
LEMMA Kept ==
  ASSUME NEW D \in Seq(Symbols), NEW k, k = SelectLastInSeq(D, LAMBDA c : c # "0")
  PROVE  k \in 0 .. Len(D) /\ \A i \in 1 .. Len(D) : i > k => D[i] = "0"
<1> DEFINE I == {i \in 1 .. Len(D) : D[i] # "0"}
<1>1. k = IF I # {} THEN Max(I) ELSE 0
  BY DEF SelectLastInSeq
<1>2. Len(D) \in Nat
  OBVIOUS
<1>3. CASE I = {}
  BY <1>1, <1>2, <1>3
<1>4. CASE I # {}
  <2>1. I \in SUBSET (1 .. Len(D))
    OBVIOUS
  <2>2. k = Max(I)
    BY <1>1, <1>4
  <2>3. k \in I /\ \A i \in I : i <= k
    <3> HIDE DEF I
    <3>1. Max(I) \in I /\ \A i \in I : i <= Max(I)
      BY <1>2, <1>4, <2>1, MaxIn
    <3> QED  BY <2>2, <3>1
  <2> QED  BY <1>2, <2>3
<1> QED  BY <1>3, <1>4

(* The parts of the text that amountToString writes. *)
WholePart(s, d) == IF Len(s) > d THEN SubSeq(s, 1, Len(s) - d) ELSE <<"0">>
LastDigits(s, d) == IF Len(s) > d THEN SubSeq(s, Len(s) - d + 1, Len(s)) ELSE s
DecimalPart(s, d) == padStart(LastDigits(s, d), d)

(* k is where the trailing zeros begin. *)
WithoutZeros(t, W, D, k) ==
  /\ k \in 0 .. Len(D)
  /\ \A i \in 1 .. Len(D) : i > k => D[i] = "0"
  /\ t = IF k = 0 THEN W ELSE (W \o <<".">>) \o SubSeq(D, 1, k)

(* amountToString is made of the whole part and of the decimals without     *)
(* their trailing zeros.                                                    *)
LEMMA TextParts ==
  ASSUME NEW S, {"0", "."} \subseteq S, S \subseteq Symbols,
         NEW a \in Int, NEW d \in Nat, NEW s \in Seq(S), toString(a) = s
  PROVE  /\ WholePart(s, d) \in Seq(S) /\ DecimalPart(s, d) \in Seq(S)
         /\ \E k : WithoutZeros(amountToString(a, d), WholePart(s, d), DecimalPart(s, d), k)
<1> DEFINE W == WholePart(s, d)
           C == LastDigits(s, d)
           D == DecimalPart(s, d)
<1>1. Len(s) \in Nat /\ s \in Seq(S)
  OBVIOUS
<1>2. W \in Seq(S)
  <2>1. CASE Len(s) > d
    <3>1. 1 \in Nat \ {0} /\ Len(s) - d \in Nat /\ Len(s) - d <= Len(s)
      BY <1>1, <2>1
    <3>2. SubSeq(s, 1, Len(s) - d) \in Seq(S)
      BY <1>1, <3>1, Part
    <3> QED  BY <2>1, <3>2 DEF WholePart
  <2>2. CASE ~ (Len(s) > d)
    BY <2>2 DEF WholePart
  <2> QED  BY <2>1, <2>2
<1>3. C \in Seq(S)
  <2>1. CASE Len(s) > d
    <3>1. Len(s) - d + 1 \in Nat \ {0} /\ Len(s) \in Nat /\ Len(s) <= Len(s)
      BY <1>1, <2>1
    <3>2. SubSeq(s, Len(s) - d + 1, Len(s)) \in Seq(S)
      BY <1>1, <3>1, Part
    <3> QED  BY <2>1, <3>2 DEF LastDigits
  <2>2. CASE ~ (Len(s) > d)
    BY <1>1, <2>2 DEF LastDigits
  <2> QED  BY <2>1, <2>2
<1>4. D \in Seq(S)
  BY <1>3, PaddedStart DEF DecimalPart
<1> DEFINE k == SelectLastInSeq(D, LAMBDA c : c # "0")
<1>5. amountToString(a, d) = IF k = 0 THEN W ELSE (W \o <<".">>) \o SubSeq(D, 1, k)
  BY DEF amountToString, WholePart, LastDigits, DecimalPart
<1>6. k \in 0 .. Len(D) /\ \A i \in 1 .. Len(D) : i > k => D[i] = "0"
  <2>1. D \in Seq(Symbols)
    BY <1>4, SeqMonotonic
  <2> QED  BY <2>1, Kept
<1> HIDE DEF k
<1> QED  BY <1>2, <1>4, <1>5, <1>6 DEF WithoutZeros

(* The parts of what amountToString writes for an amount: the digits before *)
(* the point, those after it, and those with the zeros that were cut off.   *)
LEMMA AmountParts ==
  ASSUME NEW a \in Nat, NEW d \in Nat
  PROVE  \E W, D, F \in Seq(Digits) :
           /\ W # <<>> /\ Len(D) = d /\ Number(W \o D) = a
           /\ Len(F) <= d /\ padEnd(F, d) = D
           /\ \/ amountToString(a, d) = W /\ F = <<>>
              \/ amountToString(a, d) = (W \o <<".">>) \o F
<1> DEFINE s == DigitsOf[a]
           n == Len(s)
           W == WholePart(s, d)
           C == LastDigits(s, d)
           D == DecimalPart(s, d)
<1>1. s \in Seq(Digits) /\ s # <<>> /\ Number(s) = a /\ n \in Nat
  BY DigitsReadBack
<1>2. toString(a) = s
  BY DEF toString
<1> HIDE DEF s
<1>3. "0" \in Digits
  BY DEF Digits
<1>4. /\ C \in Seq(Digits) /\ W \in Seq(Digits) /\ W # <<>> /\ Len(C) <= d
      /\ n > d => Len(C) = d /\ W \o C = s
  <2>1. CASE n > d
    <3> DEFINE x == SubSeq(s, 1, n - d)
               y == SubSeq(s, n - d + 1, n)
    <3>1. 1 \in Nat \ {0} /\ n - d \in Nat /\ n - d <= n /\ n - d + 1 \in Nat \ {0} /\ n <= n
      BY <1>1, <2>1
    <3>2. x \in Seq(Digits) /\ Len(x) = n - d
      BY <1>1, <2>1, <3>1, Part
    <3>3. y \in Seq(Digits) /\ Len(y) = IF n - d + 1 <= n THEN n - (n - d + 1) + 1 ELSE 0
      BY <1>1, <3>1, Part
    <3>4. Len(y) = d
      <4> HIDE DEF y
      <4> QED  BY <1>1, <3>3
    <3>5. x \o y = s
      <4>1. 1 \in 1 .. (n + 1) /\ n - d \in 1 - 1 .. n /\ n \in n - d .. n
        BY <1>1, <2>1
      <4>2. SubSeq(s, 1, n - d) \o SubSeq(s, n - d + 1, n) = SubSeq(s, 1, n)
        BY <1>1, <4>1, ConcatAdjacentSubSeq
      <4> QED  BY <1>1, <4>2, SubSeqFull
    <3>6. W = x /\ C = y
      BY <2>1 DEF WholePart, LastDigits
    <3> HIDE DEF x, y, W, C
    <3>7. x # <<>> /\ Len(y) <= d
      BY <1>1, <2>1, <3>2, <3>4
    <3> QED  BY <3>2, <3>3, <3>4, <3>5, <3>6, <3>7, Zenon
  <2>2. CASE ~ (n > d)
    BY <1>1, <1>3, <2>2 DEF WholePart, LastDigits
  <2> QED  BY <2>1, <2>2
<1> HIDE DEF C
<1> DEFINE z == IF Len(C) < d THEN d - Len(C) ELSE 0
<1>5. z \in Nat /\ D = Zeros(z) \o C /\ Len(C) \in Nat /\ z + Len(C) = d
  <2>1. D = Zeros(z) \o C
    BY DEF padStart, DecimalPart, C
  <2>2. Len(C) \in Nat
    BY <1>4
  <2>3. z \in Nat /\ z + Len(C) = d
    BY <1>4, <2>2
  <2> QED  BY <2>1, <2>2, <2>3
<1> HIDE DEF z, D
<1>6. D \in Seq(Digits) /\ Len(D) = d
  <2>1. Zeros(z) \in Seq(Digits) /\ Len(Zeros(z)) = z
    BY <1>5, ZerosAre
  <2>2. Zeros(z) \o C \in Seq(Digits) /\ Len(Zeros(z) \o C) = z + Len(C)
    BY <1>4, <2>1, ConcatProperties
  <2> QED  BY <1>5, <2>2
<1>7. Number(W \o D) = a
  <2>1. CASE n > d
    <3>1. z = 0
      BY <1>4, <1>5, <2>1
    <3>2. Zeros(0) = <<>>
      BY DEF Zeros
    <3>3. D = C
      BY <1>4, <1>5, <3>1, <3>2, ConcatEmptySeq
    <3> QED  BY <1>1, <1>4, <2>1, <3>3
  <2>2. CASE ~ (n > d)
    <3>1. W = <<"0">> /\ C = s
      BY <2>2 DEF C, WholePart, LastDigits
    <3>2. <<"0">> = Zeros(1)
      BY DEF Zeros
    <3>3. D \in Seq(Digits) /\ Number(D) = Number(s)
      BY <1>4, <1>5, <3>1, LeadingZeros
    <3>4. Number(Zeros(1) \o D) = Number(D)
      BY <3>3, LeadingZeros
    <3> QED  BY <1>1, <3>1, <3>2, <3>3, <3>4
  <2> QED  BY <2>1, <2>2
<1>8. PICK k : WithoutZeros(amountToString(a, d), W, D, k)
  <2> DEFINE S == Digits \cup {"."}
  <2>1. {"0", "."} \subseteq S /\ S \subseteq Symbols /\ Digits \subseteq S
    BY <1>3 DEF Symbols
  <2>2. s \in Seq(S) /\ a \in Int
    BY <1>1, <2>1, SeqMonotonic
  <2> HIDE DEF S
  <2> QED  BY <1>2, <2>1, <2>2, TextParts DEF D
<1> DEFINE F == SubSeq(D, 1, k)
<1>9. k \in Nat /\ k <= d /\ F \in Seq(Digits) /\ Len(F) = k /\ \A i \in 1 .. k : F[i] = D[i]
  <2>1. k \in Nat /\ k <= d /\ k <= Len(D) /\ 1 \in Nat \ {0}
    BY <1>6, <1>8 DEF WithoutZeros
  <2>2. /\ F \in Seq(Digits) /\ Len(F) = IF 1 <= k THEN k - 1 + 1 ELSE 0
        /\ \A i \in 1 .. (k - 1 + 1) : F[i] = D[1 + i - 1]
    BY <1>6, <2>1, Part
  <2> HIDE DEF F
  <2>3. Len(F) = k
    BY <2>1, <2>2
  <2>4. \A i \in 1 .. k : i \in 1 .. (k - 1 + 1) /\ 1 + i - 1 = i
    BY <2>1
  <2> QED  BY <2>1, <2>2, <2>3, <2>4
<1> HIDE DEF F
<1>10. padEnd(F, d) = D
  <2> DEFINE e == IF Len(F) < d THEN d - Len(F) ELSE 0
             x == F \o Zeros(e)
  <2>1. e \in Nat /\ e = d - k
    BY <1>9
  <2>2. padEnd(F, d) = x
    BY DEF padEnd
  <2> HIDE DEF e
  <2>3. Zeros(e) \in Seq(Digits) /\ Len(Zeros(e)) = e /\ \A i \in 1 .. e : Zeros(e)[i] = "0"
    BY <2>1, ZerosAre
  <2>4. /\ x \in Seq(Digits) /\ Len(x) = k + e
        /\ \A i \in 1 .. k + e : x[i] = IF i <= k THEN F[i] ELSE Zeros(e)[i - k]
    <3>1. /\ x \in Seq(Digits) /\ Len(x) = Len(F) + Len(Zeros(e))
          /\ \A i \in 1 .. Len(F) + Len(Zeros(e)) :
               x[i] = IF i <= Len(F) THEN F[i] ELSE Zeros(e)[i - Len(F)]
      BY <1>9, <2>3, ConcatProperties
    <3> QED  BY <1>9, <2>3, <3>1, Zenon
  <2> HIDE DEF x
  <2>5. Len(x) = Len(D)
    BY <1>6, <1>9, <2>1, <2>4
  <2>6. ASSUME NEW i \in 1 .. Len(x)
        PROVE  x[i] = D[i]
    <3>1. i \in 1 .. k + e /\ i \in 1 .. Len(D)
      BY <2>4, <2>5
    <3>2. CASE i <= k
      <4>1. i \in 1 .. k
        BY <1>9, <3>1, <3>2
      <4> QED  BY <1>9, <2>4, <3>1, <3>2, <4>1
    <3>3. CASE ~ (i <= k)
      <4>1. i - k \in 1 .. e /\ i > k
        BY <1>9, <2>1, <3>1, <3>3
      <4>2. x[i] = "0"
        BY <2>3, <2>4, <3>1, <3>3, <4>1
      <4> QED  BY <1>8, <3>1, <4>1, <4>2 DEF WithoutZeros
    <3> QED  BY <3>2, <3>3
  <2>7. x = D
    BY <1>6, <2>4, <2>5, <2>6, SeqEqual
  <2> QED  BY <2>2, <2>7
<1>11. \/ amountToString(a, d) = W /\ F = <<>>
       \/ amountToString(a, d) = (W \o <<".">>) \o F
  <2>1. k = 0 => F = <<>>
    BY <1>9
  <2> QED  BY <1>8, <2>1 DEF F, WithoutZeros
<1> HIDE DEF W
<1> QED  BY <1>4, <1>6, <1>7, <1>9, <1>10, <1>11

-----------------------------------------------------------------------------
(* Reading the text *)

(* A sequence of digits passes the test for digits. *)
LEMMA DigitsAre ==
  ASSUME NEW s
  PROVE  s \in Seq(Digits) => AllDigits(s)
  BY DEF AllDigits, Range

(* The two sides of the point. *)
LEMMA Sides ==
  ASSUME NEW W \in Seq(Digits), NEW F \in Seq(Digits), NEW t,
         \/ t = W /\ F = <<>>
         \/ t = (W \o <<".">>) \o F
  PROVE  /\ \A i, j \in Dots(t) : i = j
         /\ Whole(t) = W /\ Fraction(t) = F
<1>1. "." \notin Digits
  BY DEF Digits
<1>2. CASE t = W /\ F = <<>>
  <2>1. Dots(t) = {}
    BY <1>1, <1>2 DEF Dots
  <2> QED  BY <1>2, <2>1 DEF Whole, Fraction
<1>3. CASE t = (W \o <<".">>) \o F
  <2> DEFINE p == W \o <<".">>
             n == Len(W)
             m == Len(F)
  <2>0. n \in Nat /\ m \in Nat /\ W \in Seq(Symbols) /\ F \in Seq(Symbols) /\ <<".">> \in Seq(Symbols)
    <3>1. Digits \subseteq Symbols /\ "." \in Symbols
      BY DEF Symbols
    <3> QED  BY <3>1, SeqMonotonic
  <2>1. p \in Seq(Symbols) /\ Len(p) = n + 1 /\ \A i \in 1 .. n + 1 : p[i] = IF i <= n THEN W[i] ELSE "."
    <3>1. /\ p \in Seq(Symbols) /\ Len(p) = Len(W) + Len(<<".">>)
          /\ \A i \in 1 .. Len(W) + Len(<<".">>) : p[i] = IF i <= Len(W) THEN W[i] ELSE <<".">>[i - Len(W)]
      BY <2>0, ConcatProperties
    <3>2. Len(<<".">>) = 1
      OBVIOUS
    <3> HIDE DEF p
    <3>3. \A i \in 1 .. n + 1 : ~ (i <= n) => i - n = 1
      BY <2>0
    <3> QED  BY <2>0, <3>1, <3>2, <3>3
  <2> HIDE DEF p
  <2>2. /\ t \in Seq(Symbols) /\ Len(t) = n + 1 + m
        /\ \A i \in 1 .. n + 1 + m : t[i] = IF i <= n + 1 THEN p[i] ELSE F[i - (n + 1)]
    <3>1. /\ t \in Seq(Symbols) /\ Len(t) = Len(p) + Len(F)
          /\ \A i \in 1 .. Len(p) + Len(F) : t[i] = IF i <= Len(p) THEN p[i] ELSE F[i - Len(p)]
      BY <1>3, <2>0, <2>1, ConcatProperties DEF p
    <3> QED  BY <2>1, <3>1, Zenon
  <2> HIDE DEF n, m
  <2>3. ASSUME NEW i \in 1 .. n + 1 + m
        PROVE  /\ i <= n => t[i] = W[i] /\ W[i] \in Digits
               /\ i = n + 1 => t[i] = "."
               /\ i > n + 1 => t[i] = F[i - (n + 1)] /\ F[i - (n + 1)] \in Digits
    <3>1. CASE i <= n
      <4>1. i \in 1 .. n + 1 /\ i \in 1 .. n /\ i <= n + 1 /\ ~ (i = n + 1) /\ ~ (i > n + 1)
        BY <2>0, <3>1
      <4>2. W[i] \in Digits
        BY <4>1 DEF n
      <4> QED  BY <2>1, <2>2, <3>1, <4>1, <4>2
    <3>2. CASE i = n + 1
      BY <2>0, <2>1, <2>2, <3>2
    <3>3. CASE i > n + 1
      <4>1. i - (n + 1) \in 1 .. m /\ ~ (i <= n + 1) /\ ~ (i <= n) /\ ~ (i = n + 1)
        BY <2>0, <3>3
      <4>2. F[i - (n + 1)] \in Digits
        BY <4>1 DEF m
      <4> QED  BY <2>2, <4>1, <4>2
    <3> QED  BY <2>0, <3>1, <3>2, <3>3
  <2>4. Dots(t) = {n + 1}
    <3>1. n + 1 \in 1 .. n + 1 + m
      BY <2>0
    <3>2. \A i \in 1 .. n + 1 + m : t[i] = "." <=> i = n + 1
      BY <1>1, <2>0, <2>3
    <3>3. Dots(t) = {i \in 1 .. n + 1 + m : t[i] = "."}
      BY <2>2 DEF Dots
    <3> QED  BY <3>1, <3>2, <3>3
  <2>5. (CHOOSE i \in Dots(t) : TRUE) = n + 1 /\ Dots(t) # {}
    BY <2>4
  <2>6. Whole(t) = SubSeq(t, 1, n) /\ Fraction(t) = SubSeq(t, n + 2, n + 1 + m)
    <3>1. (n + 1) - 1 = n /\ (n + 1) + 1 = n + 2
      BY <2>0
    <3> QED  BY <2>2, <2>5, <3>1 DEF Whole, Fraction
  <2>7. SubSeq(t, 1, n) = W
    <3> DEFINE x == SubSeq(t, 1, n)
    <3>1. 1 \in Nat \ {0} /\ n <= n + 1 + m /\ (1 <= n <=> n # 0) /\ n - 1 + 1 = n
      BY <2>0
    <3>2. /\ x \in Seq(Symbols) /\ Len(x) = IF 1 <= n THEN n - 1 + 1 ELSE 0
          /\ \A i \in 1 .. (n - 1 + 1) : x[i] = t[1 + i - 1]
      BY <2>0, <2>2, <3>1, Part
    <3> HIDE DEF x
    <3>3. Len(x) = n
      BY <3>1, <3>2
    <3>4. \A i \in 1 .. n : i \in 1 .. (n - 1 + 1) /\ 1 + i - 1 = i /\ i <= n /\ i \in 1 .. n + 1 + m
      BY <2>0
    <3>5. \A i \in 1 .. n : x[i] = W[i]
      BY <2>3, <3>2, <3>4
    <3>6. x = W
      BY <2>0, <3>2, <3>3, <3>5, SeqEqual DEF n
    <3> QED  BY <3>6 DEF x
  <2>8. SubSeq(t, n + 2, n + 1 + m) = F
    <3> DEFINE x == SubSeq(t, n + 2, n + 1 + m)
    <3>1. n + 2 \in Nat \ {0} /\ n + 1 + m \in Nat /\ n + 1 + m <= n + 1 + m
      BY <2>0
    <3>2. /\ x \in Seq(Symbols) /\ Len(x) = IF n + 2 <= n + 1 + m THEN (n + 1 + m) - (n + 2) + 1 ELSE 0
          /\ \A i \in 1 .. ((n + 1 + m) - (n + 2) + 1) : x[i] = t[n + 2 + i - 1]
      BY <2>2, <3>1, Part
    <3> HIDE DEF x
    <3>3. Len(x) = m
      BY <2>0, <3>2
    <3>4. \A i \in 1 .. m : /\ i \in 1 .. ((n + 1 + m) - (n + 2) + 1)
                            /\ n + 2 + i - 1 \in 1 .. n + 1 + m /\ n + 2 + i - 1 > n + 1
                            /\ (n + 2 + i - 1) - (n + 1) = i
      BY <2>0
    <3>5. \A i \in 1 .. m : x[i] = F[i]
      BY <2>3, <3>2, <3>4
    <3>6. x = F
      BY <2>0, <3>2, <3>3, <3>5, SeqEqual DEF m
    <3> QED  BY <3>6 DEF x
  <2> QED  BY <2>4, <2>6, <2>7, <2>8
<1> QED  BY <1>2, <1>3

(* The text of an amount is read back as that amount, by the program (if it *)
(* has no more than 64 bits) and by the form.                               *)
LEMMA AmountIsReadBack ==
  ASSUME NEW a \in Nat, NEW d \in Nat
  PROVE  /\ TryUiAmountIntoAmount(amountToString(a, d), d) = {a} \cap 0 .. MaxU64
         /\ stringToAmount(amountToString(a, d), d) = {a}
<1>1. PICK W, D, F \in Seq(Digits) :
           /\ W # <<>> /\ Len(D) = d /\ Number(W \o D) = a
           /\ Len(F) <= d /\ padEnd(F, d) = D
           /\ \/ amountToString(a, d) = W /\ F = <<>>
              \/ amountToString(a, d) = (W \o <<".">>) \o F
  BY AmountParts
<1> DEFINE t == amountToString(a, d)
<1>2. (\A i, j \in Dots(t) : i = j) /\ Whole(t) = W /\ Fraction(t) = F
  BY <1>1, Sides
<1>3. AllDigits(W) /\ AllDigits(D) /\ AllDigits(F)
  BY DigitsAre
<1>4. W \o F # <<>>
  BY <1>1, ConcatEqualIffEmpty
<1> HIDE DEF t
<1>5. TryUiAmountIntoAmount(t, d) = {a} \cap 0 .. MaxU64
  BY <1>1, <1>2, <1>3, <1>4 DEF TryUiAmountIntoAmount
<1>6. BigInt(W) = {Number(W)} /\ BigInt(D) = {Number(D)} /\ Number(W) \in Nat
  BY <1>3, NumberNat DEF BigInt
<1>7. {k \in BigInt(W) : k >= 0} = {Number(W)}
  BY <1>6
<1>8. Number(W) * PowerOf10[d] + Number(D) = a
  BY <1>1, NumberConcat
<1>9. ~ (Len(F) > d)
  BY <1>1
<1>10. stringToAmount(t, d) = {n * PowerOf10[d] + f : n \in {Number(W)}, f \in {Number(D)}}
  BY <1>1, <1>2, <1>6, <1>7, <1>9 DEF stringToAmount
<1>11. stringToAmount(t, d) = {a}
  BY <1>8, <1>10
<1> QED  BY <1>5, <1>11 DEF t

-----------------------------------------------------------------------------
(* The amount field *)

(* A text that passes the test for digits is a sequence of digits. *)
LEMMA DigitsFrom ==
  ASSUME NEW S, NEW s \in Seq(S), AllDigits(s)
  PROVE  s \in Seq(Digits)
<1>1. \A i \in 1 .. Len(s) : s[i] \in Digits
  BY DEF AllDigits, Range
<1> QED  BY <1>1

(* BigInt gives integers. *)
LEMMA BigIntInt ==
  ASSUME NEW s \in Seq(Symbols)
  PROVE  BigInt(s) \subseteq Int
<1>1. CASE AllDigits(s)
  <2>1. Number(s) \in Nat
    BY <1>1, DigitsFrom, NumberNat
  <2> QED  BY <1>1, <2>1 DEF BigInt
<1>2. CASE ~ AllDigits(s)
  <2>1. s # <<>>
    BY <1>2 DEF AllDigits, Range
  <2>2. Tail(s) \in Seq(Symbols)
    BY <2>1
  <2>3. AllDigits(Tail(s)) => Number(Tail(s)) \in Nat
    <3> DEFINE t == Tail(s)
    <3> HIDE DEF t
    <3>1. t \in Seq(Symbols)
      BY <2>2 DEF t
    <3>2. AllDigits(t) => Number(t) \in Nat
      BY <3>1, DigitsFrom, NumberNat
    <3> QED  BY <3>2 DEF t
  <2>4. AllDigits(Tail(s)) => - Number(Tail(s)) \in Int
    BY <2>3
  <2> QED  BY <1>2, <2>4 DEF BigInt
<1> QED  BY <1>1, <1>2

(* padEnd keeps the characters. *)
LEMMA PaddedEnd ==
  ASSUME NEW S, "0" \in S, NEW s \in Seq(S), NEW d \in Nat
  PROVE  padEnd(s, d) \in Seq(S)
<1> DEFINE k == IF Len(s) < d THEN d - Len(s) ELSE 0
<1>1. k \in Nat
  OBVIOUS
<1> HIDE DEF k
<1>2. Zeros(k) \in Seq(S)
  BY <1>1 DEF Zeros
<1>3. s \o Zeros(k) \in Seq(S)
  BY <1>2, ConcatProperties
<1> QED  BY <1>3 DEF padEnd, k

(* What is before and after the point are texts again. *)
LEMMA SidesTyped ==
  ASSUME NEW S, NEW s \in Seq(S)
  PROVE  Whole(s) \in Seq(S) /\ Fraction(s) \in Seq(S)
<1>1. CASE Dots(s) = {}
  BY <1>1 DEF Whole, Fraction
<1>2. CASE Dots(s) # {}
  <2> DEFINE i == CHOOSE i \in Dots(s) : TRUE
  <2>1. i \in 1 .. Len(s) /\ Len(s) \in Nat
    BY <1>2 DEF Dots
  <2>2. Whole(s) = SubSeq(s, 1, i - 1) /\ Fraction(s) = SubSeq(s, i + 1, Len(s))
    BY <1>2 DEF Whole, Fraction
  <2> HIDE DEF i
  <2>3. /\ 1 \in Nat \ {0} /\ i - 1 \in Nat /\ i - 1 <= Len(s)
        /\ i + 1 \in Nat \ {0} /\ Len(s) <= Len(s)
    BY <2>1
  <2>4. SubSeq(s, 1, i - 1) \in Seq(S) /\ SubSeq(s, i + 1, Len(s)) \in Seq(S)
    BY <2>1, <2>3, Part
  <2> QED  BY <2>2, <2>4
<1> QED  BY <1>1, <1>2

(* stringToAmount gives integers. *)
LEMMA AmountsInt ==
  ASSUME NEW s \in Seq(Symbols), NEW d \in Nat
  PROVE  stringToAmount(s, d) \subseteq Int
<1>1. "0" \in Symbols
  BY DEF Symbols, Digits
<1>2. BigInt(Whole(s)) \subseteq Int
  BY SidesTyped, BigIntInt
<1>3. padEnd(Fraction(s), d) \in Seq(Symbols)
  BY <1>1, SidesTyped, PaddedEnd
<1>4. BigInt(padEnd(Fraction(s), d)) \subseteq Int
  BY <1>3, BigIntInt
<1>5. PowerOf10[d] \in Int
  BY PowerOf10Rec
<1>6. \A n, f \in Int : n * PowerOf10[d] + f \in Int
  BY <1>5
<1> QED  BY <1>2, <1>4, <1>6 DEF stringToAmount

(* amountToString writes digits, a point and a minus sign only. *)
LEMMA TextSymbols ==
  ASSUME NEW a \in Int, NEW d \in Nat
  PROVE  amountToString(a, d) \in Seq(Symbols)
<1>1. {"0", "."} \subseteq Symbols /\ Digits \subseteq Symbols /\ "-" \in Symbols
  BY DEF Symbols, Digits
<1> DEFINE s == toString(a)
<1>2. s \in Seq(Symbols)
  <2>1. CASE a < 0
    <3>1. - a \in Nat
      BY <2>1
    <3>2. DigitsOf[- a] \in Seq(Digits)
      BY <3>1, DigitsReadBack
    <3>3. DigitsOf[- a] \in Seq(Symbols) /\ <<"-">> \in Seq(Symbols)
      BY <1>1, <3>2, SeqMonotonic
    <3>4. <<"-">> \o DigitsOf[- a] \in Seq(Symbols)
      BY <3>3, ConcatProperties
    <3> QED  BY <2>1, <3>4 DEF toString
  <2>2. CASE ~ (a < 0)
    <3>1. a \in Nat
      BY <2>2
    <3>2. DigitsOf[a] \in Seq(Digits)
      BY <3>1, DigitsReadBack
    <3> QED  BY <1>1, <2>2, <3>2, SeqMonotonic DEF toString
  <2> QED  BY <2>1, <2>2
<1> HIDE DEF s
<1>3. toString(a) = s
  BY DEF s
<1> DEFINE W == WholePart(s, d)
           D == DecimalPart(s, d)
<1>4. W \in Seq(Symbols) /\ D \in Seq(Symbols) /\ \E k : WithoutZeros(amountToString(a, d), W, D, k)
  BY <1>1, <1>2, <1>3, TextParts
<1> HIDE DEF W, D
<1>5. PICK k : WithoutZeros(amountToString(a, d), W, D, k)
  BY <1>4
<1>6. /\ k \in 0 .. Len(D)
      /\ amountToString(a, d) = IF k = 0 THEN W ELSE (W \o <<".">>) \o SubSeq(D, 1, k)
  BY <1>5 DEF WithoutZeros
<1>7. 1 \in Nat \ {0} /\ k \in Nat /\ k <= Len(D)
  BY <1>4, <1>6
<1>8. SubSeq(D, 1, k) \in Seq(Symbols)
  BY <1>4, <1>7, Part
<1>9. W \o <<".">> \in Seq(Symbols)
  BY <1>1, <1>4, ConcatProperties
<1>10. (W \o <<".">>) \o SubSeq(D, 1, k) \in Seq(Symbols)
  BY <1>8, <1>9, ConcatProperties
<1> QED  BY <1>4, <1>6, <1>10

(* The field holds symbols, and what was submitted is a natural number with *)
(* its own text; a transfer is no more than a balance, which has 64 bits.   *)
AmountInv ==
  /\ decimals \in Nat
  /\ max \in Int
  /\ text \in Seq(Symbols)
  /\ requested # NotSubmitted =>
       /\ requested.amount \in Nat
       /\ requested.text = amountToString(requested.amount, decimals)
       /\ form = "send" => requested.amount <= max
  /\ form = "send" => max <= MaxU64

(* The field begins like that. *)
LEMMA AmountInvInit == MInit => AmountInv
<1> SUFFICES ASSUME MInit PROVE AmountInv
  OBVIOUS
<1>1. /\ decimals \in Nat /\ max \in Int /\ requested = NotSubmitted
      /\ form = "send" => max <= MaxU64
  BY AmountTextAssumption DEF MInit, AmountInit
<1>2. text = <<>> \/ text = amountToString(max, decimals)
  BY DEF MInit, AmountInit
<1>3. text \in Seq(Symbols)
  <2>1. amountToString(max, decimals) \in Seq(Symbols)
    BY <1>1, TextSymbols
  <2>2. <<>> \in Seq(Symbols)
    OBVIOUS
  <2> QED  BY <1>2, <2>1, <2>2, Zenon
<1> QED  BY <1>1, <1>3 DEF AmountInv

(* Typing, Max and submitting keep it so; signing leaves the field alone. *)
LEMMA AmountInvNext == AmountInv /\ [MNext]_mvars => AmountInv'
<1> SUFFICES ASSUME AmountInv, [MNext]_mvars PROVE AmountInv'
  OBVIOUS
<1> USE DEF AmountInv
<1>1. ASSUME NEW c \in Chars, Type(c) PROVE AmountInv'
  <2>1. c \in Symbols
    BY AmountTextAssumption DEF Symbols
  <2>2. Append(text, c) \in Seq(Symbols)
    BY <2>1
  <2> QED  BY <1>1, <2>2 DEF Type
<1>2. CASE Erase
  <2>1. Front(text) \in Seq(Symbols)
    BY <1>2, Shorter DEF Erase
  <2> QED  BY <1>2, <2>1 DEF Erase
<1>3. CASE PressMax
  <2>1. amountToString(max, decimals) \in Seq(Symbols)
    BY TextSymbols
  <2> QED  BY <1>3, <2>1 DEF PressMax
<1>4. CASE Submit
  <2>1. PICK a \in validate(text) :
          requested' = [amount |-> a, text |-> SdkAmountToString(a, decimals)]
    BY <1>4 DEF Submit
  <2>2. /\ a \in stringToAmount(text, decimals) /\ (a > 0 \/ a >= 0)
        /\ form = "send" => a <= max
    BY DEF validate
  <2>3. a \in Int
    BY <2>2, AmountsInt
  <2>4. a \in Nat
    BY <2>2, <2>3
  <2>5. /\ requested'.amount = a
        /\ requested'.text = amountToString(a, decimals)
    BY <2>1 DEF SdkAmountToString
  <2>6. UNCHANGED <<form, decimals, max, text>>
    BY <1>4 DEF Submit
  <2> QED  BY <2>2, <2>4, <2>5, <2>6
<1>5. CASE UNCHANGED field
  BY <1>5 DEF field
<1>6. UNCHANGED field \/ Erase \/ PressMax \/ Submit \/ \E c \in Chars : Type(c)
  BY DEF MNext, mvars, BuildStartSessionIntent, buildTransferIntentInstruction, Ask,
         SelectAccount, AskWallet, WalletSigns, WalletThrows, BuildInstruction,
         SignatureRefused, Execute
<1> QED  BY <1>1, <1>2, <1>3, <1>4, <1>5, <1>6

(* In such a state the amounts are read back. *)
LEMMA AmountInvReads == AmountInv => AmountReadBack
<1> SUFFICES ASSUME AmountInv PROVE AmountReadBack
  OBVIOUS
<1> USE DEF AmountInv
<1>1. ASSUME requested # NotSubmitted
      PROVE  /\ TryUiAmountIntoAmount(requested.text, decimals)
                   = {requested.amount} \cap 0 .. MaxU64
             /\ form = "send" => requested.amount \in 0 .. MaxU64
  <2>1. TryUiAmountIntoAmount(requested.text, decimals) = {requested.amount} \cap 0 .. MaxU64
    BY <1>1, AmountIsReadBack
  <2>2. form = "send" => requested.amount \in 0 .. MaxU64
    BY <1>1, AmountTextAssumption
  <2> QED  BY <2>1, <2>2
<1>2. ASSUME max >= 0
      PROVE  stringToAmount(amountToString(max, decimals), decimals) = {max}
  <2>1. max \in Nat
    BY <1>2
  <2> QED  BY <2>1, AmountIsReadBack
<1> QED  BY <1>1, <1>2 DEF AmountReadBack

(* For any amounts, balances and decimals: the program reads from the text  *)
(* of the intent (the SDK's amountToString) exactly the amount the form     *)
(* submitted, or an error if that amount has more than 64 bits, which no    *)
(* transfer has; and stringToAmount reads the text that Max writes as the   *)
(* balance it was written from.                                             *)
THEOREM AmountsReadBack == MSpec => []AmountReadBack
<1>1. MSpec => []AmountInv
  BY AmountInvInit, AmountInvNext, PTL DEF MSpec
<1> QED  BY <1>1, AmountInvReads, PTL

-----------------------------------------------------------------------------
(* Lengths *)

(* Fields of at least one byte. *)
Sized(S) == \A f \in S : f.len \in Nat \ {0}

(* The lengths of the fields. *)
Lens(b) == [i \in 1 .. Len(b) |-> b[i].len]

(* g adds up w, as the fold in Length does. *)
Sums(g, w, n) ==
  g = [t \in SUBSET (1 .. n) |-> IF t = {} THEN 0 ELSE g[t \ {Max(t)}] + w[Max(t)]]

(* Adding up the lengths of fields is a fold ... *)
LEMMA SumsExist ==
  ASSUME NEW w, NEW n \in Nat, IntegersTo(w, n)
  PROVE  \E g : Sums(g, w, n)
<1>1. PICK g \in [SUBSET (1 .. n) -> Int] : Folds(g, 1, w, n)
  <2>1. 1 \in Int
    OBVIOUS
  <2> QED  BY <2>1, FoldsExist, Zenon
<1>2. \A t \in SUBSET (1 .. n) : 1 * g[t \ {Max(t)}] = g[t \ {Max(t)}]
  <2> SUFFICES ASSUME NEW t \in SUBSET (1 .. n) PROVE 1 * g[t \ {Max(t)}] = g[t \ {Max(t)}]
    OBVIOUS
  <2>1. t \ {Max(t)} \in SUBSET (1 .. n)
    OBVIOUS
  <2>2. g[t \ {Max(t)}] \in Int
    BY <2>1
  <2> QED  BY <2>2
<1>3. Sums(g, w, n)
  BY <1>1, <1>2 DEF Folds, Sums
<1> QED  BY <1>3

(* ... with steps that add one length each. *)
LEMMA SumsStep ==
  ASSUME NEW w, NEW n \in Nat, IntegersTo(w, n), NEW g, Sums(g, w, n)
  PROVE  Steps(g, 1, w, n)
<1>1. \A t \in SUBSET (1 .. n) : g[t] = IF t = {} THEN 0 ELSE g[t \ {Max(t)}] + w[Max(t)]
  BY DEF Sums
<1>2. ASSUME NEW k \in 1 .. n
      PROVE  Max(1 .. k) = k /\ (1 .. k) \ {k} = 1 .. (k - 1) /\ 1 .. k \in SUBSET (1 .. n)
             /\ 1 .. k # {}
  <2>1. 1 .. k \in SUBSET Int /\ k \in 1 .. k /\ \A y \in 1 .. k : y <= k
    OBVIOUS
  <2>2. Max(1 .. k) = k
    BY <2>1, MaxIs
  <2> QED  BY <2>2
<1>3. \A k \in 1 .. n : g[1 .. k] = g[1 .. (k - 1)] + w[k]
  BY <1>1, <1>2
<1>4. g[{}] = 0 /\ 1 .. 0 = {}
  <2>1. {} \in SUBSET (1 .. n) /\ 1 .. 0 = {}
    OBVIOUS
  <2>2. g[{}] = 0
    BY <1>1, <2>1, Zenon
  <2> QED  BY <2>1, <2>2
<1>5. \A k \in 0 .. n : g[1 .. k] \in Int
  <2> DEFINE N == {k \in 0 .. n : g[1 .. k] \notin Int}
  <2> SUFFICES ASSUME N # {} PROVE FALSE
    OBVIOUS
  <2>1. PICK k \in N : \A j \in N : k <= j
    <3>1. N \in SUBSET Nat
      OBVIOUS
    <3> HIDE DEF N
    <3> QED  BY <3>1, LeastOf
  <2>2. k # 0
    BY <1>4
  <2>3. k \in 1 .. n /\ k - 1 \in 0 .. n /\ k - 1 \notin N
    BY <2>1, <2>2
  <2>4. g[1 .. (k - 1)] \in Int /\ w[k] \in Int
    BY <2>3 DEF IntegersTo
  <2>5. g[1 .. k] \in Int
    BY <1>3, <2>3, <2>4
  <2> QED  BY <2>5
<1>6. ASSUME NEW k \in 1 .. n PROVE g[1 .. k] = 1 * g[1 .. (k - 1)] + w[k]
  <2>1. k - 1 \in 0 .. n
    OBVIOUS
  <2>2. g[1 .. (k - 1)] \in Int
    BY <1>5, <2>1
  <2> QED  BY <1>3, <2>2
<1> QED  BY <1>4, <1>6 DEF Steps

(* The lengths are numbers. *)
LEMMA LensInt ==
  ASSUME NEW S, Sized(S), NEW b \in Seq(S)
  PROVE  IntegersTo(Lens(b), Len(b))
<1>1. \A i \in 1 .. Len(b) : b[i] \in S
  OBVIOUS
<1> QED  BY <1>1 DEF Lens, Sized, IntegersTo

(* The length of bytes is computed by such steps. *)
LEMMA LengthIs ==
  ASSUME NEW S, Sized(S), NEW b \in Seq(S)
  PROVE  \E g : Steps(g, 1, Lens(b), Len(b)) /\ Length(b) = g[1 .. Len(b)]
<1> DEFINE n == Len(b)
           Rec(g) == g = [t \in SUBSET (DOMAIN b) |->
                            IF t = {} THEN 0 ELSE g[t \ {Max(t)}] + b[Max(t)].len]
           h == CHOOSE e : Rec(e)
<1>1. Length(b) = h[DOMAIN b]
  BY DEF Length, FoldLeft, MapThenFoldSet
<1>2. DOMAIN b = 1 .. n /\ n \in Nat
  OBVIOUS
<1>3. ASSUME NEW t \in SUBSET (1 .. n), t # {}
      PROVE  Lens(b)[Max(t)] = b[Max(t)].len
  <2>1. Max(t) \in 1 .. n
    BY <1>2, <1>3, MaxIn
  <2> QED  BY <2>1 DEF Lens
<1>4. ASSUME NEW g PROVE Rec(g) <=> Sums(g, Lens(b), n)
  BY <1>2, <1>3 DEF Sums
<1>5. IntegersTo(Lens(b), n)
  BY LensInt
<1>6. Rec(h)
  <2>1. PICK g : Sums(g, Lens(b), n)
    BY <1>2, <1>5, SumsExist, Zenon
  <2>2. Rec(g)
    BY <1>4, <2>1
  <2> QED  BY <2>2
<1> HIDE DEF h
<1>7. Steps(h, 1, Lens(b), n)
  BY <1>2, <1>4, <1>5, <1>6, SumsStep
<1> QED  BY <1>1, <1>2, <1>7

(* No fields, no bytes. *)
LEMMA LengthEmpty == Length(<<>>) = 0
<1> DEFINE S == [len : Nat \ {0}]
<1>1. Sized(S) /\ <<>> \in Seq(S) /\ Len(<<>>) = 0 /\ 1 .. 0 = {}
  BY DEF Sized
<1>2. PICK g : Steps(g, 1, Lens(<<>>), Len(<<>>)) /\ Length(<<>>) = g[1 .. Len(<<>>)]
  <2> HIDE DEF S
  <2> QED  BY <1>1, LengthIs
<1> QED  BY <1>1, <1>2 DEF Steps

(* One more field. *)
LEMMA LengthAppend ==
  ASSUME NEW S, Sized(S), NEW s \in Seq(S), NEW c \in S
  PROVE  Length(s) \in Int /\ Length(Append(s, c)) = Length(s) + c.len
<1> DEFINE n == Len(s)
           t == Append(s, c)
           w == Lens(s)
           v == Lens(t)
<1>1. /\ n \in Nat /\ t \in Seq(S) /\ Len(t) = n + 1 /\ t[n + 1] = c
      /\ \A k \in 1 .. n : t[k] = s[k] /\ s[k] \in S
  OBVIOUS
<1>2. PICK g : Steps(g, 1, w, n) /\ Length(s) = g[1 .. n]
  BY LengthIs
<1>3. PICK h : Steps(h, 1, v, n + 1) /\ Length(t) = h[1 .. (n + 1)]
  <2> HIDE DEF t
  <2> QED  BY <1>1, LengthIs
<1>4. v[n + 1] = c.len /\ \A k \in 1 .. n : w[k] \in Int /\ v[k] = w[k]
  <2>1. \A x \in S : x.len \in Int
    BY DEF Sized
  <2>2. \A k \in 1 .. (n + 1) : v[k] = t[k].len
    BY <1>1 DEF Lens
  <2>3. \A k \in 1 .. n : w[k] = s[k].len
    BY <1>1 DEF Lens
  <2> HIDE DEF t, w, v
  <2> QED  BY <1>1, <2>1, <2>2, <2>3
<1> HIDE DEF n, t, w, v
<1>5. \A k \in 0 .. n : g[1 .. k] \in Int /\ g[1 .. k] = h[1 .. k]
  <2>1. 1 \in Int /\ n + 1 \in Nat /\ n <= n + 1
    BY <1>1
  <2>2. Agree(w, v, n)
    BY <1>4 DEF Agree
  <2>3. Steps(g, 1, w, n) /\ Steps(h, 1, v, n + 1) /\ n \in Nat
    BY <1>1, <1>2, <1>3
  <2> QED  BY <2>1, <2>2, <2>3, StepsAgree
<1>6. h[1 .. (n + 1)] = 1 * h[1 .. n] + v[n + 1]
  <2>1. n + 1 \in 1 .. (n + 1) /\ (n + 1) - 1 = n
    BY <1>1
  <2> QED  BY <1>3, <2>1 DEF Steps
<1> QED  BY <1>1, <1>2, <1>3, <1>4, <1>5, <1>6 DEF t

(* There is at least one byte per field. *)
LEMMA LengthNat ==
  ASSUME NEW S, Sized(S), NEW s \in Seq(S)
  PROVE  Length(s) \in Nat /\ Length(s) >= Len(s)
<1> DEFINE OK(t) == Length(t) \in Nat /\ Length(t) >= Len(t)
           N == {n \in Nat : \E t \in Seq(S) : Len(t) = n /\ ~ OK(t)}
<1> SUFFICES ASSUME N # {} PROVE FALSE
  <2> HIDE DEF OK
  <2>1. N = {} => OK(s)
    OBVIOUS
  <2> QED  BY <2>1 DEF OK
<1>1. PICK n \in N : \A j \in N : n <= j
  <2>1. N \in SUBSET Nat
    <3> HIDE DEF OK
    <3> QED  OBVIOUS
  <2> HIDE DEF N
  <2> QED  BY <2>1, LeastOf
<1>2. PICK t \in Seq(S) : Len(t) = n /\ ~ OK(t)
  <2> HIDE DEF OK
  <2> QED  OBVIOUS
<1>3. t # <<>>
  BY <1>2, LengthEmpty
<1> DEFINE f == Front(t)
           c == t[Len(t)]
<1>4. f \in Seq(S) /\ Len(f) = n - 1 /\ c \in S /\ t = Append(f, c)
  BY <1>2, <1>3, Shorter
<1> HIDE DEF f, c
<1>5. Len(f) \in Nat /\ Len(f) \notin N /\ Len(t) = Len(f) + 1
  <2>1. Len(f) \in Nat /\ n \in Nat /\ Len(f) < n /\ Len(t) = Len(f) + 1
    BY <1>2, <1>4
  <2> HIDE DEF N
  <2> QED  BY <1>1, <2>1
<1>6. OK(f)
  <2> HIDE DEF OK
  <2> QED  BY <1>4, <1>5
<1>7. Length(t) = Length(f) + c.len /\ c.len \in Nat \ {0}
  BY <1>4, LengthAppend DEF Sized
<1> HIDE DEF N
<1>8. OK(t)
  BY <1>5, <1>6, <1>7
<1> QED  BY <1>2, <1>8

(* Lengths add up. *)
LEMMA LengthConcat ==
  ASSUME NEW S, Sized(S), NEW s \in Seq(S), NEW t \in Seq(S)
  PROVE  Length(s \o t) = Length(s) + Length(t)
<1> DEFINE OK(u) == Length(s \o u) = Length(s) + Length(u)
           N == {n \in Nat : \E u \in Seq(S) : Len(u) = n /\ ~ OK(u)}
<1> SUFFICES ASSUME N # {} PROVE FALSE
  <2> HIDE DEF OK
  <2>1. N = {} => OK(t)
    OBVIOUS
  <2> QED  BY <2>1 DEF OK
<1>1. PICK n \in N : \A j \in N : n <= j
  <2>1. N \in SUBSET Nat
    <3> HIDE DEF OK
    <3> QED  OBVIOUS
  <2> HIDE DEF N
  <2> QED  BY <2>1, LeastOf
<1>2. PICK u \in Seq(S) : Len(u) = n /\ ~ OK(u)
  <2> HIDE DEF OK
  <2> QED  OBVIOUS
<1>3. Length(s) \in Nat
  BY LengthNat
<1>4. CASE u = <<>>
  <2>1. s \o u = s
    BY <1>4
  <2>2. OK(u)
    BY <1>3, <1>4, <2>1, LengthEmpty
  <2> QED  BY <1>2, <2>2
<1>5. CASE u # <<>>
  <2> DEFINE f == Front(u)
             c == u[Len(u)]
  <2>1. f \in Seq(S) /\ Len(f) = n - 1 /\ c \in S /\ u = Append(f, c) /\ n \in Nat
    BY <1>2, <1>5, Shorter
  <2> HIDE DEF f, c
  <2>2. Len(f) \in Nat /\ Len(f) < n
    BY <2>1
  <2>3. OK(f)
    <3>1. Len(f) \notin N
      <4> HIDE DEF N
      <4> QED  BY <1>1, <2>1, <2>2
    <3> HIDE DEF OK
    <3> QED  BY <2>1, <2>2, <3>1
  <2> HIDE DEF N, OK
  <2>4. s \o f \in Seq(S) /\ s \o u = Append(s \o f, c)
    <3>1. s \o f \in Seq(S) /\ <<c>> \in Seq(S)
      BY <2>1, ConcatProperties
    <3>2. u = f \o <<c>>
      BY <2>1, AppendIsConcat
    <3>3. Append(s \o f, c) = (s \o f) \o <<c>>
      BY <2>1, <3>1, AppendIsConcat
    <3>4. (s \o f) \o <<c>> = s \o (f \o <<c>>)
      BY <2>1, <3>1, ConcatAssociative
    <3> QED  BY <3>1, <3>2, <3>3, <3>4
  <2>5. /\ Length(s \o u) = Length(s \o f) + c.len
        /\ Length(u) = Length(f) + c.len
    BY <2>1, <2>4, LengthAppend
  <2>6. Length(f) \in Nat /\ c.len \in Nat
    BY <2>1, LengthNat DEF Sized
  <2>7. OK(u)
    BY <1>3, <2>3, <2>5, <2>6 DEF OK
  <2> QED  BY <1>2, <2>7
<1> QED  BY <1>4, <1>5

-----------------------------------------------------------------------------
(* Slices *)

(* Laws of concatenation, with their hypotheses in one formula. *)
Sequences3(S, x, y, z) == x \in Seq(S) /\ y \in Seq(S) /\ z \in Seq(S)

(* Concatenation is associative. *)
LEMMA Regroup ==
  ASSUME NEW S, NEW x, NEW y, NEW z, Sequences3(S, x, y, z)
  PROVE  (x \o y) \o z = x \o (y \o z)
<1>1. x \in Seq(S) /\ y \in Seq(S) /\ z \in Seq(S)
  BY DEF Sequences3
<1> QED  BY <1>1, ConcatAssociative

(* The elements of a concatenation. *)
LEMMA Joined ==
  ASSUME NEW S, NEW x, NEW y, Sequences3(S, x, y, y)
  PROVE  /\ Len(x \o y) = Len(x) + Len(y)
         /\ \A i \in 1 .. Len(x) + Len(y) :
               (x \o y)[i] = IF i <= Len(x) THEN x[i] ELSE y[i - Len(x)]
<1>1. x \in Seq(S) /\ y \in Seq(S)
  BY DEF Sequences3
<1> QED  BY <1>1, ConcatProperties

(* Longer prefixes are longer. *)
LEMMA LongerPrefix ==
  ASSUME NEW S, Sized(S), NEW b \in Seq(S), NEW i \in 0 .. Len(b), NEW j \in 0 .. Len(b), i < j
  PROVE  Length(SubSeq(b, 1, i)) < Length(SubSeq(b, 1, j))
<1> DEFINE p == SubSeq(b, 1, i)
           q == SubSeq(b, i + 1, j)
<1>1. /\ Len(b) \in Nat /\ 1 \in Nat \ {0} /\ i \in Nat /\ i <= Len(b)
      /\ i + 1 \in Nat \ {0} /\ j \in Nat /\ j <= Len(b) /\ i + 1 <= j
  OBVIOUS
<1>2. p \in Seq(S)
  BY <1>1, Part
<1>3. q \in Seq(S) /\ Len(q) = j - (i + 1) + 1
  BY <1>1, Part
<1>4. p \o q = SubSeq(b, 1, j)
  <2>1. 1 \in 1 .. (Len(b) + 1) /\ i \in (1 - 1) .. Len(b) /\ j \in i .. Len(b)
    BY <1>1
  <2> QED  BY <2>1, ConcatAdjacentSubSeq
<1> HIDE DEF p, q
<1>5. Length(p \o q) = Length(p) + Length(q)
  BY <1>2, <1>3, LengthConcat
<1>6. Length(p) \in Nat /\ Length(q) \in Nat /\ Length(q) >= Len(q)
  BY <1>2, <1>3, LengthNat
<1>7. Length(p \o q) > Length(p)
  BY <1>1, <1>3, <1>5, <1>6
<1> QED  BY <1>4, <1>6, <1>7 DEF p

(* A prefix of a concatenation. *)
LEMMA PrefixIs ==
  ASSUME NEW S, NEW x \in Seq(S), NEW y \in Seq(S)
  PROVE  SubSeq(x \o y, 1, Len(x)) = x
<1> DEFINE b == x \o y
           p == SubSeq(b, 1, Len(x))
<1>1. /\ b \in Seq(S) /\ Len(b) = Len(x) + Len(y)
      /\ \A i \in 1 .. Len(x) + Len(y) : b[i] = IF i <= Len(x) THEN x[i] ELSE y[i - Len(x)]
  BY ConcatProperties
<1> HIDE DEF b
<1>2. 1 \in Nat \ {0} /\ Len(x) \in Nat /\ Len(y) \in Nat /\ Len(x) <= Len(b)
  BY <1>1
<1>3. /\ p \in Seq(S) /\ Len(p) = IF 1 <= Len(x) THEN Len(x) - 1 + 1 ELSE 0
      /\ \A i \in 1 .. (Len(x) - 1 + 1) : p[i] = b[1 + i - 1]
  BY <1>1, <1>2, Part
<1> HIDE DEF p
<1>4. Len(p) = Len(x)
  BY <1>2, <1>3
<1>5. \A i \in 1 .. Len(x) : p[i] = x[i]
  <2>1. \A i \in 1 .. Len(x) : /\ i \in 1 .. (Len(x) - 1 + 1) /\ 1 + i - 1 = i
                               /\ i \in 1 .. Len(x) + Len(y) /\ i <= Len(x)
    BY <1>2
  <2> QED  BY <1>1, <1>3, <2>1
<1>6. p = x
  BY <1>3, <1>4, <1>5, SeqEqual
<1> QED  BY <1>6 DEF p, b

(* b is x, then y, then z. *)
Split(b, x, y, z) == b = (x \o y) \o z

(* The middle of three parts. *)
LEMMA MiddleIs ==
  ASSUME NEW S, NEW x \in Seq(S), NEW y \in Seq(S), NEW z \in Seq(S), NEW b, Split(b, x, y, z)
  PROVE  /\ b \in Seq(S) /\ Len(b) = (Len(x) + Len(y)) + Len(z)
         /\ SubSeq(b, 1, Len(x)) = x
         /\ SubSeq(b, 1, Len(x) + Len(y)) = x \o y
         /\ SubSeq(b, Len(x) + 1, Len(x) + Len(y)) = y
<1> DEFINE p == Len(x)
           q == Len(x) + Len(y)
<1>1. /\ p \in Nat /\ q \in Nat /\ p <= q
      /\ x \o y \in Seq(S) /\ Len(x \o y) = q
  BY ConcatProperties
<1>2. b \in Seq(S) /\ Len(b) \in Nat /\ q <= Len(b) /\ Len(b) = q + Len(z)
  BY <1>1, ConcatProperties DEF Split
<1>3. SubSeq(b, 1, p) = x
  <2>1. y \o z \in Seq(S)
    BY ConcatProperties
  <2>2. b = x \o (y \o z)
    BY ConcatAssociative DEF Split
  <2> QED  BY <2>1, <2>2, PrefixIs
<1>4. SubSeq(b, 1, q) = x \o y
  BY <1>1, PrefixIs DEF Split
<1>5. SubSeq(b, p + 1, q) = y
  <2>1. SubSeq(b, 1, p) \o SubSeq(b, p + 1, q) = SubSeq(b, 1, q)
    <3>1. 1 \in 1 .. (Len(b) + 1) /\ p \in (1 - 1) .. Len(b) /\ q \in p .. Len(b)
      BY <1>1, <1>2
    <3> QED  BY <1>2, <3>1, ConcatAdjacentSubSeq
  <2>2. SubSeq(b, p + 1, q) \in Seq(S)
    <3>1. p + 1 \in Nat \ {0} /\ q \in Nat /\ q <= Len(b)
      BY <1>1, <1>2
    <3> QED  BY <1>2, <3>1, Part
  <2> DEFINE s == SubSeq(b, p + 1, q)
  <2>3. s \in Seq(S) /\ x \o s = x \o y
    BY <1>3, <1>4, <2>1, <2>2
  <2> HIDE DEF s
  <2>4. s = y
    BY <2>3, ConcatSimplifications, Zenon
  <2> QED  BY <2>4 DEF s
<1> QED  BY <1>2, <1>3, <1>4, <1>5

(* A slice between two places is unique: the fields all have a length. *)
LEMMA SliceIs ==
  ASSUME NEW S, Sized(S), NEW x \in Seq(S), NEW y \in Seq(S), NEW z \in Seq(S), y # <<>>,
         NEW b, Split(b, x, y, z)
  PROVE  SliceAt(b, Length(x), Length(y)) = {y}
<1> DEFINE p == Len(x)
           q == Len(x) + Len(y)
           L(k) == Length(SubSeq(b, 1, k))
<1>1. p \in Nat /\ q \in Nat /\ p < q /\ Len(y) \in Nat \ {0} /\ Len(z) \in Nat
  OBVIOUS
<1>0. /\ b \in Seq(S) /\ Len(b) = q + Len(z)
      /\ SubSeq(b, 1, p) = x /\ SubSeq(b, 1, q) = x \o y /\ SubSeq(b, p + 1, q) = y
  BY MiddleIs
<1>2. b \in Seq(S) /\ Len(b) \in Nat /\ q <= Len(b) /\ Len(b) = q + Len(z)
  BY <1>0, <1>1
<1>3. SubSeq(b, 1, p) = x
  BY <1>0
<1>4. SubSeq(b, 1, q) = x \o y
  BY <1>0
<1>5. ASSUME NEW i \in 0 .. Len(b), NEW j \in 0 .. Len(b), L(i) = L(j) PROVE i = j
  <2>1. L(i) \in Nat /\ L(j) \in Nat
    <3>1. 1 \in Nat \ {0} /\ i \in Nat /\ j \in Nat /\ i <= Len(b) /\ j <= Len(b)
      BY <1>2
    <3>2. SubSeq(b, 1, i) \in Seq(S) /\ SubSeq(b, 1, j) \in Seq(S)
      BY <1>2, <3>1, Part
    <3> QED  BY <3>2, LengthNat
  <2>2. ~ (i < j)
    <3> SUFFICES ASSUME i < j PROVE FALSE
      OBVIOUS
    <3>1. L(i) < L(j)
      BY <1>2, LongerPrefix
    <3> QED  BY <1>5, <2>1, <3>1
  <2>3. ~ (j < i)
    <3> SUFFICES ASSUME j < i PROVE FALSE
      OBVIOUS
    <3>1. L(j) < L(i)
      BY <1>2, LongerPrefix
    <3> QED  BY <1>5, <2>1, <3>1
  <2> QED  BY <2>2, <2>3
<1>6. StartsAt(b, Length(x)) = {p + 1}
  <2>1. ASSUME NEW i \in 1 .. Len(b), L(i - 1) = Length(x) PROVE i = p + 1
    <3>1. i - 1 \in 0 .. Len(b) /\ p \in 0 .. Len(b)
      BY <1>1, <1>2
    <3>2. L(p) = Length(x)
      BY <1>3
    <3>3. i - 1 = p
      BY <1>5, <2>1, <3>1, <3>2
    <3> QED  BY <1>1, <3>3
  <2>2. p + 1 \in 1 .. Len(b) /\ L((p + 1) - 1) = Length(x)
    <3>1. (p + 1) - 1 = p /\ p + 1 \in 1 .. Len(b)
      BY <1>1, <1>2
    <3> QED  BY <1>3, <3>1
  <2> QED  BY <2>1, <2>2 DEF StartsAt
<1>7. ASSUME NEW j \in 1 .. Len(b), Length(SubSeq(b, p + 1, j)) = Length(y)
      PROVE  j = q
  <2>1. Length(y) > 0 /\ Length(x) \in Nat /\ Length(y) \in Nat
    BY <1>1, LengthNat
  <2>2. j >= p + 1
    <3> SUFFICES ASSUME j < p + 1 PROVE FALSE
      BY <1>1, <1>2
    <3>1. SubSeq(b, p + 1, j) = <<>>
      BY <1>1, <1>2, SubSeqEmpty
    <3>2. Length(SubSeq(b, p + 1, j)) = 0
      BY <3>1, LengthEmpty, Zenon
    <3>3. Length(y) = 0
      BY <1>7, <3>2, Zenon
    <3> QED  BY <2>1, <3>3
  <2>3. SubSeq(b, 1, p) \o SubSeq(b, p + 1, j) = SubSeq(b, 1, j)
    <3>1. 1 \in 1 .. (Len(b) + 1) /\ p \in (1 - 1) .. Len(b) /\ j \in p .. Len(b)
      BY <1>1, <1>2, <2>2
    <3> QED  BY <1>2, <3>1, ConcatAdjacentSubSeq
  <2>4. SubSeq(b, p + 1, j) \in Seq(S)
    <3>1. p + 1 \in Nat \ {0} /\ j \in Nat /\ j <= Len(b)
      BY <1>1, <1>2
    <3> QED  BY <1>2, <3>1, Part
  <2>5. L(j) = Length(x) + Length(y)
    <3> DEFINE s == SubSeq(b, p + 1, j)
    <3>1. s \in Seq(S) /\ x \o s = SubSeq(b, 1, j) /\ Length(s) = Length(y)
      BY <1>3, <1>7, <2>3, <2>4, Zenon
    <3> HIDE DEF s
    <3>2. Length(x \o s) = Length(x) + Length(s)
      BY <3>1, LengthConcat
    <3> QED  BY <3>1, <3>2, Zenon
  <2>6. L(q) = Length(x) + Length(y)
    BY <1>4, LengthConcat
  <2>7. j \in 0 .. Len(b) /\ q \in 0 .. Len(b)
    BY <1>1, <1>2
  <2> QED  BY <1>5, <2>5, <2>6, <2>7
<1>8. SubSeq(b, p + 1, q) = y
  BY <1>0
<1>9. q \in 1 .. Len(b)
  BY <1>1, <1>2
<1>10. y \in SliceAt(b, Length(x), Length(y))
  <2>1. p + 1 \in StartsAt(b, Length(x))
    BY <1>6
  <2> DEFINE sub(i, j) == SubSeq(b, i, j)
             T == {sub(i, j) : i \in StartsAt(b, Length(x)), j \in 1 .. Len(b)}
  <2>2. SliceAt(b, Length(x), Length(y)) = {s \in T : Length(s) = Length(y)}
    BY DEF SliceAt
  <2>3. sub(p + 1, q) = y
    BY <1>8
  <2> HIDE DEF sub
  <2>4. sub(p + 1, q) \in T
    BY <1>9, <2>1
  <2> HIDE DEF T
  <2> QED  BY <2>2, <2>3, <2>4
<1>11. ASSUME NEW s \in SliceAt(b, Length(x), Length(y)) PROVE s = y
  <2>1. PICK i \in StartsAt(b, Length(x)), j \in 1 .. Len(b) : s = SubSeq(b, i, j)
    BY DEF SliceAt
  <2>2. Length(s) = Length(y)
    BY DEF SliceAt
  <2>3. i = p + 1
    BY <1>6
  <2>4. j = q
    BY <1>7, <2>1, <2>2, <2>3, Zenon
  <2> QED  BY <1>8, <2>1, <2>3, <2>4, Zenon
<1> QED  BY <1>10, <1>11

(* The middle of three parts, with the hypotheses in one formula. *)
LEMMA MiddleOf ==
  ASSUME NEW S, NEW b, NEW x, NEW y, NEW z, Sequences3(S, x, y, z), Split(b, x, y, z)
  PROVE  SubSeq(b, Len(x) + 1, Len(x) + Len(y)) = y
<1>1. x \in Seq(S) /\ y \in Seq(S) /\ z \in Seq(S)
  BY DEF Sequences3
<1> QED  BY <1>1, MiddleIs

(* The hypotheses of SliceIs. *)
Parts(S, b, x, y, z) ==
  /\ Sized(S) /\ x \in Seq(S) /\ y \in Seq(S) /\ z \in Seq(S)
  /\ y # <<>> /\ Split(b, x, y, z)

(* The same, with its hypotheses in one formula. *)
LEMMA SliceOf ==
  ASSUME NEW S, NEW b, NEW x, NEW y, NEW z, Parts(S, b, x, y, z)
  PROVE  SliceAt(b, Length(x), Length(y)) = {y}
<1>1. /\ Sized(S) /\ x \in Seq(S) /\ y \in Seq(S) /\ z \in Seq(S)
      /\ y # <<>> /\ Split(b, x, y, z)
  BY DEF Parts
<1> QED  BY <1>1, SliceIs

-----------------------------------------------------------------------------
(* Instructions *)

(* Bytes: fields with one of these names and a content in X. *)
Names ==
  {"header", "key", "signature", "text", "domain", "version", "count", "format", "length",
   "application"}
Fields(X) == [what : Names, is : X, len : Nat \ {0}]

(* Fields have a length. *)
LEMMA FieldsSized == \A X : Sized(Fields(X))
  BY DEF Fields, Sized

(* A single field. *)
LEMMA FieldIs ==
  ASSUME NEW X, NEW w \in Names, NEW v \in X, NEW n \in Nat \ {0}
  PROVE  /\ Field(w, v, n) \in Seq(Fields(X)) /\ Field(w, v, n) # <<>>
         /\ Len(Field(w, v, n)) = 1
         /\ Field(w, v, n)[1] = [what |-> w, is |-> v, len |-> n]
         /\ [what |-> w, is |-> v, len |-> n] \in Fields(X)
         /\ Length(Field(w, v, n)) = n
<1> DEFINE f == [what |-> w, is |-> v, len |-> n]
<1>1. f \in Fields(X) /\ f.len = n
  BY DEF Fields
<1>2. Field(w, v, n) = <<f>>
  BY DEF Field
<1> HIDE DEF f
<1>3. <<f>> \in Seq(Fields(X)) /\ <<f>> # <<>> /\ Len(<<f>>) = 1 /\ <<f>>[1] = f
  BY <1>1
<1>4. Length(<<f>>) = n
  <2>1. <<>> \in Seq(Fields(X)) /\ Append(<<>>, f) = <<f>>
    OBVIOUS
  <2>2. Length(Append(<<>>, f)) = Length(<<>>) + f.len
    BY <1>1, <2>1, FieldsSized, LengthAppend
  <2>3. 0 + n = n
    OBVIOUS
  <2> QED  BY <1>1, <2>1, <2>2, <2>3, LengthEmpty, Zenon
<1> QED  BY <1>1, <1>2, <1>3, <1>4 DEF f

(* Its type and its length. *)
LEMMA FieldTyped ==
  ASSUME NEW X, NEW w \in Names, NEW v \in X, NEW n \in Nat \ {0}
  PROVE  Field(w, v, n) \in Seq(Fields(X)) /\ Length(Field(w, v, n)) = n
  BY FieldIs

(* Two parts are three with nothing at the end. *)
LEMMA SplitLast ==
  ASSUME NEW S, NEW x \in Seq(S), NEW y \in Seq(S)
  PROVE  Split(x \o y, x, y, <<>>)
<1>1. x \o y \in Seq(S)
  BY ConcatProperties
<1> QED  BY <1>1, ConcatEmptySeq DEF Split

(* A part of bytes that come after others. *)
LEMMA SplitInner ==
  ASSUME NEW S, NEW h \in Seq(S), NEW x \in Seq(S), NEW y \in Seq(S), NEW z \in Seq(S),
         NEW b, Split(b, x, y, z)
  PROVE  Split(h \o b, h \o x, y, z)
<1> DEFINE xy == x \o y
<1>1. xy \in Seq(S)
  BY ConcatProperties
<1>2. h \o (xy \o z) = (h \o xy) \o z
  <2> HIDE DEF xy
  <2>1. Sequences3(S, h, xy, z)
    BY <1>1, Zenon DEF Sequences3
  <2>2. (h \o xy) \o z = h \o (xy \o z)
    BY <2>1, Regroup
  <2> QED  BY <2>2, Zenon
<1>3. h \o (x \o y) = (h \o x) \o y
  BY ConcatAssociative
<1> QED  BY <1>2, <1>3, Zenon DEF Split

(* Four parts are three, the last two taken together. *)
LEMMA SplitFirst ==
  ASSUME NEW S, NEW x \in Seq(S), NEW y \in Seq(S), NEW z \in Seq(S), NEW u \in Seq(S),
         NEW b, b = ((x \o y) \o z) \o u
  PROVE  Split(b, x, y, z \o u)
<1>1. x \o y \in Seq(S)
  BY ConcatProperties
<1>2. ((x \o y) \o z) \o u = (x \o y) \o (z \o u)
  BY <1>1, ConcatAssociative
<1> QED  BY <1>2 DEF Split

(* The parts of the instruction are where the header says. *)
Reads(d, signature, bytes, key) ==
  /\ KeyAt(d) = {Field("key", key, PUBLIC_KEY_LEN)}
  /\ SignatureAt(d) = {Field("signature", signature, SIGNATURE_LEN)}
  /\ MessageAt(d) = {bytes}

(* The widths of the parts of an instruction. *)
LEMMA Widths ==
  /\ HEADER_LEN \in Nat \ {0} /\ PUBLIC_KEY_LEN \in Nat \ {0} /\ SIGNATURE_LEN \in Nat \ {0}
  /\ "header" \in Names /\ "key" \in Names /\ "signature" \in Names
<1>1. "header" \in Names /\ "key" \in Names /\ "signature" \in Names
  BY DEF Names
<1>2. HEADER_LEN \in Nat \ {0} /\ PUBLIC_KEY_LEN \in Nat \ {0} /\ SIGNATURE_LEN \in Nat \ {0}
  BY DEF HEADER_LEN, PUBLIC_KEY_LEN, SIGNATURE_LEN
<1> QED  BY <1>1, <1>2

(* The header of createInstructionWithPublicKey points at its parts. *)
LEMMA ReadsWithKey ==
  ASSUME NEW X, 0 \in X, NEW signature \in X, NEW key \in X,
         NEW bytes \in Seq(Fields(X)), bytes # <<>>
  PROVE  Reads(createInstructionWithPublicKey(signature, bytes, key), signature, bytes, key)
<1> DEFINE S == Fields(X)
           d == createInstructionWithPublicKey(signature, bytes, key)
           h == Field("header", 0, HEADER_LEN)
           k == Field("key", key, PUBLIC_KEY_LEN)
           s == Field("signature", signature, SIGNATURE_LEN)
           hk == h \o k
           hks == hk \o s
<1>1. Sized(S) /\ bytes \in Seq(S)
  BY FieldsSized
<1>2. /\ h \in Seq(S) /\ Length(h) = HEADER_LEN
      /\ k \in Seq(S) /\ Length(k) = PUBLIC_KEY_LEN /\ k # <<>>
      /\ s \in Seq(S) /\ Length(s) = SIGNATURE_LEN /\ s # <<>>
  <2>1. h \in Seq(S) /\ Length(h) = HEADER_LEN
    BY FieldIs, Widths, Zenon
  <2>2. k \in Seq(S) /\ Length(k) = PUBLIC_KEY_LEN
    BY FieldIs, Widths, Zenon
  <2>3. s \in Seq(S) /\ Length(s) = SIGNATURE_LEN
    BY FieldIs, Widths, Zenon
  <2>4. k # <<>> /\ s # <<>>
    BY DEF Field
  <2> QED  BY <2>1, <2>2, <2>3, <2>4, Zenon
<1>3. /\ d.signatureOffset = HEADER_LEN + PUBLIC_KEY_LEN /\ d.publicKeyOffset = HEADER_LEN
      /\ d.messageOffset = HEADER_LEN + PUBLIC_KEY_LEN + SIGNATURE_LEN
      /\ d.messageSize = Length(bytes) /\ d.bytes = hks \o bytes
  BY DEF createInstructionWithPublicKey
<1> HIDE DEF S, d, h, k, s
<1>4. hk \in Seq(S) /\ hks \in Seq(S)
  BY <1>2, ConcatProperties, Zenon
<1>5. s \o bytes \in Seq(S)
  BY <1>1, <1>2, ConcatProperties, Zenon
<1>6. Length(hk) = HEADER_LEN + PUBLIC_KEY_LEN
  BY <1>1, <1>2, LengthConcat, Zenon
<1>7. Length(hks) = HEADER_LEN + PUBLIC_KEY_LEN + SIGNATURE_LEN
  BY <1>1, <1>2, <1>4, <1>6, LengthConcat, Zenon
<1>8. Split(d.bytes, h, k, s \o bytes)
  BY <1>1, <1>2, <1>3, SplitFirst, Zenon
<1>9. Split(d.bytes, hk, s, bytes)
  BY <1>3 DEF Split
<1>10. Split(d.bytes, hks, bytes, <<>>) /\ <<>> \in Seq(S)
  <2> HIDE DEF hks
  <2>1. <<>> \in Seq(S)
    OBVIOUS
  <2> QED  BY <1>1, <1>3, <1>4, <2>1, SplitLast, Zenon
<1> HIDE DEF hk, hks
<1>11. KeyAt(d) = {k}
  <2>0. Parts(S, d.bytes, h, k, s \o bytes)
    BY <1>1, <1>2, <1>5, <1>8, Zenon DEF Parts
  <2>1. SliceAt(d.bytes, Length(h), Length(k)) = {k}
    BY <2>0, SliceOf
  <2> QED  BY <1>2, <1>3, <2>1, Zenon DEF KeyAt
<1>12. SignatureAt(d) = {s}
  <2>0. Parts(S, d.bytes, hk, s, bytes)
    BY <1>1, <1>2, <1>4, <1>9, Zenon DEF Parts
  <2>1. SliceAt(d.bytes, Length(hk), Length(s)) = {s}
    BY <2>0, SliceOf
  <2> QED  BY <1>2, <1>3, <1>6, <2>1, Zenon DEF SignatureAt
<1>13. MessageAt(d) = {bytes}
  <2>0. Parts(S, d.bytes, hks, bytes, <<>>)
    BY <1>1, <1>4, <1>10, Zenon DEF Parts
  <2>1. SliceAt(d.bytes, Length(hks), Length(bytes)) = {bytes}
    BY <2>0, SliceOf
  <2> QED  BY <1>3, <1>7, <2>1, Zenon DEF MessageAt
<1> QED  BY <1>11, <1>12, <1>13, Zenon DEF Reads, d, k, s

(* So does that of buildEd25519InstructionWithOffsets, when the offset is   *)
(* that of a field with the key.                                            *)
LEMMA ReadsWithOffset ==
  ASSUME NEW X, 0 \in X, NEW signature \in X, NEW key \in X,
         NEW bytes \in Seq(Fields(X)), bytes # <<>>,
         NEW x \in Seq(Fields(X)), NEW z \in Seq(Fields(X)),
         Split(bytes, x, Field("key", key, PUBLIC_KEY_LEN), z)
  PROVE  Reads(buildEd25519InstructionWithOffsets(signature, bytes, Length(x)),
               signature, bytes, key)
<1> DEFINE S == Fields(X)
           d == buildEd25519InstructionWithOffsets(signature, bytes, Length(x))
           h == Field("header", 0, HEADER_LEN)
           k == Field("key", key, PUBLIC_KEY_LEN)
           s == Field("signature", signature, SIGNATURE_LEN)
           hs == h \o s
<1>1. Sized(S) /\ bytes \in Seq(S) /\ x \in Seq(S) /\ z \in Seq(S)
  BY FieldsSized
<1>2. /\ h \in Seq(S) /\ Length(h) = HEADER_LEN
      /\ k \in Seq(S) /\ Length(k) = PUBLIC_KEY_LEN /\ k # <<>>
      /\ s \in Seq(S) /\ Length(s) = SIGNATURE_LEN /\ s # <<>>
  <2>1. h \in Seq(S) /\ Length(h) = HEADER_LEN
    BY FieldIs, Widths, Zenon
  <2>2. k \in Seq(S) /\ Length(k) = PUBLIC_KEY_LEN
    BY FieldIs, Widths, Zenon
  <2>3. s \in Seq(S) /\ Length(s) = SIGNATURE_LEN
    BY FieldIs, Widths, Zenon
  <2>4. k # <<>> /\ s # <<>>
    BY DEF Field
  <2> QED  BY <2>1, <2>2, <2>3, <2>4, Zenon
<1>3. /\ d.signatureOffset = HEADER_LEN
      /\ d.publicKeyOffset = HEADER_LEN + SIGNATURE_LEN + Length(x)
      /\ d.messageOffset = HEADER_LEN + SIGNATURE_LEN
      /\ d.messageSize = Length(bytes) /\ d.bytes = hs \o bytes
  BY DEF buildEd25519InstructionWithOffsets
<1> HIDE DEF S, d, h, k, s
<1>5. hs \in Seq(S)
  BY <1>2, ConcatProperties, Zenon
<1>6. Length(hs) = HEADER_LEN + SIGNATURE_LEN
  BY <1>1, <1>2, LengthConcat, Zenon
<1>7. Split(d.bytes, h, s, bytes)
  BY <1>3 DEF Split
<1> HIDE DEF hs
<1>8. Split(d.bytes, hs, bytes, <<>>) /\ <<>> \in Seq(S)
  <2>1. <<>> \in Seq(S)
    OBVIOUS
  <2> QED  BY <1>1, <1>3, <1>5, <2>1, SplitLast, Zenon
<1>9. hs \o x \in Seq(S) /\ x \o k \in Seq(S)
  BY <1>1, <1>2, <1>5, ConcatProperties, Zenon
<1>10. Length(hs \o x) = HEADER_LEN + SIGNATURE_LEN + Length(x)
  BY <1>1, <1>5, <1>6, LengthConcat, Zenon
<1>11. Split(d.bytes, hs \o x, k, z)
  <2>1. Split(bytes, x, k, z)
    BY DEF k
  <2>2. Split(hs \o bytes, hs \o x, k, z)
    BY <1>1, <1>2, <1>5, <2>1, SplitInner, Zenon
  <2> QED  BY <1>3, <2>2, Zenon
<1>12. KeyAt(d) = {k}
  <2>0. Parts(S, d.bytes, hs \o x, k, z)
    BY <1>1, <1>2, <1>9, <1>11, Zenon DEF Parts
  <2>1. SliceAt(d.bytes, Length(hs \o x), Length(k)) = {k}
    BY <2>0, SliceOf
  <2> QED  BY <1>2, <1>3, <1>10, <2>1, Zenon DEF KeyAt
<1>13. SignatureAt(d) = {s}
  <2>0. Parts(S, d.bytes, h, s, bytes)
    BY <1>1, <1>2, <1>7, Zenon DEF Parts
  <2>1. SliceAt(d.bytes, Length(h), Length(s)) = {s}
    BY <2>0, SliceOf
  <2> QED  BY <1>2, <1>3, <2>1, Zenon DEF SignatureAt
<1>14. MessageAt(d) = {bytes}
  <2>0. Parts(S, d.bytes, hs, bytes, <<>>)
    BY <1>1, <1>5, <1>8, Zenon DEF Parts
  <2>1. SliceAt(d.bytes, Length(hs), Length(bytes)) = {bytes}
    BY <2>0, SliceOf
  <2> QED  BY <1>3, <1>6, <2>1, Zenon DEF MessageAt
<1> QED  BY <1>12, <1>13, <1>14, Zenon DEF Reads, d, k, s

(* What the program reads of such an instruction. *)
LEMMA ProgramReads ==
  ASSUME NEW d, NEW signature, NEW bytes, NEW key, Reads(d, signature, bytes, key)
  PROVE  /\ Ed25519Verifies(d) <=> Verifies(key, signature, bytes)
         /\ IntentLoad(d) = {[signer |-> key, message |-> t] : t \in MessageDeserialize(bytes)}
<1> DEFINE k == Field("key", key, PUBLIC_KEY_LEN)
           s == Field("signature", signature, SIGNATURE_LEN)
<1>1. /\ k[1].what = "key" /\ k[1].is = key
      /\ s[1].what = "signature" /\ s[1].is = signature
  BY DEF Field
<1>2. KeyAt(d) = {k} /\ SignatureAt(d) = {s} /\ MessageAt(d) = {bytes}
  BY DEF Reads
<1> HIDE DEF k, s
<1>3. Ed25519Verifies(d) <=> Verifies(key, signature, bytes)
  BY <1>1, <1>2 DEF Ed25519Verifies
<1>4. UNION {MessageDeserialize(m) : m \in MessageAt(d)} = MessageDeserialize(bytes)
  BY <1>2
<1>5. IntentLoad(d) = {[signer |-> key, message |-> t] : t \in MessageDeserialize(bytes)}
  BY <1>1, <1>2, <1>4 DEF IntentLoad
<1> QED  BY <1>3, <1>5

-----------------------------------------------------------------------------
(* Names of fields *)

(* The names in a concatenation. *)
LEMMA HasConcat ==
  ASSUME NEW S, NEW x \in Seq(S), NEW y \in Seq(S), NEW w
  PROVE  Has(x \o y, w) <=> Has(x, w) \/ Has(y, w)
<1>1. Range(x \o y) = Range(x) \cup Range(y)
  BY RangeConcatenation
<1> QED  BY <1>1 DEF Has

(* The name of a single field. *)
LEMMA HasField ==
  ASSUME NEW v, NEW i, NEW n, NEW w
  PROVE  Has(Field(v, i, n), w) <=> v = w
<1>1. Range(Field(v, i, n)) = {[what |-> v, is |-> i, len |-> n]}
  BY DEF Range, Field
<1> QED  BY <1>1 DEF Has

(* A field with a name that no other has. *)
LEMMA OnlyAt ==
  ASSUME NEW S, NEW x \in Seq(S), NEW f \in S, NEW z \in Seq(S), NEW w, f.what = w,
         ~ Has(x, w), ~ Has(z, w), NEW b, Split(b, x, <<f>>, z)
  PROVE  /\ {i \in 1 .. Len(b) : b[i].what = w} = {Len(x) + 1}
         /\ b[Len(x) + 1] = f
<1> DEFINE n == Len(x)
           xf == x \o <<f>>
<1>1. n \in Nat /\ Len(z) \in Nat /\ <<f>> \in Seq(S) /\ Len(<<f>>) = 1
  OBVIOUS
<1>2. /\ xf \in Seq(S) /\ Len(xf) = n + 1
      /\ \A i \in 1 .. n + 1 : xf[i] = IF i <= n THEN x[i] ELSE <<f>>[i - n]
  BY <1>1, ConcatProperties
<1> HIDE DEF xf
<1>3. /\ Len(b) = (n + 1) + Len(z)
      /\ \A i \in 1 .. (n + 1) + Len(z) : b[i] = IF i <= n + 1 THEN xf[i] ELSE z[i - (n + 1)]
  <2>1. b = xf \o z
    BY DEF Split, xf
  <2>2. /\ Len(xf \o z) = Len(xf) + Len(z)
        /\ \A i \in 1 .. Len(xf) + Len(z) :
              (xf \o z)[i] = IF i <= Len(xf) THEN xf[i] ELSE z[i - Len(xf)]
    <3>1. Sequences3(S, xf, z, z)
      BY <1>2, Zenon DEF Sequences3
    <3> QED  BY <3>1, Joined
  <2> QED  BY <1>2, <2>1, <2>2, Zenon
<1>4. \A i \in 1 .. n : x[i].what # w
  BY DEF Has, Range
<1>5. \A i \in 1 .. Len(z) : z[i].what # w
  BY DEF Has, Range
<1>6. b[n + 1] = f
  <2>1. n + 1 \in 1 .. (n + 1) + Len(z) /\ n + 1 <= n + 1 /\ n + 1 \in 1 .. n + 1
        /\ ~ (n + 1 <= n) /\ (n + 1) - n = 1
    BY <1>1
  <2>2. b[n + 1] = xf[n + 1] /\ xf[n + 1] = <<f>>[(n + 1) - n]
    <3> HIDE DEF n
    <3> QED  BY <1>2, <1>3, <2>1, Zenon
  <2> QED  BY <2>1, <2>2
<1> HIDE DEF n
<1>7. ASSUME NEW i \in 1 .. Len(b), b[i].what = w PROVE i = n + 1
  <2>0. i \in 1 .. (n + 1) + Len(z)
    BY <1>3
  <2>1. CASE i <= n
    <3>1. i \in 1 .. n /\ i \in 1 .. n + 1 /\ i <= n + 1
      BY <1>1, <2>0, <2>1
    <3>2. b[i] = x[i]
      BY <1>2, <1>3, <2>0, <2>1, <3>1
    <3> QED  BY <1>4, <1>7, <3>1, <3>2
  <2>2. CASE i > n + 1
    <3>1. i - (n + 1) \in 1 .. Len(z) /\ ~ (i <= n + 1)
      BY <1>1, <2>0, <2>2
    <3>2. b[i] = z[i - (n + 1)]
      BY <1>3, <2>0, <3>1
    <3> QED  BY <1>5, <1>7, <3>1, <3>2
  <2> QED  BY <1>1, <2>0, <2>1, <2>2
<1>8. n + 1 \in 1 .. Len(b) /\ b[n + 1].what = w
  BY <1>1, <1>3, <1>6
<1>9. {i \in 1 .. Len(b) : b[i].what = w} = {n + 1}
  BY <1>7, <1>8
<1> QED  BY <1>6, <1>9 DEF n

(* The hypotheses of OnlyAt. *)
Alone(S, b, x, f, z, w) ==
  /\ x \in Seq(S) /\ f \in S /\ z \in Seq(S) /\ f.what = w
  /\ ~ Has(x, w) /\ ~ Has(z, w) /\ Split(b, x, <<f>>, z)

(* The same, with its hypotheses in one formula. *)
LEMMA AloneAt ==
  ASSUME NEW S, NEW b, NEW x, NEW f, NEW z, NEW w, Alone(S, b, x, f, z, w)
  PROVE  /\ {i \in 1 .. Len(b) : b[i].what = w} = {Len(x) + 1}
         /\ b[Len(x) + 1] = f
<1>1. /\ x \in Seq(S) /\ f \in S /\ z \in Seq(S) /\ f.what = w
      /\ ~ Has(x, w) /\ ~ Has(z, w) /\ Split(b, x, <<f>>, z)
  BY DEF Alone
<1> QED  BY <1>1, OnlyAt

(* The keys in a list of signers. *)
KeyFields(keys) ==
  [i \in 1 .. Len(keys) |-> [what |-> "key", is |-> keys[i], len |-> PUBLIC_KEY_LEN]]

(* The keys of a list of signers, as fields. *)
LEMMA KeyFieldsAre ==
  ASSUME NEW X, NEW keys \in Seq(X)
  PROVE  /\ KeyFields(keys) \in Seq(Fields(X)) /\ Len(KeyFields(keys)) = Len(keys)
         /\ \A i \in 1 .. Len(keys) : KeyFields(keys)[i]
                = [what |-> "key", is |-> keys[i], len |-> PUBLIC_KEY_LEN]
         /\ \A i \in 1 .. Len(keys) : /\ KeyFields(keys)[i].is = keys[i]
                                       /\ KeyFields(keys)[i].len = PUBLIC_KEY_LEN
         /\ \A w : Has(KeyFields(keys), w) => w = "key"
<1> DEFINE K == KeyFields(keys)
<1>1. Len(keys) \in Nat
  OBVIOUS
<1>2. \A i \in 1 .. Len(keys) :
         [what |-> "key", is |-> keys[i], len |-> PUBLIC_KEY_LEN] \in Fields(X)
  BY Widths DEF Fields
<1>3. K \in [1 .. Len(keys) -> Fields(X)]
  BY <1>2 DEF KeyFields
<1>4. K \in Seq(Fields(X)) /\ Len(K) = Len(keys)
  <2> HIDE DEF K
  <2> QED  BY <1>1, <1>3
<1>5. \A i \in 1 .. Len(keys) : K[i] = [what |-> "key", is |-> keys[i], len |-> PUBLIC_KEY_LEN]
  BY DEF KeyFields
<1>7. \A i \in 1 .. Len(keys) : K[i].is = keys[i] /\ K[i].len = PUBLIC_KEY_LEN
  BY DEF KeyFields
<1> HIDE DEF K
<1>6. \A w : Has(K, w) => w = "key"
  BY <1>3, <1>5 DEF Has, Range
<1> QED  BY <1>4, <1>5, <1>6, <1>7 DEF K

(* Fields as long as a key. *)
Uniform(S) == \A f \in S : f.len = PUBLIC_KEY_LEN

(* The length of keys is 32 bytes each. *)
LEMMA LengthUniform ==
  ASSUME NEW S, Uniform(S), NEW s \in Seq(S)
  PROVE  Length(s) = Len(s) * PUBLIC_KEY_LEN
<1> DEFINE OK(t) == Length(t) = Len(t) * PUBLIC_KEY_LEN
           N == {n \in Nat : \E t \in Seq(S) : Len(t) = n /\ ~ OK(t)}
<1>0. Sized(S) /\ PUBLIC_KEY_LEN = 32
  BY DEF Sized, Uniform, PUBLIC_KEY_LEN
<1> SUFFICES ASSUME N # {} PROVE FALSE
  <2> HIDE DEF OK
  <2>1. N = {} => OK(s)
    OBVIOUS
  <2> QED  BY <2>1 DEF OK
<1>1. PICK n \in N : \A j \in N : n <= j
  <2>1. N \in SUBSET Nat
    <3> HIDE DEF OK
    <3> QED  OBVIOUS
  <2> HIDE DEF N
  <2> QED  BY <2>1, LeastOf
<1>2. PICK t \in Seq(S) : Len(t) = n /\ ~ OK(t)
  <2> HIDE DEF OK
  <2> QED  OBVIOUS
<1>3. t # <<>>
  BY <1>0, <1>2, LengthEmpty
<1> DEFINE f == Front(t)
           c == t[Len(t)]
<1>4. f \in Seq(S) /\ Len(f) = n - 1 /\ c \in S /\ t = Append(f, c)
  BY <1>2, <1>3, Shorter
<1> HIDE DEF f, c
<1>5. Len(f) \in Nat /\ Len(f) \notin N /\ Len(t) = Len(f) + 1
  <2>1. Len(f) \in Nat /\ n \in Nat /\ Len(f) < n /\ Len(t) = Len(f) + 1
    BY <1>2, <1>4
  <2> HIDE DEF N
  <2> QED  BY <1>1, <2>1
<1>6. OK(f)
  <2> HIDE DEF OK
  <2> QED  BY <1>4, <1>5
<1>7. Length(t) = Length(f) + c.len /\ c.len = 32
  BY <1>0, <1>4, LengthAppend DEF Uniform
<1> HIDE DEF N
<1>8. OK(t)
  BY <1>0, <1>5, <1>6, <1>7
<1> QED  BY <1>2, <1>8

-----------------------------------------------------------------------------
(* Signers *)

(* Bytes with a list of signers: what precedes it, and what follows it. *)
Signs(b, G, keys, T) ==
  /\ b = ((G \o Field("count", Len(keys), 1)) \o KeyFields(keys)) \o T
  /\ ~ Has(G, "count") /\ ~ Has(T, "count")

(* The decoders find the list of signers behind its count. *)
LEMMA SignersAre ==
  ASSUME NEW X, Nat \subseteq X, NEW keys \in Seq(X),
         NEW G \in Seq(Fields(X)), NEW T \in Seq(Fields(X)), NEW b, Signs(b, G, keys, T)
  PROVE  KeysIn(b) = KeyFields(keys)
<1> DEFINE f == [what |-> "count", is |-> Len(keys), len |-> 1]
           K == KeyFields(keys)
           H == G \o <<f>>
           S == Fields(X)
<1>1. Len(keys) \in Nat /\ Len(keys) \in X
  OBVIOUS
<1>2. f \in S /\ f.what = "count" /\ f.is = Len(keys)
  BY <1>1 DEF Fields, Names
<1>3. K \in Seq(S) /\ Len(K) = Len(keys) /\ ~ Has(K, "count")
  <2>1. \A w : Has(K, w) => w = "key"
    BY KeyFieldsAre
  <2>2. "count" # "key"
    OBVIOUS
  <2> QED  BY <2>1, <2>2, KeyFieldsAre
<1>4. b = ((G \o <<f>>) \o K) \o T /\ ~ Has(G, "count") /\ ~ Has(T, "count")
  BY DEF Signs, Field
<1> HIDE DEF S, f, K
<1>5. <<f>> \in Seq(S) /\ G \in Seq(S) /\ T \in Seq(S)
  <2>1. <<f>> \in Seq(S)
    BY <1>2
  <2> QED  BY <2>1 DEF S
<1>6. H \in Seq(S) /\ Len(H) = Len(G) + 1
  <2>1. Len(<<f>>) = 1
    OBVIOUS
  <2> QED  BY <1>5, <2>1, ConcatProperties, Zenon
<1>7. K \o T \in Seq(S) /\ ~ Has(K \o T, "count")
  BY <1>3, <1>4, <1>5, ConcatProperties, HasConcat, Zenon
<1>8. Split(b, H, K, T)
  BY <1>4 DEF Split
<1>9. Split(b, G, <<f>>, K \o T)
  BY <1>3, <1>4, <1>5, SplitFirst, Zenon
<1>10. Counts(b) = {Len(G) + 1} /\ b[Len(G) + 1] = f
  <2>0. Alone(S, b, G, f, K \o T, "count")
    BY <1>2, <1>4, <1>5, <1>7, <1>9, Zenon DEF Alone
  <2>1. /\ {i \in 1 .. Len(b) : b[i].what = "count"} = {Len(G) + 1}
        /\ b[Len(G) + 1] = f
    BY <2>0, AloneAt
  <2> QED  BY <2>1 DEF Counts
<1> HIDE DEF H
<1>11. SubSeq(b, Len(H) + 1, Len(H) + Len(K)) = K
  <2>1. Sequences3(S, H, K, T)
    BY <1>3, <1>5, <1>6, Zenon DEF Sequences3
  <2> QED  BY <1>8, <2>1, MiddleOf
<1>12. KeysIn(b) = SubSeq(b, (Len(G) + 1) + 1, (Len(G) + 1) + b[Len(G) + 1].is)
  BY <1>10 DEF KeysIn
<1>13. KeysIn(b) = K
  BY <1>2, <1>3, <1>6, <1>10, <1>11, <1>12, Zenon
<1> QED  BY <1>13 DEF K

(* Where the first signer is. *)
Base(b) ==
  IF Has(b, "application") THEN SIGNING_DOMAIN_LEN + 1 + 32 + 1 + 1 ELSE SIGNING_DOMAIN_LEN + 1 + 1

(* b is x, a field with the key, and z. *)
Found(x, z, b, key) == Split(b, x, Field("key", key, PUBLIC_KEY_LEN), z)

(* The offset is that of a field with the key. *)
LEMMA OffsetIs ==
  ASSUME NEW X, Nat \subseteq X, NEW keys \in Seq(X), NEW key \in X,
         NEW G \in Seq(Fields(X)), NEW T \in Seq(Fields(X)), NEW b, Signs(b, G, keys, T),
         Base(b) = Length(G) + 1,
         getOffchainMessagePublicKeyOffset(b, key) # {}
  PROVE  \E x, z \in Seq(Fields(X)) :
            /\ Found(x, z, b, key)
            /\ getOffchainMessagePublicKeyOffset(b, key) = {Length(x)}
<1> DEFINE S == Fields(X)
           K == KeyFields(keys)
           c == Field("count", Len(keys), 1)
           H == G \o c
           n == Len(keys)
           found == {i \in 1 .. n : keys[i] = key}
           least == {i \in found : \A j \in found : i <= j}
<1>1. n \in Nat /\ Sized(S)
  BY FieldsSized
<1>2. /\ K \in Seq(S) /\ Len(K) = n
      /\ \A i \in 1 .. n : K[i] = [what |-> "key", is |-> keys[i], len |-> PUBLIC_KEY_LEN]
      /\ \A i \in 1 .. n : K[i].is = keys[i] /\ K[i].len = PUBLIC_KEY_LEN
  BY KeyFieldsAre
<1>3. c \in Seq(S) /\ Length(c) = 1
  <2>1. "count" \in Names /\ Len(keys) \in X /\ 1 \in Nat \ {0}
    BY <1>1 DEF Names
  <2> QED  BY <2>1, FieldTyped, Zenon
<1>4. H \in Seq(S) /\ Length(H) = Length(G) + 1
  <2> HIDE DEF c
  <2>1. G \in Seq(S)
    OBVIOUS
  <2> HIDE DEF S
  <2> QED  BY <1>1, <1>3, <2>1, ConcatProperties, LengthConcat, Zenon
<1>5. b = (H \o K) \o T
  BY DEF Signs
<1>6. getOffchainMessagePublicKeyOffset(b, key)
        = {Base(b) + (i - 1) * PUBLIC_KEY_LEN : i \in least}
  <2>1. KeysIn(b) = K
    BY SignersAre
  <2>2. {i \in 1 .. Len(KeysIn(b)) : KeysIn(b)[i].is = key} = found
    <3> HIDE DEF K
    <3>1. \A i \in 1 .. n : K[i].is = keys[i]
      BY <1>2
    <3>2. {i \in 1 .. Len(K) : K[i].is = key} = {i \in 1 .. n : keys[i] = key}
      <4> HIDE DEF n
      <4> QED  BY <1>2, <3>1
    <3> QED  BY <2>1, <3>2, Zenon
  <2> HIDE DEF found
  <2> QED  BY <2>2 DEF getOffchainMessagePublicKeyOffset, Base
<1> HIDE DEF S, K, c, H
<1>7. PICK i \in least : TRUE
  <2> HIDE DEF least
  <2> QED  BY <1>6
<1>8. least = {i}
  <2>1. \A j \in least : j = i
    <3>1. found \in SUBSET Nat
      BY <1>1
    <3> HIDE DEF found
    <3> QED  BY <3>1
  <2> QED  BY <2>1
<1>9. i \in 1 .. n /\ keys[i] = key
  OBVIOUS
<1> HIDE DEF least, found
<1> DEFINE p == SubSeq(K, 1, i - 1)
           y == <<K[i]>>
           q == SubSeq(K, i + 1, n)
           x == H \o p
           z == q \o T
<1>10. y = Field("key", key, PUBLIC_KEY_LEN)
  BY <1>2, <1>9 DEF Field
<1>11. p \in Seq(S) /\ q \in Seq(S) /\ y \in Seq(S) /\ Len(p) = i - 1
  <2>1. /\ 1 \in Nat \ {0} /\ i - 1 \in Nat /\ i - 1 <= Len(K)
        /\ i + 1 \in Nat \ {0} /\ n \in Nat /\ n <= Len(K)
        /\ (IF 1 <= i - 1 THEN (i - 1) - 1 + 1 ELSE 0) = i - 1
    BY <1>1, <1>2, <1>9
  <2>2. p \in Seq(S) /\ Len(p) = IF 1 <= i - 1 THEN (i - 1) - 1 + 1 ELSE 0
    BY <1>2, <2>1, Part
  <2>3. q \in Seq(S)
    BY <1>2, <2>1, Part
  <2>4. K[i] \in S
    BY <1>2, <1>9
  <2>5. y \in Seq(S)
    BY <2>4
  <2> QED  BY <2>1, <2>2, <2>3, <2>5
<1>12. K = (p \o y) \o q
  <2>1. i \in 1 .. Len(K) /\ i \in 1 .. n /\ n = Len(K)
    BY <1>2, <1>9
  <2>2. SubSeq(K, 1, i) = p \o y
    <3>1. 1 \in 1 .. Len(K) /\ i \in 1 .. Len(K)
      BY <1>1, <2>1
    <3> QED  BY <1>2, <3>1, SubSeqRecursiveSecond
  <2>3. SubSeq(K, 1, i) \o SubSeq(K, i + 1, n) = SubSeq(K, 1, n)
    <3>1. 1 \in 1 .. Len(K) + 1 /\ i \in (1 - 1) .. Len(K) /\ n \in i .. Len(K)
      BY <1>1, <2>1
    <3> QED  BY <1>2, <3>1, ConcatAdjacentSubSeq
  <2>4. SubSeq(K, 1, n) = K
    BY <1>2, <2>1, SubSeqFull
  <2> QED  BY <2>2, <2>3, <2>4, Zenon
<1>13. Length(p) = (i - 1) * PUBLIC_KEY_LEN
  <2> DEFINE U == {f \in S : f.len = PUBLIC_KEY_LEN}
  <2>1. Uniform(U)
    BY DEF Uniform
  <2>2. \A j \in 1 .. (i - 1) : K[j] \in U
    <3>1. \A j \in 1 .. (i - 1) : j \in 1 .. n /\ j \in 1 .. Len(K)
      BY <1>1, <1>2, <1>9
    <3>2. \A j \in 1 .. Len(K) : K[j] \in S
      BY <1>2
    <3>3. \A j \in 1 .. n : K[j].len = PUBLIC_KEY_LEN
      BY <1>2
    <3> QED  BY <3>1, <3>2, <3>3
  <2> HIDE DEF U
  <2>3. 1 \in Int /\ i - 1 \in Int
    BY <1>9
  <2>4. p \in Seq(U)
    BY <2>2, <2>3, SubSeqProperties
  <2> HIDE DEF p
  <2>5. Length(p) = Len(p) * PUBLIC_KEY_LEN
    BY <2>1, <2>4, LengthUniform
  <2> QED  BY <1>11, <2>5
<1> HIDE DEF p, y, q
<1>14. T \in Seq(S) /\ G \in Seq(S)
  BY DEF S
<1>15. x \in Seq(S) /\ z \in Seq(S)
  BY <1>4, <1>11, <1>14, ConcatProperties, Zenon
<1>16. Length(x) = Base(b) + (i - 1) * PUBLIC_KEY_LEN
  <2>1. Length(x) = Length(H) + Length(p)
    BY <1>1, <1>4, <1>11, LengthConcat, Zenon
  <2> QED  BY <1>4, <1>13, <2>1, Zenon
<1>17. Split(b, x, y, z)
  <2>1. Split(K, p, y, q)
    BY <1>12 DEF Split
  <2>2. Split(H \o K, H \o p, y, q)
    BY <1>4, <1>11, <2>1, SplitInner, Zenon
  <2>3. b = ((x \o y) \o q) \o T
    BY <1>5, <2>2, Zenon DEF Split
  <2> HIDE DEF x
  <2> QED  BY <1>11, <1>14, <1>15, <2>3, SplitFirst, Zenon
<1>18. getOffchainMessagePublicKeyOffset(b, key) = {Length(x)}
  BY <1>6, <1>8, <1>16
<1> HIDE DEF x, z
<1>19. Found(x, z, b, key)
  BY <1>10, <1>17, Zenon DEF Found
<1> QED  BY <1>15, <1>18, <1>19 DEF S

-----------------------------------------------------------------------------
(* Envelopes *)

(* Bytes of a length, with fields of some names only. *)
Chain(X, b, n, N) ==
  /\ b \in Seq(Fields(X)) /\ n \in Nat /\ Length(b) = n
  /\ \A w : Has(b, w) => w \in N

(* A single field is a chain. *)
LEMMA ChainField ==
  ASSUME NEW X, NEW w \in Names, NEW v \in X, NEW n \in Nat \ {0}
  PROVE  Chain(X, Field(w, v, n), n, {w})
<1>1. Field(w, v, n) \in Seq(Fields(X)) /\ Length(Field(w, v, n)) = n
  BY FieldTyped
<1>2. \A u : Has(Field(w, v, n), u) => u \in {w}
  BY HasField
<1> QED  BY <1>1, <1>2 DEF Chain

(* Chains one after the other. *)
LEMMA ChainConcat ==
  ASSUME NEW X, NEW x, NEW y, NEW n, NEW k, NEW N, NEW O, Chain(X, x, n, N), Chain(X, y, k, O)
  PROVE  Chain(X, x \o y, n + k, N \cup O)
<1> DEFINE S == Fields(X)
<1>1. /\ x \in Seq(S) /\ n \in Nat /\ Length(x) = n /\ \A w : Has(x, w) => w \in N
      /\ y \in Seq(S) /\ k \in Nat /\ Length(y) = k /\ \A w : Has(y, w) => w \in O
  BY DEF Chain
<1>2. Sized(S)
  BY FieldsSized
<1> HIDE DEF S
<1>3. x \o y \in Seq(S) /\ Length(x \o y) = n + k
  BY <1>1, <1>2, ConcatProperties, LengthConcat, Zenon
<1>4. \A w : Has(x \o y, w) => w \in N \cup O
  BY <1>1, HasConcat, Zenon
<1>5. n + k \in Nat
  BY <1>1
<1> QED  BY <1>3, <1>4, <1>5 DEF Chain, S

(* The keys are a chain. *)
LEMMA ChainKeys ==
  ASSUME NEW X, NEW keys \in Seq(X)
  PROVE  Chain(X, KeyFields(keys), Length(KeyFields(keys)), {"key"})
<1> DEFINE K == KeyFields(keys)
<1>1. K \in Seq(Fields(X)) /\ \A w : Has(K, w) => w = "key"
  BY KeyFieldsAre
<1>2. Sized(Fields(X))
  BY FieldsSized
<1> HIDE DEF K
<1>3. Length(K) \in Nat
  BY <1>1, <1>2, LengthNat
<1>4. Chain(X, K, Length(K), {"key"})
  BY <1>1, <1>3 DEF Chain
<1> QED  BY <1>4 DEF K

(* What the proofs use of an envelope: its last field is the text, and its  *)
(* signers, if it has any, begin at the offset of its version.              *)
Ends(X, b, m) == \E x \in Seq(Fields(X)) : b = x \o Text(m) /\ ~ Has(x, "text")

Listed(X, b) ==
  \E keys \in Seq(X), G, T \in Seq(Fields(X)) :
     Signs(b, G, keys, T) /\ Base(b) = Length(G) + 1

(* A chain without a text, and then the text. *)
LEMMA EndsWith ==
  ASSUME NEW X, NEW x, NEW n, NEW N, Chain(X, x, n, N), "text" \notin N, NEW m
  PROVE  Ends(X, x \o Text(m), m)
  BY DEF Chain, Ends

(* The signing domain and the version. *)
LEMMA DomainChain ==
  ASSUME NEW X, Nat \subseteq X
  PROVE  \A v \in Nat : Chain(X, Domain(v), 17, {"domain", "version"})
<1> SUFFICES ASSUME NEW v \in Nat PROVE Chain(X, Domain(v), 17, {"domain", "version"})
  OBVIOUS
<1> DEFINE x == Field("domain", 0, SIGNING_DOMAIN_LEN)
           y == Field("version", v, 1)
<1>1. /\ "domain" \in Names /\ "version" \in Names /\ 0 \in X /\ v \in X
      /\ 16 \in Nat \ {0} /\ 1 \in Nat \ {0} /\ SIGNING_DOMAIN_LEN = 16
  BY DEF Names, SIGNING_DOMAIN_LEN
<1>2. Chain(X, x, 16, {"domain"}) /\ Chain(X, y, 1, {"version"})
  BY <1>1, ChainField, Zenon
<1> HIDE DEF x, y
<1>3. Chain(X, x \o y, 16 + 1, {"domain"} \cup {"version"})
  BY <1>2, ChainConcat, Zenon
<1>4. 16 + 1 = 17 /\ {"domain"} \cup {"version"} = {"domain", "version"}
  OBVIOUS
<1> QED  BY <1>3, <1>4, Zenon DEF Domain, x, y

(* The bare text. *)
LEMMA RawIs ==
  ASSUME NEW X, Nat \subseteq X, NEW m \in X
  PROVE  Ends(X, Raw(m), m) /\ ~ Has(Raw(m), "count")
<1>1. "text" \in Names /\ MessageLen \in Nat \ {0}
  BY SignedMessageAssumption DEF Names
<1>2. Text(m) \in Seq(Fields(X))
  BY <1>1, FieldTyped, Zenon DEF Text
<1>3. <<>> \o Text(m) = Text(m) /\ <<>> \in Seq(Fields(X))
  BY <1>2, ConcatEmptySeq
<1>4. ~ Has(<<>>, "text")
  BY DEF Has, Range
<1>5. ~ Has(Text(m), "count")
  <2>1. "text" # "count"
    OBVIOUS
  <2> QED  BY <2>1, HasField, Zenon DEF Text
<1> QED  BY <1>3, <1>4, <1>5 DEF Ends, Raw

(* The legacy envelope has no signers. *)
LEMMA LegacyIs ==
  ASSUME NEW X, Nat \subseteq X, NEW m \in X
  PROVE  Ends(X, Legacy(m), m) /\ ~ Has(Legacy(m), "count")
<1> DEFINE d == Domain(0)
           f == Field("format", 1, 1)
           l == Field("length", MessageLen, 2)
           t == Text(m)
           N == {"domain", "version"} \cup {"format"} \cup {"length"}
<1>1. /\ "format" \in Names /\ "length" \in Names /\ "text" \in Names
      /\ 1 \in X /\ MessageLen \in X /\ MessageLen \in Nat \ {0}
      /\ 1 \in Nat \ {0} /\ 2 \in Nat \ {0}
  BY SignedMessageAssumption DEF Names
<1>2. Chain(X, d, 17, {"domain", "version"})
  BY DomainChain
<1>3. Chain(X, f, 1, {"format"}) /\ Chain(X, l, 2, {"length"})
  BY <1>1, ChainField, Zenon
<1>4. Chain(X, t, MessageLen, {"text"})
  BY <1>1, ChainField, Zenon DEF Text
<1> HIDE DEF d, f, l, t
<1>5. Chain(X, d \o f, 17 + 1, {"domain", "version"} \cup {"format"})
  BY <1>2, <1>3, ChainConcat, Zenon
<1>6. Chain(X, (d \o f) \o l, (17 + 1) + 2, N)
  BY <1>3, <1>5, ChainConcat, Zenon
<1>7. Chain(X, ((d \o f) \o l) \o t, ((17 + 1) + 2) + MessageLen, N \cup {"text"})
  BY <1>4, <1>6, ChainConcat, Zenon
<1>8. Legacy(m) = ((d \o f) \o l) \o t
  BY DEF Legacy, d, f, l, t
<1>9. "text" \notin N /\ "count" \notin N \cup {"text"}
  OBVIOUS
<1> HIDE DEF N
<1>10. Ends(X, ((d \o f) \o l) \o Text(m), m)
  BY <1>6, <1>9, EndsWith, Zenon
<1>11. ~ Has(((d \o f) \o l) \o t, "count")
  BY <1>7, <1>9 DEF Chain
<1> QED  BY <1>8, <1>10, <1>11, Zenon DEF t

(* The list of signers. *)
LEMMA SignersChain ==
  ASSUME NEW X, Nat \subseteq X, NEW keys \in Seq(X)
  PROVE  /\ Signers(keys) = Field("count", Len(keys), 1) \o KeyFields(keys)
         /\ Field("count", Len(keys), 1) \in Seq(Fields(X))
         /\ KeyFields(keys) \in Seq(Fields(X))
         /\ \E n : Chain(X, Signers(keys), n, {"count"} \cup {"key"})
<1> DEFINE c == Field("count", Len(keys), 1)
           K == KeyFields(keys)
<1>1. "count" \in Names /\ Len(keys) \in X /\ 1 \in Nat \ {0}
  BY DEF Names
<1>2. Chain(X, c, 1, {"count"})
  BY <1>1, ChainField, Zenon
<1>3. Chain(X, K, Length(K), {"key"})
  BY ChainKeys, Zenon
<1>4. Signers(keys) = c \o K
  BY DEF Signers, KeyFields
<1> HIDE DEF c, K
<1>5. Chain(X, c \o K, 1 + Length(K), {"count"} \cup {"key"})
  BY <1>2, <1>3, ChainConcat, Zenon
<1>6. c \in Seq(Fields(X)) /\ K \in Seq(Fields(X))
  BY <1>2, <1>3 DEF Chain
<1> QED  BY <1>4, <1>5, <1>6 DEF c, K

(* What makes bytes an envelope with signers. *)
LEMMA ListedIs ==
  ASSUME NEW X, Nat \subseteq X, NEW keys \in Seq(X),
         NEW G, NEW n, NEW N, Chain(X, G, n, N), "count" \notin N,
         NEW T, NEW k, NEW O, Chain(X, T, k, O), "count" \notin O,
         NEW b, b = (G \o Signers(keys)) \o T, Base(b) = n + 1
  PROVE  Listed(X, b)
<1> DEFINE S == Fields(X)
           c == Field("count", Len(keys), 1)
           K == KeyFields(keys)
<1>1. G \in Seq(S) /\ T \in Seq(S) /\ Length(G) = n /\ ~ Has(G, "count") /\ ~ Has(T, "count")
  BY DEF Chain
<1>2. Signers(keys) = c \o K /\ c \in Seq(S) /\ K \in Seq(S)
  BY SignersChain, Zenon
<1> HIDE DEF c, K, S
<1>3. (G \o c) \o K = G \o (c \o K)
  <2>1. G \in Seq(S) /\ c \in Seq(S) /\ K \in Seq(S)
    BY <1>1, <1>2, Zenon
  <2> QED  BY <2>1, ConcatAssociative
<1>4. b = ((G \o c) \o K) \o T
  BY <1>2, <1>3, Zenon
<1>5. Signs(b, G, keys, T)
  BY <1>1, <1>4, Zenon DEF Signs, c, K
<1> QED  BY <1>1, <1>5, Zenon DEF Listed, S

(* The lists of signers are sequences of keys. *)
LEMMA ListsAre ==
  ASSUME NEW X, Nat \subseteq X, NEW keys \in Lists
  PROVE  keys \in Seq(X)
<1>1. PICK n \in 1 .. MaxSigners : keys \in [1 .. n -> Keys]
  BY DEF Lists
<1>2. n \in Nat /\ Keys \subseteq X
  BY SignedMessageAssumption
<1>3. keys \in [1 .. n -> X]
  BY <1>1, <1>2
<1> QED  BY <1>2, <1>3

(* The envelope of version 1. *)
LEMMA V1Is ==
  ASSUME NEW X, Nat \subseteq X, NEW m \in X, NEW keys \in Lists
  PROVE  Ends(X, V1(m, keys), m) /\ Listed(X, V1(m, keys))
<1> DEFINE D == {"domain", "version"}
           C == {"count"} \cup {"key"}
           s == Signers(keys)
           G == Domain(1)
           t == Text(m)
           b == (G \o s) \o t
<1>1. "text" \in Names /\ MessageLen \in Nat \ {0}
  BY SignedMessageAssumption DEF Names
<1>2. keys \in Seq(X)
  BY ListsAre, Zenon
<1>3. Chain(X, G, 17, D)
  BY DomainChain
<1>4. PICK n : Chain(X, s, n, C)
  BY <1>2, SignersChain, Zenon
<1>5. Chain(X, t, MessageLen, {"text"})
  BY <1>1, ChainField, Zenon DEF Text
<1> HIDE DEF s, G
<1>6. Chain(X, G \o s, 17 + n, D \cup C)
  <2> HIDE DEF D, C
  <2> QED  BY <1>3, <1>4, ChainConcat, Zenon
<1>7. Chain(X, b, (17 + n) + MessageLen, (D \cup C) \cup {"text"})
  <2> HIDE DEF D, C, t
  <2> QED  BY <1>5, <1>6, ChainConcat, Zenon
<1>8. /\ "text" \notin D \cup C /\ "count" \notin D /\ "count" \notin {"text"}
      /\ "application" \notin (D \cup C) \cup {"text"}
  OBVIOUS
<1> HIDE DEF D, C
<1>9. V1(m, keys) = b
  BY DEF V1, s, G
<1>10. Ends(X, b, m)
  BY <1>6, <1>8, EndsWith, Zenon
<1> HIDE DEF b
<1>11. ~ Has(b, "application")
  BY <1>7, <1>8 DEF Chain
<1>12. Base(b) = 17 + 1
  BY <1>11 DEF Base, SIGNING_DOMAIN_LEN
<1>13. Listed(X, b)
  <2>1. b = (G \o Signers(keys)) \o t
    BY DEF b, s
  <2> HIDE DEF t
  <2> QED  BY <1>2, <1>3, <1>5, <1>8, <1>12, <2>1, ListedIs, Zenon
<1> QED  BY <1>9, <1>10, <1>13

(* The envelope of version 0. *)
LEMMA V0Is ==
  ASSUME NEW X, Nat \subseteq X, NEW m \in X, NEW keys \in Lists, NEW format \in {0, 1}
  PROVE  Ends(X, V0(m, keys, format), m) /\ Listed(X, V0(m, keys, format))
<1> DEFINE D == {"domain", "version"}
           A == D \cup {"application"}
           F == A \cup {"format"}
           C == {"count"} \cup {"key"}
           d == Domain(0)
           a == Field("application", 0, 32)
           f == Field("format", format, 1)
           l == Field("length", MessageLen, 2)
           t == Text(m)
           s == Signers(keys)
           G == (d \o a) \o f
           p == (G \o s) \o l
           b == p \o t
<1>1. /\ "text" \in Names /\ "application" \in Names /\ "format" \in Names /\ "length" \in Names
      /\ MessageLen \in Nat \ {0} /\ MessageLen \in X /\ 0 \in X /\ format \in X
      /\ 1 \in Nat \ {0} /\ 2 \in Nat \ {0} /\ 32 \in Nat \ {0}
  BY SignedMessageAssumption DEF Names
<1>2. keys \in Seq(X)
  BY ListsAre, Zenon
<1>3. Chain(X, d, 17, D)
  BY DomainChain
<1>4. Chain(X, a, 32, {"application"})
  BY <1>1, ChainField, Zenon
<1>5. Chain(X, f, 1, {"format"})
  BY <1>1, ChainField, Zenon
<1>6. Chain(X, l, 2, {"length"})
  BY <1>1, ChainField, Zenon
<1>7. Chain(X, t, MessageLen, {"text"})
  BY <1>1, ChainField, Zenon DEF Text
<1>8. PICK n : Chain(X, s, n, C)
  BY <1>2, SignersChain, Zenon
<1>9. Has(a, "application")
  BY HasField
<1>10. /\ "text" \notin (F \cup C) \cup {"length"}
       /\ "count" \notin F /\ "count" \notin {"length"} \cup {"text"}
  OBVIOUS
<1>11. V0(m, keys, format) = b
  BY DEF V0
<1> HIDE DEF d, a, f, l, t, s, D, C
<1>12. Chain(X, d \o a, 17 + 32, A)
  BY <1>3, <1>4, ChainConcat, Zenon
<1> HIDE DEF A
<1>13. Chain(X, G, (17 + 32) + 1, F)
  BY <1>5, <1>12, ChainConcat, Zenon
<1> HIDE DEF F
<1>14. Has(G, "application")
  <2>1. d \in Seq(Fields(X)) /\ a \in Seq(Fields(X)) /\ f \in Seq(Fields(X)) /\ d \o a \in Seq(Fields(X))
    BY <1>3, <1>4, <1>5, <1>12, Zenon DEF Chain
  <2>2. Has(d \o a, "application")
    BY <1>9, <2>1, HasConcat, Zenon
  <2> QED  BY <2>1, <2>2, HasConcat, Zenon
<1> HIDE DEF G
<1>15. Chain(X, G \o s, ((17 + 32) + 1) + n, F \cup C)
  BY <1>8, <1>13, ChainConcat, Zenon
<1>16. Chain(X, p, (((17 + 32) + 1) + n) + 2, (F \cup C) \cup {"length"})
  BY <1>6, <1>15, ChainConcat, Zenon
<1>17. Ends(X, b, m)
  <2> HIDE DEF p
  <2> QED  BY <1>10, <1>16, EndsWith, Zenon DEF t
<1>18. Chain(X, l \o t, 2 + MessageLen, {"length"} \cup {"text"})
  BY <1>6, <1>7, ChainConcat, Zenon
<1> DEFINE Gs == G \o s
<1>19. b = (G \o Signers(keys)) \o (l \o t)
  <2>1. Gs \in Seq(Fields(X)) /\ l \in Seq(Fields(X)) /\ t \in Seq(Fields(X))
    BY <1>6, <1>7, <1>15, Zenon DEF Chain
  <2> HIDE DEF Gs
  <2>2. (Gs \o l) \o t = Gs \o (l \o t)
    BY <2>1, ConcatAssociative
  <2> QED  BY <2>2, Zenon DEF Gs, s
<1>20. Has(b, "application")
  <2>1. G \in Seq(Fields(X)) /\ s \in Seq(Fields(X)) /\ Gs \in Seq(Fields(X)) /\ l \o t \in Seq(Fields(X))
    BY <1>8, <1>13, <1>15, <1>18, Zenon DEF Chain
  <2>2. Has(Gs, "application")
    BY <1>14, <2>1, HasConcat, Zenon
  <2>3. b = Gs \o (l \o t)
    BY <1>19, Zenon DEF s
  <2> HIDE DEF b, Gs
  <2> QED  BY <2>1, <2>2, <2>3, HasConcat, Zenon
<1> HIDE DEF b
<1>21. Base(b) = ((17 + 32) + 1) + 1
  BY <1>20 DEF Base, SIGNING_DOMAIN_LEN
<1>22. Listed(X, b)
  <2> DEFINE T == l \o t
             O == {"length"} \cup {"text"}
  <2>1. Chain(X, T, 2 + MessageLen, O) /\ "count" \notin O /\ b = (G \o Signers(keys)) \o T
    BY <1>10, <1>18, <1>19
  <2> HIDE DEF T, O
  <2> QED  BY <1>2, <1>10, <1>13, <1>21, <2>1, ListedIs, Zenon
<1> QED  BY <1>11, <1>17, <1>22

(* All envelopes. *)
LEMMA EnvelopesAre ==
  ASSUME NEW X, Nat \subseteq X, NEW m \in X, NEW b \in Envelopes(m)
  PROVE  Ends(X, b, m) /\ (~ Has(b, "count") \/ Listed(X, b))
<1>1. \/ b = Raw(m) \/ b = Legacy(m)
      \/ \E keys \in Lists, format \in {0, 1} : b = V0(m, keys, format)
      \/ \E keys \in Lists : b = V1(m, keys)
  BY DEF Envelopes
<1> QED  BY <1>1, RawIs, LegacyIs, V0Is, V1Is, Zenon

-----------------------------------------------------------------------------
(* What the program reads *)

(* Message::deserialize finds the message, or refuses the envelope. *)
LEMMA TextsAre ==
  ASSUME NEW X, NEW m \in X, NEW b, Ends(X, b, m)
  PROVE  /\ b \in Seq(Fields(X)) /\ b # <<>>
         /\ MessageDeserialize(b) \in {{}, {m}}
<1> DEFINE S == Fields(X)
           r == [what |-> "text", is |-> m, len |-> MessageLen]
           t == Text(m)
<1>1. PICK x \in Seq(S) : b = x \o t /\ ~ Has(x, "text")
  BY DEF Ends
<1>2. t \in Seq(S) /\ t # <<>>
  <2>1. "text" \in Names /\ MessageLen \in Nat \ {0}
    BY SignedMessageAssumption DEF Names
  <2>2. t \in Seq(S)
    BY <2>1, FieldTyped, Zenon DEF Text
  <2>3. t # <<>>
    BY DEF Text, Field
  <2> QED  BY <2>2, <2>3
<1>3. Range(t) = {r}
  BY DEF Range, Text, Field
<1>4. r.what = "text" /\ r.is = m
  OBVIOUS
<1> HIDE DEF S, t, r
<1>5. b \in Seq(S) /\ b # <<>>
  <2>1. b \in Seq(S)
    BY <1>1, <1>2, ConcatProperties, Zenon
  <2>2. x \o t # <<>>
    BY <1>2, ConcatEqualIffEmpty
  <2> QED  BY <1>1, <2>1, <2>2, Zenon
<1>6. Range(b) = Range(x) \cup {r}
  <2>1. Range(x \o t) = Range(x) \cup Range(t)
    BY <1>2, RangeConcatenation
  <2> QED  BY <1>1, <1>3, <2>1
<1>7. \A f \in Range(x) : f.what # "text"
  BY <1>1 DEF Has
<1>8. {f \in Range(b) : f.what = "text"} = {r}
  BY <1>4, <1>6, <1>7
<1>9. {f.is : f \in {f \in Range(b) : f.what = "text"}} = {m}
  BY <1>4, <1>8
<1>10. MessageDeserialize(b) = {} \/ MessageDeserialize(b) = {m}
  BY <1>9, Zenon DEF MessageDeserialize
<1> QED  BY <1>5, <1>10 DEF S

(* Without a count there are no signers to look for. *)
LEMMA NoSigners ==
  ASSUME NEW S, NEW b \in Seq(S), ~ Has(b, "count"), NEW key
  PROVE  getOffchainMessagePublicKeyOffset(b, key) = {}
<1>1. Counts(b) = {}
  BY DEF Has, Range, Counts
<1>2. KeysIn(b) = <<>>
  BY <1>1 DEF KeysIn
<1>3. {i \in 1 .. Len(KeysIn(b)) : KeysIn(b)[i].is = key} = {}
  BY <1>2
<1> QED  BY <1>3 DEF getOffchainMessagePublicKeyOffset

(* Whichever envelope was signed, the header of the instruction points at   *)
(* the key, the signature and the envelope.                                 *)
LEMMA InstructionReads ==
  ASSUME NEW X, Nat \subseteq X, NEW m \in X, NEW b \in Envelopes(m),
         NEW signature \in X, NEW key \in X
  PROVE  Reads(buildIntentInstruction(signature, b, key), signature, b, key)
<1> DEFINE O == getOffchainMessagePublicKeyOffset(b, key)
<1>1. Ends(X, b, m) /\ (~ Has(b, "count") \/ Listed(X, b))
  BY EnvelopesAre, Zenon
<1>2. b \in Seq(Fields(X)) /\ b # <<>> /\ 0 \in X
  BY <1>1, TextsAre
<1>3. CASE O = {}
  <2>1. Reads(createInstructionWithPublicKey(signature, b, key), signature, b, key)
    BY <1>2, ReadsWithKey, Zenon
  <2> QED  BY <1>3, <2>1 DEF buildIntentInstruction
<1>4. CASE O # {}
  <2>1. Listed(X, b)
    BY <1>1, <1>2, <1>4, NoSigners, Zenon
  <2>2. PICK keys \in Seq(X), G \in Seq(Fields(X)), T \in Seq(Fields(X)) :
           Signs(b, G, keys, T) /\ Base(b) = Length(G) + 1
    BY <2>1, Zenon DEF Listed
  <2>3. PICK x \in Seq(Fields(X)), z \in Seq(Fields(X)) :
           Found(x, z, b, key) /\ O = {Length(x)}
    <3>1. \E y, w \in Seq(Fields(X)) : Found(y, w, b, key) /\ O = {Length(y)}
      BY <1>4, <2>2, OffsetIs
    <3> QED  BY <3>1, Zenon
  <2>4. Reads(buildEd25519InstructionWithOffsets(signature, b, Length(x)), signature, b, key)
    BY <1>2, <2>3, ReadsWithOffset, Zenon DEF Found
  <2>5. (CHOOSE o \in O : TRUE) = Length(x)
    BY <2>3
  <2> HIDE DEF O
  <2>6. buildIntentInstruction(signature, b, key)
          = buildEd25519InstructionWithOffsets(signature, b, Length(x))
    BY <1>4, <2>5, Zenon DEF buildIntentInstruction, O
  <2> QED  BY <2>4, <2>6, Zenon
<1> QED  BY <1>3, <1>4

(* What the program makes of the instruction built from a signature. *)
LEMMA Delivered ==
  ASSUME NEW m, NEW b \in Envelopes(m), NEW signature, NEW key \in Keys,
         NEW d, d = buildIntentInstruction(signature, b, key)
  PROVE  (IF Ed25519Verifies(d) THEN IntentLoad(d) ELSE {})
            = IF Verifies(key, signature, b) /\ MessageDeserialize(b) # {}
              THEN {[signer |-> key, message |-> m]} ELSE {}
<1> DEFINE X == Nat \cup {m, signature}
<1>1. Nat \subseteq X /\ m \in X /\ signature \in X /\ key \in X
  BY SignedMessageAssumption
<1> HIDE DEF X
<1>2. Reads(d, signature, b, key)
  BY <1>1, InstructionReads, Zenon
<1>3. MessageDeserialize(b) = {} \/ MessageDeserialize(b) = {m}
  <2>1. Ends(X, b, m)
    BY <1>1, EnvelopesAre, Zenon
  <2>2. MessageDeserialize(b) \in {{}, {m}}
    BY <1>1, <2>1, TextsAre, Zenon
  <2> QED  BY <2>2
<1>4. /\ Ed25519Verifies(d) <=> Verifies(key, signature, b)
      /\ IntentLoad(d) = {[signer |-> key, message |-> u] : u \in MessageDeserialize(b)}
  BY <1>2, ProgramReads
<1>6. CASE MessageDeserialize(b) = {}
  <2>1. IntentLoad(d) = {}
    BY <1>4, <1>6
  <2> QED  BY <1>6, <2>1
<1>7. CASE MessageDeserialize(b) = {m}
  <2>1. IntentLoad(d) = {[signer |-> key, message |-> m]}
    BY <1>4, <1>7
  <2>2. MessageDeserialize(b) # {}
    BY <1>7
  <2> QED  BY <1>4, <2>1, <2>2
<1> QED  BY <1>3, <1>6, <1>7

-----------------------------------------------------------------------------
(* From the form to the program *)

(* What a wallet that answered is like. *)
WalletAnswered ==
  /\ wallet.signature.over \in Envelopes(asked.message)
  /\ wallet.report \in Report
  /\ wallet.report \in {"none", "one byte"} => wallet.signature.over = Raw(asked.message)
  /\ wallet.report = "text" =>
       wallet.signature.over \in {Raw(asked.message), Legacy(asked.message)}

(* The bytes the SDK goes on with are an envelope of the message, and those *)
(* that were signed unless no account was selected.                         *)
Chosen ==
  /\ signed \in Envelopes(asked.message)
  /\ NotRefused => signed = wallet.signature.over
  /\ data = buildIntentInstruction(wallet.signature, signed, asked.key)

(* By phase: what was asked for and of whom, how the wallet answered, and   *)
(* what the instruction was built from.                                     *)
MessageInv ==
  /\ phase \in {"asked", "signing", "signed", "built", "done"} =>
       /\ requested # NotSubmitted
       /\ asked.key \in Keys
       /\ asked.message.amount = requested.text
  /\ phase \in {"signed", "built"} => WalletAnswered
  /\ phase = "built" => Chosen
  /\ phase \in {"idle", "asked", "signing", "signed", "built"} => intent = {}
  /\ IntentReadBack

(* The SDK goes on with an envelope of the message, the one that was signed *)
(* if the signature was not looked at or was verified; and it refuses one   *)
(* only if it is not by the account that is selected.                       *)
LEMMA SignedBytes ==
  ASSUME WalletAnswered
  PROVE  /\ \A b \in signWithWallet(wallet, selected, asked.message) :
              /\ b \in Envelopes(asked.message)
              /\ wallet.report \in {"none", "one byte"} \/ selected # NoKey =>
                   b = wallet.signature.over
         /\ signWithWallet(wallet, selected, asked.message) = {} =>
              wallet.report \notin {"none", "one byte"} /\ wallet.signature.by # selected
<1> DEFINE w == wallet
           m == asked.message
           key == selected
           add(bytes) ==
             addLegacyOffchainMessagePrefixToMessageIfNeeded(key, w.signature, m, bytes)
           over == w.signature.over
           by == w.signature.by
<1>0. /\ w.report \in Report /\ w.signature.over \in Envelopes(m)
      /\ w.report \in {"none", "one byte"} => w.signature.over = Raw(m)
      /\ w.report = "text" => w.signature.over \in {Raw(m), Legacy(m)}
  BY DEF WalletAnswered
<1> HIDE DEF w, m, key
<1>1. \A bytes : add(bytes) =
        IF by = key /\ over = bytes THEN {bytes}
        ELSE IF bytes = Text(m) /\ by = key /\ over = Legacy(m) THEN {Legacy(m)}
        ELSE {}
  BY DEF addLegacyOffchainMessagePrefixToMessageIfNeeded, Verifies
<1>2. Text(m) \in Envelopes(m) /\ Raw(m) = Text(m)
  <2>1. \A b : b = Raw(m) => b \in Envelopes(m)
    BY DEF Envelopes
  <2>2. Raw(m) = Text(m)
    BY DEF Raw
  <2> QED  BY <2>1, <2>2
<1> DEFINE reported == Reported(w, m)
<1>3. \/ reported = Text(m) /\ over \in {Text(m), Legacy(m)}
      \/ reported = over
  BY <1>0, <1>2 DEF Reported
<1>4. /\ \A b \in signWithWallet(w, key, m) :
           /\ b \in Envelopes(m)
           /\ w.report \in {"none", "one byte"} \/ key # NoKey => b = w.signature.over
      /\ signWithWallet(w, key, m) = {} =>
           w.report \notin {"none", "one byte"} /\ w.signature.by # key
  <2>1. CASE w.report \in {"none", "one byte"}
    <3>1. signWithWallet(w, key, m) = {Raw(m)}
      BY <2>1 DEF signWithWallet
    <3> QED  BY <1>0, <1>2, <2>1, <3>1
  <2>2. CASE w.report \notin {"none", "one byte"} /\ key = NoKey
    <3>1. signWithWallet(w, key, m) = {reported}
      BY <2>2 DEF signWithWallet
    <3>2. reported \in Envelopes(m)
      BY <1>0, <1>2, <1>3
    <3> HIDE DEF reported
    <3> QED  BY <2>2, <3>1, <3>2
  <2>3. CASE w.report \notin {"none", "one byte"} /\ key # NoKey
    <3>1. signWithWallet(w, key, m) = add(reported)
      BY <2>3 DEF signWithWallet
    <3>2. over \in Envelopes(m)
      BY <1>0
    <3> HIDE DEF add, reported, over, by
    <3>3. /\ \A b \in add(reported) : b = over
          /\ add(reported) = {} => by # key
      BY <1>1, <1>3
    <3> QED  BY <2>3, <3>1, <3>2, <3>3, Zenon DEF over, by
  <2> QED  BY <2>1, <2>2, <2>3
<1> QED  BY <1>4 DEF w, m, key

(* At the start nothing is asked for. *)
LEMMA MessageInvInit == MInit => MessageInv
  BY DEF MInit, MessageInv, IntentReadBack

(* Actions of the form find the message untouched, and a form that is not   *)
(* submitted.                                                               *)
LEMMA MessageInvForm ==
  ASSUME MessageInv, UNCHANGED signing, requested = NotSubmitted
  PROVE  MessageInv'
<1>1. phase \notin {"asked", "signed", "built", "done"}
  BY DEF MessageInv
<1>2. phase' = phase /\ intent' = intent
  BY DEF signing
<1> QED  BY <1>1, <1>2 DEF MessageInv, IntentReadBack

(* Asking the wallet for a signature. *)
LEMMA MessageInvAsk ==
  ASSUME MessageInv, NEW k \in Keys, NEW x, Ask(k, [amount |-> requested.text, extra |-> x])
  PROVE  MessageInv'
<1>1. /\ requested # NotSubmitted /\ requested' = requested
      /\ asked' = [key |-> k, message |-> [amount |-> requested.text, extra |-> x]]
      /\ phase = "idle" /\ phase' = "asked" /\ intent' = intent
  BY DEF Ask, field
<1>2. asked'.key = k /\ asked'.message.amount = requested'.text
  BY <1>1
<1> QED  BY <1>1, <1>2 DEF MessageInv, IntentReadBack

(* One step per action: the wallet, the SDK and the program. *)
LEMMA MessageInvNext == AmountReadBack /\ MessageInv /\ [MNext]_mvars => MessageInv'
<1> SUFFICES ASSUME AmountReadBack, MessageInv, [MNext]_mvars PROVE MessageInv'
  OBVIOUS
<1>1. CASE /\ UNCHANGED signing
           /\ (\E c \in Chars : Type(c)) \/ Erase \/ PressMax \/ Submit
  <2>1. requested = NotSubmitted
    BY <1>1 DEF Type, Erase, PressMax, Submit
  <2> QED  BY <1>1, <2>1, MessageInvForm
<1>2. ASSUME NEW k \in Keys, NEW x \in Extras, BuildStartSessionIntent(k, x) PROVE MessageInv'
  BY <1>2, MessageInvAsk DEF BuildStartSessionIntent
<1>3. ASSUME NEW k \in Keys, buildTransferIntentInstruction(k) PROVE MessageInv'
  BY <1>3, MessageInvAsk DEF buildTransferIntentInstruction
<1>4. ASSUME NEW k \in Keys \cup {NoKey}, SelectAccount(k) PROVE MessageInv'
  <2>1. /\ phase \in {"asked", "signing", "signed"} /\ phase' = phase /\ requested' = requested
        /\ asked' = asked /\ intent' = intent /\ wallet' = wallet
    BY <1>4 DEF SelectAccount, field
  <2>2. WalletAnswered' <=> WalletAnswered
    BY <2>1 DEF WalletAnswered
  <2> QED  BY <2>1, <2>2 DEF MessageInv, IntentReadBack
<1>5. CASE AskWallet
  <2>1. /\ phase = "asked" /\ phase' = "signing" /\ requested' = requested
        /\ asked' = asked /\ intent' = intent
    BY <1>5 DEF AskWallet, field
  <2> QED  BY <2>1 DEF MessageInv, IntentReadBack
<1>6. CASE WalletSigns
  <2>1. /\ phase = "signing" /\ phase' = "signed" /\ requested' = requested
        /\ asked' = asked /\ intent' = intent
    BY <1>6 DEF WalletSigns, field
  <2>0. PICK over \in Envelopes(asked.message), report \in Report :
          \E by \in {NoKey} \cup (IF wallet.account = NoKey THEN Keys ELSE {wallet.account}) :
            /\ report = "none" <=> wallet.account = NoKey
            /\ report \in {"none", "one byte"} => over = Raw(asked.message)
            /\ report = "text" => over \in {Raw(asked.message), Legacy(asked.message)}
            /\ wallet' = [account |-> wallet.account,
                          signature |-> [by |-> by, over |-> over], report |-> report]
    BY <1>6 DEF WalletSigns
  <2>2. PICK by \in {NoKey} \cup (IF wallet.account = NoKey THEN Keys ELSE {wallet.account}) :
            /\ report \in {"none", "one byte"} => over = Raw(asked.message)
            /\ report = "text" => over \in {Raw(asked.message), Legacy(asked.message)}
            /\ wallet' = [account |-> wallet.account,
                          signature |-> [by |-> by, over |-> over], report |-> report]
    BY <2>0, Zenon
  <2>3. wallet'.signature.over = over /\ wallet'.report = report
    BY <2>2
  <2>4. WalletAnswered'
    BY <2>1, <2>2, <2>3, Zenon DEF WalletAnswered
  <2> QED  BY <2>1, <2>4 DEF MessageInv, IntentReadBack
<1>7. CASE WalletThrows
  BY <1>7 DEF WalletThrows, MessageInv, IntentReadBack
<1>8. CASE BuildInstruction
  <2>1. /\ phase = "signed" /\ phase' = "built" /\ requested' = requested /\ selected' = selected
        /\ asked' = asked /\ intent' = intent /\ wallet' = wallet
    BY <1>8 DEF BuildInstruction, field
  <2>2. PICK bytes \in signWithWallet(wallet, selected, asked.message) :
          /\ signed' = bytes
          /\ data' = buildIntentInstruction(wallet.signature, bytes, asked.key)
    BY <1>8 DEF BuildInstruction
  <2>3. WalletAnswered /\ asked.key \in Keys
    BY <2>1 DEF MessageInv
  <2>4. /\ bytes \in Envelopes(asked.message)
        /\ wallet.report \in {"none", "one byte"} \/ selected # NoKey =>
             bytes = wallet.signature.over
    BY <2>3, SignedBytes
  <2>5. NotRefused => bytes = wallet.signature.over
    BY <2>3, <2>4, SignedMessageAssumption DEF NotRefused, NoKey
  <2>6. WalletAnswered' /\ (NotRefused' <=> NotRefused)
    BY <2>1, <2>3 DEF WalletAnswered, NotRefused
  <2>7. Chosen'
    BY <2>1, <2>2, <2>4, <2>5, <2>6 DEF Chosen
  <2> QED  BY <2>1, <2>6, <2>7 DEF MessageInv, IntentReadBack
<1>9. CASE SignatureRefused
  <2>1. /\ phase = "signed" /\ phase' = "done" /\ requested' = requested /\ selected' = selected
        /\ asked' = asked /\ intent' = intent /\ wallet' = wallet
        /\ signWithWallet(wallet, selected, asked.message) = {}
    BY <1>9 DEF SignatureRefused, field
  <2>2. WalletAnswered /\ intent = {}
    BY <2>1 DEF MessageInv
  <2>3. wallet.report \notin {"none", "one byte"} /\ wallet.signature.by # selected
    BY <2>1, <2>2, SignedBytes
  <2>4. ~ (Readable' /\ NotRefused')
    BY <2>1, <2>3 DEF Readable, NotRefused
  <2>5. IntentReadBack'
    BY <2>1, <2>2, <2>4 DEF IntentReadBack
  <2> QED  BY <2>1, <2>5 DEF MessageInv
<1>10. CASE Execute
  <2>1. /\ phase = "built" /\ phase' = "done" /\ requested' = requested /\ decimals' = decimals
        /\ asked' = asked /\ wallet' = wallet /\ selected' = selected
        /\ intent' = IF Ed25519Verifies(data) THEN IntentLoad(data) ELSE {}
    BY <1>10 DEF Execute, field
  <2>2. /\ Chosen /\ asked.key \in Keys /\ asked.message.amount = requested.text
        /\ requested # NotSubmitted
    BY <2>1 DEF MessageInv
  <2> DEFINE Read == Verifies(asked.key, wallet.signature, signed)
                       /\ MessageDeserialize(signed) # {}
  <2>3. intent' = IF Read THEN {[signer |-> asked.key, message |-> asked.message]} ELSE {}
    BY <2>1, <2>2, Delivered DEF Chosen
  <2>4. /\ Read => Readable
        /\ Readable /\ NotRefused => Read
    BY <2>2 DEF Chosen, Verifies, Readable
  <2>5. (Readable' <=> Readable) /\ (NotRefused' <=> NotRefused)
    BY <2>1 DEF Readable, NotRefused
  <2> HIDE DEF Read
  <2>6. ASSUME NEW i \in intent'
        PROVE  TryUiAmountIntoAmount(i.message.amount, decimals)
                 = {requested.amount} \cap 0 .. MaxU64
    <3>1. i = [signer |-> asked.key, message |-> asked.message]
      BY <2>3
    <3>2. i.message.amount = requested.text
      BY <2>2, <3>1
    <3> QED  BY <2>2, <3>2 DEF AmountReadBack
  <2>7. intent' \subseteq
          IF Readable' THEN {[signer |-> asked'.key, message |-> asked'.message]} ELSE {}
    BY <2>1, <2>3, <2>4, <2>5
  <2>8. Readable' /\ NotRefused' => intent' # {}
    BY <2>3, <2>4, <2>5
  <2>9. IntentReadBack'
    BY <2>1, <2>6, <2>7, <2>8 DEF IntentReadBack
  <2> QED  BY <2>1, <2>2, <2>9 DEF MessageInv
<1>11. CASE UNCHANGED mvars
  <2>1. /\ WalletAnswered' <=> WalletAnswered
        /\ Chosen' <=> Chosen
        /\ IntentReadBack' <=> IntentReadBack
    BY <1>11 DEF mvars, field, signing, WalletAnswered, Chosen, NotRefused, IntentReadBack, Readable
  <2> QED  BY <1>11, <2>1 DEF mvars, field, signing, MessageInv
<1> QED  BY <1>1, <1>2, <1>3, <1>4, <1>5, <1>6, <1>7, <1>8, <1>9, <1>10, <1>11 DEF MNext

(* For any keys, number of signers and length of the message, whatever      *)
(* envelope the wallet signs, however it reports it and whatever account is *)
(* selected meanwhile: the program reads the signer and the message the SDK *)
(* asked for and in it the amount of the form, or nothing; it reads nothing *)
(* from a signature by another key or from an envelope its own rules        *)
(* refuse; and it does read a good signature if the SDK does not verify it  *)
(* or verifies it with the key it asked for.                                *)
THEOREM IntentsReadBack == MSpec => []IntentReadBack
<1>1. MessageInv => IntentReadBack
  BY DEF MessageInv
<1> QED  BY <1>1, MessageInvInit, MessageInvNext, AmountsReadBack, PTL DEF MSpec
===============================================================================
