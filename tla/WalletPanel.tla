----------------------------- MODULE WalletPanel -----------------------------
(***************************************************************************)
(* The wallet panel of sessions-sdk-react and the transfers it starts: its *)
(* screens, the forms that send a token, bridge USDC out (withdraw) and in *)
(* (deposit), the button that unwraps, the cached fees and balances they   *)
(* show, and the SDK's calls behind them, while the user goes back, closes *)
(* the panel, changes tab or account and opens a form again.               *)
(*                                                                         *)
(* A form's state lives as long as it is mounted; a transfer it started    *)
(* goes on when the form is gone and reports to it only while it is there. *)
(***************************************************************************)
EXTENDS Integers, FiniteSets

CONSTANTS
  Accounts,     \* accounts of the wallet
  Slots,        \* transfers in flight
  Worlds,       \* networks and what the user does on them, see World
  Tokens,       \* tokens of the accounts; usdc is the token of the fees
  MaxFee,       \* bound: fees the program may ask for
  MaxBalance,   \* bound: balances at the start
  MaxNonce,     \* bound: transfers of an account
  None, Loading

AllScreens == {"Wallet", "SelectTokenToSend", "Send", "Receive", "Get", "Withdraw", "Deposit"}
FeeKinds == {"transfer", "bridge"}

ASSUME PanelAssumption ==
  /\ None \notin Accounts \cup Slots
  /\ Loading \notin Nat \cup [Tokens -> Nat]
  /\ "usdc" \in Tokens /\ Tokens \subseteq {"native", "usdc", "wrapped"}
  /\ "wrapped" \in Tokens => "native" \in Tokens
  /\ {MaxFee, MaxBalance, MaxNonce} \subseteq Nat

(* A network (mainnet or testnet), the accounts of the wallet on it, the    *)
(* tokens and the amount of each that they own, the fees that may be asked  *)
(* for, the screens the user visits and the transfers in flight.            *)
World ==
  [mainnet : BOOLEAN, accounts : (SUBSET Accounts) \ {{}}, tokens : SUBSET Tokens,
   money : 0 .. MaxBalance, fees : (SUBSET (0 .. MaxFee)) \ {{}},
   screens : {S \in SUBSET AllScreens : "Wallet" \in S}, slots : SUBSET Slots]

ASSUME WorldsAssumption == Worlds \subseteq World

VARIABLES
  world,
  session,      \* account of the established session
  selected,     \* account selected in the wallet
  screen,       \* currentScreen, with the token and the balance it was opened with
  form,         \* state of the mounted form
  feeCache, balanceCache, solanaCache,    \* what useData holds
  transfers,
  balance, solana, nonce, fee             \* on chain

panel == <<session, screen, form>>
caches == <<feeCache, balanceCache, solanaCache>>
chain == <<balance, solana, nonce, fee>>
vars == <<world, session, selected, screen, form, caches, transfers, chain>>

-----------------------------------------------------------------------------
(* useData: the data, or Loading, which stands for an error too: neither    *)
(* shows a form.                                                            *)
Loaded(entry) == entry # Loading

Max == MaxBalance * Cardinality(Accounts) * 2
Balances == [Tokens -> 0 .. Max]

Screen == [type : AllScreens, token : Tokens, shown : 0 .. Max,
           prev : {"Wallet", "SelectTokenToSend"}]
Plain(type) == [type |-> type, token |-> "usdc", shown |-> 0, prev |-> "Wallet"]

NoForm == [amount |-> 0, submitting |-> FALSE]

Ops == {"native", "send", "withdraw", "deposit", "unwrap"}
Shown == [acct : Accounts, token : Tokens, amount : 0 .. Max, fee : Nat]

Idle == [st |-> "idle", op |-> "none", shown |-> None, args |-> None, nonce |-> 0,
         by |-> None, attached |-> FALSE, here |-> FALSE, paid |-> None, ok |-> FALSE]

Empty(t) == transfers[t].st = "idle"

(* The form is unmounted: its state is gone, and its transfers report to    *)
(* nobody.                                                                  *)
Unmount ==
  /\ form' = NoForm
  /\ transfers' = [t \in Slots |-> [transfers[t] EXCEPT !.attached = FALSE]]

Show(s) ==
  /\ s.type \in world.screens
  /\ screen' = s
  /\ Unmount
  /\ UNCHANGED <<session, selected, world, caches, chain>>

-----------------------------------------------------------------------------
(* Screens *)

Mounted(type) == session # None /\ screen.type = type

HasTokens == Loaded(balanceCache[session]) /\ \E k \in Tokens : balanceCache[session][k] > 0

ShowSelectTokenToSend == Mounted("Wallet") /\ HasTokens /\ Show(Plain("SelectTokenToSend"))
ShowReceive  == Mounted("Wallet") /\ Show(Plain("Receive"))
ShowGet      == Mounted("Wallet") /\ ~world.mainnet /\ Show(Plain("Get"))
ShowWithdraw == Mounted("Wallet") /\ HasTokens /\ Show(Plain("Withdraw"))

(* Transfer in: a button of the wallet's page on mainnet and of the page of *)
(* ways to get tokens elsewhere, and a link in an empty list of tokens.     *)
TransferInOffered ==
  \/ Mounted("Wallet") /\ world.mainnet
  \/ Mounted("Get")
  \/ /\ Mounted("Wallet") \/ Mounted("SelectTokenToSend")
     /\ Loaded(balanceCache[session]) /\ ~HasTokens
ShowDeposit == TransferInOffered /\ Show(Plain("Deposit"))

(* The application asks for the page (showBridgeIn). *)
ShowBridgeIn == session # None /\ screen.type # "Deposit" /\ Show(Plain("Deposit"))

(* A token of the list: the wrapped one can be sent only from the page that *)
(* selects; the screen keeps the balance as it is cached now.               *)
ShowSend(k) ==
  /\ session # None
  /\ screen.type \in {"Wallet", "SelectTokenToSend"}
  /\ Loaded(balanceCache[session]) /\ balanceCache[session][k] > 0
  /\ screen.type = "Wallet" => k # "wrapped"
  /\ Show([type |-> "Send", token |-> k, shown |-> balanceCache[session][k],
           prev |-> screen.type])

PressBack ==
  /\ session # None /\ screen.type # "Wallet"
  /\ Show(CASE screen.type = "Send" -> Plain(screen.prev)
            [] screen.type = "Deposit" /\ ~world.mainnet -> Plain("Get")
            [] OTHER -> Plain("Wallet"))

(* Another tab is looked at: the screen is kept, the form is not. *)
SwitchTab ==
  /\ session # None
  /\ Unmount
  /\ UNCHANGED <<session, selected, world, screen, caches, chain>>

(* The panel is closed, with the X or by logging out; the next one starts   *)
(* at the wallet, and the transfers of this one do not move it.             *)
ClosePanel ==
  /\ session # None
  /\ screen' = Plain("Wallet")
  /\ form' = NoForm
  /\ transfers' = [t \in Slots |-> [transfers[t] EXCEPT !.attached = FALSE, !.here = FALSE]]
  /\ UNCHANGED <<session, selected, world, caches, chain>>

-----------------------------------------------------------------------------
(* What a page shows of its data *)

FeeBalanceSuffices(k) ==
  Loaded(balanceCache[session]) /\ balanceCache[session]["usdc"] >= feeCache[k]

(* LoadedSendTokenPage; a native token needs no fee. *)
SendForm ==
  /\ Mounted("Send")
  /\ Loaded(feeCache["transfer"])
  /\ Loaded(balanceCache[session])
  /\ screen.token # "native" => FeeBalanceSuffices("transfer")

(* LoadedWithdrawForm *)
WithdrawForm ==
  /\ Mounted("Withdraw")
  /\ Loaded(feeCache["bridge"])
  /\ FeeBalanceSuffices("bridge")

(* DepositForm with USDC on Solana to transfer (a page that asks for SOL to *)
(* pay gas counts as an error).                                             *)
DepositForm ==
  /\ Mounted("Deposit")
  /\ Loaded(solanaCache[session]) /\ solanaCache[session] > 0

(* The row of the wrapped token, with its button *)
UnwrapRow ==
  /\ Mounted("Wallet") /\ "wrapped" \in Tokens
  /\ Loaded(balanceCache[session]) /\ balanceCache[session]["wrapped"] > 0

FormShown == SendForm \/ WithdrawForm \/ DepositForm \/ UnwrapRow

(* New data take the form away when it cannot be shown with them: the fee   *)
(* is no longer covered, or nothing is left.                                *)
Rerender == IF FormShown' THEN UNCHANGED <<form, transfers>> ELSE Unmount

-----------------------------------------------------------------------------
(* Fees and balances *)

(* A page asks for its data when it is mounted and again when it likes; a   *)
(* result replaces the cached one.  An error takes the form away.           *)
LoadFee(k) ==
  /\ Mounted(IF k = "transfer" THEN "Send" ELSE "Withdraw")
  /\ feeCache' = [feeCache EXCEPT ![k] = fee[k]]
  /\ UNCHANGED <<session, selected, world, screen, balanceCache, solanaCache, chain>>
  /\ Rerender

LoadBalances ==
  /\ session # None /\ screen.type \in {"Wallet", "SelectTokenToSend", "Send", "Withdraw"}
  /\ balanceCache' = [balanceCache EXCEPT ![session] = balance[session]]
  /\ UNCHANGED <<session, selected, world, screen, feeCache, solanaCache, chain>>
  /\ Rerender

getSolanaBalance ==
  /\ Mounted("Deposit")
  /\ solanaCache' = [solanaCache EXCEPT ![session] = solana[session]]
  /\ UNCHANGED <<session, selected, world, screen, feeCache, balanceCache, chain>>
  /\ Rerender

DataFails ==
  /\ session # None
  /\ \/ /\ screen.type \in {"Send", "Withdraw"}
        /\ feeCache' = [feeCache EXCEPT
             ![IF screen.type = "Send" THEN "transfer" ELSE "bridge"] = Loading]
        /\ UNCHANGED <<balanceCache, solanaCache>>
     \/ /\ screen.type \in {"Wallet", "SelectTokenToSend", "Send", "Withdraw"}
        /\ balanceCache' = [balanceCache EXCEPT ![session] = Loading]
        /\ UNCHANGED <<feeCache, solanaCache>>
     \/ /\ screen.type = "Deposit"
        /\ solanaCache' = [solanaCache EXCEPT ![session] = Loading]
        /\ UNCHANGED <<feeCache, balanceCache>>
  /\ Unmount
  /\ UNCHANGED <<session, selected, world, screen, chain>>

-----------------------------------------------------------------------------
(* Forms *)

(* What Max stands for. *)
MaxSendAmount ==
  IF screen.token = "usdc" THEN screen.shown - feeCache["transfer"] ELSE screen.shown
MaxWithdrawAmount == balanceCache[session]["usdc"] - feeCache["bridge"]

(* The fee that the form displays next to its button. *)
FeeShown ==
  IF SendForm THEN IF screen.token = "native" THEN 0 ELSE feeCache["transfer"]
  ELSE IF WithdrawForm THEN feeCache["bridge"] ELSE 0

(* Typed, or Max.  The deposit form still offers Max while it submits.      *)
Enter(a) ==
  /\ form' = [form EXCEPT !.amount = a]
  /\ UNCHANGED <<session, selected, world, screen, caches, transfers, chain>>

EnterSendAmount(a) == SendForm /\ ~form.submitting /\ Enter(a)
EnterWithdrawAmount(a) == WithdrawForm /\ ~form.submitting /\ Enter(a)
EnterDepositAmount(a) ==
  DepositForm /\ (form.submitting => a = solanaCache[session]) /\ Enter(a)

(* Pressing the button: what is transferred is fixed here. *)
Start(t, op, token, amount, shownFee) ==
  /\ Empty(t)
  /\ LET what == [acct |-> session, token |-> token, amount |-> amount, fee |-> shownFee]
     IN transfers' = [transfers EXCEPT ![t] =
          [Idle EXCEPT !.st = "context", !.op = op, !.attached = TRUE, !.here = TRUE,
                       !.shown = what, !.args = what]]
  /\ form' = [form EXCEPT !.submitting = TRUE]
  /\ UNCHANGED <<session, selected, world, screen, caches, chain>>

(* Mutant: the handler stays on the form while it is submitting. *)
SubmitSendAgain(t) ==
  /\ SendForm
  /\ form.amount > 0 /\ form.amount <= MaxSendAmount
  /\ Start(t, IF screen.token = "native" THEN "native" ELSE "send",
           screen.token, form.amount, FeeShown)

(* The form has no submit handler while it is submitting. *)
SubmitSend(t) ==
  /\ SendForm
  /\ ~form.submitting
  /\ form.amount > 0 /\ form.amount <= MaxSendAmount
  /\ Start(t, IF screen.token = "native" THEN "native" ELSE "send",
           screen.token, form.amount, FeeShown)

(* The handler stays while it is submitting, when only the button is        *)
(* pending and the maximum is not enforced.                                 *)
SubmitWithdraw(t) ==
  /\ WithdrawForm
  /\ form.amount > 0
  /\ form.submitting \/ form.amount <= MaxWithdrawAmount
  /\ Start(t, "withdraw", "usdc", form.amount, FeeShown)

SubmitDeposit(t) ==
  /\ DepositForm
  /\ form.amount > 0 /\ form.amount <= solanaCache[session]
  /\ Start(t, "deposit", "usdc", form.amount, 0)

(* The button of the wrapped token, disabled while it runs. *)
PressUnwrap(t) ==
  /\ UnwrapRow
  /\ ~form.submitting
  /\ Start(t, "unwrap", "wrapped", 0, 0)

-----------------------------------------------------------------------------
(* The SDK's calls *)

NonceKind(op) == IF op = "withdraw" THEN "bridge" ELSE "transfer"

(* Mutant: fee and account are taken when the intent is built. *)
ArgsAtBuild(t) ==
  [transfers[t].args EXCEPT !.acct = IF session = None THEN @ ELSE session,
     !.fee = IF Loaded(feeCache["transfer"]) THEN feeCache["transfer"] ELSE @]

(* What sendTransfer, sendNativeTransfer, bridgeOut and bridgeIn are given: *)
(* the values that the handler read when it was called.                     *)
TransferArgs(t) == transfers[t].args

(* The account's nonce plus one; a nonce account that is missing counts as 0. *)
getNonce(a, kind) == nonce[a][kind] + 1

buildTransferIntentInstruction(a) == [args |-> a, nonce |-> getNonce(a.acct, "transfer")]
buildNativeTransferIntentInstruction(a) == [args |-> a, nonce |-> getNonce(a.acct, "transfer")]
buildBridgeOutIntent(a) == [args |-> a, nonce |-> getNonce(a.acct, "bridge")]

(* The wallet is asked to sign an intent. *)
AskToSign(t, op, intent) ==
  /\ transfers[t].st = "context" /\ transfers[t].op = op
  /\ transfers' = [transfers EXCEPT ![t].st = "sign", ![t].args = intent.args,
                                    ![t].nonce = intent.nonce]
  /\ UNCHANGED <<session, selected, world, screen, form, caches, chain>>

sendTransfer(t) == AskToSign(t, "send", buildTransferIntentInstruction(TransferArgs(t)))
sendNativeTransfer(t) ==
  AskToSign(t, "native", buildNativeTransferIntentInstruction(TransferArgs(t)))
bridgeOut(t) == AskToSign(t, "withdraw", buildBridgeOutIntent(TransferArgs(t)))

(* bridgeIn: a quote, and a transaction for the wallet to sign. *)
bridgeIn(t) ==
  /\ transfers[t].st = "context" /\ transfers[t].op = "deposit"
  /\ transfers' = [transfers EXCEPT ![t].st = "sign"]
  /\ UNCHANGED <<session, selected, world, screen, form, caches, chain>>

(* The session key signs: the wallet is not asked. *)
BuildUnwrap(t) ==
  /\ transfers[t].st = "context" /\ transfers[t].op = "unwrap"
  /\ transfers' = [transfers EXCEPT ![t].st = "post", ![t].by = transfers[t].args.acct]
  /\ UNCHANGED <<session, selected, world, screen, form, caches, chain>>

WalletSigns(t) ==
  /\ transfers[t].st = "sign"
  /\ transfers' = [transfers EXCEPT ![t].st = "post", ![t].by = selected]
  /\ UNCHANGED <<session, selected, world, screen, form, caches, chain>>

Throws(t) ==
  /\ transfers' = [transfers EXCEPT ![t].st = "answer"]
  /\ UNCHANGED <<session, selected, world, screen, form, caches, chain>>

(* A request fails before the wallet is asked, or the wallet refuses. *)
RequestThrows(t) == transfers[t].st = "context" /\ Throws(t)
WalletRefuses(t) == transfers[t].st = "sign" /\ Throws(t)

(* Wormhole has no valid route for the amount. *)
buildWormholeTransferThrows(t) ==
  transfers[t].st = "context" /\ transfers[t].op \in {"withdraw", "deposit"} /\ Throws(t)

(* The program collects the configured fee, which the signed one must cover *)
(* (no fee for a native transfer).                                          *)
Charged(r) == IF r.op = "native" THEN 0 ELSE fee[NonceKind(r.op)]

Cost(r, k) == (IF r.args.token = k THEN r.args.amount ELSE 0)
            + (IF k = "usdc" THEN Charged(r) ELSE 0)

ExecuteIntent(t) ==
  LET r == transfers[t]
      a == r.args.acct
      n == NonceKind(r.op)
  IN /\ r.st = "post" /\ r.op \in {"native", "send", "withdraw"}
     /\ r.by = a
     /\ r.nonce = nonce[a][n] + 1 /\ nonce[a][n] < MaxNonce
     /\ Charged(r) <= r.args.fee
     /\ \A k \in Tokens : Cost(r, k) <= balance[a][k]
     /\ balance' = [balance EXCEPT ![a] = [k \in Tokens |-> @[k] - Cost(r, k)]]
     /\ solana' = IF r.op = "withdraw" THEN [solana EXCEPT ![a] = @ + r.args.amount] ELSE solana
     /\ nonce' = [nonce EXCEPT ![a][n] = @ + 1]
     /\ transfers' = [transfers EXCEPT ![t].st = "answer", ![t].ok = TRUE,
                        ![t].paid = [r.args EXCEPT !.fee = Charged(r)]]
     /\ UNCHANGED <<session, selected, world, screen, form, caches, fee>>

(* The deposit leaves Solana and arrives on Fogo. *)
ExecuteBridgeIn(t) ==
  LET r == transfers[t]
      a == r.args.acct
  IN /\ r.st = "post" /\ r.op = "deposit"
     /\ r.by = a /\ r.args.amount <= solana[a]
     /\ solana' = [solana EXCEPT ![a] = @ - r.args.amount]
     /\ balance' = [balance EXCEPT ![a]["usdc"] = @ + r.args.amount]
     /\ transfers' = [transfers EXCEPT ![t].st = "answer", ![t].ok = TRUE, ![t].paid = r.args]
     /\ UNCHANGED <<session, selected, world, screen, form, caches, nonce, fee>>

ExecuteUnwrap(t) ==
  LET r == transfers[t]
      a == r.args.acct
  IN /\ r.st = "post" /\ r.op = "unwrap"
     /\ balance' = [balance EXCEPT ![a]["native"] = @ + balance[a]["wrapped"],
                                   ![a]["wrapped"] = 0]
     /\ transfers' = [transfers EXCEPT ![t].st = "answer", ![t].ok = TRUE, ![t].paid = r.args]
     /\ UNCHANGED <<session, selected, world, screen, form, caches, solana, nonce, fee>>

(* It is refused or fails on chain: a nonce already used, a signature by    *)
(* another account, a fee that was raised, too little money, ...            *)
ExecutionFails(t) ==
  /\ transfers[t].st = "post"
  /\ transfers' = [transfers EXCEPT ![t].st = "answer"]
  /\ UNCHANGED <<session, selected, world, screen, form, caches, chain>>

-----------------------------------------------------------------------------
(* The promise settles *)

(* Mutant: the form is released only when the transfer succeeds. *)
FormAfterSuccess(t) ==
  IF transfers[t].ok THEN [form EXCEPT !.submitting = FALSE] ELSE form

(* finally: the form, if it is still mounted, can be submitted again. *)
FormAfter(t) ==
  IF transfers[t].attached THEN [form EXCEPT !.submitting = FALSE] ELSE form

Succeeded(t, ops) == transfers[t].st = "answer" /\ transfers[t].ok /\ transfers[t].op \in ops

(* onSendComplete shows the wallet, whatever the panel shows by now; the    *)
(* form goes with its screen, or with the data that have become known.      *)
OnSendComplete(t) ==
  LET leaves == transfers[t].here /\ screen.type # "Wallet"
  IN /\ screen' = IF leaves THEN Plain("Wallet") ELSE screen
     /\ IF leaves \/ ~FormShown'
        THEN /\ form' = NoForm
             /\ transfers' = [u \in Slots |-> IF u = t THEN Idle
                                             ELSE [transfers[u] EXCEPT !.attached = FALSE]]
        ELSE /\ transfers' = [transfers EXCEPT ![t] = Idle]
             /\ UNCHANGED form

SendSucceeds(t) ==
  /\ Succeeded(t, {"native", "send"})
  /\ UNCHANGED <<session, selected, world, caches, chain>>
  /\ OnSendComplete(t)

WithdrawSucceeds(t) ==
  /\ Succeeded(t, {"withdraw"})
  /\ UNCHANGED <<session, selected, world, caches, chain>>
  /\ OnSendComplete(t)

(* The balance on Solana is asked for again, which may fail. *)
DepositSucceeds(t) ==
  /\ Succeeded(t, {"deposit"})
  /\ LET a == transfers[t].args.acct
     IN solanaCache' \in {solanaCache, [solanaCache EXCEPT ![a] = solana[a]]}
  /\ UNCHANGED <<session, selected, world, feeCache, balanceCache, chain>>
  /\ OnSendComplete(t)

UnwrapSucceeds(t) ==
  /\ Succeeded(t, {"unwrap"})
  /\ form' = FormAfter(t)
  /\ transfers' = [transfers EXCEPT ![t] = Idle]
  /\ UNCHANGED <<session, selected, world, screen, caches, chain>>

(* "Failed to ...": what was typed is kept.  The answer to a transfer that  *)
(* was executed may be lost.                                                *)
TransferFails(t) ==
  /\ transfers[t].st = "answer"
  /\ form' = FormAfter(t)
  /\ transfers' = [transfers EXCEPT ![t] = Idle]
  /\ UNCHANGED <<session, selected, world, screen, caches, chain>>

-----------------------------------------------------------------------------
(* Accounts, the session and the program's fees *)

SelectAccount(a) ==
  /\ selected' = a
  /\ UNCHANGED <<world, panel, caches, transfers, chain>>

(* The session is no longer established: the tabs are empty, the current    *)
(* screen is kept.                                                          *)
SessionEnds ==
  /\ session # None
  /\ session' = None
  /\ Unmount
  /\ UNCHANGED <<selected, world, screen, caches, chain>>

SessionStarts ==
  /\ session = None
  /\ session' = selected
  /\ UNCHANGED <<selected, world, screen, form, caches, transfers, chain>>

FeeChanges(k) ==
  /\ k = "bridge" => "Withdraw" \in world.screens
  /\ \E f \in world.fees : fee' = [fee EXCEPT ![k] = f]
  /\ UNCHANGED <<panel, selected, world, caches, transfers, balance, solana, nonce>>

-----------------------------------------------------------------------------
Init ==
  /\ world \in Worlds
  /\ session \in world.accounts
  /\ selected = session
  /\ screen = Plain("Wallet")
  /\ form = NoForm
  /\ feeCache = [k \in FeeKinds |-> Loading]
  /\ balanceCache = [a \in Accounts |-> Loading]
  /\ solanaCache = [a \in Accounts |-> Loading]
  /\ transfers = [t \in Slots |-> Idle]
  /\ balance = [a \in Accounts |-> [k \in Tokens |-> IF k \in world.tokens THEN world.money ELSE 0]]
  /\ solana = [a \in Accounts |-> world.money]
  /\ nonce = [a \in Accounts |-> [k \in FeeKinds |-> 0]]
  /\ fee \in {[k \in FeeKinds |-> f] : f \in world.fees}

Navigate ==
  \/ ShowSelectTokenToSend \/ ShowReceive \/ ShowGet \/ ShowWithdraw
  \/ ShowDeposit \/ ShowBridgeIn \/ PressBack \/ SwitchTab \/ ClosePanel
  \/ \E k \in Tokens : ShowSend(k)

Data == (\E k \in FeeKinds : LoadFee(k)) \/ LoadBalances \/ getSolanaBalance \/ DataFails

Submit(t) == SubmitSend(t) \/ SubmitWithdraw(t) \/ SubmitDeposit(t) \/ PressUnwrap(t)

Proceed(t) ==
  \/ sendTransfer(t) \/ sendNativeTransfer(t) \/ bridgeOut(t) \/ bridgeIn(t) \/ BuildUnwrap(t)
  \/ WalletSigns(t) \/ RequestThrows(t) \/ WalletRefuses(t) \/ buildWormholeTransferThrows(t)
  \/ ExecuteIntent(t) \/ ExecuteBridgeIn(t) \/ ExecuteUnwrap(t) \/ ExecutionFails(t)
  \/ SendSucceeds(t) \/ WithdrawSucceeds(t) \/ DepositSucceeds(t) \/ UnwrapSucceeds(t)
  \/ TransferFails(t)

Outside ==
  \/ \E a \in world.accounts : SelectAccount(a)
  \/ SessionEnds \/ SessionStarts
  \/ \E k \in FeeKinds : FeeChanges(k)

Next ==
  \/ Navigate \/ Data \/ Outside
  \/ \E a \in 1 .. world.money :
       EnterSendAmount(a) \/ EnterWithdrawAmount(a) \/ EnterDepositAmount(a)
  \/ \E t \in world.slots : Submit(t) \/ Proceed(t)

Spec == Init /\ [][Next]_vars

-----------------------------------------------------------------------------
(* Properties *)

(* What a transfer takes is what the form showed when its button was        *)
(* pressed: that account, token and amount, and no more than the fee next   *)
(* to the button, although the caches, the account, the form and the        *)
(* program's fee may all change before it is signed and executed.           *)
TransferAsShown ==
  \A t \in Slots :
    LET r == transfers[t]
    IN r.paid # None => /\ [r.paid EXCEPT !.fee = 0] = [r.shown EXCEPT !.fee = 0]
                        /\ r.paid.fee <= r.shown.fee

(* The send form and the unwrap button never have two transfers under way:  *)
(* pressing again, or Enter, does nothing until the first has reported.     *)
OneAtATime ==
  \A t, u \in Slots :
    /\ transfers[t].attached /\ transfers[t].op \in {"native", "send", "unwrap"}
    /\ transfers[u].attached
    /\ ~Empty(t) /\ ~Empty(u)
    => t = u

(* A form that waits has something to wait for: as long as it is            *)
(* submitting, a transfer of its own is under way and will report to it,    *)
(* whichever step fails, and also after the form was left and opened again, *)
(* lost its data or was taken away by another transfer that succeeded.      *)
SubmittingIsAnswered ==
  form.submitting => \E t \in Slots : ~Empty(t) /\ transfers[t].attached
=============================================================================
