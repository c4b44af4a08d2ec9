-------------------------- MODULE WalletPanelProofs --------------------------
(***************************************************************************)
(* Theorems about WalletPanel, for any number of accounts and of transfers *)
(* in flight, and any fees.                                                *)
(*                                                                         *)
(* A transfer that reports to a form is one of the form that is mounted    *)
(* now: whatever changes the screen also cuts the transfers off.  So the   *)
(* form is released exactly by its own transfers.                          *)
(***************************************************************************)
EXTENDS WalletPanel, TLAPS

(* What the user confirms. *)
Order == [acct : Accounts, token : Tokens, amount : Nat, fee : Nat]

Transfer ==
  [st : {"idle", "context", "sign", "post", "answer"}, op : Ops \cup {"none"},
   shown : Order \cup {None}, args : Order \cup {None}, nonce : Nat,
   by : Accounts \cup {None}, attached : BOOLEAN, here : BOOLEAN,
   paid : Order \cup {None}, ok : BOOLEAN]

(* A transfer carries what was shown, and takes nothing else. *)
TransferOK(r) ==
  /\ r \in Transfer
  /\ r.st # "idle" => r.op \in Ops /\ r.shown \in Order /\ r.args = r.shown
  /\ r.paid # None =>
       /\ r.shown \in Order /\ r.paid \in Order
       /\ r.paid.acct = r.shown.acct /\ r.paid.token = r.shown.token
       /\ r.paid.amount = r.shown.amount /\ r.paid.fee <= r.shown.fee

(* The screen whose form starts an operation. *)
ScreenOf(op) ==
  IF op \in {"native", "send"} THEN "Send"
  ELSE IF op = "withdraw" THEN "Withdraw"
  ELSE IF op = "deposit" THEN "Deposit" ELSE "Wallet"

Reporting(r) == r.attached /\ r.st # "idle"

(* A transfer that reports to the form was started on the screen shown. *)
ReportOK(r, type) == Reporting(r) => r.here /\ ScreenOf(r.op) = type

(* Operations whose button is dead while one is under way. *)
Exclusive(r) == Reporting(r) /\ r.op \in {"native", "send", "unwrap"}

TransfersInv ==
  /\ transfers \in [Slots -> Transfer]
  /\ \A t \in Slots : TransferOK(transfers[t]) /\ ReportOK(transfers[t], screen.type)

FormInv ==
  /\ form \in [amount : Nat, submitting : BOOLEAN]
  /\ form.submitting => \E t \in Slots : Reporting(transfers[t])
  /\ \A t, u \in Slots : Exclusive(transfers[t]) /\ Reporting(transfers[u]) =>
       form.submitting /\ t = u

DataInv ==
  /\ world \in Worlds
  /\ session \in Accounts \cup {None}
  /\ selected \in Accounts
  /\ screen.token \in Tokens
  /\ feeCache \in [FeeKinds -> Nat \cup {Loading}]
  /\ fee \in [FeeKinds -> Nat]
  /\ nonce \in [Accounts -> [FeeKinds -> Nat]]

PanelInv == TransfersInv /\ FormInv /\ DataInv

-----------------------------------------------------------------------------
(* Records of transfers. *)
LEMMA IdleOK == TransferOK(Idle) /\ ~Reporting(Idle)
<1>1. Idle \in Transfer
  BY DEF Idle, Transfer
<1> QED
  BY <1>1 DEF Idle, TransferOK, Reporting

Silent(r) == [r EXCEPT !.attached = FALSE]
Left(r) == [r EXCEPT !.attached = FALSE, !.here = FALSE]

LEMMA SilentOK ==
  ASSUME NEW r, TransferOK(r)
  PROVE  TransferOK(Silent(r)) /\ ~Reporting(Silent(r))
<1> DEFINE n == Silent(r)
<1>1. r \in Transfer
  BY DEF TransferOK
<1>2. /\ n \in Transfer /\ n.st = r.st /\ n.op = r.op /\ n.shown = r.shown
      /\ n.args = r.args /\ n.paid = r.paid /\ n.attached = FALSE
  BY <1>1 DEF Silent, Transfer
<1> HIDE DEF n
<1> QED
  BY <1>2 DEF TransferOK, Reporting, n

LEMMA LeftOK ==
  ASSUME NEW r, TransferOK(r)
  PROVE  TransferOK(Left(r)) /\ ~Reporting(Left(r))
<1> DEFINE n == Left(r)
<1>1. r \in Transfer
  BY DEF TransferOK
<1>2. /\ n \in Transfer /\ n.st = r.st /\ n.op = r.op /\ n.shown = r.shown
      /\ n.args = r.args /\ n.paid = r.paid /\ n.attached = FALSE
  BY <1>1 DEF Left, Transfer
<1> HIDE DEF n
<1> QED
  BY <1>2 DEF TransferOK, Reporting, n

(* A transfer that goes on: it stays what it is and reports as before. *)
SameReport(n, r) ==
  n.op = r.op /\ n.attached = r.attached /\ n.here = r.here /\ n.st # "idle"

Advanced(r, st) == [r EXCEPT !.st = st]

LEMMA AdvancedOK ==
  ASSUME NEW r, TransferOK(r), r.st # "idle", NEW st \in {"context", "sign", "post", "answer"}
  PROVE  TransferOK(Advanced(r, st)) /\ SameReport(Advanced(r, st), r)
<1> DEFINE n == Advanced(r, st)
<1>1. r \in Transfer
  BY DEF TransferOK
<1>2. /\ n \in Transfer /\ n.st = st /\ n.op = r.op /\ n.shown = r.shown
      /\ n.args = r.args /\ n.paid = r.paid /\ n.attached = r.attached /\ n.here = r.here
  BY <1>1 DEF Advanced, Transfer
<1> HIDE DEF n
<1> QED
  BY <1>2 DEF TransferOK, SameReport, n

Asked(r, args, no) == [r EXCEPT !.st = "sign", !.args = args, !.nonce = no]

LEMMA AskedOK ==
  ASSUME NEW r, TransferOK(r), r.st # "idle", NEW no \in Nat
  PROVE  TransferOK(Asked(r, r.args, no)) /\ SameReport(Asked(r, r.args, no), r)
<1> DEFINE a == r.args
           m == [r EXCEPT !.st = "sign", !.args = a]
           n == Asked(r, a, no)
<1>1. r \in Transfer /\ a \in Order
  BY DEF TransferOK
<1>2. n = [m EXCEPT !.nonce = no]
  BY DEF Asked
<1>3. /\ m \in Transfer /\ m.st = "sign" /\ m.op = r.op /\ m.shown = r.shown
      /\ m.args = a /\ m.paid = r.paid /\ m.attached = r.attached /\ m.here = r.here
  <2> HIDE DEF a
  <2> QED
    BY <1>1 DEF Transfer
<1> HIDE DEF m, n
<1>4. /\ n \in Transfer /\ n.st = m.st /\ n.op = m.op /\ n.shown = m.shown
      /\ n.args = m.args /\ n.paid = m.paid /\ n.attached = m.attached /\ n.here = m.here
  BY <1>2, <1>3 DEF Transfer
<1>5. TransferOK(n) /\ SameReport(n, r)
  BY <1>3, <1>4 DEF TransferOK, SameReport
<1> QED
  BY <1>5 DEF n

Signed(r, by) == [r EXCEPT !.st = "post", !.by = by]

LEMMA SignedOK ==
  ASSUME NEW r, TransferOK(r), r.st # "idle", NEW by \in Accounts
  PROVE  TransferOK(Signed(r, by)) /\ SameReport(Signed(r, by), r)
<1> DEFINE n == Signed(r, by)
<1>1. r \in Transfer
  BY DEF TransferOK
<1>2. /\ n \in Transfer /\ n.st = "post" /\ n.op = r.op /\ n.shown = r.shown
      /\ n.args = r.args /\ n.paid = r.paid /\ n.attached = r.attached /\ n.here = r.here
  BY <1>1 DEF Signed, Transfer
<1> HIDE DEF n
<1> QED
  BY <1>2 DEF TransferOK, SameReport, n

Executed(r, paid) == [r EXCEPT !.st = "answer", !.ok = TRUE, !.paid = paid]

LEMMA ExecutedOK ==
  ASSUME NEW r, TransferOK(r), r.st # "idle", NEW paid \in Order,
         paid.acct = r.args.acct, paid.token = r.args.token,
         paid.amount = r.args.amount, paid.fee <= r.args.fee
  PROVE  TransferOK(Executed(r, paid)) /\ SameReport(Executed(r, paid), r)
<1> DEFINE m == [r EXCEPT !.st = "answer", !.ok = TRUE]
           n == Executed(r, paid)
<1>1. r \in Transfer
  BY DEF TransferOK
<1>2. n = [m EXCEPT !.paid = paid]
  BY DEF Executed
<1>3. /\ m \in Transfer /\ m.st = "answer" /\ m.op = r.op /\ m.shown = r.shown
      /\ m.args = r.args /\ m.attached = r.attached /\ m.here = r.here
  BY <1>1 DEF Transfer
<1> HIDE DEF m, n
<1>4. /\ n \in Transfer /\ n.st = m.st /\ n.op = m.op /\ n.shown = m.shown
      /\ n.args = m.args /\ n.paid = paid /\ n.attached = m.attached /\ n.here = m.here
  BY <1>2, <1>3 DEF Transfer
<1>5. TransferOK(n) /\ SameReport(n, r)
  BY <1>3, <1>4 DEF TransferOK, SameReport
<1> QED
  BY <1>5 DEF n

-----------------------------------------------------------------------------
(* Every transfer is cut off from the form. *)
LEMMA CutOff ==
  ASSUME form' = NoForm, transfers' \in [Slots -> Transfer],
         \A t \in Slots : TransferOK(transfers'[t]) /\ ~Reporting(transfers'[t])
  PROVE  TransfersInv' /\ FormInv'
<1>1. TransfersInv'
  BY DEF TransfersInv, ReportOK
<1>2. form' \in [amount : Nat, submitting : BOOLEAN] /\ ~form'.submitting
  BY DEF NoForm
<1>3. (\A t, u \in Slots : Exclusive(transfers[t]) /\ Reporting(transfers[u]) =>
         form.submitting /\ t = u)'
  BY DEF Exclusive
<1> QED
  BY <1>1, <1>2, <1>3 DEF FormInv

LEMMA UnmountStep ==
  ASSUME TransfersInv, Unmount
  PROVE  TransfersInv' /\ FormInv'
<1>1. \A t \in Slots : TransferOK(transfers[t])
  BY DEF TransfersInv
<1>2. transfers' = [t \in Slots |-> Silent(transfers[t])] /\ form' = NoForm
  BY DEF Unmount, Silent
<1>3. \A t \in Slots : TransferOK(transfers'[t]) /\ ~Reporting(transfers'[t])
  BY <1>1, <1>2, SilentOK
<1>4. transfers' \in [Slots -> Transfer]
  BY <1>2, <1>3 DEF TransferOK
<1> QED
  BY <1>2, <1>3, <1>4, CutOff

(* One transfer goes on. *)
LEMMA OneTransfer ==
  ASSUME TransfersInv, FormInv, NEW t \in Slots, NEW n,
         transfers' = [transfers EXCEPT ![t] = n],
         TransferOK(n), SameReport(n, transfers[t]), transfers[t].st # "idle",
         UNCHANGED <<form, screen>>
  PROVE  TransfersInv' /\ FormInv'
<1>1. \A u \in Slots : transfers'[u] = IF u = t THEN n ELSE transfers[u]
  BY DEF TransfersInv
<1>2. transfers' \in [Slots -> Transfer]
  BY DEF TransfersInv, TransferOK
<1>3. \A u \in Slots : TransferOK(transfers'[u]) /\ ReportOK(transfers'[u], screen.type)
  BY <1>1 DEF TransfersInv, SameReport, ReportOK, Reporting
<1>4. \A u \in Slots : (Reporting(transfers'[u]) <=> Reporting(transfers[u]))
                        /\ (Exclusive(transfers'[u]) <=> Exclusive(transfers[u]))
  BY <1>1 DEF SameReport, Reporting, Exclusive
<1>5. TransfersInv'
  BY <1>2, <1>3 DEF TransfersInv
<1>6. form.submitting => \E u \in Slots : Reporting(transfers'[u])
  BY <1>4 DEF FormInv
<1>7. \A u, v \in Slots : Exclusive(transfers'[u]) /\ Reporting(transfers'[v]) =>
        form.submitting /\ u = v
  BY <1>4 DEF FormInv
<1> QED
  BY <1>5, <1>6, <1>7 DEF FormInv

(* One transfer is over, and its form, if it is still there, is released. *)
LEMMA OverStep ==
  ASSUME TransfersInv, FormInv, NEW t \in Slots, transfers[t].st # "idle",
         transfers' = [transfers EXCEPT ![t] = Idle], UNCHANGED screen,
         IF Reporting(transfers[t]) THEN form' = [form EXCEPT !.submitting = FALSE]
                                    ELSE form' = form
  PROVE  TransfersInv' /\ FormInv'
<1>1. \A u \in Slots : transfers'[u] = IF u = t THEN Idle ELSE transfers[u]
  BY DEF TransfersInv
<1>2. transfers' \in [Slots -> Transfer]
  BY IdleOK DEF TransfersInv, TransferOK
<1>3. \A u \in Slots : TransferOK(transfers'[u]) /\ ReportOK(transfers'[u], screen.type)
  BY <1>1, IdleOK DEF TransfersInv, ReportOK
<1>4. TransfersInv'
  BY <1>2, <1>3 DEF TransfersInv
<1>5. \A u \in Slots : Reporting(transfers'[u]) => u # t /\ Reporting(transfers[u])
  BY <1>1, IdleOK
<1>6. \A u \in Slots : Exclusive(transfers'[u]) => u # t /\ Exclusive(transfers[u])
  BY <1>1, IdleOK DEF Exclusive
<1>7. form' \in [amount : Nat, submitting : BOOLEAN]
  BY DEF FormInv
<1>8. CASE Reporting(transfers[t])
  <2>1. ~form'.submitting
    BY <1>8 DEF FormInv
  <2>2. \A u \in Slots : ~Exclusive(transfers'[u])
    BY <1>6, <1>8 DEF FormInv
  <2> QED
    BY <1>4, <1>7, <2>1, <2>2 DEF FormInv
<1>9. CASE ~Reporting(transfers[t])
  <2>1. form'.submitting => \E u \in Slots : Reporting(transfers'[u])
    BY <1>1, <1>9 DEF FormInv
  <2>2. \A u, v \in Slots : Exclusive(transfers'[u]) /\ Reporting(transfers'[v]) =>
          form'.submitting /\ u = v
    BY <1>5, <1>6, <1>9 DEF FormInv
  <2> QED
    BY <1>4, <1>7, <2>1, <2>2 DEF FormInv
<1> QED
  BY <1>8, <1>9

-----------------------------------------------------------------------------
(* A button is pressed: a new transfer reports to the form. *)
Started(op, what) ==
  [Idle EXCEPT !.st = "context", !.op = op, !.attached = TRUE, !.here = TRUE,
               !.shown = what, !.args = what]

LEMMA StartedOK ==
  ASSUME NEW op \in Ops, NEW what \in Order
  PROVE  /\ TransferOK(Started(op, what))
         /\ Reporting(Started(op, what))
         /\ Started(op, what).op = op /\ Started(op, what).here
<1> DEFINE n == Started(op, what)
           m == [Idle EXCEPT !.st = "context", !.op = op]
           l == [m EXCEPT !.attached = TRUE, !.here = TRUE]
<1>1. n = [l EXCEPT !.shown = what, !.args = what]
  BY DEF Started
<1>2. Idle \in Transfer /\ Idle.paid = None
  BY IdleOK DEF TransferOK, Idle
<1>3. /\ m \in Transfer /\ m.st = "context" /\ m.op = op /\ m.paid = None
  BY <1>2 DEF Transfer
<1> HIDE DEF m
<1>4. /\ l \in Transfer /\ l.st = "context" /\ l.op = op /\ l.paid = None
      /\ l.attached = TRUE /\ l.here = TRUE
  BY <1>3 DEF Transfer
<1> HIDE DEF l
<1>5. /\ n \in Transfer /\ n.st = "context" /\ n.op = op /\ n.paid = None
      /\ n.attached = TRUE /\ n.here = TRUE /\ n.shown = what /\ n.args = what
  BY <1>1, <1>4 DEF Transfer
<1> HIDE DEF n
<1>6. TransferOK(n) /\ Reporting(n) /\ n.op = op /\ n.here
  BY <1>5 DEF TransferOK, Reporting
<1> QED
  BY <1>6 DEF n

(* The forms whose button dies while it submits have no other transfer     *)
(* that reports to them; the others have only transfers of their own kind. *)
LEMMA StartStep ==
  ASSUME TransfersInv, FormInv, NEW t \in Slots, NEW op \in Ops, NEW token \in Tokens,
         NEW amount \in Nat, NEW shownFee \in Nat, session \in Accounts,
         screen.type = ScreenOf(op),
         op \in {"native", "send", "unwrap"} => ~form.submitting,
         Start(t, op, token, amount, shownFee)
  PROVE  TransfersInv' /\ FormInv'
<1> DEFINE what == [acct |-> session, token |-> token, amount |-> amount, fee |-> shownFee]
           n == Started(op, what)
<1>1. what \in Order
  BY DEF Order
<1>2. TransferOK(n) /\ Reporting(n) /\ n.op = op /\ n.here
  BY <1>1, StartedOK
<1>3. /\ transfers' = [transfers EXCEPT ![t] = n] /\ UNCHANGED screen
      /\ form' = [form EXCEPT !.submitting = TRUE] /\ transfers[t].st = "idle"
  BY DEF Start, Started, Empty
<1> HIDE DEF what, n
<1>4. \A u \in Slots : transfers'[u] = IF u = t THEN n ELSE transfers[u]
  BY <1>3 DEF TransfersInv
<1>5. transfers' \in [Slots -> Transfer]
  BY <1>2, <1>3 DEF TransfersInv, TransferOK
<1>6. \A u \in Slots : TransferOK(transfers'[u]) /\ ReportOK(transfers'[u], screen.type)
  BY <1>2, <1>4 DEF TransfersInv, ReportOK
<1>7. TransfersInv'
  BY <1>3, <1>5, <1>6 DEF TransfersInv
<1>8. form' \in [amount : Nat, submitting : BOOLEAN] /\ form'.submitting
  BY <1>3 DEF FormInv
<1>9. Reporting(transfers'[t])
  BY <1>2, <1>4
<1>10. \A u \in Slots : Reporting(transfers[u]) =>
         u # t /\ ScreenOf(transfers[u].op) = ScreenOf(op) /\ transfers[u].op \in Ops
  BY <1>3 DEF TransfersInv, TransferOK, ReportOK, Reporting
<1>11. CASE op \in {"native", "send", "unwrap"}
  <2>1. ScreenOf(op) \in {"Send", "Wallet"}
    BY <1>11 DEF ScreenOf
  <2>2. \A u \in Slots : Reporting(transfers[u]) => Exclusive(transfers[u])
    BY <1>10, <2>1 DEF ScreenOf, Ops, Exclusive
  <2>3. \A u \in Slots : ~Reporting(transfers[u])
    BY <1>11, <2>2 DEF FormInv
  <2>4. \A u \in Slots : Reporting(transfers'[u]) => u = t
    BY <1>4, <2>3
  <2>5. \A u, v \in Slots : Exclusive(transfers'[u]) /\ Reporting(transfers'[v]) => u = v
    BY <2>4 DEF Exclusive
  <2> QED
    BY <1>7, <1>8, <1>9, <2>5 DEF FormInv
<1>12. CASE op \in {"withdraw", "deposit"}
  <2>1. ScreenOf(op) \in {"Withdraw", "Deposit"}
    BY <1>12 DEF ScreenOf
  <2>2. \A u \in Slots : ~Exclusive(transfers[u])
    BY <1>10, <2>1 DEF ScreenOf, Exclusive
  <2>3. \A u \in Slots : ~Exclusive(transfers'[u])
    BY <1>2, <1>4, <1>12, <2>2 DEF Exclusive
  <2> QED
    BY <1>7, <1>8, <1>9, <2>3 DEF FormInv
<1> QED
  BY <1>11, <1>12 DEF Ops

-----------------------------------------------------------------------------
(* What most steps leave alone. *)
LEMMA FormsKept ==
  ASSUME TransfersInv, FormInv, UNCHANGED <<transfers, form, screen>>
  PROVE  TransfersInv' /\ FormInv'
  BY DEF TransfersInv, FormInv

LEMMA RerenderStep ==
  ASSUME TransfersInv, FormInv, Rerender, UNCHANGED screen
  PROVE  TransfersInv' /\ FormInv'
<1>1. CASE Unmount
  BY <1>1, UnmountStep
<1>2. CASE UNCHANGED <<form, transfers>>
  BY <1>2, FormsKept
<1> QED
  BY <1>1, <1>2 DEF Rerender

LEMMA DataKept ==
  ASSUME DataInv, UNCHANGED <<world, session, selected, feeCache, fee, nonce>>,
         screen'.token \in Tokens
  PROVE  DataInv'
  BY DEF DataInv

LEMMA WorldShape ==
  ASSUME DataInv
  PROVE  /\ world.accounts \subseteq Accounts /\ world.slots \subseteq Slots
         /\ world.money \in Nat /\ world.fees \subseteq Nat
<1>1. world \in World
  BY WorldsAssumption DEF DataInv
<1>2. MaxFee \in Nat /\ MaxBalance \in Nat
  BY PanelAssumption
<1> QED
  BY <1>1, <1>2 DEF World

LEMMA PlainToken == ASSUME NEW type PROVE Plain(type).token \in Tokens
  BY PanelAssumption DEF Plain

-----------------------------------------------------------------------------
(* Screens *)
LEMMA ShowStep ==
  ASSUME PanelInv, NEW s, s.token \in Tokens, Show(s)
  PROVE  PanelInv'
<1>1. TransfersInv' /\ FormInv'
  BY UnmountStep DEF PanelInv, Show
<1>2. DataInv'
  BY DataKept DEF PanelInv, Show, caches, chain
<1> QED
  BY <1>1, <1>2 DEF PanelInv

LEMMA NavigateStep ==
  ASSUME PanelInv, Navigate
  PROVE  PanelInv'
<1>1. CASE ShowSelectTokenToSend
  BY <1>1, ShowStep, PlainToken DEF ShowSelectTokenToSend
<1>2. CASE ShowReceive
  BY <1>2, ShowStep, PlainToken DEF ShowReceive
<1>3. CASE ShowGet
  BY <1>3, ShowStep, PlainToken DEF ShowGet
<1>4. CASE ShowWithdraw
  BY <1>4, ShowStep, PlainToken DEF ShowWithdraw
<1>5. CASE ShowDeposit
  BY <1>5, ShowStep, PlainToken DEF ShowDeposit
<1>6. CASE ShowBridgeIn
  BY <1>6, ShowStep, PlainToken DEF ShowBridgeIn
<1>7. CASE PressBack
  <2> DEFINE s == CASE screen.type = "Send" -> Plain(screen.prev)
                    [] screen.type = "Deposit" /\ ~world.mainnet -> Plain("Get")
                    [] OTHER -> Plain("Wallet")
  <2>1. s.token \in Tokens
    BY PlainToken
  <2>2. Show(s)
    BY <1>7 DEF PressBack
  <2> HIDE DEF s
  <2> QED
    BY <2>1, <2>2, ShowStep
<1>8. CASE SwitchTab
  <2>1. TransfersInv' /\ FormInv'
    BY <1>8, UnmountStep DEF PanelInv, SwitchTab
  <2>2. DataInv'
    BY <1>8, DataKept DEF PanelInv, DataInv, SwitchTab, caches, chain
  <2> QED
    BY <2>1, <2>2 DEF PanelInv
<1>9. CASE ClosePanel
  <2>1. transfers' = [t \in Slots |-> Left(transfers[t])] /\ form' = NoForm
    BY <1>9 DEF ClosePanel, Left
  <2>2. \A t \in Slots : TransferOK(transfers'[t]) /\ ~Reporting(transfers'[t])
    BY <2>1, LeftOK DEF PanelInv, TransfersInv
  <2>3. transfers' \in [Slots -> Transfer]
    BY <2>1, <2>2 DEF TransferOK
  <2>4. TransfersInv' /\ FormInv'
    BY <2>1, <2>2, <2>3, CutOff
  <2>5. DataInv'
    BY <1>9, DataKept, PlainToken DEF PanelInv, ClosePanel, caches, chain
  <2> QED
    BY <2>4, <2>5 DEF PanelInv
<1>10. CASE \E k \in Tokens : ShowSend(k)
  <2>1. PICK k \in Tokens : ShowSend(k)
    BY <1>10
  <2> DEFINE s == [type |-> "Send", token |-> k, shown |-> balanceCache[session][k],
                   prev |-> screen.type]
  <2>2. s.token \in Tokens /\ Show(s)
    BY <2>1 DEF ShowSend
  <2> HIDE DEF s
  <2> QED
    BY <2>2, ShowStep
<1> QED
  BY <1>1, <1>2, <1>3, <1>4, <1>5, <1>6, <1>7, <1>8, <1>9, <1>10 DEF Navigate

-----------------------------------------------------------------------------
(* Fees and balances *)
LEMMA DataStep ==
  ASSUME PanelInv, Data
  PROVE  PanelInv'
<1>1. ASSUME NEW k \in FeeKinds, LoadFee(k)
      PROVE  PanelInv'
  <2>1. TransfersInv' /\ FormInv'
    BY <1>1, RerenderStep DEF PanelInv, LoadFee
  <2>2. feeCache' \in [FeeKinds -> Nat \cup {Loading}]
    BY <1>1 DEF PanelInv, DataInv, LoadFee
  <2>3. DataInv'
    BY <1>1, <2>2 DEF PanelInv, DataInv, LoadFee, chain
  <2> QED
    BY <2>1, <2>3 DEF PanelInv
<1>2. CASE LoadBalances
  BY <1>2, RerenderStep, DataKept DEF PanelInv, DataInv, LoadBalances, chain
<1>3. CASE getSolanaBalance
  BY <1>3, RerenderStep, DataKept DEF PanelInv, DataInv, getSolanaBalance, chain
<1>4. CASE DataFails
  <2>1. TransfersInv' /\ FormInv'
    BY <1>4, UnmountStep DEF PanelInv, DataFails
  <2>2. feeCache' \in [FeeKinds -> Nat \cup {Loading}]
    BY <1>4 DEF PanelInv, DataInv, DataFails
  <2>3. DataInv'
    BY <1>4, <2>2 DEF PanelInv, DataInv, DataFails, chain
  <2> QED
    BY <2>1, <2>3 DEF PanelInv
<1> QED
  BY <1>1, <1>2, <1>3, <1>4 DEF Data

LEMMA OutsideStep ==
  ASSUME PanelInv, Outside
  PROVE  PanelInv'
<1>1. ASSUME NEW a \in world.accounts, SelectAccount(a)
      PROVE  PanelInv'
  <2>1. a \in Accounts
    BY WorldShape DEF PanelInv
  <2> QED
    BY <1>1, <2>1, FormsKept DEF PanelInv, DataInv, SelectAccount, panel, caches, chain
<1>2. CASE SessionEnds
  <2>1. TransfersInv' /\ FormInv'
    BY <1>2, UnmountStep DEF PanelInv, SessionEnds
  <2>2. DataInv'
    BY <1>2 DEF PanelInv, DataInv, SessionEnds, caches, chain
  <2> QED
    BY <2>1, <2>2 DEF PanelInv
<1>3. CASE SessionStarts
  BY <1>3, FormsKept DEF PanelInv, DataInv, SessionStarts, caches, chain
<1>4. ASSUME NEW k \in FeeKinds, FeeChanges(k)
      PROVE  PanelInv'
  <2>1. PICK f \in world.fees : fee' = [fee EXCEPT ![k] = f]
    BY <1>4 DEF FeeChanges
  <2>2. f \in Nat
    BY WorldShape DEF PanelInv
  <2>3. fee' \in [FeeKinds -> Nat]
    BY <2>1, <2>2 DEF PanelInv, DataInv
  <2> QED
    BY <1>4, <2>3, FormsKept DEF PanelInv, DataInv, FeeChanges, panel, caches
<1> QED
  BY <1>1, <1>2, <1>3, <1>4 DEF Outside

-----------------------------------------------------------------------------
(* Forms *)
LEMMA EnterStep ==
  ASSUME PanelInv, NEW a \in 1 .. world.money, Enter(a)
  PROVE  PanelInv'
<1>1. a \in Nat
  BY WorldShape DEF PanelInv
<1>2. form' \in [amount : Nat, submitting : BOOLEAN] /\ form'.submitting = form.submitting
  BY <1>1 DEF PanelInv, FormInv, Enter
<1>3. TransfersInv'
  BY DEF PanelInv, TransfersInv, Enter
<1>4. FormInv'
  BY <1>2 DEF PanelInv, FormInv, Enter
<1>5. DataInv'
  BY DataKept DEF PanelInv, DataInv, Enter, caches, chain
<1> QED
  BY <1>3, <1>4, <1>5 DEF PanelInv

LEMMA FeeShownNat ==
  ASSUME DataInv
  PROVE  FeeShown \in Nat
<1>1. SendForm => feeCache["transfer"] \in Nat
  BY DEF DataInv, SendForm, Loaded, FeeKinds
<1>2. WithdrawForm => feeCache["bridge"] \in Nat
  BY DEF DataInv, WithdrawForm, Loaded, FeeKinds
<1> QED
  BY <1>1, <1>2 DEF FeeShown

LEMMA SubmitStep ==
  ASSUME PanelInv, NEW t \in Slots, Submit(t)
  PROVE  PanelInv'
<1>1. form.amount \in Nat /\ FeeShown \in Nat /\ screen.token \in Tokens /\ "usdc" \in Tokens
  BY FeeShownNat, PanelAssumption DEF PanelInv, FormInv, DataInv
<1>2. ASSUME NEW op, NEW token, NEW amount, NEW shownFee, Start(t, op, token, amount, shownFee)
      PROVE  DataInv'
  BY <1>2, DataKept DEF PanelInv, DataInv, Start, caches, chain
<1>3. session # None => session \in Accounts
  BY DEF PanelInv, DataInv
<1>4. CASE SubmitSend(t)
  <2> DEFINE op == IF screen.token = "native" THEN "native" ELSE "send"
  <2>1. op \in Ops /\ ScreenOf(op) = "Send"
    BY DEF Ops, ScreenOf
  <2>2. /\ session # None /\ screen.type = "Send" /\ ~form.submitting
        /\ Start(t, op, screen.token, form.amount, FeeShown)
    BY <1>4 DEF SubmitSend, SendForm, Mounted
  <2> HIDE DEF op
  <2>3. TransfersInv' /\ FormInv'
    BY <1>1, <1>3, <2>1, <2>2, StartStep DEF PanelInv
  <2> QED
    BY <1>2, <2>2, <2>3 DEF PanelInv
<1>5. CASE SubmitWithdraw(t)
  <2>1. /\ session # None /\ screen.type = "Withdraw"
        /\ Start(t, "withdraw", "usdc", form.amount, FeeShown)
    BY <1>5 DEF SubmitWithdraw, WithdrawForm, Mounted
  <2>2. "withdraw" \in Ops /\ ScreenOf("withdraw") = "Withdraw"
    BY DEF Ops, ScreenOf
  <2>3. TransfersInv' /\ FormInv'
    BY <1>1, <1>3, <2>1, <2>2, StartStep DEF PanelInv
  <2> QED
    BY <1>2, <2>1, <2>3 DEF PanelInv
<1>6. CASE SubmitDeposit(t)
  <2>1. /\ session # None /\ screen.type = "Deposit"
        /\ Start(t, "deposit", "usdc", form.amount, 0)
    BY <1>6 DEF SubmitDeposit, DepositForm, Mounted
  <2>2. "deposit" \in Ops /\ ScreenOf("deposit") = "Deposit" /\ 0 \in Nat
    BY DEF Ops, ScreenOf
  <2>3. TransfersInv' /\ FormInv'
    BY <1>1, <1>3, <2>1, <2>2, StartStep DEF PanelInv
  <2> QED
    BY <1>2, <2>1, <2>3 DEF PanelInv
<1>7. CASE PressUnwrap(t)
  <2>1. /\ session # None /\ screen.type = "Wallet" /\ ~form.submitting
        /\ "wrapped" \in Tokens /\ Start(t, "unwrap", "wrapped", 0, 0)
    BY <1>7 DEF PressUnwrap, UnwrapRow, Mounted
  <2>2. "unwrap" \in Ops /\ ScreenOf("unwrap") = "Wallet" /\ 0 \in Nat
    BY DEF Ops, ScreenOf
  <2>3. TransfersInv' /\ FormInv'
    BY <1>3, <2>1, <2>2, StartStep DEF PanelInv
  <2> QED
    BY <1>2, <2>1, <2>3 DEF PanelInv
<1> QED
  BY <1>4, <1>5, <1>6, <1>7 DEF Submit

-----------------------------------------------------------------------------
(* The SDK's calls *)
LEMMA CallStep ==
  ASSUME PanelInv, NEW t \in Slots, NEW n,
         transfers' = [transfers EXCEPT ![t] = n],
         TransferOK(n), SameReport(n, transfers[t]), transfers[t].st # "idle",
         UNCHANGED <<world, session, selected, screen, form, feeCache, fee, nonce>>
  PROVE  PanelInv'
<1>1. TransfersInv' /\ FormInv'
  BY OneTransfer DEF PanelInv
<1>2. DataInv'
  BY DataKept DEF PanelInv, DataInv
<1> QED
  BY <1>1, <1>2 DEF PanelInv

LEMMA AskStep ==
  ASSUME PanelInv, NEW t \in Slots, NEW op \in Ops, NEW kind \in FeeKinds,
         AskToSign(t, op, [args |-> TransferArgs(t),
                           nonce |-> getNonce(TransferArgs(t).acct, kind)])
  PROVE  PanelInv'
<1> DEFINE r == transfers[t]
           no == getNonce(r.args.acct, kind)
<1>1. TransferOK(r) /\ r.st # "idle" /\ transfers \in [Slots -> Transfer]
  BY DEF PanelInv, TransfersInv, AskToSign
<1>2. r.args.acct \in Accounts
  BY <1>1 DEF TransferOK, Order
<1>3. no \in Nat
  BY <1>2 DEF getNonce, PanelInv, DataInv
<1>4. transfers' = [transfers EXCEPT ![t] = Asked(r, r.args, no)]
  BY <1>1 DEF AskToSign, TransferArgs, Asked
<1>5. UNCHANGED <<world, session, selected, screen, form, feeCache, fee, nonce>>
  BY DEF AskToSign, caches, chain
<1> HIDE DEF no
<1>6. TransferOK(Asked(r, r.args, no)) /\ SameReport(Asked(r, r.args, no), r)
  BY <1>1, <1>3, AskedOK
<1> QED
  BY <1>1, <1>4, <1>5, <1>6, CallStep

LEMMA AdvanceStep ==
  ASSUME PanelInv, NEW t \in Slots, transfers[t].st # "idle",
         NEW st \in {"context", "sign", "post", "answer"},
         transfers' = [transfers EXCEPT ![t].st = st],
         UNCHANGED <<world, session, selected, screen, form, feeCache, fee, nonce>>
  PROVE  PanelInv'
<1>1. TransferOK(transfers[t]) /\ transfers \in [Slots -> Transfer]
  BY DEF PanelInv, TransfersInv
<1>2. transfers' = [transfers EXCEPT ![t] = Advanced(transfers[t], st)]
  BY DEF Advanced
<1> QED
  BY <1>1, <1>2, AdvancedOK, CallStep

LEMMA SignStep ==
  ASSUME PanelInv, NEW t \in Slots, transfers[t].st # "idle", NEW by \in Accounts,
         transfers' = [transfers EXCEPT ![t].st = "post", ![t].by = by],
         UNCHANGED <<world, session, selected, screen, form, feeCache, fee, nonce>>
  PROVE  PanelInv'
<1>1. TransferOK(transfers[t]) /\ transfers \in [Slots -> Transfer]
  BY DEF PanelInv, TransfersInv
<1>2. transfers' = [transfers EXCEPT ![t] = Signed(transfers[t], by)]
  BY <1>1 DEF Signed
<1> QED
  BY <1>1, <1>2, SignedOK, CallStep

LEMMA ThrowStep ==
  ASSUME PanelInv, NEW t \in Slots, transfers[t].st # "idle", Throws(t)
  PROVE  PanelInv'
  BY AdvanceStep DEF Throws, caches, chain

LEMMA SDKStep ==
  ASSUME PanelInv, NEW t \in Slots,
         \/ sendTransfer(t) \/ sendNativeTransfer(t) \/ bridgeOut(t) \/ bridgeIn(t)
         \/ BuildUnwrap(t) \/ WalletSigns(t) \/ RequestThrows(t) \/ WalletRefuses(t)
         \/ buildWormholeTransferThrows(t) \/ ExecutionFails(t)
  PROVE  PanelInv'
<1>0. {"send", "native", "withdraw"} \subseteq Ops /\ FeeKinds = {"transfer", "bridge"}
  BY DEF Ops, FeeKinds
<1>1. CASE sendTransfer(t)
  BY <1>0, <1>1, AskStep DEF sendTransfer, buildTransferIntentInstruction
<1>2. CASE sendNativeTransfer(t)
  BY <1>0, <1>2, AskStep DEF sendNativeTransfer, buildNativeTransferIntentInstruction
<1>3. CASE bridgeOut(t)
  BY <1>0, <1>3, AskStep DEF bridgeOut, buildBridgeOutIntent
<1>4. CASE bridgeIn(t)
  BY <1>4, AdvanceStep DEF bridgeIn, caches, chain
<1>5. CASE BuildUnwrap(t)
  <2>1. transfers[t].args.acct \in Accounts
    BY <1>5 DEF BuildUnwrap, PanelInv, TransfersInv, TransferOK, Order
  <2> QED
    BY <1>5, <2>1, SignStep DEF BuildUnwrap, caches, chain
<1>6. CASE WalletSigns(t)
  <2>1. selected \in Accounts
    BY DEF PanelInv, DataInv
  <2> QED
    BY <1>6, <2>1, SignStep DEF WalletSigns, caches, chain
<1>7. CASE RequestThrows(t)
  BY <1>7, ThrowStep DEF RequestThrows
<1>8. CASE WalletRefuses(t)
  BY <1>8, ThrowStep DEF WalletRefuses
<1>9. CASE buildWormholeTransferThrows(t)
  BY <1>9, ThrowStep DEF buildWormholeTransferThrows
<1>10. CASE ExecutionFails(t)
  BY <1>10, AdvanceStep DEF ExecutionFails, caches, chain
<1> QED
  BY <1>1, <1>2, <1>3, <1>4, <1>5, <1>6, <1>7, <1>8, <1>9, <1>10

-----------------------------------------------------------------------------
(* A transfer is executed: it takes what was confirmed, and a fee that the *)
(* confirmed one covers.                                                   *)
LEMMA ExecuteStep ==
  ASSUME PanelInv, NEW t \in Slots, transfers[t].st = "post", NEW paid \in Order,
         paid.acct = transfers[t].args.acct, paid.token = transfers[t].args.token,
         paid.amount = transfers[t].args.amount, paid.fee <= transfers[t].args.fee,
         transfers' = [transfers EXCEPT ![t].st = "answer", ![t].ok = TRUE, ![t].paid = paid],
         UNCHANGED <<world, session, selected, screen, form, feeCache, fee>>,
         nonce' \in [Accounts -> [FeeKinds -> Nat]]
  PROVE  PanelInv'
<1> DEFINE r == transfers[t]
           n == Executed(r, paid)
<1>1. TransferOK(r) /\ transfers \in [Slots -> Transfer]
  BY DEF PanelInv, TransfersInv
<1>2. transfers' = [transfers EXCEPT ![t] = n]
  BY <1>1 DEF Executed
<1>3. TransferOK(n) /\ SameReport(n, r)
  BY <1>1, ExecutedOK
<1> HIDE DEF n
<1>4. TransfersInv' /\ FormInv'
  BY <1>2, <1>3, OneTransfer DEF PanelInv
<1>5. DataInv'
  BY DEF PanelInv, DataInv
<1> QED
  BY <1>4, <1>5 DEF PanelInv

LEMMA ChainStep ==
  ASSUME PanelInv, NEW t \in Slots,
         ExecuteIntent(t) \/ ExecuteBridgeIn(t) \/ ExecuteUnwrap(t)
  PROVE  PanelInv'
<1> DEFINE r == transfers[t]
<1>1. r.st = "post" /\ TransferOK(r)
  BY DEF ExecuteIntent, ExecuteBridgeIn, ExecuteUnwrap, PanelInv, TransfersInv
<1>2. r.args \in Order
  BY <1>1 DEF TransferOK
<1>3. CASE ExecuteIntent(t)
  <2> DEFINE kind == NonceKind(r.op)
             a == r.args.acct
             paid == [r.args EXCEPT !.fee = Charged(r)]
  <2>1. kind \in FeeKinds /\ a \in Accounts
    BY <1>2 DEF NonceKind, FeeKinds, Order
  <2>2. Charged(r) \in Nat
    BY <2>1 DEF Charged, PanelInv, DataInv
  <2>3. paid \in Order /\ paid.acct = r.args.acct /\ paid.token = r.args.token
        /\ paid.amount = r.args.amount /\ paid.fee = Charged(r)
    BY <1>2, <2>2 DEF Order
  <2>4. Charged(r) <= r.args.fee /\ nonce' = [nonce EXCEPT ![a][kind] = @ + 1]
    BY <1>3 DEF ExecuteIntent
  <2>5. nonce' \in [Accounts -> [FeeKinds -> Nat]]
    BY <2>1, <2>4 DEF PanelInv, DataInv
  <2>6. /\ transfers' = [transfers EXCEPT ![t].st = "answer", ![t].ok = TRUE, ![t].paid = paid]
        /\ UNCHANGED <<world, session, selected, screen, form, feeCache, fee>>
    BY <1>3 DEF ExecuteIntent, caches
  <2>7. paid.fee <= r.args.fee
    BY <2>3, <2>4
  <2> HIDE DEF paid
  <2> QED
    BY <1>1, <2>3, <2>5, <2>6, <2>7, ExecuteStep
<1>4. CASE ExecuteBridgeIn(t) \/ ExecuteUnwrap(t)
  <2>1. r.args.fee <= r.args.fee
    BY <1>2 DEF Order
  <2>2. /\ transfers' = [transfers EXCEPT ![t].st = "answer", ![t].ok = TRUE,
                                          ![t].paid = r.args]
        /\ UNCHANGED <<world, session, selected, screen, form, feeCache, fee, nonce>>
    BY <1>4 DEF ExecuteBridgeIn, ExecuteUnwrap, caches
  <2>3. nonce' \in [Accounts -> [FeeKinds -> Nat]]
    BY <2>2 DEF PanelInv, DataInv
  <2> QED
    BY <1>1, <1>2, <2>1, <2>2, <2>3, ExecuteStep
<1> QED
  BY <1>3, <1>4

-----------------------------------------------------------------------------
(* The promise settles *)
LEMMA CompleteStep ==
  ASSUME TransfersInv, FormInv, NEW t \in Slots, transfers[t].st = "answer",
         transfers[t].op \in {"native", "send", "withdraw", "deposit"}, OnSendComplete(t)
  PROVE  TransfersInv' /\ FormInv'
<1> DEFINE leaves == transfers[t].here /\ screen.type # "Wallet"
<1>1. CASE leaves \/ ~FormShown'
  <2>1. /\ transfers' = [u \in Slots |-> IF u = t THEN Idle ELSE Silent(transfers[u])]
        /\ form' = NoForm
    BY <1>1 DEF OnSendComplete, Silent
  <2>2. \A u \in Slots : TransferOK(transfers'[u]) /\ ~Reporting(transfers'[u])
    BY <2>1, IdleOK, SilentOK DEF TransfersInv
  <2>3. transfers' \in [Slots -> Transfer]
    BY <2>1, <2>2 DEF TransferOK
  <2> QED
    BY <2>1, <2>2, <2>3, CutOff
<1>2. CASE ~(leaves \/ ~FormShown')
  <2>1. transfers' = [transfers EXCEPT ![t] = Idle] /\ UNCHANGED <<screen, form>>
    BY <1>2 DEF OnSendComplete
  <2>2. ReportOK(transfers[t], screen.type)
    BY DEF TransfersInv
  <2>3. ~Reporting(transfers[t])
    BY <1>2, <2>2 DEF ReportOK, ScreenOf
  <2> QED
    BY <2>1, <2>3, OverStep
<1> QED
  BY <1>1, <1>2

LEMMA SettleStep ==
  ASSUME PanelInv, NEW t \in Slots,
         \/ SendSucceeds(t) \/ WithdrawSucceeds(t) \/ DepositSucceeds(t)
         \/ UnwrapSucceeds(t) \/ TransferFails(t)
  PROVE  PanelInv'
<1>1. CASE SendSucceeds(t) \/ WithdrawSucceeds(t) \/ DepositSucceeds(t)
  <2>1. /\ transfers[t].st = "answer" /\ OnSendComplete(t)
        /\ transfers[t].op \in {"native", "send", "withdraw", "deposit"}
        /\ UNCHANGED <<world, session, selected, feeCache, fee, nonce>>
    BY <1>1 DEF SendSucceeds, WithdrawSucceeds, DepositSucceeds, Succeeded, caches, chain
  <2>2. TransfersInv' /\ FormInv'
    BY <2>1, CompleteStep DEF PanelInv
  <2>3. screen'.token \in Tokens
    BY <2>1, PlainToken DEF OnSendComplete, PanelInv, DataInv
  <2> QED
    BY <2>1, <2>2, <2>3, DataKept DEF PanelInv
<1>2. CASE UnwrapSucceeds(t) \/ TransferFails(t)
  <2>1. /\ transfers[t].st = "answer" /\ form' = FormAfter(t)
        /\ transfers' = [transfers EXCEPT ![t] = Idle]
        /\ UNCHANGED <<world, session, selected, screen, feeCache, fee, nonce>>
    BY <1>2 DEF UnwrapSucceeds, TransferFails, Succeeded, caches, chain
  <2>2. IF Reporting(transfers[t]) THEN form' = [form EXCEPT !.submitting = FALSE]
                                   ELSE form' = form
    BY <2>1 DEF FormAfter, Reporting
  <2>3. TransfersInv' /\ FormInv'
    BY <2>1, <2>2, OverStep DEF PanelInv
  <2> QED
    BY <2>1, <2>3, DataKept DEF PanelInv, DataInv
<1> QED
  BY <1>1, <1>2

-----------------------------------------------------------------------------
LEMMA InitPanel == Init => PanelInv
<1> SUFFICES ASSUME Init PROVE PanelInv
  OBVIOUS
<1>1. \A t \in Slots : transfers[t] = Idle
  BY DEF Init
<1>2. TransfersInv
  <2>1. transfers \in [Slots -> Transfer]
    BY IdleOK DEF Init, TransferOK
  <2> QED
    BY <1>1, <2>1, IdleOK DEF TransfersInv, ReportOK
<1>3. FormInv
  <2>1. form \in [amount : Nat, submitting : BOOLEAN] /\ ~form.submitting
    BY DEF Init, NoForm
  <2> QED
    BY <1>1, <2>1, IdleOK DEF FormInv, Exclusive
<1>4. DataInv
  <2>1. world \in World /\ world \in Worlds
    BY WorldsAssumption DEF Init
  <2>2. world.accounts \subseteq Accounts /\ world.fees \subseteq Nat
    BY <2>1, PanelAssumption DEF World
  <2>3. session \in Accounts /\ selected \in Accounts
    BY <2>2 DEF Init
  <2>4. feeCache \in [FeeKinds -> Nat \cup {Loading}]
        /\ nonce \in [Accounts -> [FeeKinds -> Nat]]
    BY DEF Init
  <2>5. fee \in [FeeKinds -> Nat]
    BY <2>2 DEF Init
  <2>6. screen.token \in Tokens
    BY PlainToken DEF Init
  <2> QED
    BY <2>1, <2>3, <2>4, <2>5, <2>6 DEF DataInv
<1> QED
  BY <1>2, <1>3, <1>4 DEF PanelInv

LEMMA StepPanel == PanelInv /\ [Next]_vars => PanelInv'
<1> SUFFICES ASSUME PanelInv, [Next]_vars PROVE PanelInv'
  OBVIOUS
<1>1. CASE Navigate
  BY <1>1, NavigateStep
<1>2. CASE Data
  BY <1>2, DataStep
<1>3. CASE Outside
  BY <1>3, OutsideStep
<1>4. ASSUME NEW a \in 1 .. world.money,
             EnterSendAmount(a) \/ EnterWithdrawAmount(a) \/ EnterDepositAmount(a)
      PROVE  PanelInv'
  <2>1. Enter(a)
    BY <1>4 DEF EnterSendAmount, EnterWithdrawAmount, EnterDepositAmount
  <2> QED
    BY <2>1, EnterStep
<1>5. ASSUME NEW t \in world.slots, Submit(t) \/ Proceed(t)
      PROVE  PanelInv'
  <2>1. t \in Slots
    BY WorldShape DEF PanelInv
  <2>2. CASE Submit(t)
    BY <2>1, <2>2, SubmitStep
  <2>3. CASE Proceed(t)
    BY <2>1, <2>3, SDKStep, ChainStep, SettleStep DEF Proceed
  <2> QED
    BY <1>5, <2>2, <2>3
<1>6. CASE UNCHANGED vars
  BY <1>6, FormsKept DEF PanelInv, DataInv, vars, caches, chain
<1> QED
  BY <1>1, <1>2, <1>3, <1>4, <1>5, <1>6 DEF Next

(* The forms, the transfers they started and the panel's data stay          *)
(* consistent whatever the user, the network and the wallet do.             *)
THEOREM PanelInvariance == Spec => []PanelInv
  BY InitPanel, StepPanel, PTL DEF Spec

(* A transfer takes exactly what its form showed when the button was       *)
(* pressed, and no more than the fee shown.                                *)
THEOREM TransfersAsShown == Spec => []TransferAsShown
<1>1. PanelInv => TransferAsShown
  <2> SUFFICES ASSUME PanelInv, NEW t \in Slots, transfers[t].paid # None
               PROVE  /\ [transfers[t].paid EXCEPT !.fee = 0] = [transfers[t].shown EXCEPT !.fee = 0]
                      /\ transfers[t].paid.fee <= transfers[t].shown.fee
    BY DEF TransferAsShown
  <2> DEFINE p == transfers[t].paid
             s == transfers[t].shown
  <2>1. /\ p \in Order /\ s \in Order /\ p.acct = s.acct /\ p.token = s.token
        /\ p.amount = s.amount /\ p.fee <= s.fee
    BY DEF PanelInv, TransfersInv, TransferOK
  <2> HIDE DEF p, s
  <2>2. [p EXCEPT !.fee = 0] = [s EXCEPT !.fee = 0]
    BY <2>1 DEF Order
  <2> QED
    BY <2>1, <2>2 DEF p, s
<1> QED
  BY <1>1, PanelInvariance, PTL

(* The send form and the unwrap button have at most one transfer under way. *)
THEOREM OneUnderWay == Spec => []OneAtATime
<1>1. PanelInv => OneAtATime
  BY DEF PanelInv, FormInv, Exclusive, Reporting, OneAtATime, Empty
<1> QED
  BY <1>1, PanelInvariance, PTL

(* A submitting form has a transfer that will report to it. *)
THEOREM FormsAreAnswered == Spec => []SubmittingIsAnswered
<1>1. PanelInv => SubmittingIsAnswered
  BY DEF PanelInv, FormInv, Reporting, SubmittingIsAnswered, Empty
<1> QED
  BY <1>1, PanelInvariance, PTL
=============================================================================
