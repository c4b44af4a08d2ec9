------------------------ MODULE SessionProviderProofs ------------------------
(***************************************************************************)
(* Theorems about SessionProvider, for any wallets, accounts, session keys, *)
(* applications and number of promises in flight.                          *)
(*                                                                         *)
(* The four invariants rest on one inductive invariant, PageInv, about     *)
(* what every callback has captured: a key captured by the state or by a   *)
(* promise is a session that was shown, of the account captured with it;   *)
(* the key of a transaction whose answer is out is known to nobody else.   *)
(***************************************************************************)
EXTENDS SessionProvider, TLAPS

(* k is a session of account a that the page has shown. *)
Known(ch, k, a) ==
  k \in Keys /\ ch[k].status # "none" /\ ch[k].acct = a /\ ch[k].seen = "shown"

(* k is a session of account a whose answer is still to come. *)
Fresh(ch, k, a) ==
  k \in Keys /\ ch[k].status # "none" /\ ch[k].acct = a /\ ch[k].seen = "no"

(* What the state u of the page has captured, over the session accounts ch. *)
UiOK(u, ls, ch) ==
  /\ u \in SessionState
  /\ u.type = "Initializing" => ls = [w \in Wallets |-> 0]
  /\ u.type \in {"RequestingLimits", "SettingLimits"} => u.w # None /\ u.acct # None
  /\ u.type \in {"WalletConnecting", "SettingLimits"} => u.flow # None
  /\ isEstablished(u) => u.w # None /\ u.acct # None /\ Known(ch, u.key, u.acct)

Working == {"sign", "sent", "landed"}

(* What a promise r in flight has captured. *)
TaskOK(r, ch, pg) ==
  /\ r \in Task
  /\ r.kind \notin {"idle", "init"} => r.w # None
  /\ r.kind \notin {"idle", "init", "connect", "autoConnect"} => r.acct # None
  /\ r.stage \in {"connecting", "disconnect"} => r.kind \in {"connect", "autoConnect"}
  /\ r.stage \in Working <=> r.kind \in {"establish", "update"}
  /\ r.stage = "reestablish" => r.key # None
  /\ r.kind = "revoke" => r.key # None
  /\ r.kind \in {"update", "send"} => r.key # None
  /\ r.kind = "update" => ~r.aborted
  /\ "revoke" \in r.left => r.key # None
  /\ r.key # None /\ r.kind # "revoke" => Known(ch, r.key, r.acct)
  /\ r.stage = "landed" => Fresh(ch, r.new, r.acct)
  /\ ~r.limited => pg.enableUnlimited

TasksInv ==
  /\ tasks \in [Tasks -> Task]
  /\ \A t \in Tasks : TaskOK(tasks[t], chain, page)
  /\ \A t, u \in Tasks :
       tasks[t].stage = "landed" /\ tasks[u].stage = "landed" /\ t # u =>
         tasks[t].new # tasks[u].new

StoredInv ==
  /\ stored \in [Accounts -> Keys \cup {None}]
  /\ \A a \in Accounts : stored[a] # None => Known(chain, stored[a], a)

ChainInv ==
  /\ chain \in [Keys -> SessionAccount]
  /\ \A k \in Keys : ~chain[k].limited => page.enableUnlimited

SurroundInv ==
  /\ page \in Pages
  /\ listeners \in [Wallets -> 0 .. page.listeners]
  /\ account \in [Wallets -> Accounts \cup {None}]
  /\ walletName \in Wallets \cup {None}
  /\ contexts \in [created : 0 .. 2, ready : BOOLEAN]
  /\ disclaimer \in BOOLEAN

PageInv ==
  /\ UiOK(ui, listeners, chain)
  /\ TasksInv
  /\ StoredInv
  /\ ChainInv
  /\ SurroundInv

-----------------------------------------------------------------------------
(* The session accounts of ch2 keep the sessions that ch has shown. *)
Keeps(ch, ch2) ==
  \A k \in Keys, a \in Accounts \cup {None} : Known(ch, k, a) => Known(ch2, k, a)

(* What a promise has captured stays good when shown sessions are kept.    *)
LEMMA TaskFrame ==
  ASSUME NEW r, NEW ch, NEW ch2, NEW pg,
         TaskOK(r, ch, pg), Keeps(ch, ch2),
         r.stage = "landed" => Fresh(ch2, r.new, r.acct)
  PROVE  TaskOK(r, ch2, pg)
<1>1. r.acct \in Accounts \cup {None} /\ r.key \in Keys \cup {None}
  BY DEF TaskOK, Task
<1>2. r.key # None /\ r.kind # "revoke" => Known(ch2, r.key, r.acct)
  BY <1>1, NoneAssumption DEF TaskOK, Keeps, Known
<1> QED
  BY <1>2 DEF TaskOK

(* So does what the page shows. *)
LEMMA UiFrame ==
  ASSUME NEW u, NEW ls, NEW ch, NEW ch2, UiOK(u, ls, ch), Keeps(ch, ch2)
  PROVE  UiOK(u, ls, ch2)
<1>1. u.acct \in Accounts \cup {None} /\ u.key \in Keys \cup {None}
  BY DEF UiOK, SessionState
<1>2. isEstablished(u) => Known(ch2, u.key, u.acct)
  BY <1>1, NoneAssumption DEF UiOK, Keeps, Known
<1> QED
  BY <1>2 DEF UiOK

(* The records that promises and states start with. *)
LEMMA IdleOK == \A ch, pg : TaskOK(Idle, ch, pg)
BY DEF TaskOK, Task, Idle, Working

LEMMA PlainOK ==
  ASSUME NEW type \in {"SelectingWallet", "CheckingStoredSession", "NotEstablished"},
         NEW ls, NEW ch
  PROVE  UiOK(Plain(type), ls, ch)
BY DEF UiOK, Plain, Show, SessionState, StateType, EstablishedTypes, CancelableTypes,
       isEstablished

LEMMA ShowType ==
  ASSUME NEW type \in StateType, NEW w \in Wallets \cup {None},
         NEW a \in Accounts \cup {None}, NEW k \in Keys \cup {None},
         NEW f \in Tasks \cup {None}
  PROVE  /\ Show(type, w, a, k, f) \in SessionState
         /\ Show(type, w, a, k, f).type = type
         /\ Show(type, w, a, k, f).w = w
         /\ Show(type, w, a, k, f).acct = a
         /\ Show(type, w, a, k, f).key = k
         /\ Show(type, w, a, k, f).flow = f
BY DEF Show, SessionState

LEMMA EstablishedOK ==
  ASSUME NEW type \in EstablishedTypes, NEW w \in Wallets, NEW a \in Accounts,
         NEW k \in Keys, NEW ls, NEW ch, Known(ch, k, a)
  PROVE  UiOK(Show(type, w, a, k, None), ls, ch)
<1> DEFINE u == Show(type, w, a, k, None)
<1>1. type \in StateType /\ type \notin {"Initializing", "RequestingLimits", "SettingLimits", "WalletConnecting"}
  BY DEF StateType, EstablishedTypes
<1>2. u \in SessionState /\ u.type = type /\ u.w = w /\ u.acct = a /\ u.key = k
  BY <1>1, ShowType
<1>3. w # None /\ a # None
  BY NoneAssumption
<1> HIDE DEF u
<1>4. UiOK(u, ls, ch)
  BY <1>1, <1>2, <1>3 DEF UiOK
<1> QED
  BY <1>4 DEF u

(* A promise that starts, and what its record holds. *)
LEMMA StartOK ==
  ASSUME NEW kind, NEW w, NEW a, NEW k, NEW stage, NEW ch, NEW pg,
         Start(kind, w, a, k, stage) \in Task,
         kind \notin {"idle", "init"} => w # None,
         kind \notin {"idle", "init", "connect", "autoConnect"} => a # None,
         stage \in {"none", "wait", "connecting", "read", "sign"},
         stage = "connecting" => kind \in {"connect", "autoConnect"},
         stage = "sign" <=> kind \in {"establish", "update"},
         kind \in {"update", "send", "revoke"} => k # None,
         k # None /\ kind # "revoke" => Known(ch, k, a)
  PROVE  TaskOK(Start(kind, w, a, k, stage), ch, pg)
BY DEF TaskOK, Start, Idle, Working

LEMMA StartType ==
  ASSUME NEW kind \in {"idle", "init", "connect", "autoConnect", "check", "establish",
           "update", "send", "revoke", "cleanup"},
         NEW w \in Wallets \cup {None}, NEW a \in Accounts \cup {None},
         NEW k \in Keys \cup {None},
         NEW stage \in {"none", "wait", "connecting", "read", "sign"}
  PROVE  /\ Start(kind, w, a, k, stage) \in Task
         /\ Start(kind, w, a, k, stage).stage = stage
         /\ Start(kind, w, a, k, stage).left = {}
<1>1. Idle \in Task
  BY DEF Idle, Task
<1> DEFINE r1 == [Idle EXCEPT !.kind = kind, !.w = w]
           r2 == [r1 EXCEPT !.acct = a, !.key = k]
<1>2. r1 \in Task
  BY <1>1 DEF Task
<1>3. Start(kind, w, a, k, stage) = [r2 EXCEPT !.stage = stage]
  BY DEF Start
<1> HIDE DEF r1
<1>4. r2 \in Task
  BY <1>2 DEF Task
<1> HIDE DEF r2
<1>5. Start(kind, w, a, k, stage) \in Task
  BY <1>3, <1>4 DEF Task
<1>6. Start(kind, w, a, k, stage).stage = stage /\ Start(kind, w, a, k, stage).left = {}
  BY DEF Start, Idle
<1> QED
  BY <1>5, <1>6

-----------------------------------------------------------------------------
(* Promises may change while the session accounts do not: each new record  *)
(* has to be good, and none may come to await an answer in this way.       *)
LEMMA TasksStep ==
  ASSUME TasksInv, UNCHANGED <<chain, page>>,
         tasks' = [u \in Tasks |-> tasks'[u]],
         \A u \in Tasks :
           /\ TaskOK(tasks'[u], chain, page)
           /\ tasks'[u].stage = "landed" =>
                tasks[u].stage = "landed" /\ tasks'[u].new = tasks[u].new
  PROVE  TasksInv'
<1>1. tasks' \in [Tasks -> Task]
  BY DEF TaskOK
<1>2. \A t \in Tasks : TaskOK(tasks'[t], chain', page')
  OBVIOUS
<1>3. \A t, u \in Tasks :
        tasks'[t].stage = "landed" /\ tasks'[u].stage = "landed" /\ t # u =>
          tasks'[t].new # tasks'[u].new
  BY DEF TasksInv
<1> QED
  BY <1>1, <1>2, <1>3 DEF TasksInv

(* The same for one promise. *)
LEMMA OneTask ==
  ASSUME PageInv, NEW t \in Tasks, NEW r, TaskOK(r, chain, page),
         r.stage = "landed" => tasks[t].stage = "landed" /\ r.new = tasks[t].new,
         tasks' = [tasks EXCEPT ![t] = r],
         UNCHANGED <<stored, chain, page>>,
         UiOK(ui', listeners', chain), SurroundInv'
  PROVE  PageInv'
<1>1. tasks \in [Tasks -> Task] /\ \A u \in Tasks : TaskOK(tasks[u], chain, page)
  BY DEF PageInv, TasksInv
<1>2. tasks' = [u \in Tasks |-> tasks'[u]]
  BY <1>1
<1>3. \A u \in Tasks : tasks'[u] = IF u = t THEN r ELSE tasks[u]
  BY <1>1
<1>4. TasksInv'
  BY <1>1, <1>2, <1>3, TasksStep DEF PageInv
<1>5. StoredInv' /\ ChainInv'
  BY DEF PageInv, StoredInv, ChainInv
<1> QED
  BY <1>4, <1>5 DEF PageInv

LEMMA NoTask ==
  ASSUME PageInv, UNCHANGED <<tasks, stored, chain, page>>,
         UiOK(ui', listeners', chain), SurroundInv'
  PROVE  PageInv'
BY DEF PageInv, TasksInv, StoredInv, ChainInv

LEMMA SameSurroundings ==
  ASSUME SurroundInv, UNCHANGED <<page, listeners, account, walletName, disclaimer>>,
         contexts' \in [created : 0 .. 2, ready : BOOLEAN]
  PROVE  SurroundInv'
BY DEF SurroundInv

LEMMA ContextType ==
  ASSUME SurroundInv, GetSessionContext
  PROVE  contexts' \in [created : 0 .. 2, ready : BOOLEAN]
BY DEF SurroundInv, GetSessionContext

LEMMA PageType ==
  ASSUME SurroundInv
  PROVE  page \in Page
BY PagesAssumption DEF SurroundInv

(* Telling the page that the wallet disconnected. *)
LEMMA DisconnectStep ==
  ASSUME PageInv, NEW w \in Wallets, EmitDisconnect(w),
         UNCHANGED <<page, walletName, contexts, disclaimer>>
  PROVE  UiOK(ui', listeners', chain) /\ SurroundInv'
<1>1. page.listeners \in Nat
  BY PageType DEF PageInv, Page
<1>2. SurroundInv'
  BY <1>1 DEF PageInv, SurroundInv, EmitDisconnect
<1>3. CASE listeners[w] > 0
  BY <1>2, <1>3, PlainOK DEF EmitDisconnect
<1>4. CASE ~(listeners[w] > 0)
  <2>1. listeners' = listeners /\ ui' = ui
    BY <1>1, <1>4 DEF PageInv, SurroundInv, EmitDisconnect
  <2> QED
    BY <1>2, <2>1 DEF PageInv
<1> QED
  BY <1>2, <1>3, <1>4

(* Telling it that the wallet connected, when ts is what is in flight.     *)
LEMMA ConnectStep ==
  ASSUME PageInv, NEW w \in Wallets, NEW a \in page.accounts, NEW ts,
         ts \in [Tasks -> Task],
         \A u \in Tasks : TaskOK(ts[u], chain, page) /\
           (ts[u].stage = "landed" => tasks[u].stage = "landed" /\ ts[u].new = tasks[u].new),
         EmitConnect(w, a, ts),
         UNCHANGED <<page, listeners, stored, walletName, chain, disclaimer>>
  PROVE  PageInv'
<1>1. a \in Accounts /\ a # None /\ w # None
  BY PageType, NoneAssumption DEF PageInv, Page
<1>2. account' \in [Wallets -> Accounts \cup {None}]
  BY <1>1 DEF EmitConnect, PageInv, SurroundInv
<1>3. StoredInv' /\ ChainInv'
  BY DEF PageInv, StoredInv, ChainInv
<1>4. CASE listeners[w] = 0
  <2>1. tasks' = ts /\ UNCHANGED <<ui, contexts>>
    BY <1>4 DEF EmitConnect
  <2>2. TasksInv'
    BY <2>1, TasksStep DEF PageInv
  <2>3. SurroundInv'
    BY <1>2, <2>1 DEF PageInv, SurroundInv
  <2> QED
    BY <1>3, <2>1, <2>2, <2>3 DEF PageInv
<1>5. CASE listeners[w] # 0
  <2> DEFINE c == Start("check", w, a, None, "read")
  <2>1. PICK S \in SUBSET {t \in Tasks : ts[t] = Idle} :
          /\ tasks' = [t \in Tasks |-> IF t \in S THEN c ELSE ts[t]]
          /\ ui' = Plain("CheckingStoredSession")
          /\ GetSessionContext
    BY <1>5 DEF EmitConnect
  <2>2. c \in Task /\ c.stage = "read"
    BY <1>1, StartType
  <2>3. TaskOK(c, chain, page)
    BY <1>1, <2>2, StartOK
  <2> HIDE DEF c
  <2>4. \A u \in Tasks : tasks'[u] = IF u \in S THEN c ELSE ts[u]
    BY <2>1
  <2>5. tasks' = [u \in Tasks |-> tasks'[u]]
    BY <2>1
  <2>6. TasksInv'
    BY <2>2, <2>3, <2>4, <2>5, TasksStep DEF PageInv
  <2>7. SurroundInv'
    BY <1>2, <2>1, ContextType DEF PageInv, SurroundInv
  <2>8. UiOK(ui', listeners', chain')
    BY <2>1, PlainOK
  <2> QED
    BY <1>3, <2>6, <2>7, <2>8 DEF PageInv
<1> QED
  BY <1>4, <1>5

-----------------------------------------------------------------------------
(* Signing in: the button, the dialog and the wallet's promises. *)
LEMMA SignInStep ==
  ASSUME PageInv,
         \/ Mount \/ ContextReady \/ PressSignIn \/ PressSignInAsync \/ AcceptDisclaimer
         \/ \E w \in Wallets : SelectWallet(w)
  PROVE  PageInv'
<1> USE NoneAssumption
<1>a. UiOK(ui, listeners, chain) /\ SurroundInv
  BY DEF PageInv
<1>b. page.listeners \in Nat \ {0}
  BY <1>a, PageType DEF Page
<1>1. CASE Mount
  <2>1. CASE walletName = None
    <3>1. ui' = Plain("NotEstablished") /\ UNCHANGED tasks
      BY <1>1, <2>1 DEF Mount
    <3>2. SurroundInv'
      BY <1>1, <2>1, <1>a, SameSurroundings DEF Mount, SurroundInv
    <3> QED
      BY <1>1, <3>1, <3>2, NoTask, PlainOK DEF Mount
  <2>2. CASE walletName # None
    <3> DEFINE r == Start("autoConnect", walletName, None, None, "wait")
    <3>1. PICK t \in Tasks : /\ listeners' = [listeners EXCEPT ![walletName] = @ + 1]
                             /\ ui' = Plain("CheckingStoredSession")
                             /\ tasks' = [tasks EXCEPT ![t] = r]
      BY <1>1, <2>2 DEF Mount, Free
    <3>2. walletName \in Wallets
      BY <1>a, <2>2 DEF SurroundInv
    <3>3. listeners = [w \in Wallets |-> 0]
      BY <1>1, <1>a DEF Mount, UiOK
    <3>4. listeners' \in [Wallets -> 0 .. page.listeners]
      BY <1>b, <3>1, <3>2, <3>3
    <3>5. SurroundInv'
      BY <1>1, <1>a, <3>4 DEF Mount, SurroundInv
    <3>6. r \in Task /\ r.stage = "wait"
      BY <3>2, StartType
    <3>7. TaskOK(r, chain, page)
      BY <3>2, <3>6, StartOK
    <3> HIDE DEF r
    <3> QED
      BY <1>1, <3>1, <3>5, <3>6, <3>7, OneTask, PlainOK DEF Mount
  <2> QED
    BY <2>1, <2>2
<1>2. CASE ContextReady
  <2>1. contexts' \in [created : 0 .. 2, ready : BOOLEAN]
    BY <1>2, <1>a DEF ContextReady, SurroundInv
  <2> QED
    BY <1>2, <1>a, <2>1, SameSurroundings, NoTask DEF ContextReady
<1>3. CASE PressSignIn
  <2>1. SurroundInv'
    BY <1>3, <1>a DEF PressSignIn, SurroundInv
  <2> QED
    BY <1>3, <2>1, NoTask, PlainOK DEF PressSignIn
<1>4. CASE PressSignInAsync
  <2> DEFINE r == Start("init", None, None, None, "none")
  <2>1. PICK t \in Tasks : tasks' = [tasks EXCEPT ![t] = r]
    BY <1>4 DEF PressSignInAsync, Free
  <2>2. SurroundInv'
    BY <1>4, <1>a DEF PressSignInAsync, SurroundInv
  <2>3. r \in Task /\ r.stage = "none"
    BY StartType
  <2>4. TaskOK(r, chain, page)
    BY <2>3, StartOK
  <2> HIDE DEF r
  <2> QED
    BY <1>4, <1>a, <2>1, <2>2, <2>3, <2>4, OneTask DEF PressSignInAsync
<1>5. CASE AcceptDisclaimer
  <2>1. SurroundInv'
    BY <1>5, <1>a DEF AcceptDisclaimer, SurroundInv
  <2> QED
    BY <1>5, <1>a, <2>1, NoTask DEF AcceptDisclaimer
<1>6. ASSUME NEW w \in Wallets, SelectWallet(w)
      PROVE  PageInv'
  <2> DEFINE r == Start("connect", w, None, None, "connecting")
  <2>1. PICK t \in Tasks : /\ listeners' = [listeners EXCEPT ![w] = @ + 1]
                           /\ ui' = Show("WalletConnecting", w, None, None, t)
                           /\ tasks' = [tasks EXCEPT ![t] = r]
    BY <1>6 DEF SelectWallet, Free
  <2>2. SurroundInv'
    BY <1>6, <1>a, <1>b, <2>1 DEF SelectWallet, SurroundInv
  <2>3. r \in Task /\ r.stage = "connecting"
    BY StartType
  <2>4. TaskOK(r, chain, page)
    BY <2>3, StartOK
  <2>5. UiOK(ui', listeners', chain)
    BY <2>1, ShowType DEF UiOK, StateType, CancelableTypes, EstablishedTypes, isEstablished
  <2> HIDE DEF r
  <2> QED
    BY <1>6, <2>1, <2>2, <2>3, <2>4, <2>5, OneTask DEF SelectWallet
<1> QED
  BY <1>1, <1>2, <1>3, <1>4, <1>5, <1>6

(* Events of the wallet itself, and time, the registry and reloading. *)
LEMMA WalletStep ==
  ASSUME PageInv, NEW w \in Wallets,
         WalletDisconnects(w) \/ \E a \in page.accounts : SwitchAccount(w, a)
  PROVE  PageInv'
<1>1. CASE WalletDisconnects(w)
  BY <1>1, DisconnectStep, NoTask DEF WalletDisconnects
<1>2. ASSUME NEW a \in page.accounts, SwitchAccount(w, a)
      PROVE  PageInv'
  BY <1>2, ConnectStep DEF SwitchAccount, PageInv, TasksInv
<1> QED
  BY <1>1, <1>2

(* Session accounts that differ only in what is revoked, expired or        *)
(* covered: nothing that a promise or the page has captured is about it.   *)
Alike(ch, ch2) ==
  /\ ch2 \in [Keys -> SessionAccount]
  /\ \A k \in Keys :
       /\ ch[k].status # "none" => ch2[k].status # "none"
       /\ ch2[k].acct = ch[k].acct
       /\ ch2[k].seen = ch[k].seen
       /\ ch2[k].limited = ch[k].limited

LEMMA AlikeKeeps ==
  ASSUME NEW ch, NEW ch2, Alike(ch, ch2)
  PROVE  /\ Keeps(ch, ch2)
         /\ \A k \in Keys, a \in Accounts \cup {None} : Fresh(ch, k, a) => Fresh(ch2, k, a)
BY DEF Alike, Keeps, Known, Fresh

LEMMA AlikeStep ==
  ASSUME PageInv, Alike(chain, chain'), UNCHANGED <<page, listeners, ui, stored>>,
         SurroundInv',
         tasks' = [u \in Tasks |-> tasks'[u]],
         \A u \in Tasks :
           /\ TaskOK(tasks'[u], chain, page)
           /\ tasks'[u].stage = "landed" =>
                tasks[u].stage = "landed" /\ tasks'[u].new = tasks[u].new
  PROVE  PageInv'
<1>1. /\ Keeps(chain, chain')
      /\ \A k \in Keys, a \in Accounts \cup {None} : Fresh(chain, k, a) => Fresh(chain', k, a)
  BY AlikeKeeps
<1>2. ASSUME NEW u \in Tasks
      PROVE  TaskOK(tasks'[u], chain', page')
  <2>1. TaskOK(tasks'[u], chain, page)
    OBVIOUS
  <2>2. tasks'[u].acct \in Accounts \cup {None} /\ tasks'[u].new \in Keys \cup {None}
    BY <2>1 DEF TaskOK, Task
  <2>3. tasks'[u].stage = "landed" => Fresh(chain, tasks'[u].new, tasks'[u].acct)
    BY <2>1 DEF TaskOK
  <2>4. tasks'[u].stage = "landed" => Fresh(chain', tasks'[u].new, tasks'[u].acct)
    BY <1>1, <2>2, <2>3 DEF Fresh
  <2> QED
    BY <1>1, <2>1, <2>4, TaskFrame
<1>3. tasks' \in [Tasks -> Task]
  BY <1>2 DEF TaskOK
<1>4. \A t, u \in Tasks :
        tasks'[t].stage = "landed" /\ tasks'[u].stage = "landed" /\ t # u =>
          tasks'[t].new # tasks'[u].new
  BY DEF PageInv, TasksInv
<1>5. TasksInv'
  BY <1>2, <1>3, <1>4 DEF TasksInv
<1>6. StoredInv'
  BY <1>1 DEF PageInv, StoredInv, Keeps, Known
<1>7. ChainInv'
  BY DEF PageInv, ChainInv, Alike
<1>8. UiOK(ui', listeners', chain')
  BY <1>1, UiFrame DEF PageInv
<1> QED
  BY <1>5, <1>6, <1>7, <1>8 DEF PageInv

(* One promise changes together with the session accounts. *)
LEMMA AlikeTask ==
  ASSUME PageInv, Alike(chain, chain'), UNCHANGED <<page, listeners, ui, stored>>,
         SurroundInv',
         NEW t \in Tasks, NEW r, tasks' = [tasks EXCEPT ![t] = r],
         TaskOK(r, chain, page), r.stage # "landed"
  PROVE  PageInv'
<1>1. tasks \in [Tasks -> Task] /\ \A u \in Tasks : TaskOK(tasks[u], chain, page)
  BY DEF PageInv, TasksInv
<1>2. tasks' = [u \in Tasks |-> tasks'[u]]
  BY <1>1
<1>3. \A u \in Tasks : tasks'[u] = IF u = t THEN r ELSE tasks[u]
  BY <1>1
<1> QED
  BY <1>1, <1>2, <1>3, AlikeStep

(* Revoking a session, or failing to. *)
LEMMA RevokeAlike ==
  ASSUME ChainInv, NEW k \in Keys, NEW ch \in RevokeOutcomes(k)
  PROVE  Alike(chain, ch)
<1>1. chain \in [Keys -> SessionAccount]
  BY DEF ChainInv
<1>2. Alike(chain, chain)
  BY <1>1 DEF Alike
<1>3. Alike(chain, [chain EXCEPT ![k].status = "revoked"])
  BY <1>1 DEF Alike, SessionAccount
<1> QED
  BY <1>2, <1>3 DEF RevokeOutcomes

LEMMA WorldStep ==
  ASSUME PageInv, (\E k \in Keys : Expire(k)) \/ RegistryGrows \/ Reload
  PROVE  PageInv'
<1> USE NoneAssumption
<1>a. SurroundInv /\ chain \in [Keys -> SessionAccount]
  BY DEF PageInv, ChainInv
<1>b. tasks = [u \in Tasks |-> tasks[u]] /\ \A u \in Tasks : TaskOK(tasks[u], chain, page)
  BY DEF PageInv, TasksInv
<1>1. ASSUME NEW k \in Keys, Expire(k)
      PROVE  PageInv'
  <2>1. Alike(chain, chain')
    BY <1>1, <1>a DEF Expire, Alike, SessionAccount
  <2>2. SurroundInv'
    BY <1>1, <1>a DEF Expire, SurroundInv
  <2> QED
    BY <1>1, <1>b, <2>1, <2>2, AlikeStep DEF Expire
<1>2. CASE RegistryGrows
  <2>1. Alike(chain, chain')
    BY <1>2, <1>a DEF RegistryGrows, Alike, SessionAccount
  <2>2. SurroundInv'
    BY <1>2, <1>a DEF RegistryGrows, SurroundInv
  <2> QED
    BY <1>2, <1>b, <2>1, <2>2, AlikeStep DEF RegistryGrows
<1>3. CASE Reload
  <2>1. page.listeners \in Nat
    BY <1>a, PageType DEF Page
  <2>2. SurroundInv'
    BY <1>3, <1>a, <2>1 DEF Reload, SurroundInv
  <2>3. UiOK(ui', listeners', chain')
    BY <1>3, ShowType DEF Reload, UiOK, Plain, StateType, EstablishedTypes, CancelableTypes,
       isEstablished
  <2>4. \A u \in Tasks : TaskOK(tasks'[u], chain', page') /\ tasks'[u].stage # "landed"
    BY <1>3, IdleOK DEF Reload, Idle
  <2>5. TasksInv'
    BY <1>3, <2>4 DEF Reload, TasksInv, TaskOK
  <2>6. StoredInv' /\ ChainInv'
    BY <1>3 DEF Reload, PageInv, StoredInv, ChainInv
  <2> QED
    BY <2>2, <2>3, <2>5, <2>6 DEF PageInv
<1> QED
  BY <1>1, <1>2, <1>3

-----------------------------------------------------------------------------
(* A promise ends, with nothing else changed but what is shown. *)
LEMMA TaskEnds ==
  ASSUME PageInv, NEW t \in Tasks, tasks' = [tasks EXCEPT ![t] = Idle],
         UNCHANGED <<stored, chain, page>>,
         UiOK(ui', listeners', chain), SurroundInv'
  PROVE  PageInv'
<1>1. Idle.stage # "landed"
  BY DEF Idle
<1> QED
  BY <1>1, IdleOK, OneTask

(* The promises of connecting a wallet. *)
LEMMA ConnectingStep ==
  ASSUME PageInv, NEW t \in Tasks,
         \/ WalletReady(t) \/ ReadyTimeout(t) \/ ConnectResolves(t)
         \/ ConnectResolvesUnconnected(t) \/ ConnectRejects(t) \/ DisconnectAfter(t)
         \/ InitSettles(t)
  PROVE  PageInv'
<1> USE NoneAssumption
<1>a. UiOK(ui, listeners, chain) /\ SurroundInv /\ TaskOK(tasks[t], chain, page)
  BY DEF PageInv, TasksInv
<1>b. tasks[t] \in Task /\ tasks \in [Tasks -> Task]
  BY DEF PageInv, TasksInv
<1>c. ASSUME UNCHANGED <<page, listeners, account, walletName, contexts, disclaimer>>
      PROVE  SurroundInv'
  BY <1>a, <1>c DEF SurroundInv
<1>1. CASE WalletReady(t)
  <2> DEFINE r == [tasks[t] EXCEPT !.stage = "connecting"]
  <2>1. TaskOK(r, chain, page) /\ r.stage # "landed"
    BY <1>1, <1>a, <1>b DEF WalletReady, TaskOK, Task, Working
  <2>2. tasks' = [tasks EXCEPT ![t] = r]
    BY <1>1 DEF WalletReady
  <2> HIDE DEF r
  <2> QED
    BY <1>1, <1>a, <1>c, <2>1, <2>2, OneTask DEF WalletReady
<1>2. CASE ReadyTimeout(t)
  <2>1. CASE tasks[t].stage = "wait"
    BY <1>2, <1>c, <2>1, PlainOK, TaskEnds DEF ReadyTimeout
  <2>2. CASE tasks[t].stage # "wait"
    <3> DEFINE r == [tasks[t] EXCEPT !.aborted = TRUE]
    <3>1. TaskOK(r, chain, page) /\ r.stage # "landed"
      BY <1>2, <1>a, <1>b DEF ReadyTimeout, TaskOK, Task, Working
    <3>2. tasks' = [tasks EXCEPT ![t] = r] /\ UNCHANGED ui
      BY <1>2, <2>2 DEF ReadyTimeout
    <3> HIDE DEF r
    <3> QED
      BY <1>2, <1>a, <1>c, <3>1, <3>2, OneTask DEF ReadyTimeout
  <2> QED
    BY <2>1, <2>2
<1>3. CASE ConnectResolves(t)
  <2> DEFINE w == tasks[t].w
             r == IF tasks[t].aborted THEN [tasks[t] EXCEPT !.stage = "disconnect"] ELSE Idle
             next == [tasks EXCEPT ![t] = r]
  <2>1. TaskOK(r, chain, page) /\ r.stage # "landed"
    <3>1. CASE tasks[t].aborted
      BY <1>3, <1>a, <1>b, <3>1 DEF ConnectResolves, TaskOK, Task, Working
    <3>2. CASE ~tasks[t].aborted
      BY <3>2, IdleOK DEF Idle
    <3> QED
      BY <3>1, <3>2
  <2>2. w \in Wallets
    BY <1>3, <1>a, <1>b DEF ConnectResolves, TaskOK, Task
  <2>3. \/ tasks' = next /\ UNCHANGED <<ui, account, contexts>>
        \/ \E a \in page.accounts : EmitConnect(w, a, next)
    BY <1>3 DEF ConnectResolves
  <2>4. UNCHANGED <<listeners, stored, walletName, chain, disclaimer, page>>
    BY <1>3 DEF ConnectResolves
  <2> HIDE DEF r
  <2>5. next \in [Tasks -> Task]
    BY <1>b, <2>1 DEF TaskOK
  <2>6. \A u \in Tasks : next[u] = IF u = t THEN r ELSE tasks[u]
    BY <1>b
  <2>7. \A u \in Tasks : TaskOK(next[u], chain, page) /\
           (next[u].stage = "landed" => tasks[u].stage = "landed" /\ next[u].new = tasks[u].new)
    BY <2>1, <2>6 DEF PageInv, TasksInv
  <2>8. CASE tasks' = next /\ UNCHANGED <<ui, account, contexts>>
    BY <1>a, <1>c, <2>1, <2>4, <2>8, OneTask
  <2>9. ASSUME NEW a \in page.accounts, EmitConnect(w, a, next)
        PROVE  PageInv'
    <3> HIDE DEF w, next
    <3> QED
      BY <2>2, <2>4, <2>5, <2>7, <2>9, ConnectStep
  <2> QED
    BY <2>3, <2>8, <2>9
<1>4. CASE ConnectResolvesUnconnected(t)
  <2> DEFINE r == [tasks[t] EXCEPT !.stage = "disconnect"]
  <2>1. TaskOK(r, chain, page) /\ r.stage # "landed"
    BY <1>4, <1>a, <1>b DEF ConnectResolvesUnconnected, TaskOK, Task, Working
  <2>2. tasks' = [tasks EXCEPT ![t] = r]
    BY <1>4 DEF ConnectResolvesUnconnected
  <2> HIDE DEF r
  <2> QED
    BY <1>4, <1>a, <1>c, <2>1, <2>2, OneTask DEF ConnectResolvesUnconnected
<1>5. CASE ConnectRejects(t)
  BY <1>5, <1>c, PlainOK, TaskEnds DEF ConnectRejects
<1>6. CASE DisconnectAfter(t)
  <2>1. tasks[t].w \in Wallets
    BY <1>6, <1>a, <1>b DEF DisconnectAfter, TaskOK, Task
  <2> QED
    BY <1>6, <2>1, DisconnectStep, TaskEnds DEF DisconnectAfter
<1>7. CASE InitSettles(t)
  <2>1. UiOK(ui', listeners', chain)
    BY <1>7, <1>a, PlainOK DEF InitSettles
  <2> QED
    BY <1>7, <1>c, <2>1, TaskEnds DEF InitSettles
<1> QED
  BY <1>1, <1>2, <1>3, <1>4, <1>5, <1>6, <1>7

(* Logging out and revoking. *)
LEMMA CleanupStep ==
  ASSUME PageInv, NEW t \in Tasks,
         \/ CleanupDisconnect(t) \/ CleanupRevoke(t) \/ CleanupClear(t)
         \/ CleanupFinishes(t) \/ RevokeSettles(t)
  PROVE  PageInv'
<1> USE NoneAssumption
<1>a. UiOK(ui, listeners, chain) /\ SurroundInv /\ TaskOK(tasks[t], chain, page) /\ ChainInv
  BY DEF PageInv, TasksInv
<1>b. tasks[t] \in Task /\ tasks \in [Tasks -> Task]
  BY DEF PageInv, TasksInv
<1>c. ASSUME UNCHANGED <<page, listeners, account, walletName, contexts, disclaimer>>
      PROVE  SurroundInv'
  BY <1>a, <1>c DEF SurroundInv
<1>d. ASSUME NEW x, NEW b \in BOOLEAN, tasks[t].kind = "cleanup"
      PROVE  LET r == [tasks[t] EXCEPT !.left = @ \ {x}, !.aborted = b]
             IN TaskOK(r, chain, page) /\ r.stage # "landed"
  BY <1>a, <1>b, <1>d DEF TaskOK, Task, Working
<1>1. CASE CleanupDisconnect(t)
  <2> DEFINE r == [tasks[t] EXCEPT !.left = @ \ {"disconnect"}]
  <2>1. TaskOK(r, chain, page) /\ r.stage # "landed"
    BY <1>1, <1>a, <1>b DEF CleanupDisconnect, TaskOK, Task, Working
  <2>2. tasks' = [tasks EXCEPT ![t] = r]
    BY <1>1 DEF CleanupDisconnect
  <2>3. tasks[t].w \in Wallets
    BY <1>1, <1>a, <1>b DEF CleanupDisconnect, TaskOK, Task
  <2> HIDE DEF r
  <2> QED
    BY <1>1, <2>1, <2>2, <2>3, DisconnectStep, OneTask DEF CleanupDisconnect
<1>2. CASE CleanupRevoke(t)
  <2>1. PICK rejected \in BOOLEAN :
          tasks' = [tasks EXCEPT ![t].left = @ \ {"revoke"}, ![t].aborted = @ \/ rejected]
    BY <1>2 DEF CleanupRevoke
  <2> DEFINE r == [tasks[t] EXCEPT !.left = @ \ {"revoke"}, !.aborted = tasks[t].aborted \/ rejected]
  <2>2. tasks' = [tasks EXCEPT ![t] = r]
    BY <1>b, <2>1
  <2>3. TaskOK(r, chain, page) /\ r.stage # "landed"
    BY <1>2, <1>b, <1>d DEF CleanupRevoke, Task
  <2>4. tasks[t].key \in Keys
    BY <1>2, <1>a, <1>b DEF CleanupRevoke, TaskOK, Task
  <2>5. Alike(chain, chain')
    BY <1>2, <1>a, <2>4, RevokeAlike DEF CleanupRevoke
  <2> HIDE DEF r
  <2> QED
    BY <1>2, <1>c, <2>2, <2>3, <2>5, AlikeTask DEF CleanupRevoke
<1>3. CASE CleanupClear(t)
  <2>1. PICK rejected \in BOOLEAN :
          /\ stored' = IF rejected THEN stored ELSE clearStoredSession(tasks[t].acct)
          /\ tasks' = [tasks EXCEPT ![t].left = @ \ {"clear"}, ![t].aborted = @ \/ rejected]
    BY <1>3 DEF CleanupClear
  <2> DEFINE r == [tasks[t] EXCEPT !.left = @ \ {"clear"}, !.aborted = tasks[t].aborted \/ rejected]
  <2>2. tasks' = [tasks EXCEPT ![t] = r]
    BY <1>b, <2>1
  <2>3. TaskOK(r, chain, page) /\ r.stage # "landed"
    BY <1>3, <1>b, <1>d DEF CleanupClear, Task
  <2> HIDE DEF r
  <2>4. TasksInv'
    <3>1. \A u \in Tasks : tasks'[u] = IF u = t THEN r ELSE tasks[u]
      BY <1>b, <2>2
    <3>2. tasks' = [u \in Tasks |-> tasks'[u]]
      BY <1>b, <2>2
    <3> QED
      BY <1>3, <2>3, <3>1, <3>2, TasksStep DEF CleanupClear, PageInv, TasksInv
  <2>5. StoredInv'
    BY <1>3, <2>1 DEF CleanupClear, PageInv, StoredInv, clearStoredSession
  <2>6. SurroundInv' /\ ChainInv' /\ UiOK(ui', listeners', chain')
    BY <1>3, <1>a, <1>c DEF CleanupClear, ChainInv
  <2> QED
    BY <2>4, <2>5, <2>6 DEF PageInv
<1>4. CASE CleanupFinishes(t)
  <2>1. SurroundInv'
    BY <1>4, <1>a DEF CleanupFinishes, SurroundInv
  <2> QED
    BY <1>4, <1>a, <2>1, TaskEnds DEF CleanupFinishes
<1>5. CASE RevokeSettles(t)
  <2>1. tasks[t].key \in Keys
    BY <1>5, <1>a, <1>b DEF RevokeSettles, TaskOK, Task
  <2>2. Alike(chain, chain')
    BY <1>5, <1>a, <2>1, RevokeAlike DEF RevokeSettles
  <2>3. Idle.stage # "landed"
    BY DEF Idle
  <2> QED
    BY <1>5, <1>c, <2>2, <2>3, IdleOK, AlikeTask DEF RevokeSettles
<1> QED
  BY <1>1, <1>2, <1>3, <1>4, <1>5

-----------------------------------------------------------------------------
(* A login starts in slot t, for wallet w and account a. *)
LEMMA SubmitStep ==
  ASSUME PageInv, NEW t \in Tasks, NEW w \in Wallets, NEW a \in Accounts,
         NEW limited \in BOOLEAN, ~limited => page.enableUnlimited,
         SubmitLimitsIn(t, w, a, limited)
  PROVE  /\ UiOK(ui', listeners, chain)
         /\ contexts' \in [created : 0 .. 2, ready : BOOLEAN]
         /\ \E r : /\ tasks' = [tasks EXCEPT ![t] = r]
                   /\ TaskOK(r, chain, page) /\ r.stage # "landed"
<1> USE NoneAssumption
<1> DEFINE s == Start("establish", w, a, None, "sign")
           r == [s EXCEPT !.limited = limited]
<1>1. ui' = Show("SettingLimits", w, a, None, t) /\ tasks' = [tasks EXCEPT ![t] = r]
      /\ GetSessionContext
  BY DEF SubmitLimitsIn
<1>2. UiOK(ui', listeners, chain)
  BY <1>1, ShowType DEF UiOK, StateType, CancelableTypes, EstablishedTypes, isEstablished
<1>3. s \in Task /\ s.stage = "sign"
  BY StartType
<1>4. TaskOK(s, chain, page)
  BY <1>3, StartOK
<1> HIDE DEF s
<1>5. TaskOK(r, chain, page) /\ r.stage # "landed"
  BY <1>3, <1>4 DEF TaskOK, Task
<1> QED
  BY <1>1, <1>2, <1>5, ContextType DEF PageInv

(* checkStoredSession found nothing usable. *)
LEMMA NothingStoredStep ==
  ASSUME PageInv, NEW t \in Tasks, tasks[t].kind = "check", NothingStored(t),
         StoredInv', UNCHANGED <<listeners, account, chain, disclaimer, page>>
  PROVE  PageInv'
<1> USE NoneAssumption
<1>a. SurroundInv /\ TaskOK(tasks[t], chain, page) /\ tasks[t] \in Task
  BY DEF PageInv, TasksInv
<1>b. tasks \in [Tasks -> Task] /\ \A u \in Tasks : TaskOK(tasks[u], chain, page)
  BY DEF PageInv, TasksInv
<1>1. tasks[t].w \in Wallets /\ tasks[t].acct \in Accounts
  BY <1>a DEF TaskOK, Task
<1>2. walletName' = tasks[t].w
  BY DEF NothingStored
<1>3. /\ UiOK(ui', listeners, chain)
      /\ contexts' \in [created : 0 .. 2, ready : BOOLEAN]
      /\ \E r : /\ tasks' = [tasks EXCEPT ![t] = r]
                /\ TaskOK(r, chain, page) /\ r.stage # "landed"
  <2>1. CASE AskLimits
    <3>1. /\ ui' = Show("RequestingLimits", tasks[t].w, tasks[t].acct, None, None)
          /\ tasks' = [tasks EXCEPT ![t] = Idle]
          /\ contexts' = contexts
      BY <2>1 DEF NothingStored
    <3>2. UiOK(ui', listeners, chain)
      BY <1>1, <3>1, ShowType DEF UiOK, StateType, CancelableTypes, EstablishedTypes, isEstablished
    <3>3. TaskOK(Idle, chain, page) /\ Idle.stage # "landed"
      BY IdleOK DEF Idle
    <3> QED
      BY <1>a, <3>1, <3>2, <3>3 DEF SurroundInv
  <2>2. CASE ~AskLimits
    BY <1>1, <2>2, SubmitStep DEF NothingStored
  <2> QED
    BY <2>1, <2>2
<1>4. PICK r : tasks' = [tasks EXCEPT ![t] = r] /\ TaskOK(r, chain, page) /\ r.stage # "landed"
  BY <1>3
<1>5. \A u \in Tasks : tasks'[u] = IF u = t THEN r ELSE tasks[u]
  BY <1>b, <1>4
<1>6. tasks' = [u \in Tasks |-> tasks'[u]]
  BY <1>b, <1>4
<1>7. TasksInv'
  BY <1>b, <1>4, <1>5, <1>6, TasksStep DEF PageInv
<1>8. SurroundInv'
  BY <1>a, <1>1, <1>2, <1>3 DEF SurroundInv
<1>9. ChainInv' /\ UiOK(ui', listeners', chain')
  BY <1>3 DEF PageInv, ChainInv
<1> QED
  BY <1>7, <1>8, <1>9 DEF PageInv

(* A session that is stored and shown. *)
LEMMA SetupStep ==
  ASSUME NEW ch, StoredInv,
         \A a \in Accounts, k \in Keys : Known(chain, k, a) => Known(ch, k, a),
         NEW k \in Keys, NEW a \in Accounts, NEW w \in Wallets, Known(ch, k, a),
         CompleteSessionSetup(k, a, w)
  PROVE  /\ UiOK(ui', listeners', ch)
         /\ stored' \in [Accounts -> Keys \cup {None}]
         /\ \A b \in Accounts : stored'[b] # None => Known(ch, stored'[b], b)
<1>1. UiOK(ui', listeners', ch)
  BY EstablishedOK DEF CompleteSessionSetup, EstablishedTypes
<1>2. \A b \in Accounts : stored[b] # None => Known(ch, stored[b], b)
  BY DEF StoredInv
<1>3. stored' \in [Accounts -> Keys \cup {None}]
  BY DEF StoredInv, CompleteSessionSetup, setStoredSession
<1>4. \A b \in Accounts : stored'[b] # None => Known(ch, stored'[b], b)
  BY <1>2 DEF StoredInv, CompleteSessionSetup, setStoredSession
<1> QED
  BY <1>1, <1>3, <1>4

LEMMA CheckStep ==
  ASSUME PageInv, NEW t \in Tasks,
         CheckRead(t) \/ CheckReestablishes(t) \/ CheckRejects(t)
  PROVE  PageInv'
<1> USE NoneAssumption
<1>a. UiOK(ui, listeners, chain) /\ SurroundInv /\ TaskOK(tasks[t], chain, page) /\ ChainInv
      /\ StoredInv
  BY DEF PageInv, TasksInv
<1>b. tasks[t] \in Task /\ tasks \in [Tasks -> Task] /\ chain \in [Keys -> SessionAccount]
  BY DEF PageInv, TasksInv, ChainInv
<1>c. ASSUME UNCHANGED <<page, listeners, account, walletName, contexts, disclaimer>>
      PROVE  SurroundInv'
  BY <1>a, <1>c DEF SurroundInv
<1>d. tasks[t].w \in Wallets /\ tasks[t].acct \in Accounts
  BY <1>a, <1>b DEF CheckRead, CheckReestablishes, CheckRejects, TaskOK, Task
<1>1. CASE CheckRead(t)
  <2>1. CASE getStoredSession(tasks[t].acct) = None
    <3>1. StoredInv'
      BY <1>1, <1>a DEF CheckRead, StoredInv
    <3> QED
      BY <1>1, <2>1, <3>1, NothingStoredStep DEF CheckRead
  <2>2. CASE getStoredSession(tasks[t].acct) # None
    <3> DEFINE k == stored[tasks[t].acct]
               r == [tasks[t] EXCEPT !.stage = "reestablish", !.key = k]
    <3>1. tasks' = [tasks EXCEPT ![t] = r] /\ UNCHANGED <<ui, walletName, contexts>>
      BY <1>1, <1>b, <2>2 DEF CheckRead, getStoredSession
    <3>2. k \in Keys /\ Known(chain, k, tasks[t].acct)
      BY <1>a, <1>d, <2>2 DEF StoredInv, getStoredSession
    <3>3. TaskOK(r, chain, page) /\ r.stage # "landed"
      <4> HIDE DEF k
      <4> QED
        BY <1>1, <1>a, <1>b, <3>2 DEF CheckRead, TaskOK, Task, Working
    <3> HIDE DEF r
    <3> QED
      BY <1>1, <1>a, <1>c, <3>1, <3>3, OneTask DEF CheckRead
  <2> QED
    BY <2>1, <2>2
<1>2. CASE CheckReestablishes(t)
  <2>1. tasks[t].key \in Keys /\ Known(chain, tasks[t].key, tasks[t].acct)
    BY <1>2, <1>a, <1>b DEF CheckReestablishes, TaskOK, Task
  <2>2. CASE CreateSession(tasks[t].key)
    <3>1. /\ walletName' = tasks[t].w
          /\ CompleteSessionSetup(tasks[t].key, tasks[t].acct, tasks[t].w)
          /\ tasks' = [tasks EXCEPT ![t] = Idle]
          /\ chain' = [chain EXCEPT ![tasks[t].key].seen = "shown"]
          /\ UNCHANGED <<contexts, listeners, account, disclaimer, page>>
      BY <1>2, <2>2 DEF CheckReestablishes
    <3>2. chain' = chain
      BY <1>b, <2>1, <3>1 DEF Known, SessionAccount
    <3>3. /\ UiOK(ui', listeners', chain)
          /\ stored' \in [Accounts -> Keys \cup {None}]
          /\ \A b \in Accounts : stored'[b] # None => Known(chain, stored'[b], b)
      BY <1>a, <1>d, <2>1, <3>1, SetupStep
    <3>4. StoredInv'
      BY <3>2, <3>3 DEF StoredInv
    <3>5. SurroundInv'
      BY <1>a, <1>d, <3>1 DEF SurroundInv
    <3>6. ChainInv' /\ UiOK(ui', listeners', chain')
      BY <1>a, <3>1, <3>2, <3>3 DEF ChainInv
    <3>7. TasksInv'
      <4>1. \A u \in Tasks : tasks'[u] = IF u = t THEN Idle ELSE tasks[u]
        BY <1>b, <3>1
      <4>2. tasks' = [u \in Tasks |-> tasks'[u]]
        BY <1>b, <3>1
      <4>3. TaskOK(Idle, chain, page) /\ Idle.stage # "landed"
        BY IdleOK DEF Idle
      <4> QED
        BY <3>1, <3>2, <4>1, <4>2, <4>3, TasksStep DEF PageInv, TasksInv
    <3> QED
      BY <3>4, <3>5, <3>6, <3>7 DEF PageInv
  <2>3. CASE ~CreateSession(tasks[t].key)
    <3>1. /\ stored' = clearStoredSession(tasks[t].acct)
          /\ NothingStored(t)
          /\ UNCHANGED <<chain, listeners, account, disclaimer, page>>
      BY <1>2, <2>3 DEF CheckReestablishes
    <3>2. StoredInv'
      BY <1>a, <3>1 DEF StoredInv, clearStoredSession
    <3> QED
      BY <1>2, <3>1, <3>2, NothingStoredStep DEF CheckReestablishes
  <2> QED
    BY <2>2, <2>3
<1>3. CASE CheckRejects(t)
  BY <1>3, <1>c, PlainOK, TaskEnds DEF CheckRejects
<1> QED
  BY <1>1, <1>2, <1>3

-----------------------------------------------------------------------------
(* A promise that starts for the session that is shown. *)
LEMMA StartOfSession ==
  ASSUME NEW kind \in {"update", "send", "cleanup"}, NEW stage \in {"none", "sign"},
         stage = "sign" <=> kind = "update",
         NEW w \in Wallets, NEW a \in Accounts, NEW k \in Keys, NEW ch, NEW pg, Known(ch, k, a)
  PROVE  LET r == Start(kind, w, a, k, stage)
         IN r \in Task /\ r.stage = stage /\ r.key # None /\ TaskOK(r, ch, pg)
<1> USE NoneAssumption
<1> DEFINE r == Start(kind, w, a, k, stage)
<1>1. r \in Task /\ r.stage = stage
  BY StartType
<1>2. TaskOK(r, ch, pg)
  BY <1>1, StartOK
<1>3. r.key # None
  BY DEF Start, Idle
<1> QED
  BY <1>1, <1>2, <1>3

(* The form, sending and logging out. *)
LEMMA UserStep ==
  ASSUME PageInv, SessionLimits \/ Send \/ EndSession \/ CancelRenewal
  PROVE  PageInv'
<1> USE NoneAssumption
<1>a. UiOK(ui, listeners, chain) /\ SurroundInv /\ ui \in SessionState
  BY DEF PageInv, UiOK
<1>c. ASSUME UNCHANGED <<page, listeners, account, walletName, contexts, disclaimer>>
      PROVE  SurroundInv'
  BY <1>a, <1>c DEF SurroundInv
<1>d. isEstablished(ui) =>
        ui.w \in Wallets /\ ui.acct \in Accounts /\ ui.key \in Keys /\ Known(chain, ui.key, ui.acct)
  BY <1>a DEF UiOK, SessionState, Known
<1>1. CASE SessionLimits
  <2>1. PICK limited \in BOOLEAN : (~limited => page.enableUnlimited) /\ SubmitForm(limited)
    BY <1>1 DEF SessionLimits, FormLimited
  <2>2. UNCHANGED <<listeners, account, stored, walletName, chain, disclaimer, page>>
    BY <1>1 DEF SessionLimits
  <2>3. ASSUME NEW t \in Tasks, ui.type = "RequestingLimits",
               SubmitLimitsIn(t, ui.w, ui.acct, limited)
        PROVE  PageInv'
    <3>1. ui.w \in Wallets /\ ui.acct \in Accounts
      BY <1>a, <2>3 DEF UiOK, SessionState
    <3>2. /\ UiOK(ui', listeners, chain)
          /\ contexts' \in [created : 0 .. 2, ready : BOOLEAN]
          /\ \E r : /\ tasks' = [tasks EXCEPT ![t] = r]
                    /\ TaskOK(r, chain, page) /\ r.stage # "landed"
      BY <2>1, <2>3, <3>1, SubmitStep
    <3>3. SurroundInv'
      BY <1>a, <2>2, <3>2, SameSurroundings
    <3> QED
      BY <2>2, <3>2, <3>3, OneTask
  <2>4. ASSUME NEW t \in Tasks, isEstablished(ui),
               ui' = [ui EXCEPT !.type = "UpdatingSession"],
               tasks' = [tasks EXCEPT ![t] =
                 [Start("update", ui.w, ui.acct, ui.key, "sign") EXCEPT !.limited = limited]],
               GetSessionContext
        PROVE  PageInv'
    <3> DEFINE s == Start("update", ui.w, ui.acct, ui.key, "sign")
               r == [s EXCEPT !.limited = limited]
    <3>1. s \in Task /\ s.stage = "sign" /\ TaskOK(s, chain, page)
      BY <1>d, <2>4, StartOfSession
    <3>3. tasks' = [tasks EXCEPT ![t] = r]
      BY <2>4
    <3> HIDE DEF s
    <3>4. TaskOK(r, chain, page) /\ r.stage # "landed"
      BY <2>1, <3>1 DEF TaskOK, Task
    <3>5. UiOK(ui', listeners', chain)
      BY <1>a, <1>d, <2>4 DEF UiOK, SessionState, StateType, EstablishedTypes, CancelableTypes,
         isEstablished
    <3>6. SurroundInv'
      BY <1>a, <2>2, <2>4, ContextType, SameSurroundings
    <3> HIDE DEF r
    <3> QED
      BY <2>2, <3>3, <3>4, <3>5, <3>6, OneTask
  <2> QED
    BY <2>1, <2>3, <2>4 DEF SubmitForm, Free, isUpdatable
<1>2. CASE Send
  <2> DEFINE r == Start("send", ui.w, ui.acct, ui.key, "none")
  <2>1. PICK t \in Tasks : tasks' = [tasks EXCEPT ![t] = r]
    BY <1>2 DEF Send, Free
  <2>2. r.stage = "none" /\ TaskOK(r, chain, page)
    BY <1>2, <1>d, StartOfSession DEF Send
  <2> HIDE DEF r
  <2> QED
    BY <1>2, <1>a, <1>c, <2>1, <2>2, OneTask DEF Send
<1>3. CASE EndSession
  <2> DEFINE s == Start("cleanup", ui.w, ui.acct, ui.key, "none")
             r == [s EXCEPT !.left = CleanupSteps]
  <2>1. PICK t \in Tasks : tasks' = [tasks EXCEPT ![t] = r]
    BY <1>3, <1>d DEF EndSession, Disconnect, Free
  <2>2. s \in Task /\ s.stage = "none" /\ s.key # None /\ TaskOK(s, chain, page)
    BY <1>3, <1>d, StartOfSession DEF EndSession
  <2> HIDE DEF s
  <2>4. TaskOK(r, chain, page) /\ r.stage # "landed"
    BY <2>2 DEF TaskOK, Task
  <2>5. SurroundInv'
    BY <1>3, <1>a, ContextType, SameSurroundings DEF EndSession
  <2> HIDE DEF r
  <2> QED
    BY <1>3, <1>a, <2>1, <2>4, <2>5, OneTask DEF EndSession
<1>4. CASE CancelRenewal
  <2>1. isEstablished(ui)
    BY <1>4 DEF CancelRenewal, isEstablished, EstablishedTypes
  <2>2. UiOK(ui', listeners', chain)
    BY <1>4, <1>d, <2>1, EstablishedOK DEF CancelRenewal, EstablishedTypes
  <2> QED
    BY <1>4, <1>c, <2>2, NoTask DEF CancelRenewal
<1> QED
  BY <1>1, <1>2, <1>3, <1>4

(* Disconnecting without a session starts a promise of its own. *)
LEMMA DisconnectOK ==
  ASSUME NEW w \in Wallets, NEW a \in Accounts, NEW ch, NEW pg
  PROVE  LET r == [Start("cleanup", w, a, None, "none") EXCEPT !.left = {"disconnect"}]
         IN TaskOK(r, ch, pg) /\ r.stage # "landed"
<1> USE NoneAssumption
<1> DEFINE s == Start("cleanup", w, a, None, "none")
<1>1. s \in Task /\ s.stage = "none"
  BY StartType
<1>2. TaskOK(s, ch, pg)
  BY <1>1, StartOK
<1> HIDE DEF s
<1>3. [s EXCEPT !.left = {"disconnect"}] \in Task
  BY <1>1 DEF Task, CleanupSteps
<1>4. TaskOK([s EXCEPT !.left = {"disconnect"}], ch, pg)
      /\ [s EXCEPT !.left = {"disconnect"}].stage # "landed"
  BY <1>1, <1>2, <1>3 DEF TaskOK, Task
<1> QED
  BY <1>4 DEF s

(* Closing the sign-in dialog: the login under way is aborted. *)
LEMMA CancelStep ==
  ASSUME PageInv, CancelSignIn
  PROVE  PageInv'
<1> USE NoneAssumption
<1>a. UiOK(ui, listeners, chain) /\ SurroundInv /\ ui \in SessionState
      /\ StoredInv /\ ChainInv
  BY DEF PageInv, UiOK
<1>b. tasks \in [Tasks -> Task] /\ \A u \in Tasks : TaskOK(tasks[u], chain, page)
  BY DEF PageInv, TasksInv
<1>c. UNCHANGED <<listeners, account, stored, walletName, chain, contexts, disclaimer, page>>
  BY DEF CancelSignIn
<1>d. SurroundInv' /\ StoredInv' /\ ChainInv'
  BY <1>a, <1>c DEF SurroundInv, StoredInv, ChainInv
<1>e. ASSUME NEW f \in Tasks, tasks[f].kind \in {"connect", "establish"}
      PROVE  LET r == [tasks[f] EXCEPT !.aborted = TRUE]
             IN TaskOK(r, chain, page) /\ r.stage = tasks[f].stage /\ r.new = tasks[f].new
  <2> DEFINE r == [tasks[f] EXCEPT !.aborted = TRUE]
  <2>1. TaskOK(tasks[f], chain, page) /\ tasks[f] \in Task
    BY <1>b
  <2>2. r \in Task
    BY <2>1 DEF Task
  <2>3. /\ r.kind = tasks[f].kind /\ r.w = tasks[f].w /\ r.acct = tasks[f].acct
        /\ r.key = tasks[f].key /\ r.new = tasks[f].new /\ r.stage = tasks[f].stage
        /\ r.limited = tasks[f].limited /\ r.left = tasks[f].left
    BY <2>1 DEF Task
  <2> HIDE DEF r
  <2>4. TaskOK(r, chain, page)
    BY <1>e, <2>1, <2>2, <2>3 DEF TaskOK
  <2> QED
    BY <2>3, <2>4 DEF r
<1>1. CASE ui.type = "SelectingWallet"
  <2>1. ui' = Plain("NotEstablished") /\ UNCHANGED tasks
    BY <1>1 DEF CancelSignIn
  <2> QED
    BY <1>c, <1>d, <2>1, PlainOK, NoTask
<1>2. CASE ui.type = "WalletConnecting"
  <2>1. ui' = Plain("NotEstablished")
        /\ tasks' = IF tasks[ui.flow].kind = "connect" THEN Abort(ui.flow) ELSE tasks
    BY <1>2 DEF CancelSignIn
  <2>2. ui.flow \in Tasks
    BY <1>a, <1>2 DEF UiOK, SessionState
  <2>3. CASE tasks[ui.flow].kind = "connect"
    <3>1. tasks' = [tasks EXCEPT ![ui.flow] = [tasks[ui.flow] EXCEPT !.aborted = TRUE]]
      BY <2>1, <2>3 DEF Abort
    <3> QED
      BY <1>c, <1>d, <1>e, <2>1, <2>2, <2>3, <3>1, PlainOK, OneTask
  <2>4. CASE tasks[ui.flow].kind # "connect"
    BY <1>c, <1>d, <2>1, <2>4, PlainOK, NoTask
  <2> QED
    BY <2>3, <2>4
<1>3. CASE ui.type = "RequestingLimits"
  <2>1. ui.w \in Wallets /\ ui.acct \in Accounts
    BY <1>a, <1>3 DEF UiOK, SessionState
  <2> DEFINE r == [Start("cleanup", ui.w, ui.acct, None, "none") EXCEPT !.left = {"disconnect"}]
  <2>2. PICK t \in Tasks : tasks' = [tasks EXCEPT ![t] = r]
    BY <1>3 DEF CancelSignIn, Disconnect, Free
  <2>3. TaskOK(r, chain, page) /\ r.stage # "landed"
    BY <2>1, DisconnectOK
  <2>4. ui' = ui
    BY <1>3 DEF CancelSignIn
  <2> HIDE DEF r
  <2> QED
    BY <1>a, <1>c, <1>d, <2>2, <2>3, <2>4, OneTask
<1>4. CASE ui.type = "SettingLimits"
  <2>1. ui.w \in Wallets /\ ui.acct \in Accounts /\ ui.flow \in Tasks
    BY <1>a, <1>4 DEF UiOK, SessionState
  <2> DEFINE r == [Start("cleanup", ui.w, ui.acct, None, "none") EXCEPT !.left = {"disconnect"}]
             ts == IF tasks[ui.flow].kind = "establish" THEN Abort(ui.flow) ELSE tasks
  <2>2. PICK t \in Tasks : tasks' = [ts EXCEPT ![t] = r]
    BY <1>4 DEF CancelSignIn, Disconnect, Free
  <2>3. TaskOK(r, chain, page) /\ r.stage # "landed"
    BY <2>1, DisconnectOK
  <2>4. ui' = ui
    BY <1>4 DEF CancelSignIn
  <2>5. /\ ts = [u \in Tasks |-> ts[u]]
        /\ \A u \in Tasks : /\ TaskOK(ts[u], chain, page)
                            /\ ts[u].stage = tasks[u].stage /\ ts[u].new = tasks[u].new
    <3>1. CASE tasks[ui.flow].kind = "establish"
      <4>1. ts = [tasks EXCEPT ![ui.flow] = [tasks[ui.flow] EXCEPT !.aborted = TRUE]]
        BY <3>1 DEF Abort
      <4>2. \A u \in Tasks : ts[u] = IF u = ui.flow THEN [tasks[ui.flow] EXCEPT !.aborted = TRUE]
                                                    ELSE tasks[u]
        BY <1>b, <4>1
      <4> QED
        BY <1>b, <1>e, <2>1, <3>1, <4>1, <4>2
    <3>2. CASE tasks[ui.flow].kind # "establish"
      BY <1>b, <3>2
    <3> QED
      BY <3>1, <3>2
  <2> HIDE DEF r, ts
  <2>6. \A u \in Tasks : tasks'[u] = IF u = t THEN r ELSE ts[u]
    BY <2>2, <2>5
  <2>7. tasks' = [u \in Tasks |-> tasks'[u]]
    BY <2>2, <2>5
  <2>8. TasksInv'
    BY <1>c, <2>3, <2>5, <2>6, <2>7, TasksStep DEF PageInv
  <2> QED
    BY <1>a, <1>c, <1>d, <2>4, <2>8 DEF PageInv
<1> QED
  BY <1>1, <1>2, <1>3, <1>4 DEF CancelSignIn

(* The transaction of a login or an update. *)
LEMMA AnswerStep ==
  ASSUME PageInv, NEW t \in Tasks,
         Sign(t) \/ SendSettles(t) \/ AnswerFailed(t) \/ AnswerRejected(t)
  PROVE  PageInv'
<1> USE NoneAssumption
<1>a. UiOK(ui, listeners, chain) /\ SurroundInv /\ TaskOK(tasks[t], chain, page)
  BY DEF PageInv, TasksInv
<1>b. tasks[t] \in Task /\ tasks \in [Tasks -> Task]
  BY DEF PageInv, TasksInv
<1>c. ASSUME UNCHANGED <<page, listeners, account, walletName, contexts, disclaimer>>
      PROVE  SurroundInv'
  BY <1>a, <1>c DEF SurroundInv
<1>d. tasks[t].kind \in {"establish", "update"} => UiOK(LoginFails(t), listeners, chain)
  <2>1. tasks[t].kind \in {"establish", "update"} => tasks[t].w \in Wallets /\ tasks[t].acct \in Accounts
    BY <1>a, <1>b DEF TaskOK, Task
  <2>2. UiOK(Plain("SelectingWallet"), listeners, chain)
    BY PlainOK
  <2>3. ASSUME NEW w \in Wallets, NEW a \in Accounts
        PROVE  UiOK(Show("RequestingLimits", w, a, None, None), listeners, chain)
    BY ShowType DEF UiOK, StateType, CancelableTypes, EstablishedTypes, isEstablished
  <2> QED
    BY <2>1, <2>2, <2>3 DEF LoginFails
<1>e. ASSUME tasks[t].kind \in {"update", "send"}, NEW type \in EstablishedTypes
      PROVE  UiOK(Show(type, tasks[t].w, tasks[t].acct, tasks[t].key, None), listeners, chain)
  <2>1. tasks[t].w \in Wallets /\ tasks[t].acct \in Accounts /\ tasks[t].key \in Keys
        /\ Known(chain, tasks[t].key, tasks[t].acct)
    BY <1>a, <1>b, <1>e DEF TaskOK, Task
  <2> QED
    BY <2>1, EstablishedOK
<1>f. tasks[t].kind = "update" => UiOK(UpdateFails(t), listeners, chain)
  BY <1>e DEF UpdateFails, EstablishedTypes
<1>g. tasks[t].stage \in Working => tasks[t].kind \in {"establish", "update"}
  BY <1>a DEF TaskOK
<1>1. CASE Sign(t)
  <2> DEFINE a == account[tasks[t].w]
             r == [tasks[t] EXCEPT !.stage = "sent", !.signer = a]
  <2>1. tasks' = [tasks EXCEPT ![t] = r]
    BY <1>1, <1>b DEF Sign
  <2>2. a \in Accounts
    BY <1>1, <1>a, <1>b DEF Sign, TaskOK, Task, Working, SurroundInv
  <2> HIDE DEF a
  <2>3. TaskOK(r, chain, page) /\ r.stage # "landed"
    BY <1>1, <1>a, <1>b, <2>2 DEF Sign, TaskOK, Task, Working
  <2> HIDE DEF r
  <2> QED
    BY <1>1, <1>a, <1>c, <2>1, <2>3, OneTask DEF Sign
<1>2. CASE SendSettles(t)
  <2>1. UiOK(ui', listeners, chain)
    BY <1>2, <1>a, <1>e DEF SendSettles, EstablishedTypes
  <2> QED
    BY <1>2, <1>c, <2>1, TaskEnds DEF SendSettles
<1>3. CASE AnswerFailed(t)
  <2>1. UiOK(ui', listeners, chain)
    BY <1>3, <1>a, <1>d, <1>f, <1>g DEF AnswerFailed, Working
  <2> QED
    BY <1>3, <1>c, <2>1, TaskEnds DEF AnswerFailed
<1>4. CASE AnswerRejected(t)
  <2>1. UiOK(ui', listeners, chain)
    BY <1>4, <1>a, <1>d, <1>f, <1>g DEF AnswerRejected, Working
  <2> QED
    BY <1>4, <1>c, <2>1, TaskEnds DEF AnswerRejected
<1> QED
  BY <1>1, <1>2, <1>3, <1>4

(* The transaction executes: its key was free, so nobody has captured it.  *)
LEMMA LandStep ==
  ASSUME PageInv, NEW t \in Tasks, Land(t)
  PROVE  PageInv'
<1> USE NoneAssumption
<1>a. /\ UiOK(ui, listeners, chain) /\ SurroundInv /\ TaskOK(tasks[t], chain, page)
      /\ StoredInv /\ ChainInv
  BY DEF PageInv, TasksInv
<1>b. /\ tasks[t] \in Task /\ tasks \in [Tasks -> Task] /\ chain \in [Keys -> SessionAccount]
      /\ \A u \in Tasks : TaskOK(tasks[u], chain, page)
  BY DEF PageInv, TasksInv, ChainInv
<1>1. PICK k \in Keys :
        /\ chain[k].status = "none"
        /\ chain' = [chain EXCEPT ![k] =
             [status |-> "active", acct |-> tasks[t].acct,
              limited |-> tasks[t].limited, covers |-> TRUE, seen |-> "no"]]
        /\ tasks' = [tasks EXCEPT ![t].stage = "landed", ![t].new = k]
  BY <1>a, PageType DEF Land, Page
<1>2. UNCHANGED <<ui, listeners, account, stored, walletName, contexts, disclaimer, page>>
  BY DEF Land
<1>3. /\ tasks[t].stage = "sent" /\ tasks[t].kind \in {"establish", "update"}
      /\ tasks[t].acct \in Accounts /\ tasks[t].limited \in BOOLEAN
  BY <1>a, <1>b DEF Land, TaskOK, Task, Working
<1> DEFINE n == [status |-> "active", acct |-> tasks[t].acct,
                 limited |-> tasks[t].limited, covers |-> TRUE, seen |-> "no"]
           r == [tasks[t] EXCEPT !.stage = "landed", !.new = k]
<1>4. n \in SessionAccount
  BY <1>3 DEF SessionAccount
<1>5. /\ chain' \in [Keys -> SessionAccount]
      /\ \A j \in Keys : chain'[j] = IF j = k THEN n ELSE chain[j]
  BY <1>b, <1>1, <1>4
<1>6. Keeps(chain, chain')
  BY <1>1, <1>5 DEF Keeps, Known
<1>7. \A j \in Keys, a \in Accounts \cup {None} :
        Fresh(chain, j, a) => j # k /\ Fresh(chain', j, a)
  BY <1>1, <1>5 DEF Fresh
<1>8. Fresh(chain', k, tasks[t].acct)
  BY <1>5 DEF Fresh
<1>9. tasks' = [tasks EXCEPT ![t] = r]
  BY <1>b, <1>1
<1>10. r \in Task /\ r.stage = "landed" /\ r.new = k /\ r.acct = tasks[t].acct
  BY <1>b DEF Task
<1>11. TaskOK(r, chain', page)
  <2>1. /\ r.kind = tasks[t].kind /\ r.w = tasks[t].w /\ r.key = tasks[t].key
        /\ r.aborted = tasks[t].aborted /\ r.limited = tasks[t].limited /\ r.left = tasks[t].left
    BY <1>b DEF Task
  <2> HIDE DEF r
  <2>2. r.key # None => Known(chain', r.key, r.acct)
    BY <1>a, <1>b, <1>3, <1>6, <1>10, <2>1 DEF TaskOK, Keeps, Task
  <2> QED
    BY <1>a, <1>3, <1>8, <1>10, <2>1, <2>2 DEF TaskOK, Working
<1> HIDE DEF n, r
<1>12. \A u \in Tasks : tasks'[u] = IF u = t THEN r ELSE tasks[u]
  BY <1>b, <1>9
<1>13. \A u \in Tasks : tasks[u].stage = "landed" =>
         Fresh(chain', tasks[u].new, tasks[u].acct) /\ tasks[u].new # k
  BY <1>b, <1>7 DEF TaskOK, Fresh, Task
<1>14. \A u \in Tasks : TaskOK(tasks'[u], chain', page')
  BY <1>2, <1>b, <1>6, <1>11, <1>12, <1>13, TaskFrame
<1>15. tasks' \in [Tasks -> Task]
  BY <1>b, <1>9, <1>10
<1>16. TasksInv'
  BY <1>10, <1>12, <1>13, <1>14, <1>15 DEF PageInv, TasksInv
<1>17. ChainInv'
  BY <1>a, <1>2, <1>5 DEF ChainInv, TaskOK, n
<1>18. StoredInv'
  BY <1>a, <1>2, <1>6 DEF StoredInv, Keeps, Known
<1>19. UiOK(ui', listeners', chain') /\ SurroundInv'
  BY <1>a, <1>2, <1>6, UiFrame DEF SurroundInv
<1> QED
  BY <1>16, <1>17, <1>18, <1>19 DEF PageInv

(* The answer of success: the new session is shown, or was cancelled. *)
LEMMA SuccessStep ==
  ASSUME PageInv, NEW t \in Tasks, AnswerSuccess(t)
  PROVE  PageInv'
<1> USE NoneAssumption
<1>a. /\ UiOK(ui, listeners, chain) /\ SurroundInv /\ TaskOK(tasks[t], chain, page)
      /\ StoredInv /\ ChainInv
  BY DEF PageInv, TasksInv
<1>b. /\ tasks[t] \in Task /\ tasks \in [Tasks -> Task] /\ chain \in [Keys -> SessionAccount]
      /\ \A u \in Tasks : TaskOK(tasks[u], chain, page)
  BY DEF PageInv, TasksInv, ChainInv
<1> DEFINE k == tasks[t].new
           a == tasks[t].acct
           w == tasks[t].w
           mark == IF tasks[t].aborted THEN "cancelled" ELSE "shown"
<1>1. /\ tasks[t].stage = "landed" /\ chain' = [chain EXCEPT ![k].seen = mark]
      /\ UNCHANGED <<listeners, account, walletName, contexts, disclaimer, page>>
  BY DEF AnswerSuccess
<1>2. k \in Keys /\ Fresh(chain, k, a)
  BY <1>a, <1>1 DEF TaskOK, Fresh
<1>3. w \in Wallets /\ a \in Accounts /\ tasks[t].kind \in {"establish", "update"}
      /\ (tasks[t].kind = "update" => ~tasks[t].aborted)
  BY <1>a, <1>b, <1>1 DEF TaskOK, Task, Working
<1>4. /\ chain' \in [Keys -> SessionAccount]
      /\ \A j \in Keys : j # k => chain'[j] = chain[j]
      /\ chain'[k].status = chain[k].status /\ chain'[k].acct = chain[k].acct
      /\ chain'[k].limited = chain[k].limited /\ chain'[k].seen = mark
  BY <1>b, <1>1, <1>2 DEF SessionAccount
<1>5. \A u \in Tasks : u # t /\ tasks[u].stage = "landed" =>
        Fresh(chain', tasks[u].new, tasks[u].acct)
  BY <1>b, <1>1, <1>4 DEF PageInv, TasksInv, TaskOK, Fresh
<1> HIDE DEF k, a, w, mark
<1>6. Keeps(chain, chain')
  BY <1>2, <1>4 DEF Keeps, Known, Fresh
<1>7. ASSUME NEW r, TaskOK(r, chain', page), r.stage # "landed",
             tasks' = [tasks EXCEPT ![t] = r]
      PROVE  TasksInv'
  <2>1. \A u \in Tasks : tasks'[u] = IF u = t THEN r ELSE tasks[u]
    BY <1>b, <1>7
  <2>2. \A u \in Tasks : u # t => TaskOK(tasks[u], chain', page)
    BY <1>b, <1>5, <1>6, TaskFrame
  <2>3. \A u \in Tasks : TaskOK(tasks'[u], chain', page')
    BY <1>1, <1>7, <2>1, <2>2
  <2>4. tasks' \in [Tasks -> Task]
    BY <1>b, <1>7 DEF TaskOK
  <2> QED
    BY <1>7, <2>1, <2>3, <2>4 DEF PageInv, TasksInv
<1>8. ChainInv' /\ SurroundInv'
  BY <1>a, <1>1, <1>4 DEF ChainInv, SurroundInv
<1>9. CASE tasks[t].kind = "establish" /\ tasks[t].aborted
  <2> DEFINE r == Start("revoke", w, a, k, "none")
  <2>1. tasks' = [tasks EXCEPT ![t] = r] /\ UNCHANGED <<ui, stored>>
    BY <1>b, <1>9 DEF AnswerSuccess, k, a, w
  <2>2. r \in Task /\ r.stage = "none"
    BY <1>2, <1>3, StartType
  <2>3. TaskOK(r, chain', page)
    BY <1>2, <1>3, <2>2, StartOK
  <2> HIDE DEF r
  <2>4. TasksInv'
    BY <1>7, <2>1, <2>2, <2>3
  <2>5. StoredInv'
    BY <1>a, <1>6, <2>1 DEF StoredInv, Keeps, Known
  <2>6. UiOK(ui', listeners', chain')
    BY <1>a, <1>1, <1>6, <2>1, UiFrame
  <2> QED
    BY <1>8, <2>4, <2>5, <2>6 DEF PageInv
<1>10. CASE ~(tasks[t].kind = "establish" /\ tasks[t].aborted)
  <2>1. tasks' = [tasks EXCEPT ![t] = Idle] /\ CompleteSessionSetup(k, a, w)
    BY <1>10 DEF AnswerSuccess, k, a, w
  <2>2. ~tasks[t].aborted
    BY <1>3, <1>10
  <2>3. Known(chain', k, a)
    BY <1>2, <1>4, <2>2 DEF Known, Fresh, mark
  <2>4. TaskOK(Idle, chain', page) /\ Idle.stage # "landed"
    BY IdleOK DEF Idle
  <2>5. TasksInv'
    BY <1>7, <2>1, <2>4
  <2>6. /\ UiOK(ui', listeners', chain')
        /\ stored' \in [Accounts -> Keys \cup {None}]
        /\ \A b \in Accounts : stored'[b] # None => Known(chain', stored'[b], b)
    <3>1. \A b \in Accounts, j \in Keys : Known(chain, j, b) => Known(chain', j, b)
      BY <1>6 DEF Keeps
    <3> QED
      BY <1>a, <1>2, <1>3, <2>1, <2>3, <3>1, SetupStep
  <2> QED
    BY <1>8, <2>5, <2>6 DEF PageInv, StoredInv
<1> QED
  BY <1>9, <1>10

-----------------------------------------------------------------------------
LEMMA PageInit == Init => PageInv
<1> SUFFICES ASSUME Init PROVE PageInv
  OBVIOUS
<1> USE NoneAssumption
<1>1. page \in Page /\ page.listeners \in Nat
  BY PagesAssumption DEF Init, Page
<1>2. UiOK(ui, listeners, chain)
  BY ShowType DEF Init, UiOK, Plain, StateType, EstablishedTypes, CancelableTypes, isEstablished
<1>3. \A u \in Tasks : TaskOK(tasks[u], chain, page) /\ tasks[u].stage # "landed"
  BY IdleOK DEF Init, Idle
<1>4. TasksInv
  BY <1>3 DEF Init, TasksInv, TaskOK
<1>5. StoredInv
  BY DEF Init, StoredInv
<1>6. ChainInv
  BY DEF Init, ChainInv, NoAccount, SessionAccount
<1>7. SurroundInv
  <2>1. listeners \in [Wallets -> 0 .. page.listeners]
    BY <1>1 DEF Init
  <2>2. /\ page \in Pages /\ walletName \in Wallets \cup {None} /\ disclaimer \in BOOLEAN
        /\ account \in [Wallets -> Accounts \cup {None}]
    BY DEF Init
  <2>3. contexts \in [created : 0 .. 2, ready : BOOLEAN]
    BY DEF Init
  <2> QED
    BY <2>1, <2>2, <2>3 DEF SurroundInv
<1> QED
  BY <1>2, <1>4, <1>5, <1>6, <1>7 DEF PageInv

LEMMA PageStep == PageInv /\ [Next]_vars => PageInv'
<1> SUFFICES ASSUME PageInv, [Next]_vars PROVE PageInv'
  OBVIOUS
<1>1. CASE Mount \/ ContextReady
  BY <1>1, SignInStep
<1>2. ASSUME NEW t \in Tasks, Settles(t)
      PROVE  PageInv'
  BY <1>2, ConnectingStep, CheckStep, CleanupStep DEF Settles
<1>3. ASSUME NEW t \in Tasks, Answers(t)
      PROVE  PageInv'
  BY <1>3, ConnectingStep, CleanupStep, AnswerStep, LandStep, SuccessStep DEF Answers
<1>4. CASE User
  BY <1>4, SignInStep, UserStep, CancelStep DEF User
<1>5. CASE Environment
  BY <1>5, WalletStep, WorldStep DEF Environment
<1>6. CASE UNCHANGED vars
  <2>1. SurroundInv' /\ UiOK(ui', listeners', chain)
    BY <1>6 DEF vars, PageInv, SurroundInv
  <2> QED
    BY <1>6, <2>1, NoTask DEF vars
<1> QED
  BY <1>1, <1>2, <1>3, <1>4, <1>5, <1>6 DEF Next

(* The inductive invariant: whatever order clicks, wallet events and        *)
(* promises come in, every callback has captured a session of its account. *)
THEOREM PageInvariance == Spec => []PageInv
BY PageInit, PageStep, PTL DEF Spec

(* Every variable has its type; a state with the callbacks of a session     *)
(* has a session, its account and its wallet (session-provider.tsx).       *)
THEOREM ProviderTypes == Spec => []SPTypeOK
<1>1. PageInv => SPTypeOK
  BY NoneAssumption DEF PageInv, SPTypeOK, UiOK, TasksInv, StoredInv, ChainInv, SurroundInv, Known
<1> QED
  BY <1>1, PageInvariance, PTL

(* A session that is shown or stored was granted by its account, whatever   *)
(* account the wallet has when it signs (signWithWallet).                  *)
THEOREM SessionsAreOfTheirAccounts == Spec => []SessionOfItsAccount
<1>1. PageInv => SessionOfItsAccount
  BY DEF PageInv, SessionOfItsAccount, UiOK, StoredInv, Known
<1> QED
  BY <1>1, PageInvariance, PTL

(* A login that was cancelled is neither shown nor stored by anything that  *)
(* finishes later (the abort signal of submitLimits).                      *)
THEOREM CancelledForGood == Spec => []CancelledStaysCancelled
<1>1. PageInv => CancelledStaysCancelled
  BY NoneAssumption DEF PageInv, CancelledStaysCancelled, UiOK, StoredInv, Known
<1> QED
  BY <1>1, PageInvariance, PTL

(* No path creates an unlimited session in an application that does not     *)
(* enable them (enableUnlimited).                                          *)
THEOREM UnlimitedIsEnabled == Spec => []UnlimitedOnlyIfEnabled
<1>1. PageInv => UnlimitedOnlyIfEnabled
  BY DEF PageInv, UnlimitedOnlyIfEnabled, ChainInv
<1> QED
  BY <1>1, PageInvariance, PTL

=============================================================================
