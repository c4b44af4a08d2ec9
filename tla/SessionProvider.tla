--------------------------- MODULE SessionProvider ---------------------------
(***************************************************************************)
(* The session state machine of the React SDK (session-provider.tsx): one  *)
(* page, its wallet adapters, the promises it has in flight, the stored    *)
(* session, and the session accounts that its transactions create.         *)
(*                                                                         *)
(* JavaScript runs one callback at a time, so an action is one callback    *)
(* with the microtasks it triggers.  Between two actions of a promise chain *)
(* anything else may happen: a click, a wallet event, another promise.     *)
(*                                                                         *)
(* ui      the React state of useSessionState: what is shown, and what the *)
(*         callbacks inside it have captured                               *)
(* tasks   the promises in flight, with the values they captured           *)
(* chain   the session accounts; "seen" is a history field that records    *)
(*         what the page did with the session once it learned of it        *)
(***************************************************************************)
EXTENDS Naturals, FiniteSets

CONSTANTS
  Wallets,          \* wallet adapters
  Accounts,         \* public keys a wallet can expose
  Keys,             \* session keys
  Tasks,            \* slots for promises in flight
  Pages,            \* applications and their surroundings, see Page
  None

ASSUME NoneAssumption == None \notin Wallets \cup Accounts \cup Keys \cup Tasks
(* One page: the props of its provider that the code distinguishes (tokens *)
(* is not empty, enableUnlimited, onStartSessionInit returns a promise),   *)
(* and what happens around it: the accounts and session keys in play,      *)
(* events, and a bound on the listener pairs that a wallet accumulates.    *)
Page ==
  [hasTokens : BOOLEAN, enableUnlimited : BOOLEAN, asyncInit : BOOLEAN,
   accounts : SUBSET Accounts, keys : SUBSET Keys,
   events : SUBSET {"disconnect", "switch", "expire", "registry", "reload"},
   listeners : Nat \ {0}]

ASSUME PagesAssumption == Pages \subseteq Page

VARIABLES page, ui, listeners, account, tasks, stored, walletName, chain,
          contexts, disclaimer

vars == <<page, ui, listeners, account, tasks, stored, walletName, chain,
          contexts, disclaimer>>

-----------------------------------------------------------------------------
(* session-state.ts *)

EstablishedTypes ==
  {"Established", "UpdatingSession", "RequestingExtendedExpiry",
   "RequestingIncreasedLimits"}

CancelableTypes ==
  {"SelectingWallet", "WalletConnecting", "RequestingLimits", "SettingLimits",
   "RequestingExtendedExpiry", "RequestingIncreasedLimits"}

StateType ==
  EstablishedTypes \cup CancelableTypes \cup
  {"Initializing", "CheckingStoredSession", "NotEstablished"}

SessionState ==
  [type : StateType, w : Wallets \cup {None}, acct : Accounts \cup {None},
   key : Keys \cup {None}, flow : Tasks \cup {None}]

Show(type, w, acct, key, flow) ==
  [type |-> type, w |-> w, acct |-> acct, key |-> key, flow |-> flow]

Plain(type) == Show(type, None, None, None, None)

isEstablished(s) == s.type \in EstablishedTypes
isUpdatable(s)   == isEstablished(s) /\ s.type # "UpdatingSession"
isWalletLoading(s) ==
  s.type \in {"Initializing", "CheckingStoredSession", "RequestingLimits",
             "SettingLimits", "WalletConnecting", "SelectingWallet"}

-----------------------------------------------------------------------------
(* Promises in flight *)

Idle == [kind |-> "idle", w |-> None, acct |-> None, key |-> None,
         new |-> None, signer |-> None, stage |-> "none", aborted |-> FALSE,
         limited |-> TRUE, left |-> {}]

CleanupSteps == {"disconnect", "revoke", "clear"}

Task ==
  [kind : {"idle", "init", "connect", "autoConnect", "check", "establish",
           "update", "send", "revoke", "cleanup"},
   w : Wallets \cup {None}, acct : Accounts \cup {None},
   key : Keys \cup {None}, new : Keys \cup {None},
   signer : Accounts \cup {None},
   stage : {"none", "wait", "connecting", "disconnect", "read", "reestablish",
            "sign", "sent", "landed"},
   aborted : BOOLEAN, limited : BOOLEAN, left : SUBSET CleanupSteps]

Start(kind, w, acct, key, stage) ==
  [Idle EXCEPT !.kind = kind, !.w = w, !.acct = acct, !.key = key,
               !.stage = stage]

Free == {t \in Tasks : tasks[t] = Idle}

(* getSessionContext: `sessionContext ??= await createSessionContext()`.   *)
(* The left side is read before the await: while the first creation is     *)
(* pending, every caller starts one more (counted up to 2).                *)
GetSessionContext ==
  contexts' = IF contexts.ready \/ contexts.created = 2 THEN contexts
              ELSE [contexts EXCEPT !.created = @ + 1]

SessionAccount ==
  [status : {"none", "active", "expired", "revoked"},
   acct : Accounts \cup {None}, limited : BOOLEAN, covers : BOOLEAN,
   seen : {"no", "shown", "cancelled"}]

NoAccount == [status |-> "none", acct |-> None, limited |-> TRUE,
              covers |-> TRUE, seen |-> "no"]

(* createSession: the account exists and is not revoked, and its programs  *)
(* still cover those of the domain registry.  Expiry is not looked at.     *)
CreateSession(k) ==
  chain[k].status \in {"active", "expired"} /\ chain[k].covers

(* The IndexedDB store of sessions-sdk-web, keyed by account (one network) *)
getStoredSession(a)   == stored[a]
setStoredSession(a, k) == [stored EXCEPT ![a] = k]
clearStoredSession(a) == [stored EXCEPT ![a] = None]

-----------------------------------------------------------------------------
Init ==
  /\ page \in Pages
  /\ ui = Plain("Initializing")
  /\ listeners = [w \in Wallets |-> 0]
  /\ account = [w \in Wallets |-> None]
  /\ tasks = [t \in Tasks |-> Idle]
  /\ stored = [a \in Accounts |-> None]
  /\ walletName \in Wallets \cup {None}
  /\ chain = [k \in Keys |-> NoAccount]
  /\ contexts = [created |-> 0, ready |-> FALSE]
  /\ disclaimer = FALSE

(* The effect that runs when the provider mounts. *)
Mount ==
  /\ ui.type = "Initializing"
  /\ IF walletName = None
     THEN ui' = Plain("NotEstablished") /\ UNCHANGED <<listeners, tasks>>
     ELSE \E t \in Free :
            /\ listeners' = [listeners EXCEPT ![walletName] = @ + 1]
            /\ ui' = Plain("CheckingStoredSession")
            /\ tasks' = [tasks EXCEPT ![t] =
                 Start("autoConnect", walletName, None, None, "wait")]
  /\ UNCHANGED <<account, stored, walletName, chain, contexts, disclaimer, page>>

(* createSessionContext resolves; later callers share the result. *)
ContextReady ==
  /\ contexts.created > 0 /\ ~contexts.ready
  /\ contexts' = [contexts EXCEPT !.ready = TRUE]
  /\ UNCHANGED <<ui, listeners, account, tasks, stored, walletName, chain,
                 disclaimer, page>>

-----------------------------------------------------------------------------
(* Wallet events.  ts is the value of tasks the event finds.               *)

EmitConnect(w, a, ts) ==
  /\ account' = [account EXCEPT ![w] = a]
  /\ IF listeners[w] = 0
     THEN tasks' = ts /\ UNCHANGED <<ui, contexts>>
     ELSE \E S \in SUBSET {t \in Tasks : ts[t] = Idle} :
            /\ Cardinality(S) = listeners[w]
            /\ tasks' = [t \in Tasks |->
                 IF t \in S THEN Start("check", w, a, None, "read") ELSE ts[t]]
            /\ ui' = Plain("CheckingStoredSession")
            /\ GetSessionContext

(* Mutant: the listener is removed without calling onDisconnect. *)
EmitDisconnectSilently(w) ==
  /\ account' = [account EXCEPT ![w] = None]
  /\ listeners' = [listeners EXCEPT ![w] = 0]
  /\ UNCHANGED ui

EmitDisconnect(w) ==
  /\ account' = [account EXCEPT ![w] = None]
  /\ listeners' = [listeners EXCEPT ![w] = 0]
  /\ ui' = IF listeners[w] > 0 THEN Plain("NotEstablished") ELSE ui

(* The user disconnects the page, or changes the account, in the wallet. *)
WalletDisconnects(w) ==
  /\ "disconnect" \in page.events /\ account[w] # None
  /\ EmitDisconnect(w)
  /\ UNCHANGED <<tasks, stored, walletName, chain, contexts, disclaimer, page>>

SwitchAccount(w, a) ==
  /\ "switch" \in page.events /\ account[w] \notin {None, a}
  /\ EmitConnect(w, a, tasks)
  /\ UNCHANGED <<listeners, stored, walletName, chain, disclaimer, page>>

-----------------------------------------------------------------------------
(* Signing in: the button, the dialog, connectWallet and autoConnectWallet *)

(* SessionButton.handlePress without an asynchronous onStartSessionInit *)
PressSignIn ==
  /\ ui.type = "NotEstablished" /\ ~isWalletLoading(ui) /\ ~page.asyncInit
  /\ ui' = Plain("SelectingWallet")
  /\ UNCHANGED <<listeners, account, tasks, stored, walletName, chain,
                 contexts, disclaimer, page>>

PressSignInAsync ==
  /\ ui.type = "NotEstablished" /\ ~isWalletLoading(ui) /\ page.asyncInit
  /\ \E t \in Free :
       tasks' = [tasks EXCEPT ![t] = Start("init", None, None, None, "none")]
  /\ UNCHANGED <<ui, listeners, account, stored, walletName, chain, contexts,
                 disclaimer, page>>

(* The callback's promise settles: the page starts the session, unless it  *)
(* was told not to.  The state captured at the press is not compared with  *)
(* the current one.                                                        *)
InitSettles(t) ==
  /\ tasks[t].kind = "init"
  /\ ui' \in {ui, Plain("SelectingWallet")}
  /\ tasks' = [tasks EXCEPT ![t] = Idle]
  /\ UNCHANGED <<listeners, account, stored, walletName, chain, contexts,
                 disclaimer, page>>

AcceptDisclaimer ==
  /\ ui.type = "SelectingWallet" /\ ~disclaimer
  /\ disclaimer' = TRUE
  /\ UNCHANGED <<ui, listeners, account, tasks, stored, walletName, chain,
                 contexts, page>>

SelectWallet(w) ==
  /\ ui.type = "SelectingWallet" /\ disclaimer
  /\ listeners[w] < page.listeners
  /\ \E t \in Free :
       /\ listeners' = [listeners EXCEPT ![w] = @ + 1]
       /\ ui' = Show("WalletConnecting", w, None, None, t)
       /\ tasks' = [tasks EXCEPT ![t] =
                      Start("connect", w, None, None, "connecting")]
  /\ UNCHANGED <<account, stored, walletName, chain, contexts, disclaimer, page>>

(* waitForWalletReady: the adapter reports that it is installed, or the    *)
(* three seconds are over.                                                 *)
WalletReady(t) ==
  /\ tasks[t].kind = "autoConnect" /\ tasks[t].stage = "wait"
  /\ tasks' = [tasks EXCEPT ![t].stage = "connecting"]
  /\ UNCHANGED <<ui, listeners, account, stored, walletName, chain, contexts,
                 disclaimer, page>>

(* The timeout of autoConnectWallet, which keeps running while the wallet  *)
(* is asked to connect.                                                    *)
ReadyTimeout(t) ==
  /\ tasks[t].kind = "autoConnect" /\ tasks[t].stage \in {"wait", "connecting"}
  /\ ~tasks[t].aborted
  /\ IF tasks[t].stage = "wait"
     THEN ui' = Plain("NotEstablished") /\ tasks' = [tasks EXCEPT ![t] = Idle]
     ELSE tasks' = [tasks EXCEPT ![t].aborted = TRUE] /\ UNCHANGED ui
  /\ UNCHANGED <<listeners, account, stored, walletName, chain, contexts,
                 disclaimer, page>>

(* wallet.connect() or autoConnect() resolves.  An adapter that is already *)
(* connected returns without emitting; otherwise it emits "connect" first. *)
(* An aborted attempt is undone, but only after the event was handled.     *)
ConnectResolves(t) ==
  LET w == tasks[t].w
      next == [tasks EXCEPT ![t] = IF @.aborted
                                   THEN [@ EXCEPT !.stage = "disconnect"]
                                   ELSE Idle]
  IN  /\ tasks[t].stage = "connecting"
      /\ \/ /\ account[w] # None
            /\ tasks' = next
            /\ UNCHANGED <<ui, account, contexts>>
         \/ /\ account[w] = None
            /\ \E a \in page.accounts : EmitConnect(w, a, next)
      /\ UNCHANGED <<listeners, stored, walletName, chain, disclaimer, page>>

(* It resolves without a connection: the adapter is told to disconnect. *)
ConnectResolvesUnconnected(t) ==
  /\ tasks[t].stage = "connecting" /\ account[tasks[t].w] = None
  /\ tasks' = [tasks EXCEPT ![t].stage = "disconnect"]
  /\ UNCHANGED <<ui, listeners, account, stored, walletName, chain, contexts,
                 disclaimer, page>>

ConnectRejects(t) ==
  /\ tasks[t].stage = "connecting" /\ account[tasks[t].w] = None
  /\ ui' = Plain(IF tasks[t].kind = "connect" THEN "SelectingWallet"
                                              ELSE "NotEstablished")
  /\ tasks' = [tasks EXCEPT ![t] = Idle]
  /\ UNCHANGED <<listeners, account, stored, walletName, chain, contexts,
                 disclaimer, page>>

DisconnectAfter(t) ==
  /\ tasks[t].stage = "disconnect"
  /\ EmitDisconnect(tasks[t].w)
  /\ tasks' = [tasks EXCEPT ![t] = Idle]
  /\ UNCHANGED <<stored, walletName, chain, contexts, disclaimer, page>>

-----------------------------------------------------------------------------
(* Mutant: the session is stored under the wallet's current account. *)
StoreUnderCurrentAccount(k, acct, w) ==
  /\ stored' = IF account[w] = None THEN stored
               ELSE [stored EXCEPT ![account[w]] = k]
  /\ ui' = Show("Established", w, acct, k, None)

(* completeSessionSetup: store the session (a failure is only logged) and  *)
(* show it.                                                                *)
CompleteSessionSetup(k, acct, w) ==
  /\ stored' \in {stored, setStoredSession(acct, k)}
  /\ ui' = Show("Established", w, acct, k, None)

(* submitLimits with the promise in slot t *)
SubmitLimitsIn(t, w, acct, limited) ==
  /\ ui' = Show("SettingLimits", w, acct, None, t)
  /\ tasks' = [tasks EXCEPT ![t] =
       [Start("establish", w, acct, None, "sign") EXCEPT !.limited = limited]]
  /\ GetSessionContext

AskLimits == page.hasTokens \/ page.enableUnlimited

(* checkStoredSession found nothing usable *)
NothingStored(t) ==
  /\ walletName' = tasks[t].w
  /\ IF AskLimits
     THEN /\ ui' = Show("RequestingLimits", tasks[t].w, tasks[t].acct, None, None)
          /\ tasks' = [tasks EXCEPT ![t] = Idle]
          /\ UNCHANGED contexts
     ELSE SubmitLimitsIn(t, tasks[t].w, tasks[t].acct, TRUE)

CheckRead(t) ==
  /\ tasks[t].kind = "check" /\ tasks[t].stage = "read"
  /\ IF getStoredSession(tasks[t].acct) = None
     THEN NothingStored(t)
     ELSE /\ tasks' = [tasks EXCEPT ![t].stage = "reestablish",
                                    ![t].key = getStoredSession(tasks[t].acct)]
          /\ UNCHANGED <<ui, walletName, contexts>>
  /\ UNCHANGED <<listeners, account, stored, chain, disclaimer, page>>

CheckReestablishes(t) ==
  /\ tasks[t].kind = "check" /\ tasks[t].stage = "reestablish"
  /\ contexts.ready
  /\ IF CreateSession(tasks[t].key)
     THEN /\ walletName' = tasks[t].w
          /\ CompleteSessionSetup(tasks[t].key, tasks[t].acct, tasks[t].w)
          /\ tasks' = [tasks EXCEPT ![t] = Idle]
          /\ chain' = [chain EXCEPT ![tasks[t].key].seen = "shown"]
          /\ UNCHANGED contexts
     ELSE /\ stored' = clearStoredSession(tasks[t].acct)
          /\ NothingStored(t)
          /\ UNCHANGED chain
  /\ UNCHANGED <<listeners, account, disclaimer, page>>

(* Mutant: the error is logged and onError is not called. *)
CheckRejectsQuietly(t) ==
  /\ tasks[t].kind = "check"
  /\ tasks' = [tasks EXCEPT ![t] = Idle]
  /\ UNCHANGED <<ui, listeners, account, stored, walletName, chain, contexts,
                 disclaimer, page>>

CheckRejects(t) ==
  /\ tasks[t].kind = "check"
  /\ ui' = Plain("SelectingWallet")
  /\ tasks' = [tasks EXCEPT ![t] = Idle]
  /\ UNCHANGED <<listeners, account, stored, walletName, chain, contexts,
                 disclaimer, page>>

-----------------------------------------------------------------------------
(* Mutant: the checkbox decides, whether or not it is offered. *)
FormAnyLimits == {TRUE, FALSE}

(* The limits form, in the sign-in dialog, in the renewal dialog and (with *)
(* tokens) in a tab of the panel: a limited session, or an unlimited one   *)
(* where the form offers the choice.                                       *)
FormLimited == IF page.enableUnlimited THEN {TRUE, FALSE} ELSE {TRUE}

SubmitForm(limited) ==
  \/ /\ ui.type = "RequestingLimits"
     /\ \E t \in Free : SubmitLimitsIn(t, ui.w, ui.acct, limited)
  \/ /\ isUpdatable(ui) /\ (ui.type = "Established" => page.hasTokens)
     /\ \E t \in Free :
          /\ ui' = [ui EXCEPT !.type = "UpdatingSession"]
          /\ tasks' = [tasks EXCEPT ![t] =
               [Start("update", ui.w, ui.acct, ui.key, "sign")
                  EXCEPT !.limited = limited]]
          /\ GetSessionContext

SessionLimits ==
  /\ \E limited \in FormLimited : SubmitForm(limited)
  /\ UNCHANGED <<listeners, account, stored, walletName, chain, disclaimer, page>>

(* signWithWallet signs with the account the wallet has now, not with the  *)
(* one the session is for.                                                 *)
Sign(t) ==
  /\ tasks[t].stage = "sign" /\ contexts.ready
  /\ account[tasks[t].w] # None
  /\ tasks' = [tasks EXCEPT ![t].stage = "sent",
                            ![t].signer = account[tasks[t].w]]
  /\ UNCHANGED <<ui, listeners, account, stored, walletName, chain, contexts,
                 disclaimer, page>>

(* The transaction executes: the chain accepts it if the signature is the  *)
(* wallet account's own.                                                   *)
Land(t) ==
  /\ tasks[t].stage = "sent"
  /\ tasks[t].signer = tasks[t].acct
  /\ \E k \in page.keys :
       /\ chain[k].status = "none"
       /\ chain' = [chain EXCEPT ![k] =
            [status |-> "active", acct |-> tasks[t].acct,
             limited |-> tasks[t].limited, covers |-> TRUE, seen |-> "no"]]
       /\ tasks' = [tasks EXCEPT ![t].stage = "landed", ![t].new = k]
  /\ UNCHANGED <<ui, listeners, account, stored, walletName, contexts,
                 disclaimer, page>>

(* Mutant: the abort signal is not looked at. *)
AnswerIgnoringAbort(t) ==
  LET k == tasks[t].new
  IN  /\ tasks[t].stage = "landed" /\ CreateSession(k)
      /\ tasks' = [tasks EXCEPT ![t] = Idle]
      /\ CompleteSessionSetup(k, tasks[t].acct, tasks[t].w)
      /\ chain' = [chain EXCEPT ![k].seen =
                     IF tasks[t].aborted THEN "cancelled" ELSE "shown"]
      /\ UNCHANGED <<listeners, account, walletName, contexts, disclaimer, page>>

(* establishSession and replaceSession succeed.  A login that was cancelled *)
(* meanwhile is not shown: its session is revoked instead.                 *)
AnswerSuccess(t) ==
  LET k == tasks[t].new
      cancelled == tasks[t].kind = "establish" /\ tasks[t].aborted
  IN  /\ tasks[t].stage = "landed" /\ CreateSession(k)
      /\ IF cancelled
         THEN /\ tasks' = [tasks EXCEPT ![t] =
                   Start("revoke", @.w, @.acct, k, "none")]
              /\ UNCHANGED <<ui, stored>>
         ELSE /\ tasks' = [tasks EXCEPT ![t] = Idle]
              /\ CompleteSessionSetup(k, tasks[t].acct, tasks[t].w)
      /\ chain' = [chain EXCEPT ![k].seen =
                     IF tasks[t].aborted THEN "cancelled" ELSE "shown"]
      /\ UNCHANGED <<listeners, account, walletName, contexts, disclaimer, page>>

(* onError of submitLimits: back to the limits, or to the wallet list. *)
LoginFails(t) ==
  IF AskLimits THEN Show("RequestingLimits", tasks[t].w, tasks[t].acct, None, None)
               ELSE Plain("SelectingWallet")

(* Mutant: a failed update shows the session it did not get. *)
UpdateFailsToNew(t) ==
  Show("Established", tasks[t].w, tasks[t].acct, tasks[t].new, None)

UpdateFails(t) ==
  Show("Established", tasks[t].w, tasks[t].acct, tasks[t].key, None)

(* The result is Failed (the transaction may have executed all the same).  *)
AnswerFailed(t) ==
  /\ tasks[t].stage \in {"sent", "landed"}
  /\ ui' = IF tasks[t].kind = "update" THEN UpdateFails(t)
           ELSE IF tasks[t].aborted THEN ui ELSE LoginFails(t)
  /\ tasks' = [tasks EXCEPT ![t] = Idle]
  /\ UNCHANGED <<listeners, account, stored, walletName, chain, contexts,
                 disclaimer, page>>

(* The promise is rejected: the user declines to sign, the wallet is not   *)
(* connected, the network fails.  Here an abort is not looked at.          *)
AnswerRejected(t) ==
  /\ tasks[t].stage \in {"sign", "sent", "landed"}
  /\ ui' = IF tasks[t].kind = "update" THEN UpdateFails(t) ELSE LoginFails(t)
  /\ tasks' = [tasks EXCEPT ![t] = Idle]
  /\ UNCHANGED <<listeners, account, stored, walletName, chain, contexts,
                 disclaimer, page>>

-----------------------------------------------------------------------------
(* sendTransaction of an established session *)

Send ==
  /\ isEstablished(ui)
  /\ \E t \in Free :
       tasks' = [tasks EXCEPT ![t] = Start("send", ui.w, ui.acct, ui.key, "none")]
  /\ UNCHANGED <<ui, listeners, account, stored, walletName, chain, contexts,
                 disclaimer, page>>

SendSettles(t) ==
  /\ tasks[t].kind = "send"
  /\ \/ UNCHANGED ui
     \/ /\ chain[tasks[t].key].status = "expired"
        /\ ui' = Show("RequestingExtendedExpiry", tasks[t].w, tasks[t].acct,
                      tasks[t].key, None)
     \/ /\ chain[tasks[t].key].status = "active" /\ chain[tasks[t].key].limited
        /\ ui' = Show("RequestingIncreasedLimits", tasks[t].w, tasks[t].acct,
                      tasks[t].key, None)
  /\ tasks' = [tasks EXCEPT ![t] = Idle]
  /\ UNCHANGED <<listeners, account, stored, walletName, chain, contexts,
                 disclaimer, page>>

-----------------------------------------------------------------------------
(* disconnect(wallet, network, sessionInfo?) *)
Disconnect(w, acct, key, ts) ==
  \E t \in Free :
    tasks' = [ts EXCEPT ![t] =
      [Start("cleanup", w, acct, key, "none") EXCEPT
         !.left = IF key = None THEN {"disconnect"} ELSE CleanupSteps]]

(* Log Out in the session panel, shown for every state that has a session *)
EndSession ==
  /\ isEstablished(ui)
  /\ Disconnect(ui.w, ui.acct, ui.key, tasks)
  /\ GetSessionContext
  /\ UNCHANGED <<ui, listeners, account, stored, walletName, chain, disclaimer, page>>

(* The cancel callbacks of connectWallet and submitLimits, called by       *)
(* closing the sign-in dialog                                              *)
Abort(t) == [tasks EXCEPT ![t].aborted = TRUE]

CancelSignIn ==
  /\ \/ /\ ui.type = "SelectingWallet"
        /\ ui' = Plain("NotEstablished")
        /\ UNCHANGED tasks
     \/ /\ ui.type = "WalletConnecting"
        /\ ui' = Plain("NotEstablished")
        /\ tasks' = IF tasks[ui.flow].kind = "connect" THEN Abort(ui.flow) ELSE tasks
     \/ /\ ui.type = "RequestingLimits"
        /\ Disconnect(ui.w, ui.acct, None, tasks)
        /\ UNCHANGED ui
     \/ /\ ui.type = "SettingLimits"
        /\ Disconnect(ui.w, ui.acct, None,
             IF tasks[ui.flow].kind = "establish" THEN Abort(ui.flow) ELSE tasks)
        /\ UNCHANGED ui
  /\ UNCHANGED <<listeners, account, stored, walletName, chain, contexts,
                 disclaimer, page>>

(* Closing the renewal dialog *)
CancelRenewal ==
  /\ ui.type \in {"RequestingExtendedExpiry", "RequestingIncreasedLimits"}
  /\ ui' = Show("Established", ui.w, ui.acct, ui.key, None)
  /\ UNCHANGED <<listeners, account, tasks, stored, walletName, chain, contexts,
                 disclaimer, page>>

(* revokeSession: revoked, or reported Failed, or rejected *)
RevokeOutcomes(k) == {chain, [chain EXCEPT ![k].status = "revoked"]}

RevokeSettles(t) ==
  /\ tasks[t].kind = "revoke"
  /\ chain' \in RevokeOutcomes(tasks[t].key)
  /\ tasks' = [tasks EXCEPT ![t] = Idle]
  /\ UNCHANGED <<ui, listeners, account, stored, walletName, contexts,
                 disclaimer, page>>

CleanupDisconnect(t) ==
  /\ tasks[t].kind = "cleanup" /\ "disconnect" \in tasks[t].left
  /\ EmitDisconnect(tasks[t].w)
  /\ tasks' = [tasks EXCEPT ![t].left = @ \ {"disconnect"}]
  /\ UNCHANGED <<stored, walletName, chain, contexts, disclaimer, page>>

(* aborted records that a step was rejected, so that the last one of       *)
(* Promise.all does not happen                                             *)
CleanupRevoke(t) ==
  /\ tasks[t].kind = "cleanup" /\ "revoke" \in tasks[t].left
  /\ contexts.ready
  /\ chain' \in RevokeOutcomes(tasks[t].key)
  /\ \E rejected \in {FALSE} \cup {chain' = chain} :
       tasks' = [tasks EXCEPT ![t].left = @ \ {"revoke"},
                              ![t].aborted = @ \/ rejected]
  /\ UNCHANGED <<ui, listeners, account, stored, walletName, contexts,
                 disclaimer, page>>

CleanupClear(t) ==
  /\ tasks[t].kind = "cleanup" /\ "clear" \in tasks[t].left
  /\ \E rejected \in BOOLEAN :
       /\ stored' = IF rejected THEN stored
                    ELSE clearStoredSession(tasks[t].acct)
       /\ tasks' = [tasks EXCEPT ![t].left = @ \ {"clear"},
                                 ![t].aborted = @ \/ rejected]
  /\ UNCHANGED <<ui, listeners, account, walletName, chain, contexts,
                 disclaimer, page>>

CleanupFinishes(t) ==
  /\ tasks[t].kind = "cleanup" /\ tasks[t].left = {}
  /\ walletName' = IF tasks[t].aborted THEN walletName ELSE None
  /\ tasks' = [tasks EXCEPT ![t] = Idle]
  /\ UNCHANGED <<ui, listeners, account, stored, chain, contexts, disclaimer, page>>

-----------------------------------------------------------------------------
(* Time passes, the registry of the domain gains a program, the page is    *)
(* loaded again (which drops every promise).                               *)
Expire(k) ==
  /\ "expire" \in page.events /\ chain[k].status = "active"
  /\ chain' = [chain EXCEPT ![k].status = "expired"]
  /\ UNCHANGED <<ui, listeners, account, tasks, stored, walletName, contexts,
                 disclaimer, page>>

RegistryGrows ==
  /\ "registry" \in page.events
  /\ \E k \in Keys : chain[k].status # "none" /\ chain[k].covers
  /\ chain' = [k \in Keys |-> IF chain[k].status = "none" THEN chain[k]
                              ELSE [chain[k] EXCEPT !.covers = FALSE]]
  /\ UNCHANGED <<ui, listeners, account, tasks, stored, walletName, contexts,
                 disclaimer, page>>

Reload ==
  /\ "reload" \in page.events /\ ui.type # "Initializing"
  /\ ui' = Plain("Initializing")
  /\ listeners' = [w \in Wallets |-> 0]
  /\ account' = [w \in Wallets |-> None]
  /\ tasks' = [t \in Tasks |-> Idle]
  /\ contexts' = [created |-> 0, ready |-> FALSE]
  /\ UNCHANGED <<stored, walletName, chain, disclaimer, page>>

-----------------------------------------------------------------------------
Settles(t) ==
  \/ WalletReady(t) \/ ReadyTimeout(t)
  \/ ConnectResolves(t) \/ ConnectResolvesUnconnected(t) \/ ConnectRejects(t)
  \/ DisconnectAfter(t)
  \/ CheckRead(t) \/ CheckReestablishes(t) \/ CheckRejects(t)
  \/ CleanupDisconnect(t) \/ CleanupRevoke(t) \/ CleanupClear(t)
  \/ CleanupFinishes(t)

Answers(t) ==
  \/ InitSettles(t) \/ SendSettles(t) \/ RevokeSettles(t)
  \/ Sign(t) \/ Land(t)
  \/ AnswerSuccess(t) \/ AnswerFailed(t) \/ AnswerRejected(t)

User ==
  \/ PressSignIn \/ PressSignInAsync \/ AcceptDisclaimer
  \/ \E w \in Wallets : SelectWallet(w)
  \/ SessionLimits \/ Send \/ EndSession \/ CancelSignIn \/ CancelRenewal

Environment ==
  \/ \E w \in Wallets : WalletDisconnects(w) \/ \E a \in page.accounts : SwitchAccount(w, a)
  \/ \E k \in Keys : Expire(k)
  \/ RegistryGrows \/ Reload

Next ==
  \/ Mount \/ ContextReady
  \/ \E t \in Tasks : Settles(t) \/ Answers(t)
  \/ User \/ Environment

Spec == Init /\ [][Next]_vars

(* Promises that need nobody's click settle; what waits for the user in a  *)
(* wallet window may wait for ever.                                        *)
FairSpec ==
  /\ Spec
  /\ WF_vars(Mount) /\ WF_vars(ContextReady)
  /\ \A t \in Tasks : WF_vars(Settles(t))

-----------------------------------------------------------------------------
(* Properties *)

(* Every variable has its type, and a state with the callbacks of a        *)
(* session has a session, its account and its wallet.                      *)
SPTypeOK ==
  /\ ui \in SessionState
  /\ isEstablished(ui) => ui.w # None /\ ui.acct # None /\ ui.key # None
  /\ page \in Pages
  /\ listeners \in [Wallets -> 0..page.listeners]
  /\ account \in [Wallets -> Accounts \cup {None}]
  /\ tasks \in [Tasks -> Task]
  /\ stored \in [Accounts -> Keys \cup {None}]
  /\ walletName \in Wallets \cup {None}
  /\ chain \in [Keys -> SessionAccount]
  /\ contexts \in [created : 0..2, ready : BOOLEAN]
  /\ disclaimer \in BOOLEAN

(* The session that is shown, and the session stored for an account, were  *)
(* granted by that account, although the wallet signs with whatever account *)
(* it has selected when the request arrives (signWithWallet) and accounts  *)
(* can be switched at any time.                                            *)
SessionOfItsAccount ==
  /\ isEstablished(ui) => chain[ui.key].acct = ui.acct
  /\ \A a \in Accounts : stored[a] # None => chain[stored[a]].acct = a

(* A login cancelled while its transaction was in flight never comes back: *)
(* its session is neither shown nor stored, whatever finishes later.       *)
CancelledStaysCancelled ==
  \A k \in Keys : chain[k].seen = "cancelled" =>
    /\ ~(isEstablished(ui) /\ ui.key = k)
    /\ \A a \in Accounts : stored[a] # k

(* "Fix bug that allowed creating unlimited sessions when enableUnlimited  *)
(* is false or undefined": no path, the form or the direct login of a      *)
(* tokenless app, creates one.                                             *)
UnlimitedOnlyIfEnabled ==
  \A k \in Keys : chain[k].status # "none" /\ ~chain[k].limited => page.enableUnlimited

(* The spinner that cannot be cancelled ends: checking the stored session  *)
(* always leads to another state.                                          *)
CheckingEnds ==
  ui.type = "CheckingStoredSession" ~> ui.type # "CheckingStoredSession"

(* Logging out leaves the session state, as long as the page still listens *)
(* to the wallet.                                                          *)
LogoutLeaves ==
  \A w \in Wallets, t \in Tasks :
    /\ tasks[t].kind = "cleanup" /\ tasks[t].w = w
    /\ "disconnect" \in tasks[t].left /\ listeners[w] > 0
    ~> ~isEstablished(ui) \/ ui.w # w

-----------------------------------------------------------------------------
(* What the change logs say and the code does not do *)

(* "End session on wallet disconnect" (CHANGELOG of the React SDK): with   *)
(* nothing in flight, a session is shown only while its wallet is          *)
(* connected.                                                              *)
EndOnDisconnect ==
  (isEstablished(ui) /\ Free = Tasks) => account[ui.w] # None

(* "Ensure session context only gets initialized once".                    *)
ContextOnce == contexts.created <= 1

(* "Revoke sessions when logging out": a logout whose steps all succeeded  *)
(* leaves no session active that the page has shown for the account.       *)
LogoutRevokes ==
  \A t \in Tasks :
    LET job == tasks[t]
    IN  /\ job.kind = "cleanup" /\ job.left = {} /\ job.key # None
        /\ chain[job.key].status = "revoked"
        => \A k \in Keys :
             chain[k].seen = "shown" /\ chain[k].acct = job.acct
             => chain[k].status # "active"
==============================================================================
