--------------------------- MODULE PaymasterProofs ---------------------------
(***************************************************************************)
(* Theorems about Confirmation and Paymaster, for any number of requests,  *)
(* tasks, transactions, configurations and clients.  What is shown of the  *)
(* calls of send_and_confirm_transaction alone carries over to the         *)
(* paymaster, because every step of it is a step of Confirmation or leaves *)
(* its state alone.                                                        *)
(***************************************************************************)
EXTENDS Paymaster, TLAPS

(***************************************************************************)
(* send_and_confirm_transaction                                            *)
(***************************************************************************)

(* reconnect_lock belongs to the task that is connecting, and this task    *)
(* still sees the client it wants to replace.                              *)
LockInv ==
    \A t \in Tasks :
        /\ pc[t] = "connect" <=> lock = t
        /\ pc[t] = "connect" => frame[t].old = client

(* What a task has seen is not newer than the current client, and once it  *)
(* retries, the client on which it failed is not current any more.         *)
SeenInv ==
    \A t \in Tasks :
        /\ frame[t].held <= client
        /\ frame[t].old <= client
        /\ pc[t] \in {"lock", "connect"} => frame[t].failedOn <= frame[t].old
        /\ ~ frame[t].reconnect => frame[t].failedOn < client


SocketInv == LockInv /\ SeenInv /\ RetryOnAnotherClient /\ ReconnectsCollapse

CInv == CTypeOK /\ SocketInv /\ ResultsAreTrue

-----------------------------------------------------------------------------
(* The state stays well formed. *)
LEMMA CTypeStep == CTypeOK /\ [CNext]_cvars => CTypeOK'
<1> SUFFICES ASSUME CTypeOK, [CNext]_cvars
             PROVE  CTypeOK'
  OBVIOUS
<1> USE ConfirmationAssumption
<1>1. \A b \in BOOLEAN : NewFrame(b) \in Frame
  BY DEF NewFrame, Frame, NoClient
<1>2. ASSUME NEW t \in Tasks, NEW simulate \in BOOLEAN, Begin(t, simulate)
      PROVE  CTypeOK'
  BY <1>1, <1>2 DEF CTypeOK, Begin, Goto, socket, Labels
<1>3. ASSUME NEW t \in Tasks, NEW r \in {"success", "failed", "preflight", "error"},
             Return(t, r)
      PROVE  /\ pc' \in [Tasks -> Labels]
             /\ frame' \in [Tasks -> Frame]
             /\ result' \in [Tasks -> {"none", "success", "failed", "preflight", "error"}]
  BY <1>1, <1>3 DEF CTypeOK, Return, Leave, Goto, Labels
<1>10. ASSUME NEW t \in Tasks, NEW r \in {"success", "failed", "preflight", "error"},
              Settle(t, r)
       PROVE  /\ pc' \in [Tasks -> Labels]
              /\ frame' \in [Tasks -> Frame]
              /\ result' \in [Tasks -> {"none", "success", "failed", "preflight", "error"}]
  BY <1>10 DEF CTypeOK, Settle, Goto, Labels
<1>4. \A x \in Txs : Submitted(x) \in [Txs -> {"unsent", "sent", "ok", "err", "expired"}]
  BY DEF CTypeOK, Submitted
<1>5. \A s : Outcome(s) \in {"success", "failed", "preflight", "error"}
  BY DEF Outcome
<1>6. ASSUME NEW t \in Tasks, TimedStep(t)
      PROVE  CTypeOK'
  <2>1. CASE Send(t)
    BY <2>1, <1>4 DEF CTypeOK, Send, Goto, socket, Labels
  <2>2. CASE PreflightFails(t)
    BY <2>2, <1>3 DEF CTypeOK, PreflightFails, socket
  <2>3. CASE SendFails(t)
    BY <2>3, <1>3, <1>4 DEF CTypeOK, SendFails, socket
  <2>4. CASE FtlConfirms(t)
    BY <2>4, <1>3, <1>5 DEF CTypeOK, FtlConfirms, socket
  <2>5. CASE FtlFails(t)
    BY <2>5, <1>3 DEF CTypeOK, FtlFails, socket
  <2>6. CASE LoadClient(t)
    BY <2>6 DEF CTypeOK, LoadClient, Goto, socket, Labels, Frame
  <2>7. CASE Notified(t)
    BY <2>7, <1>10, <1>5 DEF CTypeOK, Notified, socket
  <2>8. CASE StreamEnds(t)
    BY <2>8, <1>10 DEF CTypeOK, StreamEnds, socket
  <2>9. CASE TimesOut(t)
    BY <2>9, <1>10 DEF CTypeOK, TimesOut, socket
  <2>10. CASE AcquireLock(t)
    <3>1. CASE client = frame[t].old
      BY <2>10, <3>1 DEF CTypeOK, AcquireLock, StartConnecting, Goto, Labels
    <3>2. CASE client # frame[t].old
      <4>0. /\ frame' = [frame EXCEPT ![t].reconnect = FALSE]
            /\ frame \in [Tasks -> Frame]
        BY <2>10, <3>2 DEF CTypeOK, AcquireLock, Retry
      <4>1. frame' \in [Tasks -> Frame]
        BY <4>0 DEF Frame
      <4> QED
        BY <2>10, <3>2, <4>1 DEF CTypeOK, AcquireLock, Retry, Goto, Labels
    <3> QED
      BY <3>1, <3>2
  <2> QED
    BY <1>6, <2>1, <2>2, <2>3, <2>4, <2>5, <2>6, <2>7, <2>8, <2>9, <2>10 DEF TimedStep
<1>7. ASSUME NEW t \in Tasks, ServerStep(t)
      PROVE  CTypeOK'
  <2>1. CASE Subscribed(t)
    BY <2>1 DEF CTypeOK, Subscribed, Goto, socket, Labels
  <2>2. CASE SubscribeFails(t) /\ frame[t].reconnect
    BY <2>2 DEF CTypeOK, SubscribeFails, Goto, socket, Labels, Frame
  <2>3. CASE SubscribeFails(t) /\ ~ frame[t].reconnect
    BY <2>3, <1>3 DEF CTypeOK, SubscribeFails, socket
  <2>4. CASE Connected(t)
    <3>1. /\ client' \in Clients
          /\ alive' \subseteq 1 .. client'
          /\ replaced' \in [Clients -> Clients \union {NoClient}]
      BY <2>4 DEF CTypeOK, Connected, Clients, Frame
    <3>2. frame' = [frame EXCEPT ![t].reconnect = FALSE] /\ frame \in [Tasks -> Frame]
      BY <2>4 DEF CTypeOK, Connected, Retry
    <3>3. frame' \in [Tasks -> Frame]
      BY <3>2 DEF Frame
    <3> QED
      BY <2>4, <3>1, <3>3 DEF CTypeOK, Connected, Retry, Goto, Labels
  <2>5. CASE ConnectFails(t)
    BY <2>5, <1>3 DEF CTypeOK, ConnectFails
  <2>6. CASE Unsubscribed(t)
    BY <2>6, <1>1 DEF CTypeOK, Unsubscribed, Leave, Goto, socket, Labels
  <2> QED
    BY <1>7, <2>1, <2>2, <2>3, <2>4, <2>5, <2>6 DEF ServerStep
<1>8. ASSUME Environment
      PROVE  CTypeOK'
  BY <1>8 DEF CTypeOK, Environment, Land, Break, socket
<1>9. CASE UNCHANGED cvars
  BY <1>9 DEF CTypeOK, cvars
<1> QED
  BY <1>2, <1>6, <1>7, <1>8, <1>9 DEF CNext

(* The fate of a landed transaction does not change. *)
LEMMA LandedStable == CTypeOK /\ [CNext]_cvars => \A x \in Txs : Landed(x) => chain'[x] = chain[x]
  BY ConfirmationAssumption
     DEF CNext, TimedStep, ServerStep, Environment, CTypeOK, cvars, socket, Landed,
         Begin, Send, Submitted, PreflightFails, SendFails, FtlConfirms, FtlFails,
         LoadClient, Subscribed, SubscribeFails, Notified, StreamEnds, TimesOut,
         AcquireLock, Connected, ConnectFails, Unsubscribed, Land, Break

(* A step leaves the results true: what the chain says of a landed         *)
(* transaction does not change.                                            *)
LEMMA ResultsStep == CTypeOK /\ ResultsAreTrue /\ [CNext]_cvars => ResultsAreTrue'
<1> SUFFICES ASSUME CTypeOK, ResultsAreTrue, [CNext]_cvars
             PROVE  ResultsAreTrue'
  OBVIOUS
<1> USE ConfirmationAssumption
<1>1. \A x \in Txs : Landed(x) => chain'[x] = chain[x]
  BY LandedStable
<1>2. ASSUME NEW t \in Tasks
      PROVE  \/ result'[t] = result[t]
             \/ result'[t] \in {"preflight", "error"}
             \/ Landed(TxOf[t]) /\ result'[t] = Outcome(chain[TxOf[t]])
  <2>1. ASSUME NEW u \in Tasks, NEW r, Return(u, r) \/ Settle(u, r)
        PROVE  result'[t] = IF t = u THEN r ELSE result[t]
    BY <2>1 DEF Return, Settle, CTypeOK
  <2>2. ASSUME NEW u \in Tasks, TimedStep(u)
        PROVE  <1>2!2
    BY <2>1, <2>2 DEF TimedStep, Send, PreflightFails, SendFails, FtlConfirms, FtlFails,
         LoadClient, Notified, StreamEnds, TimesOut, AcquireLock
  <2>3. ASSUME NEW u \in Tasks, ServerStep(u)
        PROVE  <1>2!2
    BY <2>1, <2>3 DEF ServerStep, Subscribed, SubscribeFails, Connected, ConnectFails,
         Unsubscribed
  <2> QED
    BY <2>2, <2>3 DEF CNext, Begin, Environment, Land, Break, cvars
<1> QED
  BY <1>1, <1>2 DEF ResultsAreTrue, Landed, Outcome

(* A task that returns, or that has not yet failed to subscribe, says      *)
(* nothing about the clients it has seen.                                  *)
LEMMA SocketReturn ==
    ASSUME CTypeOK, SocketInv, NEW t \in Tasks, Leave(t),
           pc[t] # "connect", UNCHANGED socket
    PROVE  SocketInv'
<1>1. /\ pc'[t] = "returned"
      /\ frame'[t].held = 0 /\ frame'[t].old = 0 /\ frame'[t].failedOn = 0
      /\ frame'[t].reconnect
  BY DEF CTypeOK, Leave, Goto, NewFrame, NoClient
<1>2. \A u \in Tasks : u # t => pc'[u] = pc[u] /\ frame'[u] = frame[u]
  BY DEF CTypeOK, Leave, Goto
<1>3. client \in Nat
  BY ConfirmationAssumption DEF CTypeOK, Clients
<1> QED
  BY <1>1, <1>2, <1>3
     DEF SocketInv, LockInv, SeenInv, RetryOnAnotherClient, ReconnectsCollapse, socket

(* A step preserves the invariant of the WebSocket client. *)
LEMMA SocketStep == CTypeOK /\ SocketInv /\ [CNext]_cvars => SocketInv'
<1> SUFFICES ASSUME CTypeOK, SocketInv, [CNext]_cvars
             PROVE  SocketInv'
  OBVIOUS
<1> USE ConfirmationAssumption
<1> USE DEF SocketInv, LockInv, SeenInv, RetryOnAnotherClient, ReconnectsCollapse
<1>0. /\ client \in Nat
      /\ \A t \in Tasks : frame[t].held \in Nat /\ frame[t].old \in Nat /\ frame[t].failedOn \in Nat
  BY DEF CTypeOK, Clients, Frame, NoClient
<1>1. ASSUME NEW t \in Tasks, NEW simulate \in BOOLEAN, Begin(t, simulate)
      PROVE  SocketInv'
  <2>1. /\ pc[t] = "idle"
        /\ pc'[t] = "send"
        /\ frame'[t].held = 0 /\ frame'[t].old = 0 /\ frame'[t].failedOn = 0
        /\ frame'[t].reconnect
    BY <1>1 DEF CTypeOK, Begin, Goto, NewFrame, NoClient
  <2>2. \A u \in Tasks : u # t => pc'[u] = pc[u] /\ frame'[u] = frame[u]
    BY <1>1 DEF CTypeOK, Begin, Goto
  <2> QED
    BY <1>0, <1>1, <2>1, <2>2 DEF Begin, socket
<1>2. ASSUME NEW t \in Tasks, TimedStep(t)
      PROVE  SocketInv'
  <2>1. CASE Send(t)
    BY <2>1, <1>0 DEF CTypeOK, Send, Goto, socket
  <2>2. CASE \/ PreflightFails(t) \/ SendFails(t) \/ FtlConfirms(t) \/ FtlFails(t)
    BY <2>2, SocketReturn DEF PreflightFails, SendFails, FtlConfirms, FtlFails, Return
  <2>6. CASE Notified(t) \/ StreamEnds(t) \/ TimesOut(t)
    <3>1. /\ pc[t] = "wait" /\ pc'[t] = "unsubscribe"
          /\ \A u \in Tasks : u # t => pc'[u] = pc[u]
          /\ UNCHANGED << frame, socket >>
      BY <2>6 DEF CTypeOK, Notified, StreamEnds, TimesOut, Settle, Goto
    <3> QED
      BY <1>0, <3>1 DEF socket
  <2>3. CASE LoadClient(t)
    <3>1. /\ pc[t] = "load" /\ pc'[t] = "subscribe"
          /\ frame'[t].held = client
          /\ frame'[t].old = frame[t].old
          /\ frame'[t].failedOn = frame[t].failedOn
          /\ frame'[t].reconnect = frame[t].reconnect
      BY <2>3 DEF CTypeOK, LoadClient, Goto, Frame
    <3>2. \A u \in Tasks : u # t => pc'[u] = pc[u] /\ frame'[u] = frame[u]
      BY <2>3 DEF CTypeOK, LoadClient, Goto
    <3> QED
      BY <2>3, <1>0, <3>1, <3>2 DEF LoadClient, socket
  <2>4. CASE AcquireLock(t) /\ client = frame[t].old
    BY <2>4, <1>0 DEF CTypeOK, AcquireLock, StartConnecting, Goto
  <2>5. CASE AcquireLock(t) /\ client # frame[t].old
    <3>1. /\ pc[t] = "lock" /\ pc'[t] = "load"
          /\ frame'[t].held = frame[t].held
          /\ frame'[t].old = frame[t].old
          /\ frame'[t].failedOn = frame[t].failedOn
      BY <2>5 DEF CTypeOK, AcquireLock, Retry, Goto, Frame
    <3>2. \A u \in Tasks : u # t => pc'[u] = pc[u] /\ frame'[u] = frame[u]
      BY <2>5 DEF CTypeOK, AcquireLock, Retry, Goto
    <3>3. UNCHANGED socket
      BY <2>5 DEF AcquireLock, socket
    <3> QED
      BY <2>5, <1>0, <3>1, <3>2, <3>3 DEF socket
  <2> QED
    BY <1>2, <2>1, <2>2, <2>3, <2>4, <2>5, <2>6 DEF TimedStep
<1>3. ASSUME NEW t \in Tasks, ServerStep(t)
      PROVE  SocketInv'
  <2>1. CASE Subscribed(t)
    BY <2>1, <1>0 DEF CTypeOK, Subscribed, Goto, socket
  <2>2. CASE SubscribeFails(t) /\ frame[t].reconnect
    <3>1. /\ pc[t] = "subscribe" /\ pc'[t] = "lock"
          /\ frame'[t].held = frame[t].held
          /\ frame'[t].old = client
          /\ frame'[t].failedOn = frame[t].held
          /\ frame'[t].reconnect
      BY <2>2 DEF CTypeOK, SubscribeFails, Goto, Frame
    <3>2. \A u \in Tasks : u # t => pc'[u] = pc[u] /\ frame'[u] = frame[u]
      BY <2>2 DEF CTypeOK, SubscribeFails, Goto
    <3> QED
      BY <2>2, <1>0, <3>1, <3>2 DEF SubscribeFails, socket
  <2>3. CASE SubscribeFails(t) /\ ~ frame[t].reconnect
    BY <2>3, SocketReturn DEF SubscribeFails, Return
  <2>4. CASE Connected(t)
    <3>1. /\ pc[t] = "connect" /\ pc'[t] = "load"
          /\ frame'[t].held = frame[t].held
          /\ frame'[t].old = frame[t].old
          /\ frame'[t].failedOn = frame[t].failedOn
      BY <2>4 DEF CTypeOK, Connected, Retry, Goto, Frame
    <3>2. \A u \in Tasks : u # t => pc'[u] = pc[u] /\ frame'[u] = frame[u]
      BY <2>4 DEF CTypeOK, Connected, Retry, Goto
    <3>3. /\ client' = client + 1 /\ lock' = Nobody /\ lock = t
          /\ frame[t].old = client
      BY <2>4 DEF Connected
    <3>4. \A u \in Tasks : u # t => pc[u] # "connect"
      BY <3>3
    <3>5. \A c \in 2 .. client' : replaced'[c] = c - 1
      BY <2>4, <1>0, <3>3 DEF Connected, CTypeOK, Clients
    <3>6. LockInv'
      BY <3>1, <3>2, <3>3, <3>4
    <3>7. SeenInv' /\ RetryOnAnotherClient'
      BY <1>0, <3>1, <3>2, <3>3, <3>4
    <3> QED
      BY <3>5, <3>6, <3>7
  <2>5. CASE ConnectFails(t)
    <3>1. /\ pc[t] = "connect" /\ pc'[t] = "returned"
          /\ frame'[t].held = 0 /\ frame'[t].old = 0 /\ frame'[t].failedOn = 0
          /\ frame'[t].reconnect
      BY <2>5 DEF CTypeOK, ConnectFails, Return, Leave, Goto, NewFrame, NoClient
    <3>2. \A u \in Tasks : u # t => pc'[u] = pc[u] /\ frame'[u] = frame[u]
      BY <2>5 DEF CTypeOK, ConnectFails, Return, Leave, Goto
    <3> QED
      BY <2>5, <1>0, <3>1, <3>2 DEF ConnectFails
  <2>6. CASE Unsubscribed(t)
    BY <2>6, SocketReturn DEF Unsubscribed
  <2> QED
    BY <1>3, <2>1, <2>2, <2>3, <2>4, <2>5, <2>6 DEF ServerStep
<1>4. CASE Environment
  BY <1>4 DEF Environment, Land, Break, socket
<1>5. CASE UNCHANGED cvars
  BY <1>5 DEF cvars
<1> QED
  BY <1>1, <1>2, <1>3, <1>4, <1>5 DEF CNext

-----------------------------------------------------------------------------
(* The invariant holds initially, and every step preserves it. *)
LEMMA CInvInit == CInit => CInv
<1> SUFFICES ASSUME CInit PROVE CInv
  OBVIOUS
<1> USE ConfirmationAssumption DEF CInit
<1>1. CTypeOK
  BY DEF CTypeOK, NewFrame, Frame, NoClient, Clients, Labels
<1>2. SocketInv
  BY DEF SocketInv, LockInv, SeenInv, RetryOnAnotherClient, ReconnectsCollapse, NewFrame, NoClient
<1>3. ResultsAreTrue
  BY DEF ResultsAreTrue
<1> QED
  BY <1>1, <1>2, <1>3 DEF CInv

(* CInv is inductive. *)
LEMMA CInvStep == CInv /\ [CNext]_cvars => CInv'
BY CTypeStep, SocketStep, ResultsStep DEF CInv

(* CInv is an invariant of the calls of send_and_confirm_transaction. *)
THEOREM ConfirmationInvariance == CSpec => []CInv
BY CInvInit, CInvStep, PTL DEF CSpec

(* For any number of tasks: the client in use is one that was created, the *)
(* lock belongs to a task or to nobody, and only clients that exist are    *)
(* alive.                                                                  *)
THEOREM ConfirmationTypes == CSpec => []CTypeOK
<1>1. CInv => CTypeOK
  BY DEF CInv
<1> QED
  BY <1>1, ConfirmationInvariance, PTL

(* For any number of tasks: Success and Failed tell the transaction's fate *)
(* on chain.                                                               *)
THEOREM TrueResults == CSpec => []ResultsAreTrue
<1>1. CInv => ResultsAreTrue
  BY DEF CInv
<1> QED
  BY <1>1, ConfirmationInvariance, PTL

(* For any number of tasks: the retry never uses the client that failed. *)
THEOREM RetriesElsewhere == CSpec => []RetryOnAnotherClient
<1>1. CInv => RetryOnAnotherClient
  BY DEF CInv, SocketInv
<1> QED
  BY <1>1, ConfirmationInvariance, PTL

(* For any number of tasks: tasks that fail on one client together         *)
(* reconnect once.                                                         *)
THEOREM OneReconnect == CSpec => []ReconnectsCollapse
<1>1. CInv => ReconnectsCollapse
  BY DEF CInv, SocketInv
<1> QED
  BY <1>1, ConfirmationInvariance, PTL

-----------------------------------------------------------------------------
(***************************************************************************)
(* The paymaster                                                           *)
(***************************************************************************)

HTypeOK == /\ domains \in Configs
           /\ handler \in [Requests -> {"idle", "validate", "sending", "done"}]
           /\ guard \in [Requests -> Configs \union {NoConfig}]
           /\ swap \in [Requests -> BOOLEAN]
           /\ seen \in [Requests -> SUBSET Configs]

(* While a request is validated, the configuration it holds is one of      *)
(* those it has seen, and its fee payer is a sponsor there.                *)
GuardInv ==
    \A r \in Requests :
        handler[r] = "validate" =>
            /\ guard[r] \in Configs
            /\ guard[r] \in seen[r]
            /\ DomainOf[r] \in DOMAIN guard[r]
            /\ PayerOk(guard[r], r)

(* A swap that is still to start follows a transaction that has landed. *)
SwapInv ==
    \A r \in Requests :
        /\ handler[r] \in {"idle", "validate"} => ~ swap[r]
        /\ handler[r] = "done" /\ swap[r] => Landed(TxOf[r])

PInv == /\ CInv
        /\ HTypeOK
        /\ GuardInv
        /\ SignedUnderOneConfig
        /\ SwapInv
        /\ SwapFollowsLanding

-----------------------------------------------------------------------------
(* A step of the paymaster is one of Confirmation, or none. *)
LEMMA StepOfConfirmation ==
    ASSUME HTypeOK, GuardInv, [Next]_vars
    PROVE  [CNext]_cvars
<1> USE PaymasterAssumption
<1>1. ASSUME NEW r \in Requests, Validated(r)
      PROVE  CNext
  <2>1. guard[r][DomainOf[r]].preflight \in BOOLEAN
    BY <1>1 DEF Validated, GuardInv
  <2> QED
    BY <1>1, <2>1 DEF Validated, CNext
<1>2. ASSUME NEW r \in Requests, StartSwap(r)
      PROVE  CNext
  BY <1>2 DEF StartSwap, CNext
<1>3. ASSUME NEW r \in Requests, Arrive(r) \/ Rejected(r) \/ Sent(r) \/ SkipSwap(r)
      PROVE  UNCHANGED cvars
  BY <1>3 DEF Arrive, Rejected, Sent, SkipSwap
<1> QED
  BY <1>1, <1>2, <1>3 DEF Next, HandlerStep, CNext, RefreshConfig, PollBalances, StoreBalances, vars

(* A step preserves what the handler relies on. *)
LEMMA HandlerInvariant ==
    ASSUME PInv, [Next]_vars
    PROVE  HTypeOK' /\ GuardInv' /\ SignedUnderOneConfig'
<1> USE PaymasterAssumption
<1> USE DEF PInv, HTypeOK, GuardInv, SignedUnderOneConfig
<1>1. ASSUME NEW r \in Requests, Arrive(r)
      PROVE  HTypeOK' /\ GuardInv' /\ SignedUnderOneConfig'
  <2>1. CASE Admissible(r)
    BY <1>1, <2>1 DEF Arrive, Admissible, server
  <2>2. CASE ~ Admissible(r)
    BY <1>1, <2>2 DEF Arrive, Respond, server
  <2> QED
    BY <2>1, <2>2
<1>2. ASSUME NEW r \in Requests, Validated(r)
      PROVE  HTypeOK' /\ GuardInv' /\ SignedUnderOneConfig'
  <2>1. PICK v \in Variation(guard[r], r) : /\ TxOf[r] \in v.accepts
                                            /\ swap' = [swap EXCEPT ![r] = v.swap]
    BY <1>2 DEF Validated, Candidates
  <2>2. v.swap \in BOOLEAN
    BY <1>2, <2>1 DEF Validated, Variation
  <2>3. /\ handler' = [handler EXCEPT ![r] = "sending"]
        /\ UNCHANGED << domains, guard, seen >>
        /\ handler[r] = "validate"
    BY <1>2 DEF Validated, server
  <2>4. HTypeOK'
    BY <2>1, <2>2, <2>3
  <2>5. GuardInv'
    BY <2>3
  <2>6. SignedUnderOneConfig'
    BY <2>1, <2>3
  <2> QED
    BY <2>4, <2>5, <2>6
<1>3. ASSUME NEW r \in Requests, Rejected(r)
      PROVE  HTypeOK' /\ GuardInv' /\ SignedUnderOneConfig'
  BY <1>3 DEF Rejected, Respond, server
<1>4. ASSUME NEW r \in Requests, Sent(r)
      PROVE  HTypeOK' /\ GuardInv' /\ SignedUnderOneConfig'
  <2>1. Confirmed(r) \in BOOLEAN
    BY DEF Confirmed
  <2>2. swap' \in [Requests -> BOOLEAN]
    BY <1>4, <2>1 DEF Sent
  <2> QED
    BY <1>4, <2>2 DEF Sent, Respond, server
<1>5. ASSUME NEW r \in Requests, StartSwap(r) \/ SkipSwap(r)
      PROVE  HTypeOK' /\ GuardInv' /\ SignedUnderOneConfig'
  BY <1>5 DEF StartSwap, SkipSwap, server
<1>6. ASSUME NEW c \in Configs, RefreshConfig(c)
      PROVE  HTypeOK' /\ GuardInv' /\ SignedUnderOneConfig'
  BY <1>6 DEF RefreshConfig
<1>7. ASSUME UNCHANGED << domains, handler, guard, swap, seen >>
      PROVE  HTypeOK' /\ GuardInv' /\ SignedUnderOneConfig'
  BY <1>7
<1>8. ASSUME UNCHANGED << server, requests >> \/ PollBalances
             \/ (\E low \in SUBSET Wallets : StoreBalances(low)) \/ UNCHANGED vars
      PROVE  UNCHANGED << domains, handler, guard, swap, seen >>
  BY <1>8 DEF server, requests, PollBalances, StoreBalances, vars
<1> QED
  BY <1>1, <1>2, <1>3, <1>4, <1>5, <1>6, <1>7, <1>8 DEF Next, HandlerStep

(* A step preserves what swaps rely on. *)
LEMMA SwapInvariant ==
    ASSUME PInv, [Next]_vars
    PROVE  SwapInv' /\ SwapFollowsLanding'
<1> USE PaymasterAssumption, ConfirmationAssumption
<1>0. /\ CTypeOK
      /\ \A x \in Txs : Landed(x) => Landed(x)'
      /\ \A r \in Requests : Confirmed(r) => Landed(TxOf[r])
  <2>1. [CNext]_cvars
    BY StepOfConfirmation DEF PInv
  <2>2. CTypeOK /\ ResultsAreTrue
    BY DEF PInv, CInv
  <2>3. \A x \in Txs : Landed(x) => Landed(x)'
    BY <2>1, <2>2, LandedStable DEF Landed
  <2> QED
    BY <2>2, <2>3 DEF ResultsAreTrue, Confirmed, Landed
<1> USE DEF PInv, HTypeOK, SwapInv, SwapFollowsLanding
<1>1. ASSUME NEW r \in Requests, Sent(r)
      PROVE  SwapInv'
  <2>1. \A q \in Requests : q # r => handler'[q] = handler[q] /\ swap'[q] = swap[q]
    BY <1>1 DEF Sent, Respond
  <2>2. swap'[r] => Confirmed(r)
    BY <1>1 DEF Sent
  <2>3. handler'[r] = "done"
    BY <1>1 DEF Sent, Respond
  <2> QED
    BY <1>0, <2>1, <2>2, <2>3
<1>2. ASSUME NEW r \in Requests, Arrive(r) \/ Rejected(r)
      PROVE  SwapInv'
  <2>1. \A q \in Requests : q # r => handler'[q] = handler[q]
    BY <1>2 DEF Arrive, Rejected, Respond
  <2>2. UNCHANGED swap /\ handler[r] \in {"idle", "validate"}
    BY <1>2 DEF Arrive, Rejected
  <2> QED
    BY <1>0, <2>1, <2>2
<1>3. ASSUME NEW r \in Requests, Validated(r)
      PROVE  SwapInv'
  <2>1. \A q \in Requests : q # r => handler'[q] = handler[q] /\ swap'[q] = swap[q]
    BY <1>3 DEF Validated
  <2>2. handler'[r] = "sending"
    BY <1>3 DEF Validated
  <2> QED
    BY <1>0, <2>1, <2>2
<1>4. ASSUME NEW r \in Requests, StartSwap(r) \/ SkipSwap(r)
      PROVE  SwapInv'
  BY <1>4, <1>0 DEF StartSwap, SkipSwap
<1>5. ASSUME UNCHANGED << handler, swap >>
      PROVE  SwapInv'
  BY <1>5, <1>0
<1>6. ASSUME \/ UNCHANGED << server, requests >> \/ PollBalances
             \/ \E c \in Configs : RefreshConfig(c)
             \/ \E low \in SUBSET Wallets : StoreBalances(low)
             \/ UNCHANGED vars
      PROVE  UNCHANGED << handler, swap >>
  BY <1>6 DEF requests, PollBalances, StoreBalances, RefreshConfig, vars
<1>7. SwapInv'
  BY <1>1, <1>2, <1>3, <1>4, <1>5, <1>6 DEF Next, HandlerStep
<1>8. ASSUME NEW r \in Requests, pc[SwapOf[r]] = "idle", pc'[SwapOf[r]] # "idle"
      PROVE  handler[r] = "done" /\ swap[r]
  <2>1. ASSUME NEW q \in Requests, StartSwap(q)
        PROVE  handler[r] = "done" /\ swap[r]
    <3>1. SwapOf[r] = SwapOf[q]
      BY <1>8, <1>0, <2>1 DEF StartSwap, Begin, Goto, CTypeOK
    <3> QED
      BY <2>1, <3>1 DEF StartSwap
  <2>2. ASSUME NEW q \in Requests, Validated(q)
        PROVE  pc'[SwapOf[r]] = pc[SwapOf[r]]
    BY <2>2, <1>0 DEF Validated, Begin, Goto, CTypeOK
  <2>3. ASSUME NEW t \in Tasks, TimedStep(t) \/ ServerStep(t)
        PROVE  pc'[SwapOf[r]] = "idle"
    <3>1. pc[t] # "idle"
      BY <2>3 DEF TimedStep, ServerStep, Send, PreflightFails, SendFails, FtlConfirms,
         FtlFails, LoadClient, Notified, StreamEnds, TimesOut, AcquireLock,
         Subscribed, SubscribeFails, Connected, ConnectFails, Unsubscribed
    <3>2. \E l : Goto(t, l)
      BY <2>3 DEF TimedStep, ServerStep, Send, PreflightFails, SendFails, FtlConfirms,
         FtlFails, LoadClient, Notified, StreamEnds, TimesOut, AcquireLock,
         Subscribed, SubscribeFails, Connected, ConnectFails, Unsubscribed,
         Return, Leave, Settle, Retry, StartConnecting
    <3> QED
      BY <1>0, <1>8, <3>1, <3>2 DEF Goto, CTypeOK
  <2>4. ASSUME Environment \/ UNCHANGED cvars
        PROVE  UNCHANGED pc
    BY <2>4 DEF Environment, Land, Break, cvars
  <2>5. ASSUME NEW q \in Requests, Arrive(q) \/ Rejected(q) \/ Sent(q) \/ SkipSwap(q)
        PROVE  UNCHANGED cvars
    BY <2>5 DEF Arrive, Rejected, Sent, SkipSwap
  <2> QED
    BY <1>8, <2>1, <2>2, <2>3, <2>4, <2>5
       DEF Next, HandlerStep, RefreshConfig, PollBalances, StoreBalances, vars
<1>9. SwapFollowsLanding'
  BY <1>0, <1>8
<1> QED
  BY <1>7, <1>9

-----------------------------------------------------------------------------
(* The invariant holds initially. *)
LEMMA PInvInit == Init => PInv
<1> SUFFICES ASSUME Init PROVE PInv
  OBVIOUS
<1>1. CInv
  BY CInvInit DEF Init
<1>2. /\ HTypeOK /\ GuardInv /\ SignedUnderOneConfig
      /\ SwapInv /\ SwapFollowsLanding
  BY PaymasterAssumption DEF Init, CInit, HTypeOK, GuardInv, SignedUnderOneConfig, SwapInv, SwapFollowsLanding
<1> QED
  BY <1>1, <1>2 DEF PInv

(* PInv is inductive. *)
LEMMA PInvStep == PInv /\ [Next]_vars => PInv'
<1> SUFFICES ASSUME PInv, [Next]_vars PROVE PInv'
  OBVIOUS
<1>1. CInv'
  BY StepOfConfirmation, CInvStep DEF PInv
<1> QED
  BY <1>1, HandlerInvariant, SwapInvariant DEF PInv

(* PInv is an invariant of the paymaster. *)
THEOREM PaymasterInvariance == Spec => []PInv
BY PInvInit, PInvStep, PTL DEF Spec

(* For any number of requests and configurations: a sponsor signs only     *)
(* what one configuration allows as a whole.                               *)
THEOREM OneConfig == Spec => []SignedUnderOneConfig
<1>1. PInv => SignedUnderOneConfig
  BY DEF PInv
<1> QED
  BY <1>1, PaymasterInvariance, PTL

(* For any number of requests: swaps follow landed transactions. *)
THEOREM SwapsFollow == Spec => []SwapFollowsLanding
<1>1. PInv => SwapFollowsLanding
  BY DEF PInv
<1> QED
  BY <1>1, PaymasterInvariance, PTL
=============================================================================
