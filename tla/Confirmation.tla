----------------------------- MODULE Confirmation -----------------------------
(***************************************************************************)
(* Sending a signed transaction and waiting for its confirmation           *)
(* (services/paymaster/src/rpc.rs, and PubsubClientWithReconnect in        *)
(* api.rs).  The tasks are calls of send_and_confirm_transaction, and of   *)
(* send_and_confirm_transaction_ftl for the tasks in Ftl; they run on one  *)
(* tokio runtime, interleave at every await, and share one WebSocket       *)
(* client behind an ArcSwap.  A step below is the code between two awaits. *)
(*                                                                         *)
(* The chain, the RPC server and the WebSocket connections are external.   *)
(* A transaction counts as landed when it is processed, the commitment     *)
(* level of all clients; rolled back blocks are not modelled.              *)
(***************************************************************************)
EXTENDS Integers

CONSTANTS
    Tasks,          \* calls of send_and_confirm_transaction
    Ftl,            \* the ones that go through the FTL service
    Txs,            \* signed transactions
    TxOf,           \* TxOf[t]: the transaction of a task
    Nobody,         \* not a task
    MaxClients      \* bound on WebSocket clients that are ever created

ASSUME ConfirmationAssumption ==
    /\ Ftl \subseteq Tasks
    /\ TxOf \in [Tasks -> Txs]
    /\ Nobody \notin Tasks
    /\ MaxClients \in Nat \ {0}

VARIABLES
    pc,             \* pc[t]: the await at which task t is
    frame,          \* frame[t]: its parameters and local variables
    result,         \* result[t]: what it returns
    client,         \* the current client; they are numbered as created
    lock,           \* reconnect_lock: its owner, or Nobody
    alive,          \* clients whose connection is open
    chain,          \* chain[x]: fate of transaction x
    replaced        \* history: replaced[c] was current when the call of
                    \* reconnect_pubsub that created client c began

socket == << client, lock, alive, replaced >>
cvars == << pc, frame, result, client, lock, alive, chain, replaced >>

Clients == 1 .. MaxClients
NoClient == 0

(* simulate is ~skip_preflight, reconnect the parameter of                 *)
(* subscribe_and_wait_for_signature, held the client whose guard the task  *)
(* has, old the old_client of reconnect_pubsub; failedOn, a history, is    *)
(* the client on which the first subscription failed.                      *)
Frame == [simulate  : BOOLEAN,
          reconnect : BOOLEAN,
          held      : Clients \union {NoClient},
          old       : Clients \union {NoClient},
          failedOn  : Clients \union {NoClient}]

NewFrame(simulate) == [simulate |-> simulate, reconnect |-> TRUE, held |-> NoClient,
                       old |-> NoClient, failedOn |-> NoClient]

CInit ==
    /\ pc = [t \in Tasks |-> "idle"]
    /\ frame = [t \in Tasks |-> NewFrame(FALSE)]
    /\ result = [t \in Tasks |-> "none"]
    /\ client = 1
    /\ lock = Nobody
    /\ alive = {1}
    /\ chain = [x \in Txs |-> "unsent"]
    /\ replaced = [c \in Clients |-> NoClient]

Goto(t, l) == pc' = [pc EXCEPT ![t] = l]

Leave(t) == /\ Goto(t, "returned")
            /\ frame' = [frame EXCEPT ![t] = NewFrame(FALSE)]

Return(t, r) == /\ Leave(t)
                /\ result' = [result EXCEPT ![t] = r]

-----------------------------------------------------------------------------
(* Sending. *)

Begin(t, simulate) ==
    /\ pc[t] = "idle"
    /\ Goto(t, "send")
    /\ frame' = [frame EXCEPT ![t] = NewFrame(simulate)]
    /\ UNCHANGED << result, socket, chain >>

(* The network has the transaction; sending it again changes nothing. *)
Submitted(x) == [chain EXCEPT ![x] = IF @ = "unsent" THEN "sent" ELSE @]

Send(t) ==
    /\ pc[t] = "send"
    /\ chain' = Submitted(TxOf[t])
    /\ Goto(t, IF t \in Ftl THEN "ftl" ELSE "load")
    /\ UNCHANGED << frame, result, socket >>

(* UnconfirmedPreflightFailure. *)
PreflightFails(t) ==
    /\ pc[t] = "send"
    /\ frame[t].simulate
    /\ Return(t, "preflight")
    /\ UNCHANGED << socket, chain >>

(* A lost answer and a refused request look alike: PooledHttpSender gives  *)
(* up after 30 seconds, when the node may have the transaction.            *)
SendFails(t) ==
    /\ pc[t] = "send"
    /\ chain' \in {chain, Submitted(TxOf[t])}
    /\ Return(t, "error")
    /\ UNCHANGED socket

Landed(x) == chain[x] \in {"ok", "err"}

(* Mutant: a signature that has a status is a success. *)
AnyStatusIsSuccess(s) == "success"

(* What confirm_transaction makes of a signature's status. *)
Outcome(s) == IF s = "ok" THEN "success" ELSE "failed"

FtlConfirms(t) ==
    /\ pc[t] = "ftl"
    /\ Landed(TxOf[t])
    /\ Return(t, Outcome(chain[TxOf[t]]))
    /\ UNCHANGED << socket, chain >>

FtlFails(t) ==
    /\ pc[t] = "ftl"
    /\ Return(t, "error")
    /\ UNCHANGED << socket, chain >>

-----------------------------------------------------------------------------
(* subscribe_and_wait_for_signature. *)

LoadClient(t) ==
    /\ pc[t] = "load"
    /\ Goto(t, "subscribe")
    /\ frame' = [frame EXCEPT ![t].held = client]
    /\ UNCHANGED << result, socket, chain >>

Subscribed(t) ==
    /\ pc[t] = "subscribe"
    /\ frame[t].held \in alive
    /\ Goto(t, "wait")
    /\ UNCHANGED << frame, result, socket, chain >>

(* The connection is broken, or the server refuses the subscription.  The  *)
(* first failure calls reconnect_pubsub, which loads old_client before it  *)
(* waits for the lock.                                                     *)
SubscribeFails(t) ==
    /\ pc[t] = "subscribe"
    /\ IF frame[t].reconnect
       THEN /\ Goto(t, "lock")
            /\ frame' = [frame EXCEPT ![t].old = client, ![t].failedOn = frame[t].held]
            /\ UNCHANGED result
       ELSE Return(t, "error")
    /\ UNCHANGED << socket, chain >>

(* The result is settled, and the task unsubscribes before it returns it. *)
Settle(t, r) == /\ Goto(t, "unsubscribe")
                /\ result' = [result EXCEPT ![t] = r]
                /\ UNCHANGED frame

(* A stream that was opened on an old client goes on: its guard keeps that *)
(* client.                                                                 *)
Notified(t) ==
    /\ pc[t] = "wait"
    /\ frame[t].held \in alive
    /\ Landed(TxOf[t])
    /\ Settle(t, Outcome(chain[TxOf[t]]))
    /\ UNCHANGED << socket, chain >>

StreamEnds(t) ==
    /\ pc[t] = "wait"
    /\ frame[t].held \notin alive
    /\ Settle(t, "error")
    /\ UNCHANGED << socket, chain >>

(* CONFIRMATION_TIMEOUT: the transaction may have landed, or land later. *)
TimesOut(t) ==
    /\ pc[t] = "wait"
    /\ Settle(t, "error")
    /\ UNCHANGED << socket, chain >>

Unsubscribed(t) ==
    /\ pc[t] = "unsubscribe"
    /\ Leave(t)
    /\ UNCHANGED << result, socket, chain >>

-----------------------------------------------------------------------------
(* reconnect_pubsub. *)

StartConnecting(t) == /\ lock' = t
                      /\ Goto(t, "connect")
                      /\ UNCHANGED frame

(* Subscribe again with reconnect = false. *)
Retry(t) == /\ Goto(t, "load")
            /\ frame' = [frame EXCEPT ![t].reconnect = FALSE]

(* Mutant: the client is not compared after the lock was acquired. *)
AcquireUnchecked(t) ==
    /\ pc[t] = "lock"
    /\ lock = Nobody
    /\ StartConnecting(t)
    /\ UNCHANGED << result, client, alive, replaced, chain >>

(* Mutant: a task that finds the lock taken retries at once. *)
AcquireOrSkip(t) ==
    /\ pc[t] = "lock"
    /\ IF lock = Nobody /\ client = frame[t].old
       THEN StartConnecting(t)
       ELSE Retry(t) /\ UNCHANGED lock
    /\ UNCHANGED << result, client, alive, replaced, chain >>

(* The lock is free; if another task has replaced the client while this    *)
(* one waited, it is released at once.                                     *)
AcquireLock(t) ==
    /\ pc[t] = "lock"
    /\ lock = Nobody
    /\ IF client = frame[t].old
       THEN StartConnecting(t)
       ELSE Retry(t) /\ UNCHANGED lock
    /\ UNCHANGED << result, client, alive, replaced, chain >>

(* Mutant: the new client is not stored. *)
ConnectedNotStored(t) ==
    /\ pc[t] = "connect"
    /\ client < MaxClients
    /\ alive' = alive \union {client + 1}
    /\ replaced' = [replaced EXCEPT ![client + 1] = frame[t].old]
    /\ lock' = Nobody
    /\ Retry(t)
    /\ UNCHANGED << result, client, chain >>

Connected(t) ==
    /\ pc[t] = "connect"
    /\ client < MaxClients
    /\ client' = client + 1
    /\ alive' = alive \union {client + 1}
    /\ replaced' = [replaced EXCEPT ![client + 1] = frame[t].old]
    /\ lock' = Nobody
    /\ Retry(t)
    /\ UNCHANGED << result, chain >>

(* Mutant: the lock stays with a task that failed to connect. *)
ConnectFailsLocked(t) ==
    /\ pc[t] = "connect"
    /\ Return(t, "error")
    /\ UNCHANGED << socket, chain >>

(* PubsubClient::new fails; the guard of the lock is dropped on return. *)
ConnectFails(t) ==
    /\ pc[t] = "connect"
    /\ lock' = Nobody
    /\ Return(t, "error")
    /\ UNCHANGED << client, alive, replaced, chain >>

-----------------------------------------------------------------------------
(* The chain and the network. *)
Land(x, s) == /\ chain[x] = "sent"
              /\ chain' = [chain EXCEPT ![x] = s]
              /\ UNCHANGED << pc, frame, result, socket >>

Break(c) == /\ c \in alive
            /\ alive' = alive \ {c}
            /\ UNCHANGED << pc, frame, result, client, lock, replaced, chain >>

Environment == \/ \E x \in Txs, s \in {"ok", "err", "expired"} : Land(x, s)
               \/ \E c \in Clients : Break(c)

(* The steps of a call that end within a time the code sets: HTTP requests *)
(* time out after 30 seconds, the confirmation after 60, and the lock is   *)
(* handed over in the order of arrival.                                    *)
TimedStep(t) ==
    \/ Send(t) \/ PreflightFails(t) \/ SendFails(t)
    \/ FtlConfirms(t) \/ FtlFails(t)
    \/ LoadClient(t)
    \/ Notified(t) \/ StreamEnds(t) \/ TimesOut(t)
    \/ AcquireLock(t)

(* The steps that wait for the WebSocket server without a timeout. *)
ServerStep(t) ==
    \/ Subscribed(t) \/ SubscribeFails(t)
    \/ Connected(t) \/ ConnectFails(t)
    \/ Unsubscribed(t)

CNext == \/ \E t \in Tasks, simulate \in BOOLEAN : Begin(t, simulate)
         \/ \E t \in Tasks : TimedStep(t) \/ ServerStep(t)
         \/ Environment

(* Weak fairness of TimedStep is what the timeouts and the runtime give.   *)
(* That of ServerStep is an assumption on the WebSocket server: it answers *)
(* requests and handshakes, with an error if need be.                      *)
CSpec == /\ CInit /\ [][CNext]_cvars
         /\ \A t \in Tasks : WF_cvars(TimedStep(t)) /\ WF_cvars(ServerStep(t))

-----------------------------------------------------------------------------
Labels == {"idle", "send", "ftl", "load", "subscribe", "wait", "unsubscribe",
           "lock", "connect", "returned"}

CTypeOK ==
    /\ pc \in [Tasks -> Labels]
    /\ frame \in [Tasks -> Frame]
    /\ result \in [Tasks -> {"none", "success", "failed", "preflight", "error"}]
    /\ client \in Clients
    /\ lock \in Tasks \union {Nobody}
    /\ alive \subseteq 1 .. client
    /\ chain \in [Txs -> {"unsent", "sent", "ok", "err", "expired"}]
    /\ replaced \in [Clients -> Clients \union {NoClient}]

(* Success and Failed tell what happened to the transaction on chain, also *)
(* when it was submitted twice, the connection broke and the subscription  *)
(* was made again, or the confirmation raced the timeout                   *)
(* (ConfirmationResultInternal, rpc.rs).                                   *)
ResultsAreTrue ==
    \A t \in Tasks : /\ result[t] = "success" => chain[TxOf[t]] = "ok"
                     /\ result[t] = "failed" => chain[TxOf[t]] = "err"

(* The one retry of subscribe_and_wait_for_signature never uses the client *)
(* on which the first attempt failed: reconnect_pubsub returns Ok only     *)
(* when the client was replaced, by this task or by another.               *)
RetryOnAnotherClient ==
    \A t \in Tasks : pc[t] \in {"subscribe", "wait"} /\ ~ frame[t].reconnect
                     => frame[t].held # frame[t].failedOn

(* Tasks that fail on the same client reconnect once: each client replaced *)
(* its predecessor, so no two of them were made for the same one, however  *)
(* many tasks waited for reconnect_lock meanwhile.                         *)
ReconnectsCollapse == \A c \in 2 .. client : replaced[c] = c - 1

(* Every call of send_and_confirm_transaction returns, if the server       *)
(* answers: the transaction may never land, connections may break at any   *)
(* time and reconnections fail, and no task waits for the lock forever.    *)
EveryCallReturns == \A t \in Tasks : pc[t] = "send" ~> pc[t] = "returned"
=============================================================================
