# Fogo Sessions: TLA+ specifications, model checking and proofs

Fogo Sessions lets a Solana wallet sign one text message and then use an app
without further signatures and without gas: on-chain programs turn the message
into a *session* with limited rights, and a *paymaster* service signs the app's
transactions as fee payer. This directory specifies the parts of the repository
in which money or authority can get into the wrong hands, on chain, in the
services and in the browser, checks them with TLC on small instances, and proves
the safety of every component that keeps state, on chain, in the paymaster and in
the browser, with TLAPS for every instance.

- `*.tla`, one module per component, an abstract module per promise (`Grant`,
  `DomainLists`, `TransferBook`), and the `...Proofs` modules with the theorems (those
  about `Grant` are in `SessionManagerProofs`, those about `Confirmation` in
  `PaymasterProofs`).
- `MC*.tla` and `*.cfg`, the instances for TLC.
- `PROJECT.json`, the machine-readable index: components, runs, the source lines
  of every definition, mutants, hazards, findings, theorems.

Run `tlc -workers 2 -config SessionManager.cfg MCSessionManager` and the like for the runs,
and `tlapm SessionManagerProofs.tla` and the like for the proofs.

## 1. Inventory of the system

| Part | State | Operations | Interacts with |
| --- | --- | --- | --- |
| session manager program (`programs/session-manager`) | one account per session key: version, user, expiration, authorised programs and tokens, sponsor, revoked or active | `start_session`, `revoke_session`, `close_session` | reads the domain registry and the chain id; approves and revokes delegations of the token program |
| session SDK for programs (`packages/sessions-sdk-rs`) | none; reads the session account | `get_user_checked`, token permission checks | called by every app program and by the token program's fork |
| domain registry (`programs/domain-registry`) | authority; per domain a resizable array of programs, with its rent | `initialize`, `update_authority`, `add_program`, `remove_program` | read by `start_session` |
| chain id (`programs/chain-id`) | one string, written once | `set` | read by the session manager and intent transfer |
| intent transfer (`programs/intent-transfer`) | nonce per wallet and kind of message; fee and NTT configuration per mint | `send_tokens`, `send_native`, `bridge_ntt_tokens`, `register_fee_config`, `register_ntt_config` | token program, system program, Wormhole NTT manager |
| tollbooth, example (`programs/tollbooth`, `programs/example`) | none | `pay_toll`, `example_transfer` | spend as a session |
| solana-intents (`packages/solana-intents`) | none | takes signer and message out of the ed25519 instruction, opens the envelope, parses the text | used by both programs above |
| paymaster service (`services/paymaster`) | current domain configuration, wallet balances, WebSocket client, lookup table cache, round-robin counters | `sponsor_and_send`, `sponsor_pubkey`, `fee`; refreshers; swaps | RPC node, FTL, WebSocket server, PostgreSQL, Valiant |
| sessions-sdk-ts (`packages/sessions-sdk-ts`) | a connection with its sponsor and lookup table caches; contexts that captured sponsors | establish, re-establish, replace and revoke sessions; send transactions; transfers and bridging; login tokens; the signed messages | paymaster, RPC node, wallets |
| sessions-sdk-react (`packages/sessions-sdk-react`) | the provider's session state and the promises behind it; screens, forms and cached data of the wallet panel | connect, sign in, renew, update, end session; send, withdraw, deposit, unwrap | sessions-sdk-ts, wallet adapters, sessions-sdk-web |
| sessions-sdk-web (`packages/sessions-sdk-web`) | the stored session of each network and account, in IndexedDB | get, set, clear | used by the provider |
| component library (`packages/component-library`) | `useAsync`: the state of one promise; `useData`: cached data | | used by the panel and the admin app |
| paymaster-admin (`apps/paymaster-admin`) | open editors of transaction variations; the rows of the database | edit, save, create, delete, test a variation | PostgreSQL, the transaction validator |
| other apps, scripts, IDLs | none of the protocol's | | |

What is hard in it, and what makes each part correct:

- **Session manager.** Messages are public once submitted, so anybody may submit
  one again, in any order, at any time. The rights are kept in three places
  (session account, token delegations, registry) that change independently.
  *Correct* means that the wallet never loses more than it signed, that nothing
  survives the end of a session, and that sponsors get their rent back.
- **Domain registry.** A hand-written resizable array that moves lamports by hand.
  *Correct* means it behaves like a set of programs and loses neither programs
  nor lamports.
- **Intent transfer.** The same message is accepted by two instructions;
  configuration changes between signature and execution; accounts may alias; NTT
  truncates. *Correct* means a message is executed once, in order, for what it
  says.
- **Paymaster.** Tasks interleave at every `await` and share a configuration, a
  client and a lock; every answer of the network may be lost, late or duplicated.
  *Correct* means that it signs only what a configuration allows, reports only
  what happened, and always answers.
- **SDK.** Caches that fill when an answer arrives, whoever asked; a sponsor that is
  captured in one place and looked up in another. *Correct* means the transaction names
  the fee payer it really has, and that a token of a dead session opens nothing.
- **Signed text.** An amount passes through three conversions and a message through any of
  four envelopes before a program reads it. *Correct* means that the program reads what
  the form showed.
- **Provider and panel.** Promises that resolve after the user has moved on, wallets
  that switch accounts or disconnect at any moment, listeners that fire twice.
  *Correct* means that a session is shown and stored for the account that granted it, that
  a cancelled login stays cancelled, that no screen waits for ever, and that a
  transfer is the one that was shown.
- **Variation editor.** Saves that await a token while the editor goes on, and several
  editors of one row. *Correct* means what is stored or reported is what was shown.

The hazards list of `PROJECT.json` gives each difficulty with the line where it
bites and the properties that cover it, or why none does yet.

## 2. The modules

| Module | Models | Extends / uses |
| --- | --- | --- |
| `TokenAmount` | conversion of a signed decimal amount to token units | |
| `SignedIntent` | the session message, its limits, the largest amount it allows (`WithinAllowance`) | `TokenAmount` |
| `Grant` | **abstract**: what signing a message grants | `SignedIntent` |
| `SessionAccount` | the account layout in all its versions, and the checks of the SDK | `SignedIntent` |
| `SessionManager` | the three instructions, the token accounts, spends of sessions and ordinary delegates, the registry as sets, rent, time | `SessionAccount`; implements `Grant` |
| `DomainLists` | **abstract**: a set of programs per domain | |
| `DomainRegistry` | the four instructions on arrays, rent and account ownership | implements `DomainLists` |
| `TransferIntent` | the transfer and bridge messages | `TokenAmount` |
| `TransferBook` | **abstract**: what the wallets may rely on | `TransferIntent` |
| `IntentTransfer` | the five instructions | `TransferIntent`; implements `TransferBook` |
| `Confirmation` | sending, confirming, reconnecting | |
| `Paymaster` | the request handler, the swap it spawns, both refreshers | `Confirmation` |
| `SessionClient` | the TypeScript SDK: connection, caches, contexts, calls in flight, login tokens, with the paymaster and the chain around it | |
| `SessionProvider` | the React provider: its state machine, promises in flight, wallet events, dialogs, and the stored session | |
| `AmountText` | the amount field of a form, `stringToAmount`, both copies of `amountToString`, the program's reading | |
| `SignedMessage` | the message around that amount: request, envelope, what the wallet reports, Ed25519 instruction, `Intent::load` | `AmountText` |
| `WalletPanel` | screens and forms of the wallet panel, cached fees and balances, transfers in flight and on chain | |
| `VariationEditor` | paymaster-admin: editors, panes, saves, deletions, the tester and its temporary files | |

Correspondence with the code:

- **On-chain programs.** Solana executes a transaction atomically and undoes a
  failed one. Hence an instruction is one action: its guard is the conjunction of
  its checks, its effect everything the handler and the Anchor constraints do
  (account creation, reallocation, refund, close, approvals). A rejected call is
  no step. The token program, the system program, the NTT manager and the clock
  are external, modelled from the way the programs call them. Account data is
  abstract: an address is a model value or a function of its seeds, and the signed
  text is a record of its fields (parsing is left to its unit tests); the
  signature check is the membership in the constant set `Intents`.
- **`SessionManager`** keeps `session[k]`, `lamports[k]`, `ata[u][m]` (amount,
  delegate, delegated amount), `registry`, `wallet` for sponsors and `now`.
  `StartSession(i, sp, mintOf)` chooses in `mintOf` which mint a symbol resolves to,
  as the submitter does by the accounts it passes. `origin`, `used` and `listed` are
  history variables: the message a session was started by, what was spent under
  each message, and what a domain ever listed.
- **`DomainRegistry`** lets a record that lost its last program exist without
  lamports until `Reap`: the runtime removes it at the end of the transaction, and
  what happens in between belongs to the same transaction.
- **`Confirmation` and `Paymaster`.** The tasks run on one tokio runtime; a step
  is the code between two awaits, and `pc[t]` names the await. `frame[t]` holds the
  parameters and locals. Clients are numbered in the order of their creation;
  `replaced` remembers for which client each was created. `Ftl` tasks go
  through the FTL service. A transaction lands at `processed` commitment, which is
  the one the code uses; blocks that are rolled back later are not modelled.
  `Paymaster` holds `guard[r]`, the configuration of the request (an ArcSwap guard),
  and `seen[r]`, a history of the configurations that were current until the
  request was signed. Which transactions a variation accepts is a parameter.
- **The TypeScript modules.** JavaScript runs one callback at a time, so an action is
  one callback with the microtasks it triggers, and every `await`, promise, wallet event
  or click is a place where any other action may come in between. A promise in
  flight is a task, call, transfer or request with the values its closure captured; React
  state is a record with what its callbacks captured. What happens around the page (the
  clock, the chain, the wallet window, a reload, other tabs) are actions of their own.
  Each of these modules has a variable that never changes (`page`, `app`, `world`,
  `setup`): the props of the provider, the operations an application uses, the network
  and the screens, so that one run explores several situations, each with small bounds.
- **`SessionProvider`** keeps `ui` (the state of `session-state.ts`), `tasks`, the
  `listeners` of each wallet adapter, the wallet's current `account`, `stored` (IndexedDB),
  `walletName` (local storage), `contexts` and `chain`, the session accounts. The
  limits of a session are one flag, limited or not.
- **`SessionClient`** keeps `sponsorCache`, the requests for sponsors in flight (`fetches`),
  `contexts` with the two sponsors each captured, `calls`, `sessions` and `tokens`. `getSponsor`
  looks into the cache and sends a request of its own if there is nothing, whether or not another
  one is on its way; the history `raced` remembers the domains for which that happened.
  `app.sponsor` is the option `sponsor` of the connection.
- **`WalletPanel`** renders again after every answer: `Rerender` takes the form away when the new
  fee or balance no longer allows it.
- **`VariationEditor`** lets a test name its temporary file freely, since the clock does. `mixed`
  marks the tests that used a file while another one did; what they write at once may be a mixture,
  which stands for a file that does not parse (`Bad`).
- **`SignedMessage`** keeps bytes as a sequence of fields with their lengths, so that the
  offsets are those of the code and a wrong one cuts a field or finds another. It extends
  `AmountText` (the form is where the amount of a message comes from); its specification is `MSpec`.
  `selected` is the adapter's `publicKey`, which `signWithWallet` reads before its await, to choose
  the account that signs, and again after it, to verify the signature; `SelectAccount` may come
  in between.
- **`AmountText`** works on characters, because its properties are about the conversion.

## 3. The runs

| Run | Instance | Shows |
| --- | --- | --- |
| `session_manager` | four worlds. *replay*: one wallet and key, two mints, three messages (duplicate and ambiguous entries, a later message for the same key, one for another chain). *overlap*: two wallets, two keys, one of them used by both, an ordinary delegate. *legacy*: V1 and V2 sessions, limited and unlimited. *rent*: two sponsors, two keys, donations before and after creation | `TypeOK`, `DelegationWithinGrant`, `NoOrphanDelegation`, `ImplementsGrant`, `CloseKeepsOthers`, `SpendDebitsSigner`, `SponsorMadeWhole`, `LamportsConserved` |
| `domain_registry` | two domains, three programs, two authorities with wallets too small for everything | `NoDuplicates`, `RemoveUnlists`, `RecordSurvives`, `RentConserved`, `ImplementsLists` |
| `intent_transfer` | nine messages of one wallet, five accounts that may play every role, changing configurations | `NoncesInOrder`, `DebitNeedsFreshIntent`, `ImplementsBook` |
| `confirmation` | three calls, one of them through FTL, the same transaction, three clients | `CTypeOK`, `RetryOnAnotherClient`, `ReconnectsCollapse`, `ResultsAreTrue`, `EveryCallReturns` |
| `paymaster` | two requests with their swaps, three configurations | `SignedUnderOneConfig`, `SwapFollowsLanding` |
| `session_client` | *Paying*: two contexts over one connection, two sponsors, two calls in flight, requests that overlap. *Sending*: one context, and transactions sent without it. *OwnSponsor*: a connection with a sponsor of its own. *LoggingIn*: sessions from before, revoked and expiring, with login tokens | `SCTypeOK`, `PayerIsFeePayer`, `DeadSessionNoLogin` |
| `session_provider` | *Switching*: two accounts, two pairs of listeners, every event. *Renewing*: two session keys, expiry, asynchronous start. *Tokenless*: no form of limits | `SPTypeOK`, `SessionOfItsAccount`, `CancelledStaysCancelled`, `UnlimitedOnlyIfEnabled` |
| `session_spin` | the *Tokenless* page under fairness | `CheckingEnds`, `LogoutLeaves` |
| `session_disconnect` | the *Switching* page | a violation of `EndOnDisconnect`, see section 6 |
| `signed_message` | every text of up to five characters, zero to three decimals, eight balances and limits, a largest number that both reach; for one submission of each form and one of a limit that is too large, three keys, envelopes with up to three signers, and an account that is switched or disconnected at any moment | `AmountReadBack`, `IntentReadBack` |
| `wallet_panel` | *Sending*: two accounts, changing fees. *Twice*: native, fee and wrapped token, two transfers in flight. *Visiting*: every screen, forms that go when new data no longer allow them | `TransferAsShown`, `OneAtATime`, `SubmittingIsAnswered` |
| `variation_editor` | *Storing*: an editor of a row and one of a new row, saves and deletions. *Trying*: a row of either version, TOML and JSON, two tests that may share a temporary file | `StoredAsShown`, `ResultIsOfShown` |

Every property also fails for a mutant of the model that stands for a plausible
bug of the code (a dropped guard, a missing reset, a lock that is not released);
the mutants are the definitions whose comment starts with "Mutant".

**Bounds and why they are enough.** One key submitted under two messages shows
every replay, two keys and two wallets every overlap; the time bound is one more
than the longest expiration, so that each session lives, expires and is closed,
and its message is submitted again. Amounts are a few units: enough to split a
limit, to exceed it and to lose dust. `MaxSpend`, `MaxTime`, `MaxDonation`,
`MaxDeposit` cap counters that the code does not bound. Three programs are the
least that distinguish removal of the first, a middle and the last element. Three
tasks are the least for one that reconnects, one that waits for the lock and one
that comes late; three clients allow two reconnections. At the last client
`Connected` is disabled but `ConnectFails` is not, so that the bound neither stops a
task nor hides a lock that is held. In the browser two promises in flight show every
pair of racing results, two accounts every switch, and two characters more than the
decimals every carry; the largest number of 64 bits is `MaxU64`, which is small in the run so
that texts of five characters reach it (the theorem takes any). The number of changes typed
into the editors (two in *Storing*, one in *Trying*), of transfers of an
account and of listener pairs are bounded by `setup.changes`, `MaxNonce` and
`page.listeners`. `session_client`, `session_provider`, `wallet_panel` and
`variation_editor` use symmetry (slots, keys, accounts and sponsors that the next-state
relation and the properties treat alike); they check no liveness.

**Deadlock** is checked for the programs and the paymaster except in `confirmation`, where
finitely many calls end and nothing is left to do. A page may wait for its user for ever,
so it is not checked in the runs of the TypeScript modules.

**Fairness** is assumed in two places. In `CSpec`, `TimedStep` is weakly fair because the
code bounds it: HTTP requests have a 30 second timeout and finitely many retries,
the confirmation one of 60 seconds, and tokio's mutex is first in, first out.
`ServerStep` (the subscription, the handshake and the unsubscription) is weakly fair by
assumption on the WebSocket server: none of the three has a timeout in the code, so
`EveryCallReturns` does not hold against a server that accepts a connection and stays
silent, and such a handshake keeps `reconnect_lock`. The transaction need not land and
connections may break at any time; nothing is assumed of them. In `SessionProvider`,
`FairSpec` assumes that a promise that needs nobody's click settles, by result or by
rejection: reads of IndexedDB, requests with a timeout, a wallet's `connect` and
`disconnect`. Signatures and logins, which wait for the user, are not fair, nor are the
user, the wallet's own events and reloads. All other results are safety;
`SubmittingIsAnswered` says as an invariant what keeps a form from submitting for ever:
the transfer it waits for is still there.

## 4. What is proved

For every value of the constants that satisfies the named assumptions of the modules
(disjoint and finite sets of addresses, natural numbers, well-formed messages and configurations,
a `None` that is none of the values; public keys are positive numbers, because 0 stands
for no key, and a message has at least one byte):

| Theorem | Says |
| --- | --- |
| `SessionManagerProofs!TypeCorrect`, `NoOrphans`, `WithinGrant` | `TypeOK`, `NoOrphanDelegation`, `DelegationWithinGrant` |
| `SessionManagerProofs!Refinement` | the session manager implements `Grant` |
| `SessionManagerProofs!CloseIsLocal`, `SpendIsExact` | `CloseKeepsOthers`, `SpendDebitsSigner` |
| `SessionManagerProofs!RentIsConserved`, `SponsorsMadeWhole` | `LamportsConserved`, `SponsorMadeWhole` |
| `DomainRegistryProofs!NeverDuplicates`, `RemovalIsExact`, `RecordsSurvive`, `RegistryRefinement` | `NoDuplicates`, `RemoveUnlists`, `RecordSurvives`, and the registry implements `DomainLists` |
| `DomainRegistryProofs!RentIsConserved` | `RentConserved` |
| `IntentTransferProofs!NoncesCount`, `DebitsAreFresh`, `BookRefinement` | `NoncesInOrder`, `DebitNeedsFreshIntent`, and the program implements `TransferBook` |
| `IntentTransferProofs!AmountsReadBack`, `IntentsReadBack` | `AmountReadBack`, `IntentReadBack`, of `SignedMessage` |
| `PaymasterProofs!ConfirmationTypes`, `TrueResults`, `RetriesElsewhere`, `OneReconnect` | `CTypeOK`, `ResultsAreTrue`, `RetryOnAnotherClient`, `ReconnectsCollapse` |
| `PaymasterProofs!OneConfig`, `SwapsFollow` | `SignedUnderOneConfig`, `SwapFollowsLanding` |
| `SessionClientProofs!ClientTypes`, `NoLoginOfDeadSessions`, `SponsorPaysFees` | `SCTypeOK`, `DeadSessionNoLogin`, `PayerIsFeePayer` |
| `SessionProviderProofs!ProviderTypes`, `SessionsAreOfTheirAccounts`, `CancelledForGood`, `UnlimitedIsEnabled` | `SPTypeOK`, `SessionOfItsAccount`, `CancelledStaysCancelled`, `UnlimitedOnlyIfEnabled` |
| `WalletPanelProofs!TransfersAsShown`, `OneUnderWay`, `FormsAreAnswered` | `TransferAsShown`, `OneAtATime`, `SubmittingIsAnswered` |
| `VariationEditorProofs!StoredIsShown`, `ResultOfWhatIsShown` | `StoredAsShown`, `ResultIsOfShown` |

The arguments:

- **Sessions** (`IndInv`). The properties are not inductive alone. `AccountMatchesOrigin`
  ties a session account to the message it was started by; `DelegationsOK` ties every
  delegation to such an account; and `SpentOnce` says that a message under which
  something was spent still has its account or has expired. The last one is why a
  replay gains nothing: as long as the message is valid, its account cannot be closed
  (`close_session` demands an expired session), and an existing account cannot be
  started again. The refinement maps `ended` to the expired messages and the ones
  whose account is revoked.
- **Registry** (`RegistryInv`). Types, no duplicates, and rent for what is listed;
  `SwapRemove` takes exactly one element out of a sequence without duplicates.
- **Transfers** (`TransferInv`). The nonce of a stream is the number of its
  executed messages, which is what makes the next one fresh.
- **Confirmation** (`CInv`). `LockInv`: the lock belongs to the task that
  connects, and the client it wants to replace is still the current one. `SeenInv`: what a
  task has seen is not newer than the current client, and after a failure the client
  moved on. `ResultsAreTrue` needs that the fate of a landed transaction is stable.
- **Paymaster** (`PInv`). Every step of the paymaster is a step of
  `Confirmation` or leaves its state alone, so `CInv` carries over; `GuardInv` says that the
  held configuration was seen and lists the payer, `SwapInv` that a swap still to start
  belongs to a landed transaction.
- **Rent.** The lamports of an instance are a sum over its accounts and wallets. The lemmas
  from `SmallestSubset` to `SumOfConstant` say what such a sum does when one
  summand changes, enters or leaves. They use no induction scheme: a collection of
  subsets of a finite set has a smallest member (`WFMin` over strict inclusion), and a smallest
  counterexample leads to a contradiction. `RentFrame` and `RentStep` then reduce every instruction
  to the few balances it moves. For `SponsorMadeWhole`,
  `AccountsFunded` says that an account holds the rent it still needs, and `CreditsCover` is one sum over
  the accounts of a sponsor: the lamports of those that can be closed and the rent of those that
  cannot. A sponsor that pays for an account gives its rent, a refund or a close returns it before
  the account forgets its sponsor, and a revocation that makes an account impossible to close moves
  its rent from one part of the sum to the other. Both proof modules state the facts about sums that they need, since
  `SessionManager` and `DomainRegistry` have no module in common.
- **SDK** (`ClientInv`, `SponsorInv`). `ClientInv` says what a call in flight knows of its session account:
  the account is created by one call, and one that was dead when a login began stays dead until
  the login reads it. That is why the login needs no second look. `SponsorInv` says that for
  every domain not in `raced` the sponsor captured anywhere, in a context or a call, is the one in
  the cache, and that a request for it in flight is the only one and the cache has none yet. So the first answer
  is the last one too.
- **Provider** (`PageInv`). What each callback has captured, in the state and in every promise in
  flight: the key is a session that was shown, of the account captured with it, or one of a transaction
  under way that nobody else knows. A cancelled session is neither, so no promise is left
  that could bring it back.
- **Panel** (`PanelInv`). A transfer carries what was shown; a transfer that still reports to the form was
  started on the screen that is mounted now, because whatever changes the screen also cuts it off; and a form
  that submits has such a transfer. Hence a form is released by its own transfers only.
- **Editor** (`SavesInv`, `TestsInv`). A save carries the values it closed over, valid once they are posted.
  The tests that use one temporary file at a time are all marked `mixed`, so a test that is not finds in its
  file what it was sent with, or no file; and an answer is kept with the input and the variation it
  is about. What the editors show by now plays no part until a result is displayed.
- **Amounts** (`AmountInv`). The digits of a number and the value of a text of digits are a
  recursive function and a fold. What they compute is proved without an induction scheme, by
  smallest counterexamples as for the sums: the shortest text, or the least number, for which a claim fails
  has a shorter one for which it holds. From there: digits and value are inverse to each other,
  zeros on the left of a text do not change its value and each zero on the right multiplies it by
  ten, and the zeros that `amountToString` cuts off the fraction are the ones `padEnd` puts back.
  `AmountInv` says that what was submitted is a natural number, with the text that the SDK makes of it,
  and that a transfer is no more than the balance, which has 64 bits.
- **Signed messages** (`MessageInv`). Every field of a message has a positive length, so an offset and a
  length name at most one slice, and the slices at the offsets of both instruction layouts are the
  key, the signature and the signed bytes. In an envelope with signers the keys stand
  at the offset of its version, one after the other, so the key that the header points to is the wallet's
  wherever it is in the list. `MessageInv` follows the phases: the instruction is the one built from the
  signature and the bytes the SDK went on with. Those are what was signed, unless no account was selected
  any more; then they may be the bare text under a signature of the legacy envelope, which the Ed25519
  program refuses. These proofs are
  in the module of the transfers, whose program reads the amount.

**Only model-checked:** `EveryCallReturns`, `CheckingEnds` and `LogoutLeaves` (liveness under
fairness, beyond the prover, as is `ENABLED`). Every other property of the passing runs has a theorem.
The properties of section 6 that are violated have no proof.

## 5. What is not modelled

- The parser of the signed text, address derivation, and signatures as such: data that
  the properties do not tell apart. A message is a record of its fields in the
  programs' modules; the amount and the envelope are the exceptions (`SignedMessage`).
- The transaction constraints of the paymaster, its lookup table cache,
  `sponsor_pubkey`, `fee`, and swap amounts; the executor quote of a bridge. These are in the
  plan below.
- In the SDK: the builders of wrap and unwrap instructions, the addresses of NTT accounts and the
  encoding of keys (`crypto.ts`), which compute and hold no state.
- In the React package: the amounts of a session's limits, networks other than the
  current one, links into mobile wallets, the faucet, and presentation.
- In paymaster-admin: the settings of domains and the lists around the editor.
- The database (PostgreSQL's transactions are trusted), metrics, command line,
  offline tools, the portfolio and demo apps, presentational components, scripts, generated
  IDLs.
- Rolled back blocks, and the failure of the paymaster's process: it keeps nothing
  but caches in memory.

## 6. Findings

`session_disconnect`: the change log of sessions-sdk-react says "End session on wallet
disconnect and handle account switching" (`CHANGELOG.md:150`). `completeSessionSetup`
(`session-provider.tsx:551`) is called when the login's promise resolves, without looking at
the wallet. TLC finds the behaviour: the login's transaction is in flight, the wallet
disconnects, the page shows `NotEstablished`, and the answer puts it back to `Established`,
for a wallet that is not connected.

The modules also state properties that a document of the repository claims and that TLC
refutes when they are added to the cfg of their module; they belong to no run:

- `Paymaster!FetchedOnlyIfSucceeded`: "Only fetch if the transaction actually succeeded on
  chain" (`api.rs:471`). The match below it also takes the signature of a transaction
  that was confirmed as failed. A failed transaction costs gas too, so the comment is probably
  what should change.
- `SessionProvider!ContextOnce`: "Ensure session context only gets initialized once"
  (change log of sessions-sdk-react). `sessionContext ??= await ...` reads before the await, so two wallet
  events before the first context is ready create two.
- `SessionProvider!LogoutRevokes`: "Revoke sessions when logging out" (same change log).
  `replaceSession` never revokes the session it replaces, so after an update and a logout the
  earlier one is active until it expires.
- `AmountText!NegativeRefused`: "Amount cannot be negative" (`amount-to-string.ts:10`). Only the
  whole part is compared with 0, and `BigInt("-0")` is 0; a sign inside the fraction is
  not seen. `-0.5` is submitted as a positive amount.
- `SignedMessage!ExtraIsSigned` (with `Extras = {0, 1}`): "Validate and populate extra key-values
  appropriately in the start session intent message" (change log of sessions-sdk-ts). The extra
  values are not handed to `buildIntentInstruction`.

Observed while modelling, and no disagreement with any document: limited V1 and V2
sessions can never be closed, so their rent stays; a session may be started
with an expiration in the past, which gives it no rights; a call that fails on an
old client may replace a fresh one, which costs a connection and nothing else; the withdraw
and deposit forms can be submitted again while a transfer is under way (only the send form
and the unwrap button exclude it); a lost answer is shown as a failed transfer; a creation of a variation
that is tried again after a lost answer makes a second row; a failed poll of the balances makes
empty sponsors eligible until the next one; and a send form that is left with Back, another tab or the close
button can be opened again and submitted while its transfer is in flight (`OneAtATime` speaks of one
mounted form).

Some properties name exceptions, because the code has them:

- `PayerIsFeePayer` excepts a domain whose sponsor was requested while another request for it was
  on its way. `getSponsor` (`connection.ts:419`) does not share requests, and the paymaster may
  assign another sponsor to each: a context then keeps one and the cache the other, and the
  paymaster refuses what `start_session` or a transfer asks of it. It also excepts a connection with the option
  `sponsor` (`connection.ts:259`): `createSessionContext` asks the paymaster all the same, so these
  instructions name the paymaster's sponsor and the transaction has the connection's own as fee payer.
- `ResultIsOfShown` excepts two tests that the server received in the same millisecond:
  they have one temporary file (`route.ts:39`), each may show the verdict on the other's variation, and the
  one that comes last may find no file.
- `AmountReadBack` lets the program refuse an amount above 64 bits. The form of a session's limits has no
  maximum (`session-limits.tsx:314`), so such a limit is signed and then refused (`AmountConversionFailed`,
  `message.rs:129`).
- `IntentReadBack` lets a good signature be lost when the account changes while the wallet signs:
  `solana-wallet.ts:84` verifies it with the key selected by then. Without an account selected it
  is not verified at all, and only the program looks at it.
- `SponsorMadeWhole` excepts the rent of V1 and V2 sessions that cannot be closed.

Three simplifications of these modules go beyond the code or stay below it: any two tests that use files at
the same time may share one, although the clock would have to stand still, so the exception of `ResultIsOfShown` is, if
anything, too wide; a wallet that reports one byte is taken to have signed the bare text, which is what the SDK goes on
with; and `TryUiAmountIntoAmount` does not drop trailing zeros of the fraction, which
the SDK never writes.

## 7. Plan

Done, in the order of importance: sessions, domain registry, intent transfers,
confirmation, the paymaster's handler, the React provider with the stored session, the
TypeScript SDK, amounts and signed messages, the wallet panel, the variation editor; and the
proofs of the safety of all of them. Next:

1. **`Constraints`**: the greedy matching of instructions against optional
   constraints compared with the declarative matching (sound, and where it is
   incomplete), contextual keys, fee and gas sums with their widths. A pure module.
2. **`LookupTables`**: the shared cache under concurrent requests and tables that
   are extended, closed and created anew.
3. **`Sponsors`**: `sponsor_pubkey` with its round robin, the reset at each
   refresh and low balances, composed with `SessionClient`'s cache on the other side.
4. **`ExecAmount`**: `compute_exec_amount` and `normalize` against exact
   arithmetic at the boundaries of u64 and u128.
5. **Composition**: `SessionManager` over `DomainRegistry` instead of its abstraction;
   `SessionProvider` over `SessionClient`; fees paid through `PayToll` checked by the
   paymaster's fee constraint.
