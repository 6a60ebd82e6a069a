# TLA+ verification of wdk-rgb-lightning

This directory holds formal models of the concurrent core of
`@utexo/wdk-rgb-lightning`: the JavaScript that schedules the calls of a wallet
application onto one native RGB Lightning node, owns its native handles, mediates
for a web page and talks to a Lightning service provider (LSP). TLC checks the
models on small instances and TLAPS proves the main invariants for every value of
the constants. Paths below are relative to the repository; `PROJECT.json` maps each
definition to the lines it models.

## 1. The system

Almost everything runs on one JavaScript thread. A method runs until its first
`await`, and the code between two awaits is atomic; what makes the code hard is the
order in which the continuations run, which the promises it stores in fields
restrict. Native calls may be synchronous (the bindings of the repository) or
asynchronous (custom bindings); each may throw.

| Component (source) | State it keeps | Operations | Correct when |
|---|---|---|---|
| `WalletAccountRgbLightning` (`wallet-account-rgb-lightning.js`) | promises in flight (`_unlockInFlight`, `_addressInFlight`, `_mutationsInFlight`, `_vssTail`, `_vssPolicyTail`, `_messageSigningTail`, `_shutdownInFlight`), dirty and preference flags, `_closed` | `unlock`, `getAddress`, native mutations (sends, issuance, burn...), `vssBackup`, `setVssAutomaticBackupEnabled`, `getVssBackupMetadata`, BIP-322 signing, `shutdown`; `transfer` and `sendTransaction`; `clearVssFence`, `prepareVssRestore` | one unlock at a time; a policy transition is alone in the node; work is dirty until uploaded; shutdown joins everything it admitted; no promises wait for each other in a cycle; a request reaches a live node as it was ordered; a recovery acts for the wallet that was reviewed |
| Bare and Node bindings (`bare-binding.js`, `node-binding.js`) | node and signer handles, retained ones, seeds, legacy candidate, failure flags | creation, `initialize`, `unlock` with legacy fallback, `prepareRestore`, `shutdown` | no handle leaks, is used or released twice; the signer outlives the node that uses it; the seed belongs to the signer in use; secrets are wiped |
| Receive addresses (`receive-address.js`) | queue tail, current address, stop flag; shared by two account facades | read, rotate, new address, stop | only revealed addresses are returned; explicit requests never share one; the session's cached address is not out of date |
| `WalletManagerRgbLightning` (`wallet-manager-rgb-lightning.js`) | the account, pending and retained bindings, disposers done | `getAccount` (creation with rollback), `dispose` (synchronous, retried) | every native handle is owned; no disposer runs twice; nothing is torn down under work it should join |
| `WebRgbProvider` (`webrgb.js`) | approval, session revision, the open prompt | `enable`, `revoke`, reads, `blindReceive` and the other prompted calls | a session rests on an approval given to it; a call that a revocation overtook neither acts nor discloses |
| `LspClient` (`lsp-client.js`) | none between calls; listeners on the caller's signal | HTTP requests with retry, backoff, timeout, abort | state-changing requests go out once; aborts and timeouts reach every wait; listeners are removed |
| `UtexoLsp` (`utexo-lsp.js`), `bootstrapLsp` of the account | peer | waits that poll, quote-then-pay, receive bridge, address provisioning, claims | never pays what was not ordered and verified; a wait ends by its deadline or abort and reports what is true; one registration per call; every claim reported |
| LSP assets and verification (`lsp-helpers.js`, `lsp-linked-assets.js`, `lsp-payment-verification.js`) | none | asset selection, relay quotes, APay inclusion proofs, invoice checks | nothing ambiguous is chosen; what is paid fits into one channel; a relay is one payment; an invoice is bound to the recipient of the address |
| `lnurl-pay.js` | none between calls; a timer and a listener per request, a body reader | discovery and callback of any host | one callback per call, asked only as the address, the document and the order allow; a body is bounded; aborts and timeouts reach the body |
| Response contracts (`lsp-response-contracts.js`) | none | parsing of LSP answers | a menu names a contract once and contains the payout asset; the legs of a quote carry asset and units together |
| Policy and request contracts (`vss-policy.js`, `burn-contract.js`, ...) | none | validation of one value each; the scope of a VSS recovery | a recovery names the attached signer |
| Secrets, paths, consignments, errors | none | stateless helpers | |
| Read-only account (`wallet-account-read-only-rgb-lightning.js`) | shares the address queue | adapters of one native read each; recipient kinds, fee quotes | address reads respect the queue; a quote is of the rate that is paid |

Interaction: the manager creates a binding and an account; the account calls the
binding; both account facades call the address queue of that binding; the WebRGB
provider calls the account for a page; `UtexoLsp` calls both the account and
`LspClient`. Outside the repository, and modelled from how it is used: the native
node, the signer, the VSS server, the network and the LSP.

Hard behaviour, listed line by line under "hazards" in `PROJECT.json`:

- *Interleaving and stale reads*: promises are captured at admission and awaited
  later; a field read before an await may be different after it.
- *Drain order*: `shutdown()` awaits seven kinds of promise one after the other, while
  the work it joins starts further work (an address read unlocks a locked node; every
  completed mutation schedules a checkpoint).
- *Deadlock*: unlocks, addresses, backups and policy transitions await each other.
- *Partial failure and retry*: a binding that fails half way through creation, fallback
  or shutdown; a disposer that throws; a policy change with an unknown outcome; a lost
  HTTP answer.
- *Evidence from several answers*: an invoice is paid on what a discovery document, a
  proof, a quote and two decoded invoices say; each link is checked by another function.
- *Aborts and deadlines during an await* that has no listener for either.
- *Gaps of a few microtasks* between the end of an operation and the `finally` that
  clears its field.

## 2. Modules

| Module | Models | Checked by | Proofs |
|---|---|---|---|
| `AccountScheduler` | the account's promise scheduler | `scheduler_policy`, `scheduler_teardown`, `scheduler_drain`; violation `lost_checkpoint` | `AccountScheduler_proofs` |
| `DrainedTeardown` | abstract specification of `shutdown()`: jobs are admitted while open, and the teardown happens when none is active | implemented by `AccountScheduler` and by `ReceiveAddress` (`ImplementsTeardown` of each) | - |
| `BindingLifecycle` | native handles of one binding, every failure path | through `AccountCalls` | `BindingLifecycle_proofs` |
| `TransferRequest` | the request `transfer()` and `sendTransaction()` make of an order (pure) | through `AccountCalls` | - |
| `AccountCalls` | composes `BindingLifecycle` and `TransferRequest`: transfers, burns and VSS recovery calls of the account across its awaits, with unlock, address reads, policy transitions, shutdown and disposal | `binding_handles` | `BindingLifecycle_proofs` |
| `WalletManager` | account creation and disposal | `manager_disposal` | `WalletManager_proofs` |
| `ReceiveAddress` | the address queue, its two users and its part in shutdown | `receive_address` | `ReceiveAddress_proofs` |
| `WebRgbSession` | the session checks of every WebRGB call | `webrgb_session` | `WebRgbSession_proofs` |
| `LspRequest` | the request loop of `LspClient` | `lsp_request` through `LnurlPay`; violation `lsp_raw_error` | `LspRequest_proofs` |
| `LnurlPay` | composes `LspRequest` with the LNURL-pay resolver: discovery, the checks of the document, the callback, bounded bodies, one signal over both clients | `lsp_request` | `LspRequest_proofs` |
| `ApayProof` | the inclusion proof of an APay batch: its Merkle path, the tree of the recipient, what a signature is for (pure) | through `LspPayment` | `LspPayment_proofs` |
| `LspQuote` | over `ApayProof`: what an address quote and its attestation must agree on (pure) | through `LspPayment` | - |
| `LspPayment` | the five flows that pay: `payAddress` to a hosted and to an external address, `sendAsset`, `payLightningAddress`, `payRgbViaLsp` | `lsp_payment` | `LspPayment_proofs` |
| `LinkedAssets` | the choice of an asset, liquidity in one channel, the relay quote (pure) | through the next two | - |
| `LspReadiness` | `waitForChannel`, `waitForOutboundLiquidity`, `awaitReceiveSettlement`, `receiveAsset`, `enableLightningAddress`, `claimPendingPayments`, `bootstrapLsp` | `lsp_session` | `LspSession_proofs` |
| `RelayPayment` | one payment whose asset is chosen, or that the LSP relays by a HODL invoice | `lsp_session` | `LspSession_proofs` |
| `LspSession` | composes `LspReadiness` and `RelayPayment` over the same channels | `lsp_session` | `LspSession_proofs` |

Each `MC*` module instantiates one of them for TLC and declares the symmetry used;
the `.cfg` files give the constants.

### How a model corresponds to the code

One action is one synchronous segment: from a call or a resumption to the next
`await`. `pc[c]` says at which await call `c` is. A promise stored in a field is the
identity of the call that owns it, and "awaiting it" is a guard that the owner has
settled. What a call captured when it was admitted is kept in `admission[c]`. A call
identifier is used once: a retry by the application is another identifier, and so
repeated calls are covered by sets with several of them.

`AccountScheduler`. `unlockInFlight`, `addressInFlight`, `policyTail`, `vssQueue`,
`signQueue`, `dirty`, `checkpointPending`, `automatic`, `closed` are the fields of the
same name; `pc` of policies, mutations and manual backups stands for the sets and
counters the code keeps (`_vssPolicyChanges`, `_mutationsInFlight`,
`_vssOperationsInFlight`). A promise chain (`_vssTail`) is a sequence whose head runs;
`served` counts what left it, so a captured tail is a ticket. `UnlockClear`,
`AddressClear` and `CheckpointClear` are the `finally` callbacks, which run later than
the operation ends; the gap is part of the model. `ShutdownDrain` walks the phases in
the order of the awaits and captures each promise when its phase starts.
History variables: `unsaved` (completed work no acknowledged upload covers) and
`uploading` (the work the upload in progress covers).

`BindingLifecycle`. Every method is synchronous, so it is one action; every native call
in it may throw, and an action ends where the exception leaves the method. Handles are
model values with a native state behind them (a node: unused, live, stopped; a signer:
unused, live, revoked, destroyed). The two bindings share the control flow; the map names
the one a definition was read from.

`TransferRequest`, `AccountCalls`. A send runs from await to await (`decoding`, `rating`,
`quoting`), keeps what each answer gave it in `order`, `decoded`, `rate` and `fee`, and ends
in one native call, recorded in `sent` with the node in `target`. The binding is the
synchronous one, whose methods are single actions; so of the promises `AccountScheduler`
models one by one only the ones that still order these calls are left: a call made during
a policy transition is `deferred`, and when the transition ends its continuation is `due`.
One transition is under way at a time; it ends when what it captured is done, and its end is
the fall of `_vssPolicyChanges`. An unlock and an address read made meanwhile are `waiting`
and then `behind`: the reactions to one promise run in the order in which they were attached,
and a burn that waits was admitted with no unlock in flight, so the burns that are due run
first. An unlock made when the count has fallen, although the tail settles only later, waits
for nothing: it is `due`, and nothing orders it behind a burn. An unlock with the request of
the address read in flight takes over what that read waits for; if a transition has begun
since, it does not wait for this unlock (`captured` is FALSE). A recovery call
captures the unlock in flight as `barrier` and compares `scope`, the identity the user
reviewed, with the signer when its turn comes. An amount, a token or a recipient is a model
value; fee rates are integers in tenths of a sat/vB, so that the rounding of the quote is
that of the code.

`WalletManager`. Construction and disposal are synchronous, so each is one action with
a choice of which step throws. `pending` work of the account is any subset of the
kinds of promise that `dispose()` looks at, and of signing, which it does not.

`ReceiveAddress`. The queue is a sequence. The node is external: a rotation moves to
the next address (possibly reporting a failure), a read reveals and persists it; with
reuse off each read allocates. `config.reuseAddresses` is a variable that `Init`
chooses and nothing changes.

`WebRgbSession`. Each call is: check, prompt or native call, check, act or answer. The
revision a call began with is `began[r]`. A method that lists (`Lists`) may make several native
calls, and throws the error of a malformed list, phase `malformed`, without reading the revision
again; every other answer is given behind a check. `stale` (history) are the calls that a
revocation overtook, `consent` that the present session was approved by the user.

`LspRequest`. A call is at `fetching`, `reading`, `backoff` or `next` (about to send).
`Resolves` make two requests in sequence, of which only the first may be repeated. The
network may fail, hang or answer at any point.

`LnurlPay`. A call runs through `fetching`, `reading` and, when the body is too long,
`cancelling`, or through `gathering` and `read` when the body is no stream and `response.text()`
has it whole before its length is compared: once for the document and, after `discovered`, once for the invoice. A document
is a record of what the checks read: scheme and site of its callback, range, comment length,
payout and accepted assets; nothing it says is trusted. `visited` is the history of the URLs
a call asked for. A body is counted in pieces, of which the cap admits two. A redirect is an
answer that comes from another site. An abort of the application reaches the calls of both
clients in one step (`AbortAll`).

`LspQuote`, `LspPayment`. A request is one call of `LspClient` (or one fetch of
`lnurl-pay.js`) with everything `LspRequest` says of it, so an answer or a rejection is
one step. `Orders` are what callers may ask for: the route, the terms (amount, asset and
units as one value), the network and hash the caller pins, whether a proof is required.
Answers of the LSP, of an address server and of the decoder are any value of their type:
nothing they say is trusted. Signatures are abstract: `addressSig` is the outcome of the
verification, and the `sig` of a proof is the batch that was signed. `asked` counts requests that make somebody issue an invoice,
`lapsed` are the calls whose invoice has expired. The hook of
`payLightningAddress` takes any time. The account is taken to have `decodeInvoice`.

`ApayProof`. A digest is the value that was hashed (a tuple with its domain tag), so SHA-256
is taken to be injective; a signature exists only for the commitment of a batch its key
signed. `Climb` is the loop over the Merkle path; `Tree` is the tree a recipient builds,
which is not in `src/` (external): leaves with the index of their hash, padded on the right
by a digest that is no leaf. The two times of a batch are one value, `open`: both are signed.

`LinkedAssets` translates the functions of `lsp-linked-assets.js` one by one, as
operators that return `None` where the code throws. A ticker is one value, since it is
compared without regard to case. The map from assets to balances that the code builds is
the largest balance of one asset.

`LspReadiness`. The three waits share the loop head (`Round`: the deadline, then the
signal) and `_sleep`. Only a sleep that has begun listens to an abort (`Abort` ends a
`sleeping` call and leaves any other for the next round). A deadline is a set of calls
it has passed for (`late`), which grows at any moment; timers fire at any moment after
they were set. Time is counted only in `receiveAsset`, in quarters of a second, to have
the rounding of `Math.round`; `stamp` is when the node stamped the invoice. `registered`
and `reports` are sequences of what a call did, so that doing it twice shows. The HODL
payments are external: `Accepts` and `PaymentMoves` say what a node makes of them.

`RelayPayment`. The functions of `lsp-linked-assets.js` are exported for applications,
which call them around `lightningSend`; the module composes them as the comment of
`lightningSend` requires: decode and verify both invoices before paying. The LSP holds
the preimages `LspHashes` from the start and learns that of the target only when it has
paid the target; it can claim a HODL payment only with its preimage.

### Left out, and why

- Payloads, formats, error texts and validation of parameters: no property depends on them.
- Functions with no state (most contracts, path and secret helpers, the syntax of Lightning addresses).
- Whether a native call is synchronous. `AccountScheduler` lets a native call take time,
  so a binding that answers synchronously has fewer interleavings (section 5 says which
  observations need an asynchronous one), with one exception: the metadata read and the
  caching of its result (lines 297 and 298) are the one step `ReadEnd`, so a transition that
  begins between them is not in the model. `AccountCalls` is over the synchronous binding:
  there a native call is part of the step that makes it.
- The bytes of leaves, commitments and signatures (`ApayProof`), `requestLspRgbDeposit`, the
  listeners that `_sleep` leaves on a signal, `onProgress`.
- The other adapters of the account and of the read-only account: each validates its
  parameters, makes one native call, which `AccountScheduler` has as a mutation, and maps
  the answer.

## 3. What the runs show

Bounds are the sizes of the sets of calls; all other state is finite because calls are
used once. `CHECK_DEADLOCK FALSE` is set throughout because an application may stop
calling: a state in which every call is settled has no successor. That calls do settle
is stated as liveness.

| Run | Instance | Shows |
|---|---|---|
| `scheduler_policy` | 1 address, 1 mutation (a burn), 2 policy transitions, 1 metadata read | `PolicyExclusive`: no mutation, address read, manual backup or checkpoint is in the node while the preference changes (an unlock may be: section 5). `ConfirmedChoice`: the cached preference is unknown or the native one, and the last request wins. `DirtyCovers`: completed work is dirty or covered by the upload under way. `OffMeansOff`: no automatic upload while the preference is off (no automatic unlock is configured here: section 4 covers one, section 5 says what it must not be mixed with) |
| `scheduler_teardown` | 1 unlock, 1 address with automatic unlock, 1 policy, 1 shutdown | `TeardownSafe`, `SingleUnlock`, `EveryCallSettles` (liveness) |
| `scheduler_drain` | 1 unlock, 1 manual backup, 1 policy, 1 signing request, 2 shutdowns | `ImplementsTeardown` (refinement of `DrainedTeardown`) for the other queues and for a shutdown retried after a failure; `EveryCallSettles` where the backup waits for an unlock that waits for a transition |
| `binding_handles` | 3 nodes, 3 signers; one call at a time of: a send (8 orders, 6 decoded invoices, 2 estimates; with a proxy, or on mainnet without one), a burn (with and without automatic unlock), a takeover, a restore | `HandlesReleasedOnce`, `SeedMatchesSigner` over every failure; `SentAsOrdered`, `ScopedRecovery` and the action property `SentToLiveNode` of the calls |
| `manager_disposal` | 3 bindings, 2 signers | `OwnedUntilReleased`, `DisposalJoins` over failed and retried creation and disposal |
| `receive_address` | 1 facade read, 1 account read, 1 new address, 1 rotation, addresses 0..3 | `OnlyRevealed`, `FreshDistinct`, `TeardownJoins`, with reuse on and off |
| `webrgb_session` | 2 enables, 2 reads, one of which lists, 1 receive, 2 revocations | `SessionConsented`, `NothingAfterRevoke` and the action property `NoCallAfterRevoke` |
| `lsp_request` | two calls at a time under one signal: a GET or a POST of `LspClient` with its `resolveAddress` or with the resolver of `lnurl-pay.js`; 2 retries, 8 orders, 12 documents, a cap of 2 pieces | `SentOnce`, `CallersReleased`, `CallbackVouched`, `ReadsBounded`, the action property `NothingSentAfterAbort`, `EveryCallerSettles` (liveness) |
| `lsp_payment` | 1 call with every order; 2 values each of terms, keys, networks, hashes, documents; batches of one hash and of three (a padded leaf), honest proofs and six ways to forge one | `PaidAsOrdered`, `RecipientBound`, and the action property `NoPayAfterAbort` |
| `lsp_session` | 9 flows alone, 2 claims with a wait for what they claim; 3 assets (two share a ticker), listings of up to 2 of 7 channels, every menu, some 300 answers to a relay | `EndsTruly`, `RegistersOnce`, `ClaimsReported`, `LifetimeFits`, `NoRoundAfterAbort`, `WaitsEnd` (liveness) of the flows; `AtomicRelay`, `CarriedByOne`, `ForcedChoice` of the choices |
| `lost_checkpoint`, `lsp_raw_error` | smallest that shows it | disagreements, section 5 |

Why these bounds are enough to be interesting: the hazards involve two or three
actors. Two policy transitions give a queue of transitions with a stale metadata read;
one address read with one unlock and one transition is the smallest cycle candidate;
two shutdowns cover a retry; three handles of a kind cover the primary, its legacy
replacement and a retained one; two retries cover first, middle and last attempt. A
second call of the same kind that only joins the first adds no new promise. The calls of
`AccountCalls` share only the binding and the transition, and meet unlocks, transitions and
teardown rather than each other; each is run alone, and the proofs are for any number. The
orders have each option present and absent, the decoded invoices each field that the code
reads, and the two estimates a failed one and one that is used. The calls of
`LspPayment` share nothing, so one call with any order covers them (its proofs are for any
number), and two values of each kind tell an ordered value from another one. That the
tree and the path of honest proofs fit is evaluated for batches of one to five hashes
(`HonestAccepted` in `MCLspPayment`); a proof that does not fit is what the theorem is about. The flows of
`LspReadiness` share only the payments, so `Mixes` runs each alone, with each of its
options, and together only those that meet there; `Expiry = 2` and `MaxTicks = 9` reach
both ends of the rounding, the one second floor and an invoice that has already expired.
`MaxLookups` is 2 instead of 8: a first and a last attempt. The answers of `RelayPayment`
are honest ones and all that differ from an honest one in the invoice, or in the legs and
the rest of the quote. The
invariants of section 4 are proved without the bounds. `MaxAddress` bounds the native
node's counter: a native call that would pass it is disabled, which loses only longer
histories.

Every property is backed by a mutant: an operator next to the original, introduced by
"Mutant:", that changes it as a plausible bug would; with the mutant in place the run
finds the property violated.

### Fairness

`AccountScheduler!FairSpec` adds `WF_vars(Progress)`: while some continuation can run or
some native call can return, one eventually does. It is one condition for the whole
event loop, assumes no order among continuations and does not oblige the application to
call anything. The assumption behind it is that native calls return; nothing in the
JavaScript can bound them. Because each call is used once, `Progress` steps run out, and
what is left must be settled: `<>[]AllCallsSettled` fails exactly when promises wait for
each other.

`LspRequest!FairSpec` assumes that timers fire, continuations run and that a fetch or
read whose signal is aborted rejects (the contract of `fetch`). It assumes nothing of
the network or of the server; a call whose server never answers must still settle.

`LnurlPay!FairCallerSpec` says the same of both clients, and of the body reader of the
resolver that cancelling it settles.

`LspReadiness!Fairness` assumes of each call that its awaits settle, its timers fire and its
deadline passes. Settling is an assumption on the native node (the requests to the LSP
settle by `LspRequest`): the deadline of a wait bounds its rounds, and a native call that
hangs inside a round is bounded by nothing. Given that, `WaitsEnd` says that the rounds
themselves end, although the channel, the liquidity or the payment never comes.

## 4. What is proved

All proofs are for arbitrary sets of calls (or handles) and arbitrary bounds, from the
named assumptions of the modules only (the sets of calls are disjoint, `None` is not a
call, bounds are naturals, the payments of a wallet are finitely many). Each proof module gives an inductive invariant `IInv`, a
lemma per action or group of actions and the temporal step.

| Theorems | Argument |
|---|---|
| `SchedulerTypeCorrect`, `SchedulerSingleUnlock` | a native unlock is always the one `unlockInFlight` names, because the field is cleared only after its operation settled |
| `SchedulerPolicyExclusive`, `SchedulerConfirmedChoice` | transitions form a chain (`PolicyOrder`): each captures what is in flight when it is called, and what is called later waits for it (`WorkOrdered`), so that no mutation and no address read is native beside a native transition; a backup and a transition are native only at the head of the one queue of backups (`HeadRuns`); only a transition writes the native preference (`ChoiceKept`) |
| `SchedulerDirtyCovers`, `SchedulerOffMeansOff`, `SchedulerUnmixedBackups` | an automatic unlock runs while its address awaits it (`AddressUnlocks`), an unlock of the application is captured by a transition or waits for it (`UnlocksOrdered`); what runs a backup is at the head of the queue of backups (`HeadRuns`); an upload clears the dirty flag only for the work it covers (`DirtyKept`); a transition waits for the checkpoints that were scheduled before it (`CheckpointsDrained`) |
| `SchedulerTeardownSafe`, `SchedulerImplementsTeardown` | each phase of a shutdown awaits all of its kind (`AwaitedByPhase`), and what is gone stays gone because a stopped account admits nothing (`GoneForGood`); a step of the scheduler begins or ends a part of one job (`JobStep`), which is a step of `DrainedTeardown` |
| `SchedulerNeverStuck`, `SchedulerRunsDown` | no promise waits for a later one: what the unlock in flight, a call and a transition's drain wait for is settled or before their own transition (`WaitsBehind`, `DrainsBehind`, `UnlockBehind`; for an address that falls back to an unlock this needs `JoinClear`, the barrier that `unlock` takes over from the address in flight); of the pending transitions one waits for no other (`Chain`); tickets are at most the operations chained (`TicketsPast`), and the queues hold exactly what waits in them (`VssQueued`, `SignsQueued`). The phases of a call form an order that no step goes back in (`Stage`), and a step that moves no call lowers `Remaining` |
| `BindingTypeCorrect`, `BindingNoHandleLeaks`, `BindingNoUseAfterRelease`, `BindingHandlesReleasedOnce`, `BindingSignerOutlivesNode`, `BindingSeedMatchesSigner` | whatever is live is in a field or retained (`Held`), an unused handle is attached to nothing (`FreshDetached`), at most one signer is retained (`OneRetained`); a field is cleared in the step that releases its handle; the retained seed is written in the step that writes the signer |
| `CallsImplementBinding`, `CallsScopedRecovery`, `CallsSentAsOrdered`, `CallsSentToLiveNode` | a step of the calls is a step of the binding or a stutter, so the binding's invariants hold of them; what a send holds was put there by the answer it awaited (`CallInv`); a call that has not been given its node took none but a burn, and the node of a waiting burn is stopped by no step but an unlock, since shutdown and disposal join the burn, and by no unlock that waited for the same transition (`BurnInv`): what is left is `Overtaken` |
| `ManagerHeldByManager`, `ManagerCleanedOnce`, `ManagerOwnedUntilReleased`, `ManagerDisposalJoins` | a binding leaves the manager only when its shutdown succeeded |
| `AddressTypeCorrect`, `AddressOnlyRevealed`, `AddressFreshDistinct`, `AddressCurrentIsLatest` | what a call knows is behind the node: returned and cached addresses are revealed, revealed ones are at most `latest`, a rotated one belongs to one call which returns no other |
| `AddressTeardownJoins`, `AddressImplementsTeardown` | the queue holds each call that awaits its turn or runs, once (`QueueHolds`); a call of the facade is pending only there, so the ticket taken when the queue is joined bounds them; what a phase awaited stays gone (`JoinedByPhase`), and a closed account is one whose queue was stopped and has nothing pending (`ClosedGone`), so a step of a call admits it while open, goes on or settles it: a step of `DrainedTeardown` |
| `SessionIsConsented`, `SessionNothingAfterRevoke`, `SessionNoCallAfterRevoke`, `SessionSharedPrompt` | a call that was overtaken began with an older revision; the owner of the prompt is the only prompting call |
| `RequestTypeCorrect`, `RequestSentOnce`, `RequestAbortReaches`, `RequestListenersReleased`, `RequestNoSendAfterAbort` | exactly the attempts and backoffs under way listen; the number of sends is bounded by the attempts, which stay 0 for what may not be repeated |
| `CallerImplementsRequests`, `CallerCallbackVouched`, `CallerReadsBounded`, `CallerListenersReleased`, `CallerNothingSentAfterAbort` | the resolver leaves the state of the requests alone, so their invariants carry over; the callback URL that is fetched is the one of the document that was checked, and what was read is at most the cap and one chunk |
| `CallerNoneHangs`, `CallerRunsDown` | a fetch or a read under way has its timeout armed or its signal aborted, because exactly the calls under way listen (`ListenWhileLive`, `ComposedWhileOpen`); what a call has left is counted from the requests still to come, the attempts of its budget and the pieces up to the cap (`RequestLeft`, `LnurlLeft`), and each step of the call lowers that count while the steps of others leave it alone (`CallsApart`, `LnurlCallsApart`) |
| `ApayProofBinds` | the way up a Merkle path meets the tree of the signed batch from above: at each height its digest is one of that level (`PathInTree`), since equal inner nodes have equal children and a leaf, tagged, is no inner node; at height 0 it is the leaf of one index of the batch (`TreeLevels`). Both are functions on 0..n; that they exist and what they compute is shown by induction on a set of naturals (`InductionOn`) |
| `TypeCorrect`, `PaysOnlyAsOrdered`, `PaysOnlyTheRecipient`, `AsksOnce`, `AbortStopsPayment` (`LspPayment_proofs`) | per call: how often it asked follows from where it is (`Staged`), what it holds from the requests that were answered (`Informed`), and what it paid is its invoice, which passed every check (`Settled`), so that `ApayProofBinds` holds of its proof |
| `SessionRelaysAtomically`, `SessionRegistersOnce`, `SessionStopsAfterAbort`, `SessionLifetimeFits`, `SessionClaimsReported` | what a relay compared is kept while it pays, and only the payee of the target knows the preimage (`RelayInv`); where a call awaits tells which flow it is and what it registered (`Enlisted`); only waits are aborted (`AbortInv`); rounding to seconds, counted in quarters, adds at most half a second (`RemainingFits`); a report adds a payment that was not reported, and a taken payment stays taken (`Claimed`) |
| `SessionCarriedByOne`, `SessionForcedChoice`, `SessionEndsTruly` | a largest balance is that of one channel (`MaxOf`, by counting); a lone member of a finite set is the one that is taken (`OneMember`); a wait that is not ready has not seen what it waits for, and a payment that ended stays as it is (`Watched`) |
| `SessionNoneStuck`, `SessionRunsDown` | only a poll syncs, looks and sleeps, an address that rests has lookups left and a claim that goes on has a payment it has not reported (`FlowAt`); every step is one of a few passages (`Passes`, `LooksUp`, `ClaimAdvances`), and once the deadline is over each of them lowers `Left`, where a claim counts the payments not yet reported |

`SchedulerDirtyCovers` and `SchedulerOffMeansOff` have a hypothesis on the
behaviour of the application, `UnlocksApart`: it starts no `unlock()` of its own while an
address read is in flight that may unlock by itself. Without an `autoUnlockRequest` it says
nothing, and it holds of an application that leaves every unlock to it
(`SchedulerUnmixedBackups` states both properties for these two cases). `DirtyCovers`
and `OffMeansOff` are false without it: section 5.

The invariants are not inductive by themselves. `FreshDistinct`, for example, speaks of
results only; it needs that a rotated address is kept by one call and is not beyond the
node (`RotationOfCall`, `RotatedDistinct`, `RevealedKnown`). `AbortReaches` needs that a
call under way has its listener registered (`ListenWhileLive`).

Some properties are proved and in no run, because the proof says all a run could: the
type invariants, `SignerOutlivesNode`, `NeverStuck` and `RunsDown` of the scheduler and
their counterparts `NoneHangs`, `CallersRunDown`, `NoneStuck` and `FlowsRunDown`,
`CurrentIsLatest`, `SharedPrompt`, `AbortReaches`, `OneInvoice` and the
`ImplementsTeardown` of `ReceiveAddress`.

Only model-checked: liveness (`EveryCallSettles`, `EveryCallerSettles`, `WaitsEnd`), since
the prover has no rule for fairness and `ENABLED`. Every other property of a passing run has
its theorem. Of each of the three the two facts it rests on are proved, for any number of
calls: that a state with an unfinished call has a step, and that the steps run out.

| Liveness | A step is possible | Steps run out |
|---|---|---|
| `EveryCallSettles` | `NeverStuck`: some call or queue goes on | `RunsDown`: stages and `Remaining` cannot rise or fall for ever, for finitely many calls |
| `EveryCallerSettles` | `NoneHangs`: each call goes on without a server | `CallersRunDown`: each call by itself, whatever the servers answer |
| `WaitsEnd` | `NoneStuck`: each flow goes on without a rejection | `FlowsRunDown`: each flow by itself, from its deadline on, which passes |

`CanProgress`, `CanGoOn` and `LnurlCanGoOn` spell out the guards of the fair actions, which
stand for their `ENABLED`. What remains to TLC is to put the two facts together under the
weak fairness of section 3.

## 5. Disagreements between code and documents

- `lost_checkpoint` (`wallet-account-rgb-lightning.js:340`). `_vssCheckpointPending` is
  cleared microtasks after the checkpoint loop saw no dirty work. A mutation that
  completes in between sets `_vssDirty` and schedules nothing, so that its checkpoint
  waits for other work. `src/README.md:567` promises a checkpoint after such work.
- `lsp_raw_error` (`lsp-client.js:625`). A body that breaks off or times out, and an abort
  during a backoff, reject with the raw error and not with an `LspError`.

Smaller observations the models reach, with no property of their own (see the notes of
the hazards): `dispose()` does not count a pending signing request; an `enable()` in
the microtasks after a revoked approval joins the settled prompt and resolves without
being authorised (later calls are refused); a failed shutdown leaves the account open
while the facade's address queue stays stopped.

An *off* transition can be followed by one automatic upload when an `autoUnlockRequest` is
configured and the binding unlocks asynchronously: an unlock equal to that request joins the
policy barrier of the address read in flight (`wallet-account-rgb-lightning.js:120`), may
complete behind the commit of the transition, and schedules its checkpoint under the old
preference. `OffMeansOff` with `Unlocks = {u1}`, one address, one policy and
`AutoUnlock = TRUE` shows it. If the transition turns backup *on* instead, the unlock may
complete while the transition uploads: the acknowledgement then clears `_vssDirty` although
the upload did not hold that unlock, a violation of `DirtyCovers` in the same setup. With the
address and the unlock apart neither occurs, whatever else is called (section 4).

A burn deferred behind a policy transition may reach a stopped node. `burnAsset` looks at
`_unlockInFlight` and takes its node before it waits for the transition
(`wallet-account-rgb-lightning.js:872`). An unlock called while the transition is under way
waits for the same promise and runs after the burn. Others do not, may fall back to the legacy
signer and then stop the node the burn holds:

- one called in the microtasks between the fall of `_vssPolicyChanges` (line 288) and the
  settling of the tail (line 289): it reads no barrier (lines 120 to 122);
- the automatic unlock of an address read that was in flight before the transition began,
  and an `unlock()` with the same request: they have that read's earlier barrier.

The comment at line 880 says "Do not defer dispatch". `Overtaken` is these cases, and
`SentToLiveNode` says that there are no others; without its last conjunct `binding_handles`
shows each of them.

An overtaken call of the page may still learn that a native list was malformed:
`webrgb.js` 244 to 246 and 280 to 289 throw without reading the revision again after the
check of `#call`, some microtasks earlier. `NothingAfterRevoke` excludes this answer, which
holds nothing of the list, and no other.

Of the transfers: `transfer()` to a Bitcoin address ignores `options.token` and sends bitcoin
(`TransferRequest!BtcRequest`); a fee rate given for an RGB transfer is passed on without the
check a Bitcoin transfer gets from its quote; `sendPayment` and `keysend` are no native
mutations, so with an asynchronous binding `shutdown()` does not join them.

Of the LSP flows: an abort that arrives while `sync()` or `listChannels()` is awaited is
noticed only after the whole interval of the sleep that follows, and is reported as a
timeout when the deadline passes in that sleep (`NoRoundAfterAbort` says what remains true);
`_sleep` never removes its listener when its timer fires, so a long wait leaves one per poll
on the caller's signal; a beforePay hook, or the awaits of the resolver route, may outlast the expiry that was checked
before them, which the code leaves to the node to refuse; `assertRelayQuote` does not compare the asset of the HODL
invoice with the `payWithAssetId` that was asked for, so that comparison is the caller's.

## 6. Plan

In order of importance; all exist.

1. `AccountScheduler` with `DrainedTeardown`.
2. `BindingLifecycle`.
3. `WalletManager`.
4. `ReceiveAddress`.
5. `WebRgbSession`.
6. `LspRequest`.
7. `LspQuote`, `LspPayment`.
8. `LinkedAssets`, `LspReadiness`, `RelayPayment`, `LspSession`.
9. `LnurlPay` over `LspRequest`.
10. `TransferRequest`, `AccountCalls` over `BindingLifecycle`.
11. The proofs of section 4.
12. `ApayProof`: the Merkle path of `verifyApayInvoiceProof` against the tree of the recipient.

## 7. Running

    tlc -config scheduler_policy.cfg MCAccountScheduler
    tlapm AccountScheduler_proofs.tla

`PROJECT.json` lists each run with its module and its properties, the mutants and the
theorems.
