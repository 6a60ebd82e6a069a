---------------------------- MODULE AccountCalls ----------------------------
(***************************************************************************)
(* The calls of one WalletAccountRgbLightning that reach its binding after *)
(* an await: transfers, burns, and the VSS recovery calls, against unlock, *)
(* policy transitions, shutdown and disposal, over the native handles of   *)
(* BindingLifecycle.  The binding is synchronous; what is interleaved are  *)
(* the awaits of the account.  AccountScheduler models those promises one  *)
(* by one; here a call is behind the policy transition under way           *)
(* ("deferred"), or its continuation is queued ("due").                    *)
(***************************************************************************)
EXTENDS BindingLifecycle, TransferRequest

CONSTANTS
  Sends,      \* calls of transfer() and sendTransaction()
  Burns,      \* calls of burnAsset()
  Takeovers,  \* calls of clearVssFence()
  Restores,   \* calls of prepareVssRestore()
  Orders,     \* what a send may be given
  Decodings,  \* what decodeRgbInvoice may answer
  Estimates,  \* what estimateFee may answer; 0 for a failure
  Setups,     \* the calls the application makes, and its configuration
  NoOrder, NoDecoding, NoRequest,
  BurnRequest

Recoveries == Takeovers \cup Restores
Payments == Sends \cup Burns
Calls == Payments \cup Recoveries

ASSUME CallsAssumption ==
  /\ Sends \cap Burns = {} /\ Payments \cap Recoveries = {} /\ Takeovers \cap Restores = {}
  /\ \A o \in Orders : o \in OrderType
  /\ \A d \in Decodings : d \in DecodedType
  /\ Estimates \subseteq Int
  /\ NoOrder \notin Orders /\ NoDecoding \notin Decodings
  /\ NoRequest # BurnRequest
  /\ Setups \subseteq [calls : SUBSET Calls, proxy : BOOLEAN, mainnet : BOOLEAN, auto : BOOLEAN]

VARIABLES
  setup,      \* [calls, proxy, mainnet, auto]: auto for autoUnlockRequest
  life,       \* _closed and _shutdownInFlight: "open", "stopping" or "closed"
  transition, \* _vssPolicyChanges > 0
  unlock,     \* _unlockInFlight: "none", "waiting" for the transition, "behind" what
              \* waited for it too, or "due"
  address,    \* the same of an address read, when it may unlock
  captured,   \* the transition under way waits for the unlock in flight
  pc,         \* where each call is
  order,      \* what each send was given
  decoded,    \* the RGB invoice as it was decoded
  rate,       \* the fee rate it settled on
  fee,        \* the fee it quoted
  target,     \* the node a burn took, and the one that was given the request
  sent,       \* history: the request the node was given
  scope,      \* expectedScope of a recovery: the identity the user reviewed
  barrier,    \* the unlock it captured: "none", "unlock" or "broken"
  acted       \* history: the identity of the signer when the native call was made

accountVars == <<setup, life, transition, unlock, address, captured>>
sendVars == <<order, decoded, rate, fee>>
recoveryVars == <<scope, barrier, acted>>
callsVars == <<vars, accountVars, pc, sendVars, target, sent, recoveryVars>>

CallsInit ==
  /\ Init
  /\ setup \in Setups
  /\ life = "open" /\ transition = FALSE /\ unlock = "none" /\ address = "none"
  /\ captured = FALSE
  /\ pc = [c \in Calls |-> "idle"]
  /\ order = [c \in Sends |-> NoOrder] /\ decoded = [c \in Sends |-> NoDecoding]
  /\ rate = [c \in Sends |-> Unset] /\ fee = [c \in Sends |-> Unset]
  /\ target = [c \in Payments |-> None] /\ sent = [c \in Payments |-> NoRequest]
  /\ scope = [r \in Recoveries |-> None] /\ barrier = [r \in Recoveries |-> "none"]
  /\ acted = [r \in Recoveries |-> None]
-----------------------------------------------------------------------------
Enter(c, phase) == pc' = [pc EXCEPT ![c] = phase]
Await(c, phase) == Enter(c, phase) /\ UNCHANGED <<vars, target, sent>>
Fail(c) == Await(c, "failed")

\* binding.ensureNode(); it throws when the binding is closed, or creating a
\* node does.
TakeNode(n) ==
  /\ ~closed /\ Ensured(n)
  /\ node' = n /\ nodeState' = Opened(n)
  /\ UNCHANGED <<closed, signer, pendingCleanup, secretVars, sdkInitDone,
                 signerState, signerSeed, attached, disk>>
NoNode == closed \/ node = None

\* The native call is made, and returns or throws.
Give(c, request) ==
  /\ sent' = [sent EXCEPT ![c] = request]
  /\ \E phase \in {"done", "failed"} : Enter(c, phase)

Deliver(c, request) ==
  \/ NoNode /\ Fail(c)
  \/ \E n \in Nodes :
       TakeNode(n) /\ target' = [target EXCEPT ![c] = n] /\ Give(c, request)

\* _nativeMutation: a policy transition delays the dispatch.
Mutate(c, request) ==
  IF life # "open" THEN Fail(c)
  ELSE IF transition THEN Await(c, "deferred") ELSE Deliver(c, request)
-----------------------------------------------------------------------------
\* transfer(options), and sendTransaction(tx) for a Bitcoin address, up to the
\* first await.  sendPayment and keysend are no mutations.
Send(c) ==
  /\ pc[c] = "idle"
  /\ \E o \in Orders :
       /\ order' = [order EXCEPT ![c] = o]
       /\ rate' = [rate EXCEPT ![c] = o.feeRate]
       /\ IF Refused(o, setup.mainnet) \/ (Lightning(o) /\ life # "open") THEN Fail(c)
          ELSE IF Lightning(o) THEN Deliver(c, LightningRequest(o))
          ELSE Await(c, IF o.route = "rgb-invoice" THEN "decoding"
                        ELSE IF o.feeRate = Unset THEN "rating" ELSE "quoting")
  /\ UNCHANGED <<decoded, fee>>

\* decodeRgbInvoice returned or threw.
Decode(c) ==
  /\ pc[c] = "decoding"
  /\ \/ Fail(c) /\ UNCHANGED decoded
     \/ \E d \in Decodings :
          /\ decoded' = [decoded EXCEPT ![c] = d]
          /\ IF ~Deliverable(order[c], d, setup.proxy) THEN Fail(c)
             ELSE IF rate[c] = Unset THEN Await(c, "rating")
             ELSE Mutate(c, RgbRequest(order[c], d, rate[c], setup.proxy))
  /\ UNCHANGED <<order, rate, fee>>

\* _defaultFeeRate(6) returned.
Rate(c) ==
  /\ pc[c] = "rating"
  /\ \E e \in Estimates :
       LET found == DefaultFeeRate(e)
       IN /\ rate' = [rate EXCEPT ![c] = found]
          /\ IF order[c].route = "btc-address" THEN Await(c, "quoting")
             ELSE Mutate(c, RgbRequest(order[c], decoded[c], found, setup.proxy))
  /\ UNCHANGED <<order, decoded, fee>>

\* Mutant: the quote estimates the rate once more.
QuoteAnew(c) ==
  /\ pc[c] = "quoting"
  /\ \E e \in Estimates :
       /\ fee' = [fee EXCEPT ![c] = QuotedFee(DefaultFeeRate(e))]
       /\ Mutate(c, BtcRequest(order[c], rate[c]))
  /\ UNCHANGED <<order, decoded, rate>>
\* quoteSendTransaction returned the fee of this rate, or refused the rate.
Quote(c) ==
  /\ pc[c] = "quoting"
  /\ IF rate[c] <= 0 THEN Fail(c) /\ UNCHANGED fee
     ELSE /\ fee' = [fee EXCEPT ![c] = QuotedFee(rate[c])]
          /\ Mutate(c, BtcRequest(order[c], rate[c]))
  /\ UNCHANGED <<order, decoded, rate>>

Request(c) ==
  IF order[c].route = "btc-address" THEN BtcRequest(order[c], rate[c])
  ELSE RgbRequest(order[c], decoded[c], rate[c], setup.proxy)

\* The policy transition is over: the mutation is dispatched, also while a
\* shutdown waits for it.
Dispatch(c) ==
  /\ pc[c] = "due"
  /\ Deliver(c, Request(c))
  /\ UNCHANGED sendVars

SendStep(c) == Send(c) \/ Decode(c) \/ Rate(c) \/ Quote(c) \/ Dispatch(c)
-----------------------------------------------------------------------------
\* Mutant: a burn is admitted while an unlock is in flight.
BurnAssetUnguarded(b) ==
  /\ pc[b] = "idle"
  /\ \/ (life # "open" \/ NoNode) /\ Fail(b)
     \/ /\ life = "open"
        /\ \E n \in Nodes : TakeNode(n) /\ target' = [target EXCEPT ![b] = n]
        /\ IF transition THEN Enter(b, "deferred") /\ UNCHANGED sent ELSE Give(b, BurnRequest)
\* burnAsset(request) takes the node first and then waits for the transition.
BurnAsset(b) ==
  /\ pc[b] = "idle"
  /\ \/ (unlock # "none" \/ life # "open" \/ NoNode) /\ Fail(b)
     \/ /\ unlock = "none" /\ life = "open"
        /\ \E n \in Nodes : TakeNode(n) /\ target' = [target EXCEPT ![b] = n]
        /\ IF transition THEN Enter(b, "deferred") /\ UNCHANGED sent ELSE Give(b, BurnRequest)

BurnDispatch(b) ==
  /\ pc[b] = "due"
  /\ Give(b, BurnRequest) /\ UNCHANGED <<vars, target>>
-----------------------------------------------------------------------------
\* clearVssFence and prepareVssRestore: queued behind the transition, with the
\* unlock in flight (a restore is refused then).
Recover(r) ==
  /\ pc[r] = "idle"
  /\ \E reviewed \in Seeds \cup {None} :
       IF life # "open" \/ (r \in Restores /\ unlock # "none")
         THEN Fail(r) /\ UNCHANGED <<scope, barrier>>
         ELSE /\ Await(r, IF transition THEN "deferred" ELSE "due")
              /\ scope' = [scope EXCEPT ![r] = reviewed]
              /\ barrier' = [barrier EXCEPT ![r] = IF unlock = "none" THEN "none" ELSE "unlock"]
  /\ UNCHANGED acted

\* assertVssRecoveryScope: no scope is the legacy call.
ScopeHolds(r) == scope[r] # None => signer # None /\ scope[r] = signerSeed[signer]

\* The native call on node n: the takeover, or the initialisation and the
\* restore, whose receipt must name the signer.
RecoverNatively(r, n) ==
  /\ IF r \in Takeovers THEN TakeNode(n) ELSE PrepareVssRestore(n)
  /\ acted' = [acted EXCEPT ![r] = IF signer = None THEN None ELSE signerSeed[signer]]
  /\ \E phase \in {"done", "failed"} : Enter(r, phase)

\* Mutant: the binding does not compare the scope with its signer.
RecoveryRunsUnscoped(r) ==
  /\ pc[r] = "due" /\ barrier[r] # "unlock"
  /\ \/ barrier[r] = "broken" /\ Fail(r) /\ UNCHANGED acted
     \/ barrier[r] = "none" /\ \E n \in Nodes : RecoverNatively(r, n) /\ UNCHANGED <<target, sent>>
  /\ UNCHANGED <<scope, barrier>>
\* Its turn in _vssTail has come and the unlock it captured has settled.
RecoveryRuns(r) ==
  /\ pc[r] = "due" /\ barrier[r] # "unlock"
  /\ \/ (barrier[r] = "broken" \/ ~ScopeHolds(r) \/ NoNode) /\ Fail(r) /\ UNCHANGED acted
     \/ /\ barrier[r] = "none" /\ ScopeHolds(r)
        /\ \E n \in Nodes :
             \/ RecoverNatively(r, n)
             \/ r \in Restores /\ InitializeFails(n) /\ Enter(r, "failed") /\ UNCHANGED acted
        /\ UNCHANGED <<target, sent>>
  /\ UNCHANGED <<scope, barrier>>
-----------------------------------------------------------------------------
\* unlock(request), behind a transition under way; with the request of the
\* address read in flight, behind what that read waited for, though a
\* transition has begun since which does not wait for this unlock.
AccountUnlock ==
  /\ life = "open" /\ unlock = "none"
  /\ \/ unlock' = IF transition THEN "waiting" ELSE "due"
     \/ address # "none" /\ unlock' = address
  /\ captured' = FALSE /\ UNCHANGED address

\* getAddress() of a locked node unlocks it, behind the transition that was
\* under way when it was called, and not behind a later one.
GetAddress ==
  /\ setup.auto /\ life = "open" /\ address = "none"
  /\ address' = IF transition THEN "waiting" ELSE "due"
  /\ UNCHANGED <<unlock, captured>>
\* A locked node is unlocked, or the unlock in flight joined, and a transition
\* that waits for the address waits for that unlock.
AddressReads ==
  /\ address \in {"due", "behind"} /\ address' = "none"
  /\ \/ UNCHANGED <<unlock, captured>>
     \/ /\ unlock # "waiting" /\ captured' = transition
        /\ unlock' = IF unlock = "none" THEN address ELSE unlock

\* What binding.unlock() does when it succeeds, and when it throws.
UnlockSucceeds ==
  \E n \in Nodes :
    \/ UnlockOk(n)
    \/ \E f \in Signers, fresh \in Nodes : UnlockFallback(n, f, fresh) /\ attached'[fresh] = f
UnlockThrows ==
  \/ closed /\ UNCHANGED vars
  \/ \E n \in Nodes :
       \/ InitializeFails(n) \/ UnlockFails(n)
       \/ \E f \in Signers :
            \/ \E released \in BOOLEAN : RetirePrimaryFails(n, f, released)
            \/ UnlockSwapped(n, f)
            \/ \E fresh \in Nodes : UnlockFallback(n, f, fresh) /\ attached'[fresh] # f

Released(outcome) == [r \in Recoveries |-> IF barrier[r] = "unlock" THEN outcome ELSE barrier[r]]

\* A burn that waited for the same transition runs before an unlock that did:
\* the reactions of a promise run in the order in which they were attached, and
\* no burn is admitted with an unlock in flight.  An unlock called when the
\* count has fallen and the tail has not settled waited for nothing.
UnlockRuns ==
  /\ unlock \in {"due", "behind"}
  /\ unlock = "behind" => \A b \in Burns : pc[b] # "due"
  /\ unlock' = "none"
  /\ \/ UnlockSucceeds /\ barrier' = Released("none")
     \/ UnlockThrows /\ barrier' = Released("broken")
  /\ captured' = FALSE /\ UNCHANGED address

\* setVssAutomaticBackupEnabled() waits for what was admitted before it.
BeginTransition ==
  /\ life = "open" /\ ~transition /\ transition' = TRUE
  /\ captured' = (unlock # "none")
  /\ UNCHANGED <<unlock, address, pc>>
\* Its end is the fall of _vssPolicyChanges; its tail settles a little later.
EndTransition ==
  /\ transition /\ transition' = FALSE
  /\ ~captured /\ address \notin {"due", "behind"} /\ \A c \in Calls : pc[c] # "due"
  /\ unlock' = CASE unlock = "waiting" -> "behind" [] unlock = "behind" -> "due" [] OTHER -> unlock
  /\ address' = IF address = "waiting" THEN "behind" ELSE address
  /\ pc' = [c \in Calls |-> IF pc[c] = "deferred" THEN "due" ELSE pc[c]]
  /\ UNCHANGED captured

\* Nothing is left that shutdown() awaits and dispose() refuses to run under.
Joined ==
  /\ unlock = "none" /\ address = "none" /\ ~transition
  /\ \A c \in Calls : pc[c] \notin {"deferred", "due"}

ShutdownBegins == life = "open" /\ life' = "stopping" /\ UNCHANGED vars
ShutdownRuns ==
  /\ life = "stopping" /\ Joined
  /\ \/ ShutdownDone /\ life' = "closed"
     \/ ShutdownNodeFails /\ life' = "open"
     \/ ShutdownSignerFails /\ life' = "open"
     \/ \E released \in 0..Len(pendingCleanup) : ShutdownCleanupFails(released) /\ life' = "open"
\* The dispose() of the manager shuts the binding down under the account.
Dispose == life # "stopping" /\ Joined /\ Shutdown /\ UNCHANGED life

\* getAccount() of the manager attaches the signer; a read opens the node.
HandleSteps ==
  \/ \E n \in Nodes : EnsureNode(n)
  \/ \E s \in Signers, from \in Seeds, fallback \in {"legacy", None} :
       AttachExternalSigner(s, from, fallback)
-----------------------------------------------------------------------------
PaymentSteps ==
  /\ \/ \E c \in setup.calls \cap Sends : SendStep(c)
     \/ \E b \in setup.calls \cap Burns : (BurnAsset(b) \/ BurnDispatch(b)) /\ UNCHANGED sendVars
  /\ UNCHANGED <<accountVars, recoveryVars>>
RecoverySteps ==
  /\ \E r \in setup.calls \cap Recoveries : Recover(r) \/ RecoveryRuns(r)
  /\ UNCHANGED <<accountVars, sendVars>>
UnlockSteps ==
  /\ \/ (AccountUnlock \/ GetAddress \/ AddressReads) /\ UNCHANGED <<vars, barrier>>
     \/ UnlockRuns
  /\ UNCHANGED <<setup, life, transition, pc, sendVars, target, sent, scope, acted>>
TransitionSteps ==
  /\ BeginTransition \/ EndTransition
  /\ UNCHANGED <<vars, setup, life, sendVars, target, sent, recoveryVars>>
TeardownSteps ==
  /\ ShutdownBegins \/ ShutdownRuns \/ Dispose
  /\ UNCHANGED <<setup, transition, unlock, address, captured, pc, sendVars, target, sent, recoveryVars>>

CallsNext ==
  \/ PaymentSteps \/ RecoverySteps \/ UnlockSteps \/ TransitionSteps \/ TeardownSteps
  \/ HandleSteps /\ UNCHANGED <<accountVars, pc, sendVars, target, sent, recoveryVars>>

CallsSpec == CallsInit /\ [][CallsNext]_callsVars
-----------------------------------------------------------------------------
\* What a node is given is what was ordered: the amount, the token, the rate;
\* the recipient, the contract, the endpoints and the output of the one RGB
\* invoice that was decoded; and the fee of a Bitcoin transfer was quoted for
\* the rate it goes out with, whatever the estimates said in between
\* (wallet-account-rgb-lightning.js: transfer, sendTransaction).
SentAsOrdered ==
  \A c \in Sends : sent[c] # NoRequest =>
    LET o == order[c]
        d == decoded[c]
    IN /\ sent[c].amount = o.amount
       /\ Lightning(o) => ~setup.mainnet
       /\ o.token # "none" /\ o.route # "btc-address" => sent[c].asset = o.token
       /\ ~Lightning(o) => sent[c].rate = o.feeRate \/ (o.feeRate = Unset /\ sent[c].rate > 0)
       /\ o.route = "btc-address" => fee[c] = QuotedFee(sent[c].rate)
       /\ o.route = "rgb-invoice" =>
            /\ sent[c].to = d.recipient /\ sent[c].asset \in {o.token, d.asset} \ {"none"}
            /\ sent[c].endpoints = "invoice" <=> d.endpoints
            /\ sent[c].witness <=> d.type = "Witness"
            /\ sent[c].witness => o.witnessData = "valid"

\* An unlock the burn is not ordered before: one called when the transition's
\* count had fallen and its tail had not settled, or the automatic unlock of an
\* address read, or one with its request, which wait for no transition later
\* than the read.
Overtaken(b) ==
  \/ unlock = "due" /\ (pc[b] = "due" \/ setup.auto)
  \/ unlock = "behind" /\ pc[b] = "deferred" /\ setup.auto

\* A request is given once, and after a shutdown has begun only if it was
\* admitted before.  A send, and a burn that waits for nothing, is given to a
\* live node of an open binding, whatever was stopped, swapped or closed during
\* the awaits: "A cancelled native node cannot be reused" (bare-binding.js:209).
\* A burn that waits has taken its node before, and only an unlock that
\* overtakes it takes the node from under it: no shutdown, disposal or recovery,
\* and no unlock that waited for the same transition.
SentToLiveNode ==
  [][/\ \A c \in Payments : sent'[c] # sent[c] =>
          /\ sent[c] = NoRequest
          /\ life = "open" \/ pc[c] = "due"
          /\ c \in Sends \/ pc[c] = "idle" => ~closed /\ nodeState'[target'[c]] = "live"
     /\ \A b \in Burns :
          pc[b] \in {"deferred", "due"} /\ nodeState[target[b]] = "live"
            /\ nodeState'[target[b]] # "live" => Overtaken(b)]_callsVars

\* A recovery call acts for the wallet the user reviewed or not at all, though
\* an unlock may replace the signer while the call is queued: "The VSS writer
\* recovery context changed. Nothing was cleared." (vss-policy.js).
ScopedRecovery ==
  \A r \in Recoveries : scope[r] # None /\ acted[r] # None => acted[r] = scope[r]
=============================================================================
