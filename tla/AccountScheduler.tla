-------------------------- MODULE AccountScheduler --------------------------
(***************************************************************************)
(* The promise scheduler of WalletAccountRgbLightning                      *)
(* (src/src/wallet-account-rgb-lightning.js).  The account serialises the  *)
(* calls of an application onto one native node: unlock, getAddress, the   *)
(* native mutations, manual VSS backups, changes of the automatic backup   *)
(* preference, metadata reads, BIP-322 signing and shutdown.  Every action *)
(* below is one synchronous segment of that code, from one await to the    *)
(* next; a native call may take any time and may fail.  A call is used     *)
(* once: its identifier is the promise other calls capture and await.      *)
(***************************************************************************)
EXTENDS Naturals, Sequences, FiniteSets

CONSTANTS
  Unlocks,       \* calls of unlock(request)
  Addresses,     \* calls of getAddress()
  Mutations,     \* calls that go through _nativeMutation
  Burns,         \* those mutations that are burnAsset(request)
  Policies,      \* calls of setVssAutomaticBackupEnabled(enabled)
  Manuals,       \* calls of vssBackup()
  Reads,         \* calls of getVssBackupMetadata()
  Signs,         \* calls of signMessageBip322 / getMessageSigningAddress
  Receives,      \* receive addresses the node may return
  AutoUnlock,    \* is bindings.autoUnlockRequest configured?
  MaxShutdowns,  \* how often the application calls shutdown()
  Checkpoint,    \* the automatic checkpoint in the VSS queue
  None           \* null / undefined

Calls == Addresses \cup Mutations \cup Policies \cup Manuals \cup Reads \cup Signs
UnlockOps == Unlocks \cup Addresses  \* an address call owns the unlock it falls back to
Requests == {"auto", "other"}        \* does a request equal the autoUnlockRequest?
Preference == {"on", "off"}
Flight == [op : UnlockOps, request : Requests, policy : Policies \cup {None}]

ASSUME SchedulerAssumption ==
  /\ Burns \subseteq Mutations
  /\ AutoUnlock \in BOOLEAN
  /\ MaxShutdowns \in Nat
  /\ Addresses \cap (Mutations \cup Policies \cup Manuals \cup Reads \cup Signs) = {}
  /\ Mutations \cap (Policies \cup Manuals \cup Reads \cup Signs) = {}
  /\ Policies \cap (Manuals \cup Reads \cup Signs) = {}
  /\ Manuals \cap (Reads \cup Signs) = {}
  /\ Reads \cap Signs = {}
  /\ Unlocks \cap Calls = {}
  /\ Checkpoint \notin Calls \cup Unlocks
  /\ None \notin Calls \cup Unlocks \cup Receives \cup Flight

VARIABLES
  pc,             \* where each call is
  unl,            \* where each unlock operation is
  admission,      \* the promises a call captured when it was admitted
  unlockInFlight, \* this._unlockInFlight
  addressInFlight,\* this._addressInFlight, with _addressAdmission
  policyTail,     \* this._vssPolicyTail
  want,           \* the preference each policy call asks for
  automatic,      \* this._vssAutomaticBackupEnabled
  dirty,          \* this._vssDirty
  checkpointPending, \* the ticket of this._vssCheckpointPending, 0 for null
  checkpointFailed,  \* binding._vssCheckpointFailed
  lastAddress,    \* this._lastVssAddress
  vssQueue,       \* the operations chained on this._vssTail, the head runs
  served,         \* how many operations have left vssQueue
  checkpointNative, \* is an upload of the automatic checkpoint in progress?
  signQueue,      \* the operations chained on this._messageSigningTail
  shutdown,       \* the phase of this._shutdownInFlight, "none" for null
  drain,          \* the promises the current phase of shutdown awaits
  attempts,       \* shutdown() calls so far
  closed,         \* this._closed
  bindingClosed,  \* binding._closed
  nativePolicy,   \* the durable preference of the native runtime
  unsaved,        \* history: completed work no acknowledged upload covers
  uploading       \* history: the work the upload in progress covers

callVars == <<pc, unl, admission>>
flightVars == <<unlockInFlight, addressInFlight>>
policyVars == <<policyTail, want, nativePolicy>>
checkpointVars == <<dirty, checkpointPending, checkpointFailed, automatic>>
queueVars == <<vssQueue, served>>
asideVars == <<signQueue, checkpointNative>>
shutdownVars == <<shutdown, drain, attempts, closed, bindingClosed>>
historyVars == <<unsaved, uploading>>
vars == <<pc, unl, admission, unlockInFlight, addressInFlight, policyTail,
          want, nativePolicy, dirty, checkpointPending,
          checkpointFailed, automatic, lastAddress, vssQueue, served,
          checkpointNative, signQueue, shutdown, drain, attempts, closed, bindingClosed,
          unsaved, uploading>>
-----------------------------------------------------------------------------
Settled(c) == c # None => pc[c] \in {"done", "failed"}
UnlockSettled(u) == u # None => unl[u] \in {"done", "failed"}
UnlockFailed(u) == u # None /\ unl[u] = "failed"
AddressFailed(a) == a # None /\ pc[a] = "failed"

\* Mutant: calls are still admitted while a shutdown drains.
OpenIgnoresShutdown == ~closed
Open == ~closed /\ shutdown = "none"

\* this._vssPolicyChanges > 0: a transition is admitted and has not settled.
PolicyPending == \E p \in Policies : pc[p] \notin {"idle", "done", "failed"}
CurrentPolicy == IF PolicyPending THEN policyTail ELSE None
CurrentUnlock == IF unlockInFlight = None THEN None ELSE unlockInFlight.op
MutationsInFlight == {m \in Mutations : pc[m] \in {"waiting", "native"}}

Ticket == served + Len(vssQueue)   \* the last operation chained on _vssTail
NoAdmission == [policy |-> None, unlock |-> None, address |-> None,
                mutations |-> {}, ticket |-> 0]
NoDrain == [unlock |-> None, calls |-> {}, ticket |-> 0]

Init ==
  /\ pc = [c \in Calls |-> "idle"]
  /\ unl = [u \in UnlockOps |-> "idle"]
  /\ admission = [c \in Calls |-> NoAdmission]
  /\ unlockInFlight = None /\ addressInFlight = None
  /\ policyTail = None
  /\ want \in [Policies -> Preference]
  /\ nativePolicy \in Preference
  /\ dirty = FALSE /\ checkpointPending = 0 /\ checkpointFailed = FALSE
  /\ automatic = "null" /\ lastAddress = None
  /\ vssQueue = <<>> /\ served = 0 /\ checkpointNative = FALSE
  /\ signQueue = <<>>
  /\ shutdown = "none" /\ drain = NoDrain /\ attempts = 0
  /\ closed = FALSE /\ bindingClosed = FALSE
  /\ unsaved = {} /\ uploading = {}

Goto(c, phase) == pc' = [pc EXCEPT ![c] = phase]
-----------------------------------------------------------------------------
\* Mutant: the checkpoint is scheduled whatever the preference is.
AfterVssMutationAnyway(c) ==
  \E known \in IF automatic = "null" THEN {nativePolicy, "null"} ELSE {automatic} :
    /\ automatic' = known
    /\ dirty' = TRUE
    /\ unsaved' = unsaved \cup {c}
    /\ IF checkpointPending = 0 /\ ~closed
         THEN /\ vssQueue' = Append(vssQueue, Checkpoint)
              /\ checkpointPending' = Ticket + 1
         ELSE UNCHANGED <<vssQueue, checkpointPending>>
(* _afterVssMutation: completed work c is dirty until a checkpoint uploads  *)
(* it.  An unknown preference is read from the node, and stays unknown when *)
(* that read throws.                                                       *)
AfterVssMutation(c) ==
  \E known \in IF automatic = "null" THEN {nativePolicy, "null"} ELSE {automatic} :
    /\ automatic' = known
    /\ dirty' = TRUE
    /\ unsaved' = unsaved \cup {c}
    /\ IF known = "on" /\ checkpointPending = 0 /\ ~closed
         THEN /\ vssQueue' = Append(vssQueue, Checkpoint)
              /\ checkpointPending' = Ticket + 1
         ELSE UNCHANGED <<vssQueue, checkpointPending>>

NoVssMutation ==
  UNCHANGED <<automatic, dirty, unsaved, vssQueue, checkpointPending>>
-----------------------------------------------------------------------------
(* _unlockWithPolicy, up to its first await: join the unlock in flight, be  *)
(* refused by a different one, or start operation op behind `policy`.      *)
UnlockWithPolicy(op, request, policy) ==
  IF unlockInFlight = None
    THEN /\ unlockInFlight' = [op |-> op, request |-> request, policy |-> policy]
         /\ unl' = [unl EXCEPT ![op] = "waiting"]
    ELSE UNCHANGED <<unlockInFlight, unl>>

UnlockConflict(request) ==
  unlockInFlight # None /\ unlockInFlight.request # request

\* unlock(request): an equal request joins the policy barrier of the address
\* in flight, so the address never waits for a later policy transition.
UnlockPolicy(request) ==
  IF addressInFlight # None /\ AutoUnlock /\ request = "auto"
    THEN admission[addressInFlight].policy
    ELSE CurrentPolicy

Unlock(u) ==
  /\ unl[u] = "idle"
  /\ \E request \in Requests :
       IF ~Open \/ UnlockConflict(request)
         THEN unl' = [unl EXCEPT ![u] = "failed"] /\ UNCHANGED unlockInFlight
         ELSE IF unlockInFlight # None
                THEN unl' = [unl EXCEPT ![u] = "joined"] /\ UNCHANGED unlockInFlight
                ELSE UnlockWithPolicy(u, request, UnlockPolicy(request))
  /\ UNCHANGED <<pc, admission, addressInFlight, policyVars, checkpointVars,
                 lastAddress, queueVars, asideVars, shutdownVars, historyVars>>

UnlockStart(u) ==
  /\ unl[u] = "waiting"
  /\ Settled(unlockInFlight.policy)
  /\ unl' = [unl EXCEPT ![u] = IF bindingClosed THEN "failed" ELSE "native"]
  /\ UNCHANGED <<pc, admission, flightVars, policyVars, checkpointVars,
                 lastAddress, queueVars, asideVars, shutdownVars, historyVars>>

UnlockEnd(u) ==
  /\ unl[u] = "native"
  /\ \/ unl' = [unl EXCEPT ![u] = "done"] /\ AfterVssMutation(u)
     \/ unl' = [unl EXCEPT ![u] = "failed"] /\ NoVssMutation
  /\ UNCHANGED <<pc, admission, flightVars, policyVars, checkpointFailed,
                 lastAddress, served, asideVars, shutdownVars, uploading>>

\* Mutant: the operation is forgotten as soon as its native call starts.
UnlockClearEarly ==
  /\ unlockInFlight # None /\ unl[unlockInFlight.op] # "waiting"
  /\ unlockInFlight' = None
  /\ UNCHANGED <<callVars, addressInFlight, policyVars, checkpointVars,
                 lastAddress, queueVars, asideVars, shutdownVars, historyVars>>
\* The finally of _unlockWithPolicy runs after the operation has settled.
UnlockClear ==
  /\ unlockInFlight # None /\ UnlockSettled(unlockInFlight.op)
  /\ unlockInFlight' = None
  /\ UNCHANGED <<callVars, addressInFlight, policyVars, checkpointVars,
                 lastAddress, queueVars, asideVars, shutdownVars, historyVars>>
-----------------------------------------------------------------------------
(* getAddress: one call at a time reads the node; a locked node is unlocked *)
(* once with the autoUnlockRequest and read again.                         *)
GetAddress(a) ==
  /\ pc[a] = "idle"
  /\ \/ /\ ~Open
        /\ Goto(a, "failed")
        /\ UNCHANGED <<admission, addressInFlight>>
     \/ /\ Open /\ addressInFlight # None
        /\ Goto(a, "joined")
        /\ UNCHANGED <<admission, addressInFlight>>
     \/ /\ Open /\ addressInFlight = None
        /\ Goto(a, "waiting")
        /\ addressInFlight' = a
        /\ admission' = [admission EXCEPT ![a].policy = CurrentPolicy,
                                          ![a].unlock = CurrentUnlock]
  /\ UNCHANGED <<unl, unlockInFlight, policyVars, checkpointVars, lastAddress,
                 queueVars, asideVars, shutdownVars, historyVars>>

AddressStart(a) ==
  /\ pc[a] = "waiting"
  /\ Settled(admission[a].policy) /\ UnlockSettled(admission[a].unlock)
  /\ Goto(a, IF UnlockFailed(admission[a].unlock) \/ bindingClosed
               THEN "failed" ELSE "reading")
  /\ UNCHANGED <<unl, admission, flightVars, policyVars, checkpointVars,
                 lastAddress, queueVars, asideVars, shutdownVars, historyVars>>

\* An unchanged address needs no checkpoint.
AddressRead(a, address) ==
  /\ Goto(a, "done")
  /\ lastAddress' = address
  /\ IF address = lastAddress THEN NoVssMutation ELSE AfterVssMutation(a)

AddressEnd(a) ==
  /\ pc[a] \in {"reading", "rereading"}
  /\ \/ \E address \in Receives : AddressRead(a, address)
     \/ Goto(a, "failed") /\ NoVssMutation /\ UNCHANGED lastAddress
  /\ UNCHANGED <<unl, admission, flightVars, policyVars, checkpointFailed,
                 served, asideVars, shutdownVars, uploading>>

\* Mutant: the fallback waits for the policy pending now, not at admission.
AddressLockedLatePolicy(a) ==
  /\ pc[a] = "reading" /\ AutoUnlock
  /\ IF closed \/ UnlockConflict("auto")
       THEN Goto(a, "failed") /\ UNCHANGED <<unl, unlockInFlight, admission>>
       ELSE /\ Goto(a, "unlocking")
            /\ UnlockWithPolicy(a, "auto", CurrentPolicy)
            /\ admission' = [admission EXCEPT ![a].unlock =
                               IF unlockInFlight = None THEN a ELSE CurrentUnlock]
  /\ UNCHANGED <<addressInFlight, policyVars, checkpointVars, lastAddress,
                 queueVars, asideVars, shutdownVars, historyVars>>
\* AccountLockedError on the first read, with an autoUnlockRequest configured:
\* start the unlock, or join the one in flight.
AddressLocked(a) ==
  /\ pc[a] = "reading" /\ AutoUnlock
  /\ IF closed \/ UnlockConflict("auto")
       THEN Goto(a, "failed") /\ UNCHANGED <<unl, unlockInFlight, admission>>
       ELSE /\ Goto(a, "unlocking")
            /\ UnlockWithPolicy(a, "auto", admission[a].policy)
            /\ admission' = [admission EXCEPT ![a].unlock =
                               IF unlockInFlight = None THEN a ELSE CurrentUnlock]
  /\ UNCHANGED <<addressInFlight, policyVars, checkpointVars, lastAddress,
                 queueVars, asideVars, shutdownVars, historyVars>>

AddressUnlocked(a) ==
  /\ pc[a] = "unlocking" /\ UnlockSettled(admission[a].unlock)
  /\ Goto(a, IF UnlockFailed(admission[a].unlock) \/ bindingClosed
               THEN "failed" ELSE "rereading")
  /\ UNCHANGED <<unl, admission, flightVars, policyVars, checkpointVars,
                 lastAddress, queueVars, asideVars, shutdownVars, historyVars>>

AddressClear ==
  /\ addressInFlight # None /\ Settled(addressInFlight)
  /\ addressInFlight' = None
  /\ UNCHANGED <<callVars, unlockInFlight, policyVars, checkpointVars,
                 lastAddress, queueVars, asideVars, shutdownVars, historyVars>>
-----------------------------------------------------------------------------
(* _nativeMutation: dispatch at once, or behind the policy transition that  *)
(* was pending at admission.  burnAsset also looks at _unlockInFlight and   *)
(* at the node, before that barrier.                                       *)
BurnRefused(m) == m \in Burns /\ (unlockInFlight # None \/ bindingClosed)

Mutate(m) ==
  /\ pc[m] = "idle"
  /\ \/ /\ ~Open \/ BurnRefused(m)
        /\ Goto(m, "failed") /\ UNCHANGED admission
     \/ /\ Open /\ ~BurnRefused(m) /\ PolicyPending
        /\ Goto(m, "waiting")
        /\ admission' = [admission EXCEPT ![m].policy = policyTail]
     \/ /\ Open /\ ~BurnRefused(m) /\ ~PolicyPending
        /\ Goto(m, IF bindingClosed THEN "failed" ELSE "native")
        /\ UNCHANGED admission
  /\ UNCHANGED <<unl, flightVars, policyVars, checkpointVars, lastAddress,
                 queueVars, asideVars, shutdownVars, historyVars>>

\* Mutant: a deferred mutation is dispatched without its policy barrier.
MutationDispatchEarly(m) ==
  /\ pc[m] = "waiting"
  /\ Goto(m, IF closed \/ bindingClosed THEN "failed" ELSE "native")
  /\ UNCHANGED <<unl, admission, flightVars, policyVars, checkpointVars, lastAddress,
                 queueVars, asideVars, shutdownVars, historyVars>>
MutationDispatch(m) ==
  /\ pc[m] = "waiting" /\ Settled(admission[m].policy)
  /\ Goto(m, IF closed \/ bindingClosed THEN "failed" ELSE "native")
  /\ UNCHANGED <<unl, admission, flightVars, policyVars, checkpointVars,
                 lastAddress, queueVars, asideVars, shutdownVars, historyVars>>

MutationEnd(m) ==
  /\ pc[m] = "native"
  /\ \/ Goto(m, "done") /\ AfterVssMutation(m)
     \/ Goto(m, "failed") /\ NoVssMutation
  /\ UNCHANGED <<unl, admission, flightVars, policyVars, checkpointFailed,
                 lastAddress, served, asideVars, shutdownVars, uploading>>
-----------------------------------------------------------------------------
(* _vssOperation: operations run one at a time in the order they were       *)
(* chained on _vssTail.                                                    *)
Leave == vssQueue' = Tail(vssQueue) /\ served' = served + 1
Running(task) == vssQueue # <<>> /\ Head(vssQueue) = task

\* Mutant: the request is chained on the tail a pending transition drains.
VssBackupEager(v) ==
  /\ pc[v] = "idle"
  /\ IF ~Open
       THEN Goto(v, "failed") /\ UNCHANGED <<admission, vssQueue>>
       ELSE /\ admission' = [admission EXCEPT ![v].policy = CurrentPolicy,
                                              ![v].unlock = CurrentUnlock]
            /\ Goto(v, "queued") /\ vssQueue' = Append(vssQueue, v)
  /\ UNCHANGED <<unl, flightVars, policyVars, checkpointVars, lastAddress,
                 served, asideVars, shutdownVars, historyVars>>
\* vssBackup(): behind the pending policy transition and the unlock in flight.
VssBackup(v) ==
  /\ pc[v] = "idle"
  /\ IF ~Open
       THEN Goto(v, "failed") /\ UNCHANGED <<admission, vssQueue>>
       ELSE /\ admission' = [admission EXCEPT ![v].policy = CurrentPolicy,
                                              ![v].unlock = CurrentUnlock]
            /\ IF PolicyPending
                 THEN Goto(v, "waiting") /\ UNCHANGED vssQueue
                 ELSE Goto(v, "queued") /\ vssQueue' = Append(vssQueue, v)
  /\ UNCHANGED <<unl, flightVars, policyVars, checkpointVars, lastAddress,
                 served, asideVars, shutdownVars, historyVars>>

VssBackupEnqueue(v) ==
  /\ pc[v] = "waiting" /\ Settled(admission[v].policy)
  /\ Goto(v, "queued") /\ vssQueue' = Append(vssQueue, v)
  /\ UNCHANGED <<unl, admission, flightVars, policyVars, checkpointVars,
                 lastAddress, served, asideVars, shutdownVars, historyVars>>

VssBackupStart(v) ==
  /\ Running(v) /\ pc[v] = "queued" /\ UnlockSettled(admission[v].unlock)
  /\ IF UnlockFailed(admission[v].unlock) \/ bindingClosed
       THEN Goto(v, "failed") /\ Leave /\ UNCHANGED uploading
       ELSE Goto(v, "native") /\ uploading' = unsaved /\ UNCHANGED queueVars
  /\ UNCHANGED <<unl, admission, flightVars, policyVars, checkpointVars,
                 lastAddress, asideVars, shutdownVars, unsaved>>

VssBackupEnd(v) ==
  /\ Running(v) /\ pc[v] = "native"
  /\ Leave
  /\ uploading' = {}
  /\ \/ Goto(v, "done") /\ unsaved' = unsaved \ uploading /\ checkpointFailed' = FALSE
     \/ Goto(v, "failed") /\ UNCHANGED <<unsaved, checkpointFailed>>
  /\ UNCHANGED <<unl, admission, flightVars, policyVars, dirty, automatic,
                 checkpointPending, lastAddress, asideVars, shutdownVars>>

(* The checkpoint of _afterVssMutation: upload while there is dirty work,   *)
(* stop at the first failure and leave the work dirty.                     *)
CheckpointStart ==
  /\ Running(Checkpoint) /\ ~checkpointNative
  /\ \/ /\ dirty /\ ~bindingClosed
        /\ dirty' = FALSE /\ uploading' = unsaved /\ checkpointNative' = TRUE
        /\ UNCHANGED <<queueVars, checkpointFailed>>
     \/ /\ dirty /\ bindingClosed
        /\ checkpointFailed' = TRUE
        /\ Leave /\ UNCHANGED <<dirty, uploading, checkpointNative>>
     \/ /\ ~dirty
        /\ Leave /\ UNCHANGED <<dirty, uploading, checkpointNative, checkpointFailed>>
  /\ UNCHANGED <<callVars, flightVars, policyVars, automatic, checkpointPending,
                 lastAddress, signQueue, shutdownVars, unsaved>>

\* Mutant: the work is marked clean after the upload instead of before it.
CheckpointUploadedClean ==
  /\ checkpointFailed' = FALSE
  /\ unsaved' = unsaved \ uploading
  /\ uploading' = {} /\ checkpointNative' = FALSE
  /\ dirty' = FALSE /\ Leave
CheckpointUploaded ==
  /\ checkpointFailed' = FALSE
  /\ unsaved' = unsaved \ uploading
  /\ IF dirty
       THEN /\ dirty' = FALSE /\ uploading' = unsaved'
            /\ UNCHANGED <<queueVars, checkpointNative>>
       ELSE /\ uploading' = {} /\ checkpointNative' = FALSE
            /\ Leave /\ UNCHANGED dirty

CheckpointRefused ==
  /\ checkpointFailed' = TRUE /\ dirty' = TRUE
  /\ uploading' = {} /\ checkpointNative' = FALSE
  /\ Leave /\ UNCHANGED unsaved

CheckpointEnd ==
  /\ Running(Checkpoint) /\ checkpointNative
  /\ CheckpointUploaded \/ CheckpointRefused
  /\ UNCHANGED <<callVars, flightVars, policyVars, automatic, checkpointPending,
                 lastAddress, signQueue, shutdownVars>>

\* _vssCheckpointPending is cleared some microtasks after the loop has ended.
CheckpointClear ==
  /\ checkpointPending # 0 /\ served >= checkpointPending
  /\ checkpointPending' = 0
  /\ UNCHANGED <<callVars, flightVars, policyVars, dirty, automatic,
                 checkpointFailed, lastAddress, queueVars, asideVars,
                 shutdownVars, historyVars>>
-----------------------------------------------------------------------------
(* setVssAutomaticBackupEnabled(enabled): drain the work admitted before    *)
(* the request, then commit the native preference as one VSS operation.    *)
SetVssAutomatic(p) ==
  /\ pc[p] = "idle"
  /\ IF ~Open
       THEN Goto(p, "failed") /\ UNCHANGED <<admission, policyTail>>
       ELSE /\ Goto(p, "waiting")
            /\ admission' = [admission EXCEPT ![p] =
                 [policy |-> policyTail, unlock |-> CurrentUnlock,
                  address |-> addressInFlight, mutations |-> MutationsInFlight,
                  ticket |-> 0]]
            /\ policyTail' = p
  /\ UNCHANGED <<unl, flightVars, want, nativePolicy, checkpointVars,
                 lastAddress, queueVars, asideVars, shutdownVars, historyVars>>

\* The awaits run in this order: a failed unlock or address refuses the
\* transition as soon as the promises before it have settled.
PolicyRefuse(p) ==
  /\ pc[p] = "waiting" /\ Settled(admission[p].policy)
  /\ \/ UnlockFailed(admission[p].unlock)
     \/ UnlockSettled(admission[p].unlock) /\ AddressFailed(admission[p].address)
  /\ Goto(p, "refused")
  /\ UNCHANGED <<unl, admission, flightVars, policyVars, checkpointVars,
                 lastAddress, queueVars, asideVars, shutdownVars, historyVars>>

PolicyDrain(p) ==
  /\ pc[p] = "waiting" /\ Settled(admission[p].policy)
  /\ UnlockSettled(admission[p].unlock) /\ ~UnlockFailed(admission[p].unlock)
  /\ Settled(admission[p].address) /\ ~AddressFailed(admission[p].address)
  /\ \A m \in admission[p].mutations : Settled(m)
  /\ Goto(p, "draining")
  /\ admission' = [admission EXCEPT ![p].ticket = Ticket]
  /\ UNCHANGED <<unl, flightVars, policyVars, checkpointVars, lastAddress,
                 queueVars, asideVars, shutdownVars, historyVars>>

PolicyEnqueue(p) ==
  /\ pc[p] = "draining" /\ served >= admission[p].ticket
  /\ IF closed THEN Goto(p, "refused") /\ UNCHANGED vssQueue
               ELSE Goto(p, "queued") /\ vssQueue' = Append(vssQueue, p)
  /\ UNCHANGED <<unl, admission, flightVars, policyVars, checkpointVars,
                 lastAddress, served, asideVars, shutdownVars, historyVars>>

\* Native re-enable uploads the current state before it commits "on".
PolicyStart(p) ==
  /\ Running(p) /\ pc[p] = "queued"
  /\ IF bindingClosed
       THEN /\ Goto(p, "refused") /\ Leave /\ automatic' = "null"
            /\ UNCHANGED uploading
       ELSE /\ Goto(p, "native")
            /\ uploading' = IF want[p] = "on" THEN unsaved ELSE {}
            /\ UNCHANGED <<queueVars, automatic>>
  /\ UNCHANGED <<unl, admission, flightVars, policyVars, dirty, checkpointPending,
                 checkpointFailed, lastAddress, asideVars, shutdownVars, unsaved>>

\* The confirmed result becomes the cached preference.
PolicyConfirm(p) ==
  /\ Goto(p, "acked")
  /\ nativePolicy' = want[p] /\ automatic' = want[p]
  /\ IF want[p] = "on"
       THEN dirty' = FALSE /\ checkpointFailed' = FALSE /\ unsaved' = unsaved \ uploading
       ELSE UNCHANGED <<dirty, checkpointFailed, unsaved>>

\* Mutant: a failed transition keeps the preference cached before it.
PolicyUnknownCached(p) ==
  /\ Goto(p, "refused")
  /\ nativePolicy' \in {nativePolicy, want[p]}
  /\ UNCHANGED <<automatic, dirty, checkpointFailed, unsaved>>
\* The outcome is unknown: the cached preference is forgotten.
PolicyUnknown(p) ==
  /\ Goto(p, "refused")
  /\ nativePolicy' \in {nativePolicy, want[p]} /\ automatic' = "null"
  /\ UNCHANGED <<dirty, checkpointFailed, unsaved>>

PolicyEnd(p) ==
  /\ Running(p) /\ pc[p] = "native"
  /\ PolicyConfirm(p) \/ PolicyUnknown(p)
  /\ Leave
  /\ uploading' = {}
  /\ UNCHANGED <<unl, admission, flightVars, policyTail, want,
                 checkpointPending, lastAddress, asideVars, shutdownVars>>

\* The finally of the transition, then the promise other calls await.
PolicySettle(p) ==
  /\ pc[p] \in {"acked", "refused"}
  /\ Goto(p, IF pc[p] = "acked" THEN "done" ELSE "failed")
  /\ UNCHANGED <<unl, admission, flightVars, policyVars,
                 checkpointVars, lastAddress, queueVars, asideVars, shutdownVars,
                 historyVars>>
-----------------------------------------------------------------------------
(* getVssBackupMetadata(): not refused by a shutdown.  The binding reads    *)
(* synchronously; the value is cached unless a transition was admitted in  *)
(* the microtasks since, which the revision counter detects.               *)
ReadMetadata(r) ==
  /\ pc[r] = "idle"
  /\ Goto(r, "waiting")
  /\ admission' = [admission EXCEPT ![r].policy = policyTail]
  /\ UNCHANGED <<unl, flightVars, policyVars, checkpointVars, lastAddress,
                 queueVars, asideVars, shutdownVars, historyVars>>

ReadEnd(r) ==
  /\ pc[r] = "waiting" /\ Settled(admission[r].policy)
  /\ \/ Goto(r, "done") /\ ~bindingClosed /\ automatic' \in {nativePolicy, automatic}
     \/ Goto(r, "failed") /\ UNCHANGED automatic
  /\ UNCHANGED <<unl, admission, flightVars, policyVars, dirty, checkpointPending,
                 checkpointFailed, lastAddress, queueVars, asideVars, shutdownVars,
                 historyVars>>
-----------------------------------------------------------------------------
(* _messageSigningOperation: one at a time, behind the unlock in flight.    *)
Signing(s) == signQueue # <<>> /\ Head(signQueue) = s

SignMessage(s) ==
  /\ pc[s] = "idle"
  /\ IF ~Open
       THEN Goto(s, "failed") /\ UNCHANGED <<admission, signQueue>>
       ELSE /\ Goto(s, "queued")
            /\ admission' = [admission EXCEPT ![s].unlock = CurrentUnlock]
            /\ signQueue' = Append(signQueue, s)
  /\ UNCHANGED <<unl, flightVars, policyVars, checkpointVars, lastAddress,
                 queueVars, checkpointNative, shutdownVars, historyVars>>

SignStart(s) ==
  /\ Signing(s) /\ pc[s] = "queued" /\ UnlockSettled(admission[s].unlock)
  /\ IF UnlockFailed(admission[s].unlock) \/ bindingClosed
       THEN Goto(s, "failed") /\ signQueue' = Tail(signQueue)
       ELSE Goto(s, "native") /\ UNCHANGED signQueue
  /\ UNCHANGED <<unl, admission, flightVars, policyVars, checkpointVars, lastAddress,
                 queueVars, checkpointNative, shutdownVars, historyVars>>

SignEnd(s) ==
  /\ Signing(s) /\ pc[s] = "native"
  /\ Goto(s, "done") \/ Goto(s, "failed")
  /\ signQueue' = Tail(signQueue)
  /\ UNCHANGED <<unl, admission, flightVars, policyVars, checkpointVars, lastAddress,
                 queueVars, checkpointNative, shutdownVars, historyVars>>
-----------------------------------------------------------------------------
(* shutdown(): stop admitting, drain the admitted work in the order of the  *)
(* awaits, then close the binding.  Each phase captures its promises when  *)
(* it starts, as the code reads them after the await before.               *)
\* Mutant: only the manual backups already chained on the tail are joined.
ManualsPendingChained == {v \in Manuals : pc[v] \in {"queued", "native"}}
ManualsPending == {v \in Manuals : pc[v] \in {"waiting", "queued", "native"}}
SignTail == IF signQueue = <<>> THEN {} ELSE {signQueue[Len(signQueue)]}

Drained ==
  /\ UnlockSettled(drain.unlock)
  /\ \A c \in drain.calls : Settled(c)
  /\ served >= drain.ticket

\* Mutant: teardown does not join the address in flight.
DrainNextNoAddress(phase, promises) ==
  shutdown' = phase /\ drain' = [promises EXCEPT !.calls = @ \ Addresses]

DrainNext(phase, promises) ==
  shutdown' = phase /\ drain' = promises

Shutdown ==
  /\ shutdown = "none" /\ attempts < MaxShutdowns
  /\ attempts' = attempts + 1
  /\ DrainNext("begin", NoDrain)
  /\ UNCHANGED <<callVars, flightVars, policyVars, checkpointVars, lastAddress,
                 queueVars, asideVars, closed, bindingClosed, historyVars>>

ShutdownDrain ==
  /\ Drained
  /\ \/ shutdown = "begin"
        /\ DrainNext("unlock", [NoDrain EXCEPT !.unlock = CurrentUnlock])
     \/ shutdown = "unlock"
        /\ DrainNext("address", [NoDrain EXCEPT !.calls = {addressInFlight} \ {None}])
     \/ shutdown = "address"
        /\ DrainNext("mutations", [NoDrain EXCEPT !.calls = MutationsInFlight])
     \/ shutdown = "mutations"
        /\ DrainNext("signing", [NoDrain EXCEPT !.calls = SignTail])
     \/ shutdown = "signing"
        /\ DrainNext("policy", [NoDrain EXCEPT !.calls = {policyTail} \ {None}])
     \/ shutdown = "policy"
        /\ DrainNext("vssOperations",
                     [NoDrain EXCEPT !.calls = ManualsPending, !.ticket = Ticket])
     \/ shutdown = "vssOperations"
        /\ DrainNext("vssTail", [NoDrain EXCEPT !.ticket = Ticket])
  /\ UNCHANGED <<callVars, flightVars, policyVars, checkpointVars, lastAddress,
                 queueVars, asideVars, attempts, closed, bindingClosed, historyVars>>

\* binding.shutdown() marks the binding closed before it stops the node.
ShutdownNative ==
  /\ shutdown = "vssTail" /\ Drained
  /\ DrainNext("native", NoDrain)
  /\ bindingClosed' = TRUE
  /\ UNCHANGED <<callVars, flightVars, policyVars, checkpointVars, lastAddress,
                 queueVars, asideVars, attempts, closed, historyVars>>

\* A failed shutdown leaves the account open for another attempt.
ShutdownEnd ==
  /\ shutdown = "native"
  /\ closed' \in {TRUE, closed}
  /\ DrainNext("none", NoDrain)
  /\ UNCHANGED <<callVars, flightVars, policyVars, checkpointVars, lastAddress,
                 queueVars, asideVars, attempts, bindingClosed, historyVars>>
-----------------------------------------------------------------------------
UnlockNext == \E u \in Unlocks : Unlock(u)
UnlockProgress == (\E u \in UnlockOps : UnlockStart(u) \/ UnlockEnd(u)) \/ UnlockClear
AddressProgress(a) ==
  AddressStart(a) \/ AddressEnd(a) \/ AddressLocked(a) \/ AddressUnlocked(a)
MutationProgress(m) == MutationDispatch(m) \/ MutationEnd(m)
ManualProgress(v) == VssBackupEnqueue(v) \/ VssBackupStart(v) \/ VssBackupEnd(v)
PolicyProgress(p) ==
  \/ PolicyRefuse(p) \/ PolicyDrain(p) \/ PolicyEnqueue(p)
  \/ PolicyStart(p) \/ PolicyEnd(p) \/ PolicySettle(p)
SignProgress(s) == SignStart(s) \/ SignEnd(s)
CheckpointProgress == CheckpointStart \/ CheckpointEnd \/ CheckpointClear
ShutdownProgress == ShutdownDrain \/ ShutdownNative \/ ShutdownEnd

\* The calls of the application.
Request ==
  \/ UnlockNext
  \/ \E a \in Addresses : GetAddress(a)
  \/ \E m \in Mutations : Mutate(m)
  \/ \E p \in Policies : SetVssAutomatic(p)
  \/ \E v \in Manuals : VssBackup(v)
  \/ \E r \in Reads : ReadMetadata(r)
  \/ \E s \in Signs : SignMessage(s)
  \/ Shutdown

Progress ==
  \/ UnlockProgress
  \/ \E a \in Addresses : AddressProgress(a)
  \/ AddressClear
  \/ \E m \in Mutations : MutationProgress(m)
  \/ \E p \in Policies : PolicyProgress(p)
  \/ \E v \in Manuals : ManualProgress(v)
  \/ \E r \in Reads : ReadEnd(r)
  \/ \E s \in Signs : SignProgress(s)
  \/ CheckpointProgress
  \/ ShutdownProgress

Next == Request \/ Progress

Spec == Init /\ [][Next]_vars

(* The event loop does not stop while a continuation can run or a native    *)
(* call can return.  Nothing obliges the application to call anything, and *)
(* no order among the continuations is assumed.                            *)
FairSpec == Spec /\ WF_vars(Progress)
-----------------------------------------------------------------------------
Phases == {"idle", "joined", "waiting", "reading", "unlocking", "rereading",
           "queued", "draining", "native", "acked", "refused", "done", "failed"}
ShutdownPhases == {"none", "begin", "unlock", "address", "mutations", "signing",
                   "policy", "vssOperations", "vssTail", "native"}

UnlockPhases == {"idle", "joined", "waiting", "native", "done", "failed"}
Admission == [policy : Policies \cup {None}, unlock : UnlockOps \cup {None},
              address : Addresses \cup {None},
              mutations : SUBSET Mutations, ticket : Nat]
Drain == [unlock : UnlockOps \cup {None}, calls : SUBSET Calls, ticket : Nat]
Tasks == Manuals \cup Policies \cup {Checkpoint}
Work == UnlockOps \cup Mutations

\* The variables hold values of the program's types.
TypeOK ==
  /\ pc \in [Calls -> Phases]
  /\ unl \in [UnlockOps -> UnlockPhases]
  /\ admission \in [Calls -> Admission]
  /\ unlockInFlight \in Flight \cup {None}
  /\ addressInFlight \in Addresses \cup {None}
  /\ policyTail \in Policies \cup {None}
  /\ want \in [Policies -> Preference] /\ nativePolicy \in Preference
  /\ automatic \in Preference \cup {"null"}
  /\ dirty \in BOOLEAN /\ checkpointFailed \in BOOLEAN
  /\ checkpointPending \in Nat
  /\ lastAddress \in Receives \cup {None}
  /\ vssQueue \in Seq(Tasks)
  /\ served \in Nat /\ checkpointNative \in BOOLEAN
  /\ signQueue \in Seq(Signs)
  /\ shutdown \in ShutdownPhases /\ drain \in Drain
  /\ attempts \in 0..MaxShutdowns
  /\ closed \in BOOLEAN /\ bindingClosed \in BOOLEAN
  /\ unsaved \subseteq Work /\ uploading \subseteq Work

Busy(c) == pc[c] \notin {"idle", "joined", "done", "failed"}

\* "Shutdown joins admitted work" (README.md:592): while the binding shuts
\* down, and once the account is closed, no admitted call is unfinished and
\* nothing is left in the VSS and signing queues.
TeardownSafe ==
  shutdown = "native" \/ closed =>
    /\ \A u \in UnlockOps : unl[u] \notin {"waiting", "native"}
    /\ \A c \in Calls \ Reads : ~Busy(c)
    /\ vssQueue = <<>> /\ signQueue = <<>>

\* The account as an abstract teardown: its jobs are the calls that shutdown()
\* joins, the unlocks they own, and the checkpoint.
Jobs == (Calls \ Reads) \cup Unlocks \cup {Checkpoint}
ActiveJobs ==
  {c \in Calls \ Reads : Busy(c)}
    \cup {u \in UnlockOps : unl[u] \in {"waiting", "native"}}
    \cup {task \in {Checkpoint} : \E i \in DOMAIN vssQueue : vssQueue[i] = task}
AccountState ==
  CASE closed -> "closed"
    [] ~closed /\ shutdown = "none" -> "open"
    [] ~closed /\ shutdown = "native" -> "native"
    [] OTHER -> "stopping"
Teardown == INSTANCE DrainedTeardown WITH
  Followup <- Checkpoint, state <- AccountState, active <- ActiveJobs

\* shutdown() promises no more and no less than DrainedTeardown: once it has
\* started nothing is admitted, and the binding is torn down when the admitted
\* work has settled (wallet-account-rgb-lightning.js:185).
ImplementsTeardown == Teardown!Spec

\* A policy transition "holds later mutation dispatch until it confirms"
\* (README.md:584): while the native preference is being changed no mutation,
\* no receive address read and no backup is in the node, whatever order they
\* came in.
PolicyExclusive ==
  \A p \in Policies : pc[p] = "native" =>
    /\ \A m \in Mutations : pc[m] # "native"
    /\ \A a \in Addresses : pc[a] \notin {"reading", "rereading", "unlocking"}
    /\ ~checkpointNative /\ \A v \in Manuals : pc[v] # "native"

\* Once every transition has settled, the cached preference is unknown or the
\* native one; and if the last requested transition succeeded it is what that
\* request asked for.  A metadata read that was overtaken never brings an old
\* preference back.
ConfirmedChoice ==
  ~PolicyPending =>
    /\ automatic \in {"null", nativePolicy}
    /\ policyTail # None /\ pc[policyTail] = "done" => nativePolicy = want[policyTail]

\* Work that completed is dirty, or covered by the upload in progress, until
\* an upload that began after it is acknowledged.
DirtyCovers == ~dirty => unsaved \subseteq uploading

\* "None can start using the old preference after a successful off
\* acknowledgement" (wallet-account-rgb-lightning.js:253): while automatic
\* backup is known to be off no automatic checkpoint uploads.
OffMeansOff == automatic = "off" => ~checkpointNative

\* Two native unlocks never overlap, whoever started them.
SingleUnlock ==
  \A u, w \in UnlockOps : unl[u] = "native" /\ unl[w] = "native" => u = w

\* Every admitted call has settled and no continuation is left to run.
AllCallsSettled ==
  /\ \A c \in Calls : ~Busy(c)
  /\ \A u \in UnlockOps : unl[u] \notin {"waiting", "native"}
  /\ vssQueue = <<>> /\ checkpointPending = 0 /\ shutdown = "none"

\* "Full accounts also schedule serialized checkpoints after on-chain sends,
\* issuance, ..." (README.md:567): with nothing left to run, automatic backup
\* on and no failed upload, no completed mutation waits for an upload.
NoLostCheckpoint ==
  AllCallsSettled /\ automatic = "on" /\ ~checkpointFailed => ~dirty

\* "Every admitted call must settle without forming a cycle"
\* (tests/vss-automatic-policy.test.js:379): no order of calls and completions
\* makes admitted work wait for itself.
EveryCallSettles == <>[]AllCallsSettled
=============================================================================
