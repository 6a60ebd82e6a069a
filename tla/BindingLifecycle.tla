-------------------------- MODULE BindingLifecycle --------------------------
(***************************************************************************)
(* The native handles of one runtime binding (src/src/bare-binding.js and  *)
(* src/src/node-binding.js, which share this logic): the SdkNode, the      *)
(* in-process external signer, the legacy signer a first unlock may fall   *)
(* back to, and the retained copies of their seeds.  Every method is       *)
(* synchronous, so it is one action; every native call in it may throw,    *)
(* and the action ends where the exception leaves the method.              *)
(***************************************************************************)
EXTENDS Naturals, Sequences

CONSTANTS
  Nodes,     \* handles SdkNode.create may return, one per call
  Signers,   \* handles NativeExternalSigner.createWithStorage may return
  None       \* null / undefined

Seeds == {"primary", "legacy"}   \* the WDK seed and its beta.14 derivation
NodeStates == {"unused", "live", "stopped"}
SignerStates == {"unused", "live", "revoked", "destroyed"}

ASSUME BindingAssumption == None \notin Nodes \cup Signers \cup Seeds

VARIABLES
  closed,         \* this._closed
  node,           \* this._node
  signer,         \* this._signer
  pendingCleanup, \* this._pendingSignerCleanup
  seed,           \* this._seedHex
  fallbackSeed,   \* this._fallbackSeedHex
  sdkInitDone,    \* this._sdkInitDone
  nodeState,      \* the native node behind each handle
  signerState,    \* the native signer behind each handle
  signerSeed,     \* the seed each signer was created from
  attached,       \* the signer each native node holds
  disk            \* the key-source identity persisted in the data directory

handleVars == <<node, signer, pendingCleanup>>
secretVars == <<seed, fallbackSeed>>
nativeVars == <<nodeState, signerState, signerSeed, attached>>
vars == <<closed, node, signer, pendingCleanup, seed, fallbackSeed, sdkInitDone,
          nodeState, signerState, signerSeed, attached, disk>>

Init ==
  /\ closed = FALSE /\ node = None /\ signer = None /\ pendingCleanup = <<>>
  /\ seed = None /\ fallbackSeed = None /\ sdkInitDone = FALSE
  /\ nodeState = [n \in Nodes |-> "unused"]
  /\ signerState = [s \in Signers |-> "unused"]
  /\ signerSeed = [s \in Signers |-> None]
  /\ attached = [n \in Nodes |-> None]
  /\ disk \in Seeds \cup {None}
-----------------------------------------------------------------------------
\* The handle ensureNode() returns: the cached node or a new one.
Ensured(n) == IF node = None THEN nodeState[n] = "unused" ELSE n = node
Opened(n) == [nodeState EXCEPT ![n] = IF node = None THEN "live" ELSE @]
Created(s, from) ==
  /\ signerState[s] = "unused"
  /\ signerSeed' = [signerSeed EXCEPT ![s] = from]

EnsureNode(n) ==
  /\ ~closed /\ node = None /\ Ensured(n)
  /\ node' = n /\ nodeState' = Opened(n)
  /\ UNCHANGED <<closed, signer, pendingCleanup, secretVars, sdkInitDone,
                 signerState, signerSeed, attached, disk>>

\* attachExternalSigner(seedHex, fallbackSeedHex).
AttachExternalSigner(s, from, fallback) ==
  /\ ~closed
  /\ \/ /\ signer = None
        /\ Created(s, from)
        /\ signerState' = [signerState EXCEPT ![s] = "live"]
        /\ signer' = s /\ seed' = from /\ fallbackSeed' = fallback
     \/ /\ signer # None /\ seed \in {None, from} /\ fallback # None
        /\ fallbackSeed' = fallback
        /\ UNCHANGED <<signer, seed, signerState, signerSeed>>
  /\ UNCHANGED <<closed, node, pendingCleanup, sdkInitDone, nodeState, attached, disk>>

\* _initializeExternalNode() returned: an "already initialised" conflict is
\* the same outcome as a first init, which persists the signer's identity.
InitDisk == IF sdkInitDone \/ disk # None THEN disk ELSE signerSeed[signer]
\* It threw after ensureNode(): no signer is attached or the init failed.
InitializeFails(n) ==
  /\ ~closed /\ Ensured(n)
  /\ signer = None \/ ~sdkInitDone
  /\ node' = n /\ nodeState' = Opened(n)
  /\ UNCHANGED <<closed, signer, pendingCleanup, secretVars, sdkInitDone,
                 signerState, signerSeed, attached, disk>>

Initialized(n) ==
  /\ ~closed /\ Ensured(n) /\ signer # None
  /\ sdkInitDone' = TRUE /\ disk' = InitDisk

\* prepareVssRestore(scope) also initialises the node; its download may fail.
PrepareVssRestore(n) ==
  /\ Initialized(n)
  /\ node' = n /\ nodeState' = Opened(n)
  /\ UNCHANGED <<closed, signer, pendingCleanup, secretVars, signerState,
                 signerSeed, attached>>
-----------------------------------------------------------------------------
(* unlock(request): the node accepts only the identity on disk.             *)
UnlockOk(n) ==
  /\ Initialized(n) /\ signerSeed[signer] = disk'
  /\ node' = n /\ nodeState' = Opened(n)
  /\ attached' = [attached EXCEPT ![n] = signer]
  /\ fallbackSeed' = None
  /\ UNCHANGED <<closed, signer, pendingCleanup, seed, signerState, signerSeed>>

\* Any other failure, or a mismatch without a fallback (or whose fallback
\* signer could not be created), may still leave the signer attached.
UnlockFails(n) ==
  /\ Initialized(n)
  /\ node' = n /\ nodeState' = Opened(n)
  /\ attached' \in {attached, [attached EXCEPT ![n] = signer]}
  /\ UNCHANGED <<closed, signer, pendingCleanup, secretVars, signerState, signerSeed>>

FallbackDue(n) ==
  Initialized(n) /\ fallbackSeed # None /\ signerSeed[signer] # disk'

\* Mutant: a failed retirement leaves the binding open.
RetirePrimaryFailsOpen(n, f, released) ==
  /\ FallbackDue(n) /\ Created(f, fallbackSeed)
  /\ attached' \in {attached, [attached EXCEPT ![n] = signer]}
  /\ node' = None /\ nodeState' = [nodeState EXCEPT ![n] = "stopped"]
  /\ signerState' = [signerState EXCEPT
       ![signer] = "revoked", ![f] = IF released THEN "destroyed" ELSE "live"]
  /\ pendingCleanup' = IF released THEN pendingCleanup ELSE Append(pendingCleanup, f)
  /\ UNCHANGED <<closed, signer, secretVars>>


\* Retiring the primary node or signer throws: the binding closes, keeps the
\* primary for shutdown() to retry, and releases the new signer f or keeps it.
RetirePrimaryFails(n, f, released) ==
  /\ FallbackDue(n) /\ Created(f, fallbackSeed)
  /\ closed' = TRUE
  /\ attached' \in {attached, [attached EXCEPT ![n] = signer]}
  /\ \E primary \in {"live", "revoked"}, fallback \in {"live", "revoked"} :
       /\ \/ /\ primary = "live" /\ node' = n
             /\ nodeState' \in {Opened(n), [nodeState EXCEPT ![n] = "stopped"]}
          \/ node' = None /\ nodeState' = [nodeState EXCEPT ![n] = "stopped"]
       /\ signerState' = [signerState EXCEPT
            ![signer] = primary, ![f] = IF released THEN "destroyed" ELSE fallback]
  /\ pendingCleanup' = IF released THEN pendingCleanup ELSE Append(pendingCleanup, f)
  /\ UNCHANGED <<signer, secretVars>>

\* Mutant: the retained seed stays the primary one.
SwapSignerKeepsSeed(n, f) ==
  /\ FallbackDue(n) /\ Created(f, fallbackSeed)
  /\ signer' = f /\ UNCHANGED seed /\ fallbackSeed' = None
  /\ signerState' = [signerState EXCEPT ![signer] = "destroyed", ![f] = "live"]
  /\ UNCHANGED <<closed, pendingCleanup>>

\* The primary node and signer are gone and the legacy signer f replaces them.
SwapSigner(n, f) ==
  /\ FallbackDue(n) /\ Created(f, fallbackSeed)
  /\ signer' = f /\ seed' = fallbackSeed /\ fallbackSeed' = None
  /\ signerState' = [signerState EXCEPT ![signer] = "destroyed", ![f] = "live"]
  /\ UNCHANGED <<closed, pendingCleanup>>


\* SdkNode.create throws for the node of the second unlock.
UnlockSwapped(n, f) ==
  /\ SwapSigner(n, f)
  /\ attached' \in {attached, [attached EXCEPT ![n] = signer]}
  /\ node' = None /\ nodeState' = [nodeState EXCEPT ![n] = "stopped"]

\* The second unlock, on a fresh node, succeeds or throws.
UnlockFallback(n, f, fresh) ==
  /\ SwapSigner(n, f)
  /\ fresh # n /\ nodeState[fresh] = "unused"
  /\ node' = fresh
  /\ nodeState' = [nodeState EXCEPT ![n] = "stopped", ![fresh] = "live"]
  /\ \E before \in {attached[n], signer}, after \in {None, f} :
       attached' = [attached EXCEPT ![n] = before, ![fresh] = after]
-----------------------------------------------------------------------------
(* shutdown(): stop the node, revoke and release the signers, wipe the      *)
(* seeds; a native call that throws leaves the rest for another attempt.   *)
Revoking(state) == {state, "revoked"}

ShutdownNodeFails ==
  /\ node # None
  /\ closed' = TRUE
  /\ nodeState' \in {nodeState, [nodeState EXCEPT ![node] = "stopped"]}
  /\ UNCHANGED <<handleVars, secretVars, sdkInitDone, signerState, signerSeed,
                 attached, disk>>

StopNode ==
  /\ closed' = TRUE /\ sdkInitDone' = FALSE /\ node' = None
  /\ nodeState' = [n \in Nodes |-> IF n = node THEN "stopped" ELSE nodeState[n]]
  /\ UNCHANGED <<signerSeed, attached, disk>>

ShutdownSignerFails ==
  /\ signer # None /\ StopNode
  /\ \E state \in Revoking(signerState[signer]) :
       signerState' = [signerState EXCEPT ![signer] = state]
  /\ UNCHANGED <<signer, pendingCleanup, secretVars>>

\* The first `released` retained signers leave, and the next one fails.
ShutdownCleanupFails(released) ==
  /\ released < Len(pendingCleanup) /\ StopNode
  /\ LET gone == {pendingCleanup[i] : i \in 1..released} \cup {signer}
         failing == pendingCleanup[released + 1]
     IN  \E state \in Revoking(signerState[failing]) :
           signerState' = [s \in Signers |-> IF s \in gone THEN "destroyed"
                             ELSE IF s = failing THEN state ELSE signerState[s]]
  /\ signer' = None
  /\ pendingCleanup' = SubSeq(pendingCleanup, released + 1, Len(pendingCleanup))
  /\ UNCHANGED secretVars

ShutdownDone ==
  /\ StopNode
  /\ LET gone == {pendingCleanup[i] : i \in DOMAIN pendingCleanup} \cup {signer}
     IN  signerState' = [s \in Signers |-> IF s \in gone THEN "destroyed"
                                                         ELSE signerState[s]]
  /\ signer' = None /\ pendingCleanup' = <<>>
  /\ seed' = None /\ fallbackSeed' = None
-----------------------------------------------------------------------------
Unlock ==
  \E n \in Nodes :
    \/ InitializeFails(n) \/ UnlockOk(n) \/ UnlockFails(n)
    \/ \E f \in Signers :
         \/ \E released \in BOOLEAN : RetirePrimaryFails(n, f, released)
         \/ UnlockSwapped(n, f)
         \/ \E fresh \in Nodes : UnlockFallback(n, f, fresh)

Shutdown ==
  \/ ShutdownNodeFails
  \/ ShutdownSignerFails
  \/ \E released \in 0..Len(pendingCleanup) : ShutdownCleanupFails(released)
  \/ ShutdownDone

Next ==
  \/ \E n \in Nodes : EnsureNode(n) \/ PrepareVssRestore(n)
  \/ \E s \in Signers, from \in Seeds, fallback \in {"legacy", None} :
       AttachExternalSigner(s, from, fallback)
  \/ Unlock
  \/ Shutdown

Spec == Init /\ [][Next]_vars
-----------------------------------------------------------------------------
\* The variables hold values of the program's types.
TypeOK ==
  /\ closed \in BOOLEAN /\ sdkInitDone \in BOOLEAN
  /\ node \in Nodes \cup {None} /\ signer \in Signers \cup {None}
  /\ pendingCleanup \in Seq(Signers)
  /\ seed \in Seeds \cup {None} /\ fallbackSeed \in Seeds \cup {None}
  /\ nodeState \in [Nodes -> NodeStates]
  /\ signerState \in [Signers -> SignerStates]
  /\ signerSeed \in [Signers -> Seeds \cup {None}]
  /\ attached \in [Nodes -> Signers \cup {None}]
  /\ disk \in Seeds \cup {None}

Retained == {pendingCleanup[i] : i \in DOMAIN pendingCleanup}

\* A native handle that still holds resources is reachable, so that shutdown()
\* can release it, "handles retained for shutdown retry" (bare-binding.js:115):
\* no failure between creating a handle and storing it leaks one.
NoHandleLeaks ==
  /\ \A n \in Nodes : nodeState[n] = "live" => n = node
  /\ \A s \in Signers : signerState[s] \in {"live", "revoked"} => s \in {signer} \cup Retained

\* No handle is released twice, and an open binding never uses a node or a
\* signer that was stopped or revoked: "a cancelled native node cannot be
\* reused" (bare-binding.js:209).
NoUseAfterRelease ==
  /\ ~closed =>
       /\ node # None => nodeState[node] = "live"
       /\ signer # None => signerState[signer] = "live"
       /\ pendingCleanup = <<>>
  /\ \A s \in ({signer} \cup Retained) \ {None} : signerState[s] # "destroyed"
  /\ signer \notin Retained

\* "Shutdown drains operations and flushes state while signing is still
\* available" (bare-binding.js:423): a signer is revoked only after the node
\* that holds it has stopped, on every path that fails half way too.
SignerOutlivesNode ==
  \A n \in Nodes : nodeState[n] = "live" /\ attached[n] # None =>
    signerState[attached[n]] = "live"

\* What shutdown() can release it releases once, and nothing uses it after.
HandlesReleasedOnce == NoHandleLeaks /\ NoUseAfterRelease

\* The retained seed is the one the attached signer was built from, so that the
\* comparison that refuses a different wallet compares with the right seed; and
\* a binding that released every handle keeps no copy of a seed.
SeedMatchesSigner ==
  /\ signer # None => seed = signerSeed[signer]
  /\ closed /\ node = None /\ signer = None /\ pendingCleanup = <<>> =>
       seed = None /\ fallbackSeed = None
=============================================================================
