---------------------- MODULE BindingLifecycle_proofs ----------------------
(***************************************************************************)
(* Machine-checked facts about BindingLifecycle, for any sets of handles,  *)
(* and about AccountCalls, for any sets of calls, orders and answers.      *)
(***************************************************************************)
EXTENDS AccountCalls, SequenceTheorems, TLAPS

USE DEF secretVars, handleVars

(* The inductive invariant.  A handle that is cached or retained holds its  *)
(* native resource, an unused node is attached to nothing, and at most one  *)
(* signer is retained: the binding closes as it retains one.               *)
Held == \A s \in ({signer} \cup Retained) \ {None} : signerState[s] \in {"live", "revoked"}
FreshDetached == \A n \in Nodes : nodeState[n] = "unused" => attached[n] = None
OneRetained == Len(pendingCleanup) <= 1
IInv ==
  /\ TypeOK /\ NoHandleLeaks /\ NoUseAfterRelease /\ SignerOutlivesNode
  /\ Held /\ FreshDetached /\ OneRetained

LEMMA InvInit == Init => IInv
  <1> SUFFICES ASSUME Init PROVE IInv
    OBVIOUS
  <1>1. pendingCleanup \in Seq(Signers) /\ Len(pendingCleanup) = 0 /\ Retained = {}
    BY DEF Init, Retained
  <1>2. TypeOK
    BY <1>1 DEF Init, TypeOK, NodeStates, SignerStates
  <1>3. NoHandleLeaks /\ SignerOutlivesNode /\ FreshDetached /\ OneRetained
    BY <1>1 DEF Init, NoHandleLeaks, SignerOutlivesNode, FreshDetached, OneRetained
  <1>4. NoUseAfterRelease /\ Held
    BY <1>1 DEF Init, NoUseAfterRelease, Held
  <1> QED BY <1>2, <1>3, <1>4 DEF IInv

LEMMA AttachInv ==
  ASSUME IInv, NEW s \in Signers, NEW from \in Seeds, NEW fallback \in {"legacy", None},
         AttachExternalSigner(s, from, fallback)
  PROVE  IInv'
  <1> USE DEF IInv, Retained
  <1>1. TypeOK'
    BY DEF AttachExternalSigner, Created, TypeOK, Seeds, SignerStates
  <1>2. NoHandleLeaks' /\ Held' /\ FreshDetached' /\ OneRetained'
    BY BindingAssumption DEF AttachExternalSigner, Created, TypeOK, NoHandleLeaks, Held,
       FreshDetached, OneRetained
  <1>3. NoUseAfterRelease'
    BY BindingAssumption DEF AttachExternalSigner, Created, TypeOK, NoUseAfterRelease, Held
  <1>4. SignerOutlivesNode'
    BY BindingAssumption DEF AttachExternalSigner, Created, TypeOK, SignerOutlivesNode
  <1> QED BY <1>1, <1>2, <1>3, <1>4

\* Opening a node keeps the invariant, whichever of its signers it attaches.
LEMMA OpenInv ==
  ASSUME IInv, NEW n \in Nodes, ~closed, Ensured(n),
         node' = n, nodeState' = Opened(n),
         \/ attached' = attached
         \/ signer # None /\ attached' = [attached EXCEPT ![n] = signer],
         closed' = closed, signer' = signer, pendingCleanup' = pendingCleanup,
         signerState' = signerState, signerSeed' = signerSeed, seed' = seed,
         fallbackSeed' \in {fallbackSeed, None}, sdkInitDone' \in BOOLEAN,
         disk' \in Seeds \cup {None}
  PROVE  IInv'
  <1> USE DEF IInv, Retained
  <1>1. TypeOK'
    BY DEF Opened, TypeOK, NodeStates
  <1>2. nodeState[n] = IF node = None THEN "unused" ELSE "live"
    BY BindingAssumption DEF Ensured, NoUseAfterRelease
  <1>3. nodeState'[n] = "live"
    BY <1>2 DEF Opened, TypeOK
  <1>4. NoHandleLeaks' /\ Held' /\ FreshDetached' /\ OneRetained'
    BY <1>3, BindingAssumption DEF Opened, Ensured, TypeOK, NoHandleLeaks, Held,
       FreshDetached, OneRetained
  <1>5. NoUseAfterRelease'
    BY <1>3, BindingAssumption DEF TypeOK, NoUseAfterRelease
  <1>6. SignerOutlivesNode'
    BY <1>2, <1>3, BindingAssumption DEF Opened, TypeOK, SignerOutlivesNode, NoUseAfterRelease,
       FreshDetached
  <1> QED BY <1>1, <1>4, <1>5, <1>6

LEMMA InitDiskType ==
  ASSUME IInv, NEW n \in Nodes, Initialized(n)
  PROVE  InitDisk \in Seeds \cup {None}
  BY DEF IInv, TypeOK, Initialized, InitDisk

LEMMA RetireInv ==
  ASSUME IInv, NEW n \in Nodes, NEW f \in Signers, NEW released \in BOOLEAN,
         RetirePrimaryFails(n, f, released)
  PROVE  IInv'
  <1> USE DEF IInv, RetirePrimaryFails, FallbackDue, Initialized, Created
  <1>1. /\ ~closed /\ signer \in Signers /\ signerState[signer] = "live"
        /\ signerState[f] = "unused" /\ f # signer /\ pendingCleanup = <<>>
        /\ nodeState[n] \in {"live", "unused"}
    BY DEF TypeOK, NoUseAfterRelease, Ensured
  <1>2. pendingCleanup' \in Seq(Signers) /\ Len(pendingCleanup') <= 1
        /\ Retained' = IF released THEN {} ELSE {f}
    BY <1>1 DEF TypeOK, Retained
  <1>3. PICK primary \in {"live", "revoked"}, fallback \in {"live", "revoked"} :
          /\ \/ /\ primary = "live" /\ node' = n
                /\ nodeState' \in {Opened(n), [nodeState EXCEPT ![n] = "stopped"]}
             \/ node' = None /\ nodeState' = [nodeState EXCEPT ![n] = "stopped"]
          /\ signerState' = [signerState EXCEPT
               ![signer] = primary, ![f] = IF released THEN "destroyed" ELSE fallback]
    OBVIOUS
  <1>4. TypeOK'
    <2>1. nodeState' \in [Nodes -> NodeStates]
      BY <1>3 DEF TypeOK, Opened, NodeStates
    <2>2. signerState' \in [Signers -> SignerStates]
      BY <1>3 DEF TypeOK, SignerStates
    <2>3. signerSeed' \in [Signers -> Seeds \cup {None}]
      BY DEF TypeOK
    <2>4. attached' \in [Nodes -> Signers \cup {None}]
      BY DEF TypeOK
    <2>5. node' \in Nodes \cup {None} /\ disk' \in Seeds \cup {None}
      BY <1>3, InitDiskType
    <2>6. closed' \in BOOLEAN /\ sdkInitDone' \in BOOLEAN
      OBVIOUS
    <2>7. /\ signer' \in Signers \cup {None}
          /\ seed' \in Seeds \cup {None} /\ fallbackSeed' \in Seeds \cup {None}
      BY DEF TypeOK
    <2> QED BY <1>2, <2>1, <2>2, <2>3, <2>4, <2>5, <2>6, <2>7 DEF TypeOK
  <1>5. /\ signerState'[signer] = primary /\ signerState'[f] \in {"destroyed", fallback}
        /\ \A s \in Signers \ {signer, f} : signerState'[s] = signerState[s]
        /\ \A m \in Nodes \ {n} : nodeState'[m] = nodeState[m] /\ attached'[m] = attached[m]
    BY <1>1, <1>3 DEF TypeOK, Opened
  <1>6. \A m \in Nodes \ {n} : nodeState[m] # "live"
    BY BindingAssumption DEF NoHandleLeaks, Ensured
  <1>7. NoHandleLeaks'
    BY <1>1, <1>2, <1>3, <1>5, <1>6 DEF NoHandleLeaks, TypeOK, Opened, Retained
  <1>8. Held' /\ NoUseAfterRelease'
    BY <1>1, <1>2, <1>3, <1>5, BindingAssumption DEF Held, NoUseAfterRelease, TypeOK
  <1>9. SignerOutlivesNode'
    <2>1. nodeState'[n] = "live" => primary = "live"
      BY <1>3 DEF TypeOK
    <2>2. attached'[n] \in {attached[n], signer}
      BY DEF TypeOK
    <2>3. nodeState'[n] = "live" /\ attached'[n] # None => attached'[n] = signer \/
            (attached'[n] = attached[n] /\ nodeState[n] = "live" /\ signerState[attached[n]] = "live")
      BY <1>1, <2>2 DEF FreshDetached, SignerOutlivesNode
    <2>4. attached[n] \in Signers \cup {None}
      BY DEF TypeOK
    <2>5. nodeState'[n] = "live" /\ attached'[n] # None => signerState'[attached'[n]] = "live"
      <3> HIDE DEF IInv, RetirePrimaryFails, FallbackDue, Initialized, Created
      <3>1. CASE attached'[n] = signer
        BY <1>5, <2>1, <3>1
      <3>2. CASE nodeState'[n] = "live" /\ attached'[n] # None /\ attached'[n] # signer
        <4>1. /\ attached'[n] = attached[n] /\ attached[n] \in Signers \ {signer}
              /\ signerState[attached[n]] = "live"
          BY <2>3, <2>4, <3>2
        <4>2. attached[n] # f
          BY <1>1, <4>1
        <4> QED BY <1>5, <4>1, <4>2
      <3> QED BY <3>1, <3>2
    <2>6. \A m \in Nodes \ {n} : nodeState'[m] # "live"
      BY <1>5, <1>6
    <2> QED BY <2>5, <2>6 DEF SignerOutlivesNode
  <1>10. FreshDetached' /\ OneRetained'
    <2>1. nodeState'[n] # "unused"
      BY <1>1, <1>3, BindingAssumption DEF TypeOK, Opened, Ensured, NoUseAfterRelease
    <2> QED BY <1>2, <1>5, <2>1 DEF FreshDetached, OneRetained
  <1> QED BY <1>4, <1>7, <1>8, <1>9, <1>10

\* The primary handles are gone and the fallback signer f has taken over.
LEMMA SwapFacts ==
  ASSUME IInv, NEW n \in Nodes, NEW f \in Signers, SwapSigner(n, f)
  PROVE  /\ ~closed /\ ~closed' /\ pendingCleanup' = <<>> /\ Retained' = {}
         /\ signer \in Signers /\ f # signer /\ signer' = f
         /\ signerState \in [Signers -> SignerStates]
         /\ signerState' = [signerState EXCEPT ![signer] = "destroyed", ![f] = "live"]
         /\ \A s \in Signers \ {signer} : signerState[s] \in {"unused", "destroyed"}
         /\ \A m \in Nodes \ {n} : nodeState[m] # "live"
         /\ nodeState[n] \in {"live", "unused"}
         /\ signerState' \in [Signers -> SignerStates] /\ disk' \in Seeds \cup {None} /\ sdkInitDone' = TRUE
         /\ seed' \in Seeds \cup {None} /\ fallbackSeed' = None
         /\ signerSeed' \in [Signers -> Seeds \cup {None}]
  <1> USE DEF IInv, SwapSigner, FallbackDue, Initialized, Created
  <1>1. ~closed /\ signer \in Signers /\ signerState[signer] = "live" /\ pendingCleanup = <<>>
    BY DEF TypeOK, NoUseAfterRelease
  <1>2. \A s \in Signers \ {signer} : signerState[s] \in {"unused", "destroyed"}
    BY <1>1 DEF TypeOK, NoHandleLeaks, Retained, SignerStates
  <1>3. \A m \in Nodes \ {n} : nodeState[m] # "live"
    BY BindingAssumption DEF NoHandleLeaks, Ensured
  <1>4. nodeState[n] \in {"live", "unused"}
    BY BindingAssumption DEF NoUseAfterRelease, Ensured
  <1>5. disk' \in Seeds \cup {None}
    BY InitDiskType
  <1>6. signerState[f] = "unused" /\ f # signer
    BY <1>1
  <1>7. signerSeed' \in [Signers -> Seeds \cup {None}] /\ seed' \in Seeds \cup {None}
    BY DEF TypeOK
  <1>8. signerState' \in [Signers -> SignerStates]
    BY DEF TypeOK, SignerStates
  <1>9. pendingCleanup' = <<>> /\ Retained' = {}
    BY <1>1 DEF Retained
  <1> QED BY <1>1, <1>2, <1>3, <1>4, <1>5, <1>6, <1>7, <1>8, <1>9 DEF TypeOK

LEMMA SwappedInv ==
  ASSUME IInv, NEW n \in Nodes, NEW f \in Signers, UnlockSwapped(n, f)
  PROVE  IInv'
  <1>0. SwapSigner(n, f) /\ TypeOK /\ FreshDetached
    BY DEF UnlockSwapped, IInv
  <1>1. /\ signer' = f /\ ~closed' /\ pendingCleanup' = <<>> /\ Retained' = {}
        /\ \A m \in Nodes \ {n} : nodeState[m] # "live"
        /\ signerState'[f] = "live" /\ \A s \in Signers \ {f} : signerState'[s] \in {"unused", "destroyed"}
    <2>1. /\ signer' = f /\ ~closed' /\ pendingCleanup' = <<>> /\ Retained' = {}
          /\ \A m \in Nodes \ {n} : nodeState[m] # "live"
      BY <1>0, SwapFacts
    <2>2. /\ signer \in Signers /\ f # signer /\ signerState \in [Signers -> SignerStates]
          /\ signerState' = [signerState EXCEPT ![signer] = "destroyed", ![f] = "live"]
          /\ \A s \in Signers \ {signer} : signerState[s] \in {"unused", "destroyed"}
      BY <1>0, SwapFacts
    <2> QED BY <2>1, <2>2
  <1>2. node' = None /\ nodeState' = [nodeState EXCEPT ![n] = "stopped"]
    BY DEF UnlockSwapped
  <1>3. attached' \in [Nodes -> Signers \cup {None}]
    BY <1>0, SwapFacts DEF UnlockSwapped, TypeOK
  <1>4. TypeOK'
    <2>1. pendingCleanup' \in Seq(Signers)
      BY <1>1
    <2>2. nodeState' \in [Nodes -> NodeStates]
      BY <1>0, <1>2 DEF TypeOK, NodeStates
    <2>3. /\ disk' \in Seeds \cup {None} /\ sdkInitDone' = TRUE
          /\ seed' \in Seeds \cup {None} /\ fallbackSeed' = None
          /\ signerState' \in [Signers -> SignerStates]
          /\ signerSeed' \in [Signers -> Seeds \cup {None}]
      BY <1>0, SwapFacts
    <2>4. closed' \in BOOLEAN
      BY <1>0 DEF UnlockSwapped, SwapSigner, TypeOK
    <2> QED BY <1>1, <1>2, <1>3, <2>1, <2>2, <2>3, <2>4 DEF TypeOK
  <1>5. \A m \in Nodes : nodeState'[m] # "live"
    BY <1>0, <1>1, <1>2 DEF TypeOK
  <1>6. NoHandleLeaks' /\ Held' /\ NoUseAfterRelease'
    BY <1>1, <1>2, <1>5, BindingAssumption DEF NoHandleLeaks, Held, NoUseAfterRelease
  <1>7. SignerOutlivesNode' /\ OneRetained'
    BY <1>1, <1>5 DEF SignerOutlivesNode, OneRetained
  <1>8. FreshDetached'
    BY <1>0, <1>2 DEF UnlockSwapped, FreshDetached, TypeOK
  <1> QED BY <1>4, <1>6, <1>7, <1>8 DEF IInv

LEMMA FallbackInv ==
  ASSUME IInv, NEW n \in Nodes, NEW f \in Signers, NEW fresh \in Nodes,
         UnlockFallback(n, f, fresh)
  PROVE  IInv'
  <1>0. SwapSigner(n, f) /\ TypeOK /\ FreshDetached
    BY DEF UnlockFallback, IInv
  <1>1. /\ signer' = f /\ ~closed' /\ pendingCleanup' = <<>> /\ Retained' = {}
        /\ \A m \in Nodes \ {n} : nodeState[m] # "live"
        /\ signerState'[f] = "live" /\ \A s \in Signers \ {f} : signerState'[s] \in {"unused", "destroyed"}
        /\ signer \in Signers
    <2>1. /\ signer' = f /\ ~closed' /\ pendingCleanup' = <<>> /\ Retained' = {}
          /\ \A m \in Nodes \ {n} : nodeState[m] # "live"
      BY <1>0, SwapFacts
    <2>2. /\ signer \in Signers /\ f # signer /\ signerState \in [Signers -> SignerStates]
          /\ signerState' = [signerState EXCEPT ![signer] = "destroyed", ![f] = "live"]
          /\ \A s \in Signers \ {signer} : signerState[s] \in {"unused", "destroyed"}
      BY <1>0, SwapFacts
    <2> QED BY <2>1, <2>2
  <1>2. /\ node' = fresh /\ fresh # n
        /\ nodeState' = [nodeState EXCEPT ![n] = "stopped", ![fresh] = "live"]
    BY DEF UnlockFallback
  <1>3. PICK before \in {attached[n], signer}, after \in {None, f} :
          attached' = [attached EXCEPT ![n] = before, ![fresh] = after]
    BY DEF UnlockFallback
  <1>4. TypeOK'
    <2>1. before \in Signers \cup {None}
      BY <1>0, <1>1 DEF TypeOK
    <2>2. attached' \in [Nodes -> Signers \cup {None}]
      BY <1>0, <1>3, <2>1 DEF TypeOK
    <2>3. nodeState' \in [Nodes -> NodeStates] /\ pendingCleanup' \in Seq(Signers)
      BY <1>0, <1>1, <1>2 DEF TypeOK, NodeStates
    <2>4. /\ disk' \in Seeds \cup {None} /\ sdkInitDone' = TRUE
          /\ seed' \in Seeds \cup {None} /\ fallbackSeed' = None
          /\ signerState' \in [Signers -> SignerStates]
          /\ signerSeed' \in [Signers -> Seeds \cup {None}]
      BY <1>0, SwapFacts
    <2>5. closed' \in BOOLEAN
      BY <1>0 DEF SwapSigner, TypeOK
    <2> QED BY <1>1, <1>2, <2>2, <2>3, <2>4, <2>5 DEF TypeOK
  <1>5. /\ \A m \in Nodes : nodeState'[m] = "live" => m = fresh
        /\ nodeState'[fresh] = "live" /\ attached'[fresh] \in {None, f}
    BY <1>0, <1>1, <1>2, <1>3 DEF TypeOK
  <1>6. NoHandleLeaks' /\ Held' /\ NoUseAfterRelease'
    BY <1>1, <1>2, <1>5, BindingAssumption DEF NoHandleLeaks, Held, NoUseAfterRelease
  <1>7. SignerOutlivesNode' /\ OneRetained'
    BY <1>1, <1>5 DEF SignerOutlivesNode, OneRetained
  <1>8. FreshDetached'
    BY <1>0, <1>2, <1>3 DEF FreshDetached, TypeOK
  <1> QED BY <1>4, <1>6, <1>7, <1>8 DEF IInv

LEMMA UnlockInv ==
  ASSUME IInv, Unlock
  PROVE  IInv'
  <1>1. PICK n \in Nodes :
          \/ InitializeFails(n) \/ UnlockOk(n) \/ UnlockFails(n)
          \/ \E f \in Signers :
               \/ \E released \in BOOLEAN : RetirePrimaryFails(n, f, released)
               \/ UnlockSwapped(n, f)
               \/ \E fresh \in Nodes : UnlockFallback(n, f, fresh)
    BY DEF Unlock
  <1>2. CASE InitializeFails(n)
    <2>1. sdkInitDone' \in BOOLEAN /\ disk' \in Seeds \cup {None}
      BY <1>2 DEF InitializeFails, IInv, TypeOK
    <2> QED BY <1>2, <2>1, OpenInv DEF InitializeFails, secretVars
  <1>3. CASE UnlockOk(n)
    BY <1>3, OpenInv, InitDiskType DEF UnlockOk, Initialized
  <1>4. CASE UnlockFails(n)
    BY <1>4, OpenInv, InitDiskType DEF UnlockFails, Initialized, secretVars
  <1> QED BY <1>1, <1>2, <1>3, <1>4, RetireInv, SwappedInv, FallbackInv

\* Stopping the node leaves no node live.
LEMMA StopFacts ==
  ASSUME IInv, StopNode
  PROVE  /\ closed' = TRUE /\ node' = None /\ sdkInitDone' = FALSE
         /\ nodeState' \in [Nodes -> NodeStates] /\ attached' = attached
         /\ signerSeed' = signerSeed /\ disk' = disk
         /\ \A n \in Nodes : nodeState'[n] # "live" /\ (nodeState'[n] = "unused" => nodeState[n] = "unused")
  BY DEF IInv, TypeOK, NoHandleLeaks, StopNode, NodeStates

LEMMA ShutdownInv ==
  ASSUME IInv, Shutdown
  PROVE  IInv'
  <1>1. CASE ShutdownNodeFails
    <2>1. TypeOK'
      BY <1>1 DEF ShutdownNodeFails, IInv, TypeOK, NodeStates
    <2>2. \A n \in Nodes : nodeState'[n] = nodeState[n] \/ (n = node /\ nodeState'[n] = "stopped")
      BY <1>1 DEF ShutdownNodeFails, IInv, TypeOK
    <2>3. NoHandleLeaks' /\ SignerOutlivesNode' /\ FreshDetached'
      BY <1>1, <2>2 DEF ShutdownNodeFails, IInv, NoHandleLeaks, SignerOutlivesNode,
         FreshDetached, Retained
    <2>4. NoUseAfterRelease' /\ Held' /\ OneRetained'
      BY <1>1 DEF ShutdownNodeFails, IInv, NoUseAfterRelease, Held, OneRetained, Retained
    <2> QED BY <2>1, <2>3, <2>4 DEF IInv
  <1>2. ASSUME StopNode, signerState' \in [Signers -> SignerStates],
               signer' \in Signers \cup {None}, pendingCleanup' \in Seq(Signers),
               seed' \in {seed, None}, fallbackSeed' \in {fallbackSeed, None},
               \A s \in Signers : signerState'[s] \in {"live", "revoked"} =>
                 s \in ({signer'} \cup Retained'),
               \A s \in ({signer'} \cup Retained') \ {None} :
                 signerState'[s] \in {"live", "revoked"},
               signer' \notin Retained', Len(pendingCleanup') <= 1
        PROVE  IInv'
    <2>1. TypeOK'
      BY <1>2, StopFacts DEF IInv, TypeOK
    <2>2. NoHandleLeaks' /\ SignerOutlivesNode' /\ FreshDetached'
      BY <1>2, StopFacts DEF IInv, NoHandleLeaks, SignerOutlivesNode, FreshDetached
    <2>3. NoUseAfterRelease' /\ Held' /\ OneRetained'
      BY <1>2, StopFacts DEF NoUseAfterRelease, Held, OneRetained
    <2> QED BY <2>1, <2>2, <2>3 DEF IInv
  <1>3. CASE ShutdownSignerFails
    <2>1. PICK state \in Revoking(signerState[signer]) :
            signerState' = [signerState EXCEPT ![signer] = state]
      BY <1>3 DEF ShutdownSignerFails
    <2>2. signer \in Signers /\ signerState[signer] \in {"live", "revoked"}
      BY <1>3 DEF ShutdownSignerFails, IInv, TypeOK, Held
    <2>3. state \in {"live", "revoked"}
      BY <2>1, <2>2 DEF Revoking
    <2>4. signer' = signer /\ Retained' = Retained /\ pendingCleanup' = pendingCleanup
      BY <1>3 DEF ShutdownSignerFails, Retained
    <2>5. /\ signerState' \in [Signers -> SignerStates]
          /\ \A s \in Signers : signerState'[s] = IF s = signer THEN state ELSE signerState[s]
      BY <2>1, <2>2, <2>3 DEF IInv, TypeOK, SignerStates
    <2>6. Retained \subseteq Signers
      BY DEF IInv, TypeOK, Retained
    <2> QED BY <1>2, <1>3, <2>2, <2>3, <2>4, <2>5, <2>6
         DEF ShutdownSignerFails, IInv, TypeOK, NoHandleLeaks, NoUseAfterRelease, Held, OneRetained
  <1>4. ASSUME NEW released \in 0..Len(pendingCleanup), ShutdownCleanupFails(released)
        PROVE  IInv'
    <2>0. Len(pendingCleanup) \in Nat /\ Len(pendingCleanup) <= 1
      BY DEF IInv, OneRetained, TypeOK
    <2>1. Len(pendingCleanup) = 1 /\ released = 0
      <3>1. released < Len(pendingCleanup)
        BY <1>4 DEF ShutdownCleanupFails
      <3>2. released \in Nat
        BY <2>0
      <3> QED BY <2>0, <3>1, <3>2
    <2>11. DOMAIN pendingCleanup = {1} /\ pendingCleanup[1] \in Signers
      <3>1. pendingCleanup \in Seq(Signers)
        BY DEF IInv, TypeOK
      <3>2. DOMAIN pendingCleanup = 1..1
        BY <2>1, <3>1
      <3>3. pendingCleanup[1] \in Signers
        BY <2>1, <3>1, 1 \in 1..Len(pendingCleanup), ElementOfSeq
      <3> QED BY <3>2, <3>3
    <2> DEFINE failing == pendingCleanup[1]
    <2>2. /\ failing \in Signers /\ Retained = {failing} /\ failing # signer
          /\ signerState[failing] \in {"live", "revoked"}
      BY <2>11, BindingAssumption DEF IInv, Retained, NoUseAfterRelease, Held
    <2>3. pendingCleanup' = pendingCleanup /\ Retained' = Retained /\ signer' = None
      BY <1>4, <2>1 DEF ShutdownCleanupFails, Retained, IInv, TypeOK
    <2>4. PICK state \in Revoking(signerState[failing]) :
            signerState' = [s \in Signers |-> IF s = signer THEN "destroyed"
                              ELSE IF s = failing THEN state ELSE signerState[s]]
      BY <1>4, <2>1 DEF ShutdownCleanupFails
    <2>5. state \in {"live", "revoked"}
      BY <2>2, <2>4 DEF Revoking
    <2>6. signerState' \in [Signers -> SignerStates]
      BY <2>4, <2>5 DEF IInv, TypeOK, SignerStates
    <2>7. \A s \in Signers : signerState'[s] \in {"live", "revoked"} => s = failing
      BY <2>2, <2>4 DEF IInv, NoHandleLeaks
    <2>8. signerState'[failing] = state
      BY <2>2, <2>4
    <2>9. StopNode /\ seed' = seed /\ fallbackSeed' = fallbackSeed
      BY <1>4 DEF ShutdownCleanupFails
    <2>10. pendingCleanup' \in Seq(Signers) /\ Len(pendingCleanup') <= 1 /\ signer' \notin Retained'
      BY <2>0, <2>2, <2>3, BindingAssumption DEF IInv, TypeOK
    <2> QED BY <1>2, <2>2, <2>3, <2>5, <2>6, <2>7, <2>8, <2>9, <2>10
  <1>5. CASE ShutdownDone
    <2>1. /\ signerState' = [s \in Signers |-> IF s \in Retained \cup {signer} THEN "destroyed"
                                                                               ELSE signerState[s]]
          /\ pendingCleanup' = <<>> /\ signer' = None /\ StopNode
          /\ seed' = None /\ fallbackSeed' = None
      BY <1>5 DEF ShutdownDone, Retained
    <2>2. Retained' = {} /\ pendingCleanup' \in Seq(Signers) /\ Len(pendingCleanup') <= 1
      BY <2>1 DEF Retained
    <2>3. signerState' \in [Signers -> SignerStates]
      BY <2>1 DEF IInv, TypeOK, SignerStates
    <2>4. \A s \in Signers : signerState'[s] \notin {"live", "revoked"}
      BY <2>1 DEF IInv, NoHandleLeaks
    <2> QED BY <1>2, <2>1, <2>2, <2>3, <2>4
  <1> QED BY <1>1, <1>3, <1>4, <1>5 DEF Shutdown

LEMMA InvStep == IInv /\ [Next]_vars => IInv'
  <1> SUFFICES ASSUME IInv, [Next]_vars PROVE IInv'
    OBVIOUS
  <1>1. ASSUME NEW n \in Nodes, EnsureNode(n) PROVE IInv'
    <2>1. sdkInitDone' \in BOOLEAN /\ disk' \in Seeds \cup {None}
      BY <1>1 DEF EnsureNode, IInv, TypeOK
    <2> QED BY <1>1, <2>1, OpenInv DEF EnsureNode
  <1>2. ASSUME NEW n \in Nodes, PrepareVssRestore(n) PROVE IInv'
    BY <1>2, OpenInv, InitDiskType DEF PrepareVssRestore, Initialized
  <1>3. CASE UNCHANGED vars
    BY <1>3 DEF vars, IInv, TypeOK, NoHandleLeaks, NoUseAfterRelease, SignerOutlivesNode,
       Held, FreshDetached, OneRetained, Retained
  <1> QED BY <1>1, <1>2, <1>3, AttachInv, UnlockInv, ShutdownInv DEF Next

LEMMA Invariant == Spec => []IInv
  BY InvInit, InvStep, PTL DEF Spec

\* The handles, seeds and native states of a binding always have their types.
THEOREM BindingTypeCorrect == Spec => []TypeOK
  <1>1. IInv => TypeOK
    BY DEF IInv
  <1> QED BY <1>1, Invariant, PTL

\* However unlock, its legacy fallback and shutdown fail half way, no native
\* node or signer is lost before it is released.
THEOREM BindingNoHandleLeaks == Spec => []NoHandleLeaks
  <1>1. IInv => NoHandleLeaks
    BY DEF IInv
  <1> QED BY <1>1, Invariant, PTL

\* No handle is released twice, and an open binding only uses live ones.
THEOREM BindingNoUseAfterRelease == Spec => []NoUseAfterRelease
  <1>1. IInv => NoUseAfterRelease
    BY DEF IInv
  <1> QED BY <1>1, Invariant, PTL

\* Whatever fails, a native handle is released at most once and reachable until
\* then.
THEOREM BindingHandlesReleasedOnce == Spec => []HandlesReleasedOnce
  <1>1. IInv => HandlesReleasedOnce
    BY DEF IInv, HandlesReleasedOnce
  <1> QED BY <1>1, Invariant, PTL

\* A signer is never revoked under a node that is still running with it.
THEOREM BindingSignerOutlivesNode == Spec => []SignerOutlivesNode
  <1>1. IInv => SignerOutlivesNode
    BY DEF IInv
  <1> QED BY <1>1, Invariant, PTL
-----------------------------------------------------------------------------
\* Every retained signer that fails to be released keeps the binding's list
\* nonempty, so the seeds may stay until the next attempt.
LEMMA SeedStep == IInv /\ SeedMatchesSigner /\ [Next]_vars => SeedMatchesSigner'
  <1> SUFFICES ASSUME IInv, SeedMatchesSigner, [Next]_vars PROVE SeedMatchesSigner'
    OBVIOUS
  <1> USE DEF SeedMatchesSigner
  <1>0. signer # None /\ ~closed => signer \in Signers /\ signerState[signer] = "live"
    BY DEF IInv, TypeOK, NoUseAfterRelease
  <1>1. ASSUME NEW n \in Nodes, EnsureNode(n) \/ PrepareVssRestore(n) \/ InitializeFails(n)
                                   \/ UnlockFails(n)
        PROVE  SeedMatchesSigner'
    BY <1>1 DEF EnsureNode, PrepareVssRestore, InitializeFails, UnlockFails, Initialized
  <1>2. ASSUME NEW n \in Nodes, UnlockOk(n) PROVE SeedMatchesSigner'
    BY <1>2 DEF UnlockOk, Initialized
  <1>3. ASSUME NEW s \in Signers, NEW from \in Seeds, NEW fallback \in {"legacy", None},
               AttachExternalSigner(s, from, fallback)
        PROVE  SeedMatchesSigner'
    BY <1>3 DEF AttachExternalSigner, Created, IInv, TypeOK
  <1>4. ASSUME NEW n \in Nodes, NEW f \in Signers, NEW released \in BOOLEAN,
               RetirePrimaryFails(n, f, released)
        PROVE  SeedMatchesSigner'
    <2>1. f # signer /\ signer # None /\ signer' = signer /\ seed' = seed
      BY <1>0, <1>4 DEF RetirePrimaryFails, FallbackDue, Initialized, Created
    <2>2. signerSeed' = [signerSeed EXCEPT ![f] = fallbackSeed]
      BY <1>4 DEF RetirePrimaryFails, Created
    <2> QED BY <2>1, <2>2 DEF IInv, TypeOK
  <1>5. ASSUME NEW n \in Nodes, NEW f \in Signers, SwapSigner(n, f)
        PROVE  SeedMatchesSigner'
    BY <1>5 DEF SwapSigner, FallbackDue, Initialized, Created, IInv, TypeOK
  <1>6. CASE Unlock
    BY <1>1, <1>2, <1>4, <1>5, <1>6 DEF Unlock, UnlockSwapped, UnlockFallback
  <1>7. CASE ShutdownNodeFails
    BY <1>7 DEF ShutdownNodeFails
  <1>8. CASE ShutdownSignerFails
    BY <1>8 DEF ShutdownSignerFails, StopNode
  <1>9. ASSUME NEW released \in 0..Len(pendingCleanup), ShutdownCleanupFails(released)
        PROVE  SeedMatchesSigner'
    <2>1. pendingCleanup \in Seq(Signers)
      BY DEF IInv, TypeOK
    <2>2. released \in Nat /\ Len(pendingCleanup) \in Nat /\ released < Len(pendingCleanup)
      BY <1>9, <2>1 DEF ShutdownCleanupFails
    <2>3. Len(SubSeq(pendingCleanup, released + 1, Len(pendingCleanup))) > 0
      BY <2>1, <2>2
    <2>4. pendingCleanup' # <<>>
      <3>1. pendingCleanup' = SubSeq(pendingCleanup, released + 1, Len(pendingCleanup))
        BY <1>9 DEF ShutdownCleanupFails
      <3>2. Len(pendingCleanup') > 0
        BY <2>3, <3>1
      <3>3. Len(<<>>) = 0
        OBVIOUS
      <3> QED BY <3>2, <3>3
    <2> QED BY <1>9, <2>4 DEF ShutdownCleanupFails
  <1>10. CASE ShutdownDone
    BY <1>10 DEF ShutdownDone
  <1>11. CASE UNCHANGED vars
    BY <1>11 DEF vars
  <1> QED BY <1>1, <1>3, <1>6, <1>7, <1>8, <1>9, <1>10, <1>11 DEF Next, Shutdown

\* The seed kept beside a signer is its own, through the fallback to the legacy
\* one and through every failure; when all is released, none is kept.
THEOREM BindingSeedMatchesSigner == Spec => []SeedMatchesSigner
  <1>1. Init => SeedMatchesSigner
    BY DEF Init, SeedMatchesSigner
  <1> QED BY <1>1, SeedStep, Invariant, PTL DEF Spec
-----------------------------------------------------------------------------
(* AccountCalls: what a call does to the handles is a step of the binding.  *)
LEMMA TakeFacts ==
  ASSUME IInv, NEW n \in Nodes, TakeNode(n)
  PROVE  /\ [Next]_vars /\ ~closed /\ ~closed' /\ node' = n /\ nodeState'[n] = "live"
         /\ node # None => n = node
  <1>1. CASE node = None
    <2>1. EnsureNode(n)
      BY <1>1 DEF TakeNode, EnsureNode
    <2> QED BY <1>1, <2>1 DEF TakeNode, Next, Opened, IInv, TypeOK
  <1>2. CASE node # None
    <2>1. n = node /\ nodeState[n] = "live"
      BY <1>2 DEF TakeNode, Ensured, IInv, NoUseAfterRelease
    <2>2. nodeState' = nodeState
      BY <1>2, <2>1 DEF TakeNode, Opened, IInv, TypeOK
    <2>3. UNCHANGED vars
      BY <2>1, <2>2 DEF TakeNode, vars
    <2> QED BY <2>1, <2>2, <2>3 DEF TakeNode
  <1> QED BY <1>1, <1>2

LEMMA DeliverStep ==
  ASSUME IInv, NEW c, NEW request, Deliver(c, request)
  PROVE  [Next]_vars
  BY TakeFacts DEF Deliver, Fail, Await

LEMMA PaymentStep ==
  ASSUME IInv, PaymentSteps
  PROVE  [Next]_vars
  <1>1. ASSUME NEW c \in Sends, SendStep(c) PROVE [Next]_vars
    <2>1. CASE Send(c)
      BY <2>1, DeliverStep DEF Send, Fail, Await
    <2>2. CASE Decode(c)
      BY <2>2, DeliverStep DEF Decode, Mutate, Fail, Await
    <2>3. CASE Rate(c)
      BY <2>3, DeliverStep DEF Rate, Mutate, Fail, Await
    <2>4. CASE Quote(c)
      BY <2>4, DeliverStep DEF Quote, Mutate, Fail, Await
    <2>5. CASE Dispatch(c)
      BY <2>5, DeliverStep DEF Dispatch
    <2> QED BY <1>1, <2>1, <2>2, <2>3, <2>4, <2>5 DEF SendStep
  <1>2. ASSUME NEW b \in Burns, BurnAsset(b) \/ BurnDispatch(b) PROVE [Next]_vars
    BY <1>2, TakeFacts DEF BurnAsset, BurnDispatch, Fail, Await
  <1> QED BY <1>1, <1>2 DEF PaymentSteps

LEMMA RecoveryStep ==
  ASSUME IInv, RecoverySteps
  PROVE  [Next]_vars
  <1>1. PICK r \in Recoveries : Recover(r) \/ RecoveryRuns(r)
    BY DEF RecoverySteps
  <1>2. CASE Recover(r)
    BY <1>2 DEF Recover, Fail, Await
  <1>3. ASSUME NEW n \in Nodes, RecoverNatively(r, n) PROVE [Next]_vars
    BY <1>3, TakeFacts DEF RecoverNatively, Next
  <1>4. ASSUME NEW n \in Nodes, InitializeFails(n) PROVE [Next]_vars
    BY <1>4 DEF Next, Unlock
  <1>5. CASE RecoveryRuns(r)
    BY <1>3, <1>4, <1>5 DEF RecoveryRuns, Fail, Await
  <1> QED BY <1>1, <1>2, <1>5

LEMMA UnlockStep ==
  ASSUME UnlockSteps
  PROVE  [Next]_vars
  <1>1. UnlockSucceeds => Unlock
    BY DEF UnlockSucceeds, Unlock
  <1>2. UnlockThrows => Unlock \/ UNCHANGED vars
    BY DEF UnlockThrows, Unlock
  <1> QED BY <1>1, <1>2 DEF UnlockSteps, UnlockRuns, Next

LEMMA CallsStepIsBindingStep == IInv /\ [CallsNext]_callsVars => [Next]_vars
  <1> SUFFICES ASSUME IInv, [CallsNext]_callsVars PROVE [Next]_vars
    OBVIOUS
  <1>1. CASE TeardownSteps
    BY <1>1 DEF TeardownSteps, ShutdownBegins, ShutdownRuns, Dispose, Next, Shutdown
  <1>2. CASE HandleSteps
    BY <1>2 DEF HandleSteps, Next
  <1>3. CASE UNCHANGED callsVars
    BY <1>3 DEF callsVars
  <1>4. CASE TransitionSteps
    BY <1>4 DEF TransitionSteps
  <1> QED BY <1>1, <1>2, <1>3, <1>4, PaymentStep, RecoveryStep, UnlockStep DEF CallsNext

\* Between all the awaits of an account its calls use the binding as the
\* methods of the binding allow: what is proved of Spec holds for them.
THEOREM CallsImplementBinding == CallsSpec => Spec
  <1>1. CallsInit => Init
    BY DEF CallsInit
  <1>2. IInv /\ [Next]_vars => IInv'
    BY InvStep
  <1> QED BY <1>1, <1>2, InvInit, CallsStepIsBindingStep, PTL DEF CallsSpec, Spec

LEMMA CallsHandles == CallsSpec => []IInv
  BY CallsImplementBinding, Invariant, PTL
-----------------------------------------------------------------------------
(* Recovery.                                                                *)
RecoveryInv ==
  /\ DOMAIN pc = Calls /\ scope \in [Recoveries -> Seeds \cup {None}]
  /\ acted \in [Recoveries -> Seeds \cup {None}]
  /\ \A r \in Recoveries : pc[r] \in {"idle", "deferred", "due"} => acted[r] = None
  /\ ScopedRecovery

LEMMA RecoveryRunsInv ==
  ASSUME IInv, RecoveryInv, NEW r \in Recoveries, RecoveryRuns(r)
  PROVE  RecoveryInv'
  <1> USE DEF RecoveryInv
  <1>1. scope' = scope /\ pc[r] = "due" /\ r \in Calls
    BY DEF RecoveryRuns, Calls
  <1>2. CASE Fail(r) /\ acted' = acted
    BY <1>1, <1>2 DEF Fail, Await, Enter, ScopedRecovery
  <1>3. CASE acted' = acted /\ Enter(r, "failed")
    BY <1>1, <1>3 DEF Enter, ScopedRecovery
  <1>4. ASSUME NEW n \in Nodes, ScopeHolds(r), RecoverNatively(r, n) PROVE RecoveryInv'
    <2> DEFINE found == IF signer = None THEN None ELSE signerSeed[signer]
    <2>1. acted' = [acted EXCEPT ![r] = found]
      BY <1>4 DEF RecoverNatively
    <2>2. found \in Seeds \cup {None}
      BY DEF IInv, TypeOK
    <2>3. scope[r] # None => found = scope[r]
      BY <1>4 DEF ScopeHolds
    <2>4. PICK phase \in {"done", "failed"} : pc' = [pc EXCEPT ![r] = phase]
      BY <1>4 DEF RecoverNatively, Enter
    <2>5. acted'[r] = found /\ \A x \in Recoveries \ {r} : acted'[x] = acted[x] /\ pc'[x] = pc[x]
      BY <2>1, <2>4 DEF Calls
    <2>6. ScopedRecovery'
      BY <1>1, <2>3, <2>5 DEF ScopedRecovery
    <2> HIDE DEF found
    <2> QED BY <1>1, <2>1, <2>2, <2>4, <2>5, <2>6
  <1> QED BY <1>2, <1>3, <1>4 DEF RecoveryRuns

LEMMA RecoveryInvStep ==
  ASSUME CallsAssumption
  PROVE  IInv /\ RecoveryInv /\ [CallsNext]_callsVars => RecoveryInv'
  <1> SUFFICES ASSUME IInv, RecoveryInv, [CallsNext]_callsVars PROVE RecoveryInv'
    OBVIOUS
  <1> USE DEF RecoveryInv
  <1>1. CASE PaymentSteps
    <2>1. PICK c \in Payments : PaymentSteps /\ \E phase : pc' = [pc EXCEPT ![c] = phase]
      <3>1. ASSUME NEW c, NEW request, Deliver(c, request) \/ Mutate(c, request)
            PROVE  \E phase : pc' = [pc EXCEPT ![c] = phase]
        BY <3>1 DEF Mutate, Deliver, Fail, Await, Enter, Give
      <3>2. ASSUME NEW c \in Sends, SendStep(c) PROVE \E phase : pc' = [pc EXCEPT ![c] = phase]
        BY <3>1, <3>2 DEF SendStep, Send, Decode, Rate, Quote, Dispatch, Fail, Await, Enter
      <3>3. ASSUME NEW b \in Burns, BurnAsset(b) \/ BurnDispatch(b)
            PROVE  \E phase : pc' = [pc EXCEPT ![b] = phase]
        BY <3>3 DEF BurnAsset, BurnDispatch, Fail, Await, Enter, Give
      <3> QED BY <1>1, <3>2, <3>3 DEF PaymentSteps, Payments
    <2>2. c \notin Recoveries
      BY DEF CallsAssumption
    <2> QED BY <1>1, <2>1, <2>2 DEF PaymentSteps, recoveryVars, ScopedRecovery, Calls
  <1>2. ASSUME NEW r \in Recoveries, Recover(r) PROVE RecoveryInv'
    <2>1. acted' = acted /\ acted[r] = None /\ r \in Calls
      BY <1>2 DEF Recover, Calls
    <2>2. \E phase : pc' = [pc EXCEPT ![r] = phase]
      BY <1>2 DEF Recover, Fail, Await, Enter
    <2>3. /\ scope' \in [Recoveries -> Seeds \cup {None}]
          /\ \A x \in Recoveries \ {r} : scope'[x] = scope[x]
      BY <1>2 DEF Recover
    <2> QED BY <2>1, <2>2, <2>3 DEF ScopedRecovery, Calls
  <1>3. CASE RecoverySteps
    BY <1>2, <1>3, RecoveryRunsInv DEF RecoverySteps
  <1>4. CASE UnlockSteps
    BY <1>4 DEF UnlockSteps, ScopedRecovery
  <1>5. CASE TransitionSteps
    BY <1>5 DEF TransitionSteps, BeginTransition, EndTransition, recoveryVars, ScopedRecovery, Calls
  <1>6. CASE TeardownSteps
    BY <1>6 DEF TeardownSteps, recoveryVars, ScopedRecovery
  <1>7. CASE UNCHANGED <<pc, recoveryVars>>
    BY <1>7 DEF recoveryVars, ScopedRecovery
  <1> QED BY <1>1, <1>3, <1>4, <1>5, <1>6, <1>7 DEF CallsNext, callsVars

\* However a recovery call is delayed, it acts for the reviewed wallet.
THEOREM CallsScopedRecovery == CallsSpec => []ScopedRecovery
  <1>1. CallsInit => RecoveryInv
    BY DEF CallsInit, RecoveryInv, ScopedRecovery
  <1>2. RecoveryInv => ScopedRecovery
    BY DEF RecoveryInv
  <1>3. IInv /\ RecoveryInv /\ [CallsNext]_callsVars => RecoveryInv'
    BY RecoveryInvStep, CallsAssumption
  <1> QED BY <1>1, <1>2, <1>3, CallsHandles, PTL DEF CallsSpec
-----------------------------------------------------------------------------
(* What is sent.                                                            *)
Rated(o, r) == r = o.feeRate \/ (o.feeRate = Unset /\ r > 0)

\* What SentAsOrdered says of one request.
AsOrdered(request, o, d, quoted, mainnet) ==
  /\ request.amount = o.amount
  /\ Lightning(o) => ~mainnet
  /\ o.token # "none" /\ o.route # "btc-address" => request.asset = o.token
  /\ ~Lightning(o) => Rated(o, request.rate)
  /\ o.route = "btc-address" => quoted = QuotedFee(request.rate)
  /\ o.route = "rgb-invoice" =>
       /\ request.to = d.recipient /\ request.asset \in {o.token, d.asset} \ {"none"}
       /\ request.endpoints = "invoice" <=> d.endpoints
       /\ request.witness <=> d.type = "Witness"
       /\ request.witness => o.witnessData = "valid"

\* What a call that is about to send has settled.
Settled(o, d, r, quoted, proxy) ==
  /\ o \in OrderType /\ ~Lightning(o) /\ Rated(o, r)
  /\ o.route = "btc-address" => quoted = QuotedFee(r)
  /\ o.route = "rgb-invoice" => d \in DecodedType /\ Deliverable(o, d, proxy)

RequestOf(o, d, r, proxy) ==
  IF o.route = "btc-address" THEN BtcRequest(o, r) ELSE RgbRequest(o, d, r, proxy)

LEMMA LightningAsOrdered ==
  ASSUME NEW o \in OrderType, NEW d, NEW quoted, NEW mainnet \in BOOLEAN,
         Lightning(o), ~Refused(o, mainnet)
  PROVE  AsOrdered(LightningRequest(o), o, d, quoted, mainnet)
  BY DEF AsOrdered, LightningRequest, Lightning, Refused

LEMMA RequestAsOrdered ==
  ASSUME NEW o, NEW d, NEW r, NEW quoted, NEW proxy \in BOOLEAN, NEW mainnet,
         Settled(o, d, r, quoted, proxy)
  PROVE  AsOrdered(RequestOf(o, d, r, proxy), o, d, quoted, mainnet)
  <1>1. CASE o.route = "btc-address"
    BY <1>1 DEF Settled, AsOrdered, RequestOf, BtcRequest, Lightning
  <1>2. CASE o.route # "btc-address"
    <2>1. o.route = "rgb-invoice"
      BY <1>2 DEF Settled, Lightning, OrderType
    <2>2. d \in DecodedType /\ Deliverable(o, d, proxy)
      BY <2>1 DEF Settled
    <2>3. RequestOf(o, d, r, proxy) =
            [to |-> d.recipient, asset |-> ContractId(o, d), amount |-> o.amount, rate |-> r,
             endpoints |-> Endpoints(d, proxy), witness |-> d.type = "Witness"]
      BY <1>2 DEF RequestOf, RgbRequest
    <2>4. ContractId(o, d) \in {o.token, d.asset} \ {"none"}
          /\ (o.token # "none" => ContractId(o, d) = o.token)
      BY <2>2 DEF Deliverable, ContractId
    <2>5. (Endpoints(d, proxy) = "invoice") <=> d.endpoints
      BY <2>2 DEF Endpoints, DecodedType
    <2>6. d.type = "Witness" => o.witnessData = "valid"
      BY <2>2 DEF Deliverable
    <2> DEFINE request == RequestOf(o, d, r, proxy)
    <2>7. /\ request.to = d.recipient /\ request.asset = ContractId(o, d)
          /\ request.amount = o.amount /\ request.rate = r
      BY <2>3
    <2>8. request.endpoints = Endpoints(d, proxy) /\ request.witness = (d.type = "Witness")
      BY <2>3
    <2>9. ~Lightning(o) /\ Rated(o, r)
      BY DEF Settled
    <2> HIDE DEF request
    <2>10. request.witness <=> d.type = "Witness"
      BY <2>8
    <2>11. AsOrdered(request, o, d, quoted, mainnet)
      BY <1>2, <2>1, <2>4, <2>5, <2>6, <2>7, <2>8, <2>9, <2>10 DEF AsOrdered
    <2> QED BY <2>11 DEF request
  <1> QED BY <1>1, <1>2

\* One call: what it has settled by the await it is at, and what it sent.
SendInv(c) ==
  /\ pc[c] \notin {"done", "failed"} => sent[c] = NoRequest
  /\ pc[c] \in {"decoding", "rating", "quoting"} => order[c] \in OrderType /\ ~Lightning(order[c])
  /\ pc[c] = "decoding" => order[c].route = "rgb-invoice" /\ rate[c] = order[c].feeRate
  /\ pc[c] = "rating" =>
       /\ order[c].feeRate = Unset
       /\ order[c].route = "rgb-invoice" =>
            decoded[c] \in DecodedType /\ Deliverable(order[c], decoded[c], setup.proxy)
  /\ pc[c] = "quoting" => order[c].route = "btc-address" /\ Rated(order[c], rate[c])
  /\ pc[c] \in {"deferred", "due"} =>
       Settled(order[c], decoded[c], rate[c], fee[c], setup.proxy)
  /\ sent[c] # NoRequest => AsOrdered(sent[c], order[c], decoded[c], fee[c], setup.mainnet)

SendShape ==
  /\ DOMAIN pc = Calls /\ DOMAIN sent = Payments
  /\ pc = [c \in DOMAIN pc |-> pc[c]] /\ sent = [c \in DOMAIN sent |-> sent[c]]
  /\ order \in [Sends -> Orders \cup {NoOrder}]
  /\ decoded \in [Sends -> Decodings \cup {NoDecoding}]
  /\ rate \in [Sends -> Int] /\ fee \in [Sends -> Int]
  /\ setup.proxy \in BOOLEAN /\ setup.mainnet \in BOOLEAN
SendsInv == SendShape /\ \A c \in Sends : SendInv(c)

\* Delivering or deferring the request of a call touches no other call.
LEMMA MutateFacts ==
  ASSUME NEW c \in Payments, NEW request, SendShape,
         Deliver(c, request) \/ Mutate(c, request)
  PROVE  /\ DOMAIN pc' = Calls /\ DOMAIN sent' = Payments
         /\ pc' = [x \in DOMAIN pc' |-> pc'[x]] /\ sent' = [x \in DOMAIN sent' |-> sent'[x]]
         /\ \A x \in Calls \ {c} : pc'[x] = pc[x]
         /\ \A x \in Payments \ {c} : sent'[x] = sent[x]
         /\ \/ pc'[c] \in {"deferred", "failed"} /\ sent'[c] = sent[c]
            \/ pc'[c] \in {"done", "failed"} /\ sent'[c] = request
  <1> c \in Calls
    BY DEF Calls
  <1>1. \/ \E phase \in {"deferred", "failed"} : pc' = [pc EXCEPT ![c] = phase] /\ sent' = sent
        \/ \E phase \in {"done", "failed"} :
             pc' = [pc EXCEPT ![c] = phase] /\ sent' = [sent EXCEPT ![c] = request]
    BY DEF Mutate, Deliver, Fail, Await, Enter, Give
  <1> QED BY <1>1 DEF SendShape

LEMMA AwaitFacts ==
  ASSUME NEW c \in Calls, NEW phase, SendShape, Await(c, phase)
  PROVE  /\ DOMAIN pc' = Calls /\ DOMAIN sent' = Payments /\ sent' = sent
         /\ pc' = [x \in DOMAIN pc' |-> pc'[x]] /\ sent' = [x \in DOMAIN sent' |-> sent'[x]]
         /\ \A x \in Calls \ {c} : pc'[x] = pc[x]
         /\ pc'[c] = phase
  BY DEF Await, Enter, SendShape

\* A step of one call leaves what is said of the others.
LEMMA OtherSends ==
  ASSUME NEW c \in Sends, SendsInv, SendShape', setup' = setup, SendInv(c)',
         \A x \in Sends \ {c} :
           /\ pc'[x] = pc[x] /\ sent'[x] = sent[x] /\ order'[x] = order[x]
           /\ decoded'[x] = decoded[x] /\ rate'[x] = rate[x] /\ fee'[x] = fee[x]
  PROVE  SendsInv'
  <1>1. ASSUME NEW x \in Sends \ {c} PROVE SendInv(x)'
    BY <1>1 DEF SendsInv, SendInv
  <1> QED BY <1>1 DEF SendsInv

\* A settled call is refused, waits for the transition or sends what it settled.
LEMMA SettledSends ==
  ASSUME NEW c \in Sends, SendShape, SendShape', setup' = setup, sent[c] = NoRequest,
         Settled(order'[c], decoded'[c], rate'[c], fee'[c], setup.proxy),
         \/ pc'[c] \in {"deferred", "failed"} /\ sent'[c] = sent[c]
         \/ /\ pc'[c] \in {"done", "failed"}
            /\ sent'[c] = RequestOf(order'[c], decoded'[c], rate'[c], setup.proxy)
  PROVE  SendInv(c)'
  <1>1. AsOrdered(RequestOf(order'[c], decoded'[c], rate'[c], setup.proxy),
                  order'[c], decoded'[c], fee'[c], setup.mainnet)
    BY RequestAsOrdered DEF SendShape
  <1> QED BY <1>1 DEF SendInv

LEMMA QuotedFeeType == ASSUME NEW r \in Int PROVE QuotedFee(r) \in Int
  BY DEF QuotedFee

LEMMA DefaultFeeRatePositive ==
  ASSUME NEW e \in Int PROVE DefaultFeeRate(e) \in Int /\ DefaultFeeRate(e) > 0
  BY DEF DefaultFeeRate

\* A failed call has nothing left to settle.
LEMMA FailedSend ==
  ASSUME NEW c \in Sends, SendShape, sent[c] = NoRequest, Fail(c)
  PROVE  SendInv(c)'
  BY AwaitFacts DEF Fail, SendInv, Calls, Payments

LEMMA SendSends ==
  ASSUME CallsAssumption, SendsInv, NEW c \in Sends, Send(c), setup' = setup
  PROVE  SendsInv'
  <1>1. PICK o \in Orders :
          /\ order' = [order EXCEPT ![c] = o]
          /\ rate' = [rate EXCEPT ![c] = o.feeRate]
          /\ IF Refused(o, setup.mainnet) \/ (Lightning(o) /\ life # "open") THEN Fail(c)
             ELSE IF Lightning(o) THEN Deliver(c, LightningRequest(o))
             ELSE Await(c, IF o.route = "rgb-invoice" THEN "decoding"
                           ELSE IF o.feeRate = Unset THEN "rating" ELSE "quoting")
    BY DEF Send
  <1>2. o \in OrderType /\ o.feeRate \in Int /\ c \in Calls /\ c \in Payments
    BY DEF CallsAssumption, OrderType, Calls, Payments
  <1>3. /\ decoded' = decoded /\ fee' = fee /\ SendShape /\ sent[c] = NoRequest /\ SendInv(c)
    BY DEF Send, SendsInv, SendInv
  <1>4. /\ order'[c] = o /\ rate'[c] = o.feeRate
        /\ order' \in [Sends -> Orders \cup {NoOrder}] /\ rate' \in [Sends -> Int]
        /\ \A x \in Sends \ {c} : order'[x] = order[x] /\ rate'[x] = rate[x]
    BY <1>1, <1>2, <1>3 DEF SendShape
  <1>5. CASE Fail(c)
    <2>1. SendInv(c)'
      BY <1>3, <1>5, FailedSend
    <2>2. SendShape'
      BY <1>2, <1>3, <1>4, <1>5, AwaitFacts DEF Fail, SendShape
    <2> QED BY <1>2, <1>3, <1>4, <1>5, <2>1, <2>2, AwaitFacts, OtherSends DEF Fail, Calls, Payments
  <1>6. CASE Deliver(c, LightningRequest(o)) /\ ~Refused(o, setup.mainnet) /\ Lightning(o)
    <2>1. SendShape'
      BY <1>2, <1>3, <1>4, <1>6, MutateFacts DEF SendShape
    <2>2. \/ pc'[c] = "failed" /\ sent'[c] = NoRequest
          \/ pc'[c] \in {"done", "failed"} /\ sent'[c] = LightningRequest(o)
      <3>1. \/ pc' = [pc EXCEPT ![c] = "failed"] /\ sent' = sent
            \/ \E phase \in {"done", "failed"} :
                 pc' = [pc EXCEPT ![c] = phase] /\ sent' = [sent EXCEPT ![c] = LightningRequest(o)]
        BY <1>6 DEF Deliver, Fail, Await, Enter, Give
      <3> QED BY <1>2, <1>3, <3>1 DEF SendShape
    <2>3. AsOrdered(LightningRequest(o), o, decoded[c], fee[c], setup.mainnet)
      BY <1>2, <1>3, <1>6, LightningAsOrdered DEF SendShape
    <2>4. SendInv(c)'
      BY <1>3, <1>4, <2>2, <2>3 DEF SendInv
    <2> QED BY <1>2, <1>3, <1>4, <1>6, <2>1, <2>4, MutateFacts, OtherSends DEF Calls, Payments
  <1>7. ASSUME ~Lightning(o), NEW phase, Await(c, phase),
               phase = IF o.route = "rgb-invoice" THEN "decoding"
                       ELSE IF o.feeRate = Unset THEN "rating" ELSE "quoting"
        PROVE  SendsInv'
    <2>1. SendShape'
      BY <1>2, <1>3, <1>4, <1>7, AwaitFacts DEF SendShape
    <2>2. o.route # "rgb-invoice" => o.route = "btc-address"
      BY <1>2, <1>7 DEF Lightning, OrderType
    <2>3. pc'[c] = phase /\ sent'[c] = NoRequest
      BY <1>2, <1>3, <1>7, AwaitFacts
    <2>4. SendInv(c)'
      BY <1>2, <1>4, <1>7, <2>2, <2>3 DEF SendInv, Rated
    <2> QED BY <1>2, <1>3, <1>4, <1>7, <2>1, <2>4, AwaitFacts, OtherSends DEF Calls, Payments
  <1> QED BY <1>1, <1>5, <1>6, <1>7

\* The common end of Decode, Rate, Quote and Dispatch.
LEMMA LaterSends ==
  ASSUME SendsInv, NEW c \in Sends, setup' = setup, order' = order,
         decoded' \in [Sends -> Decodings \cup {NoDecoding}],
         rate' \in [Sends -> Int], fee' \in [Sends -> Int],
         \A x \in Sends \ {c} : decoded'[x] = decoded[x] /\ rate'[x] = rate[x] /\ fee'[x] = fee[x],
         pc[c] \in {"decoding", "rating", "quoting", "due"},
         NEW phase,
         \/ Fail(c)
         \/ /\ Await(c, phase)
            /\ SendShape' /\ sent'[c] = NoRequest /\ pc'[c] = phase => SendInv(c)'
         \/ /\ Settled(order[c], decoded'[c], rate'[c], fee'[c], setup.proxy)
            /\ \E request : /\ Deliver(c, request) \/ Mutate(c, request)
                            /\ request = RequestOf(order[c], decoded'[c], rate'[c], setup.proxy)
  PROVE  SendsInv'
  <1>1. SendShape /\ sent[c] = NoRequest /\ c \in Calls /\ c \in Payments
    BY DEF SendsInv, SendInv, Calls, Payments
  <1>2. CASE Fail(c)
    <2>1. SendShape'
      BY <1>1, <1>2, AwaitFacts DEF Fail, SendShape
    <2> QED BY <1>1, <1>2, <2>1, FailedSend, AwaitFacts, OtherSends DEF Fail, Calls, Payments
  <1>3. CASE /\ Await(c, phase)
             /\ SendShape' /\ sent'[c] = NoRequest /\ pc'[c] = phase => SendInv(c)'
    <2>1. SendShape'
      BY <1>1, <1>3, AwaitFacts DEF SendShape
    <2>2. SendInv(c)'
      BY <1>1, <1>3, <2>1, AwaitFacts
    <2> QED BY <1>1, <1>3, <2>1, <2>2, AwaitFacts, OtherSends DEF Calls, Payments
  <1>4. ASSUME NEW request, Deliver(c, request) \/ Mutate(c, request),
               Settled(order[c], decoded'[c], rate'[c], fee'[c], setup.proxy),
               request = RequestOf(order[c], decoded'[c], rate'[c], setup.proxy)
        PROVE  SendsInv'
    <2>1. /\ DOMAIN pc' = Calls /\ DOMAIN sent' = Payments
          /\ pc' = [x \in DOMAIN pc' |-> pc'[x]] /\ sent' = [x \in DOMAIN sent' |-> sent'[x]]
          /\ \A x \in Calls \ {c} : pc'[x] = pc[x]
          /\ \A x \in Payments \ {c} : sent'[x] = sent[x]
          /\ \/ pc'[c] \in {"deferred", "failed"} /\ sent'[c] = sent[c]
             \/ pc'[c] \in {"done", "failed"} /\ sent'[c] = request
      BY <1>1, <1>4, MutateFacts
    <2>2. SendShape'
      BY <1>1, <2>1 DEF SendShape
    <2>3. SendInv(c)'
      BY <1>1, <1>4, <2>1, <2>2, SettledSends
    <2> QED BY <1>1, <2>1, <2>2, <2>3, OtherSends DEF Calls, Payments
  <1> QED BY <1>2, <1>3, <1>4

LEMMA DecodeSends ==
  ASSUME CallsAssumption, SendsInv, NEW c \in Sends, Decode(c), setup' = setup
  PROVE  SendsInv'
  <1> DEFINE o == order[c]
  <1>1. /\ SendShape /\ pc[c] = "decoding" /\ o \in OrderType /\ ~Lightning(o)
        /\ o.route = "rgb-invoice" /\ rate[c] = o.feeRate
        /\ order' = order /\ rate' = rate /\ fee' = fee
    BY DEF Decode, SendsInv, SendInv
  <1>2. CASE Fail(c) /\ decoded' = decoded
    BY <1>1, <1>2, LaterSends DEF SendShape
  <1>3. ASSUME NEW d \in Decodings, decoded' = [decoded EXCEPT ![c] = d],
               IF ~Deliverable(o, d, setup.proxy) THEN Fail(c)
               ELSE IF rate[c] = Unset THEN Await(c, "rating")
               ELSE Mutate(c, RgbRequest(o, d, rate[c], setup.proxy))
        PROVE  SendsInv'
    <2>1. /\ decoded' \in [Sends -> Decodings \cup {NoDecoding}] /\ decoded'[c] = d
          /\ \A x \in Sends \ {c} : decoded'[x] = decoded[x]
          /\ d \in DecodedType
      BY <1>1, <1>3 DEF SendShape, CallsAssumption
    <2>2. CASE Fail(c)
      BY <1>1, <2>1, <2>2, LaterSends DEF SendShape
    <2>3. CASE Await(c, "rating") /\ rate[c] = Unset /\ Deliverable(o, d, setup.proxy)
      <3>1. SendShape' /\ sent'[c] = NoRequest /\ pc'[c] = "rating" => SendInv(c)'
        BY <1>1, <2>1, <2>3 DEF SendInv
      <3> QED BY <1>1, <2>1, <2>3, <3>1, LaterSends DEF SendShape
    <2>4. CASE Mutate(c, RgbRequest(o, d, rate[c], setup.proxy)) /\ Deliverable(o, d, setup.proxy)
      <3>1. Settled(o, d, rate[c], fee[c], setup.proxy)
        BY <1>1, <2>1, <2>4 DEF Settled, Rated
      <3>2. RgbRequest(o, d, rate[c], setup.proxy) = RequestOf(o, d, rate[c], setup.proxy)
        BY <1>1 DEF RequestOf
      <3> QED BY <1>1, <2>1, <2>4, <3>1, <3>2, LaterSends DEF SendShape
    <2> QED BY <1>3, <2>2, <2>3, <2>4
  <1> QED BY <1>2, <1>3 DEF Decode

LEMMA RateSends ==
  ASSUME CallsAssumption, SendsInv, NEW c \in Sends, Rate(c), setup' = setup
  PROVE  SendsInv'
  <1> DEFINE o == order[c]
  <1>1. /\ SendShape /\ pc[c] = "rating" /\ o \in OrderType /\ ~Lightning(o)
        /\ o.feeRate = Unset
        /\ o.route = "rgb-invoice" =>
             decoded[c] \in DecodedType /\ Deliverable(o, decoded[c], setup.proxy)
        /\ order' = order /\ decoded' = decoded /\ fee' = fee
    BY DEF Rate, SendsInv, SendInv
  <1>2. PICK e \in Estimates :
          /\ rate' = [rate EXCEPT ![c] = DefaultFeeRate(e)]
          /\ IF o.route = "btc-address" THEN Await(c, "quoting")
             ELSE Mutate(c, RgbRequest(o, decoded[c], DefaultFeeRate(e), setup.proxy))
    BY DEF Rate
  <1> DEFINE found == DefaultFeeRate(e)
  <1>3. found \in Int /\ found > 0
    BY DefaultFeeRatePositive DEF CallsAssumption
  <1> HIDE DEF found
  <1>4. /\ rate' = [rate EXCEPT ![c] = found]
        /\ IF o.route = "btc-address" THEN Await(c, "quoting")
           ELSE Mutate(c, RgbRequest(o, decoded[c], found, setup.proxy))
    BY <1>2 DEF found
  <1>5. /\ rate' \in [Sends -> Int] /\ rate'[c] = found /\ Rated(o, found)
        /\ \A x \in Sends \ {c} : rate'[x] = rate[x]
    BY <1>1, <1>3, <1>4 DEF SendShape, Rated
  <1>6. CASE Await(c, "quoting") /\ o.route = "btc-address"
    <2>1. SendShape' /\ sent'[c] = NoRequest /\ pc'[c] = "quoting" => SendInv(c)'
      BY <1>1, <1>5, <1>6 DEF SendInv
    <2> QED BY <1>1, <1>5, <1>6, <2>1, LaterSends DEF SendShape
  <1>7. CASE Mutate(c, RgbRequest(o, decoded[c], found, setup.proxy)) /\ o.route # "btc-address"
    <2>1. Settled(o, decoded[c], found, fee[c], setup.proxy)
      BY <1>1, <1>5, <1>7 DEF Settled
    <2>2. RgbRequest(o, decoded[c], found, setup.proxy) = RequestOf(o, decoded[c], found, setup.proxy)
      BY <1>7 DEF RequestOf
    <2> QED BY <1>1, <1>5, <1>7, <2>1, <2>2, LaterSends DEF SendShape
  <1> QED BY <1>4, <1>6, <1>7

LEMMA QuoteSends ==
  ASSUME SendsInv, NEW c \in Sends, Quote(c), setup' = setup
  PROVE  SendsInv'
  <1> DEFINE o == order[c]
  <1>1. /\ SendShape /\ pc[c] = "quoting" /\ o \in OrderType /\ ~Lightning(o)
        /\ o.route = "btc-address" /\ Rated(o, rate[c])
        /\ order' = order /\ decoded' = decoded /\ rate' = rate
    BY DEF Quote, SendsInv, SendInv
  <1>2. CASE Fail(c) /\ fee' = fee
    BY <1>1, <1>2, LaterSends DEF SendShape
  <1>3. CASE fee' = [fee EXCEPT ![c] = QuotedFee(rate[c])] /\ Mutate(c, BtcRequest(o, rate[c]))
    <2>1. QuotedFee(rate[c]) \in Int
      BY <1>1, QuotedFeeType DEF SendShape
    <2>2. /\ fee' \in [Sends -> Int] /\ fee'[c] = QuotedFee(rate[c])
          /\ \A x \in Sends \ {c} : fee'[x] = fee[x]
      BY <1>1, <1>3, <2>1 DEF SendShape
    <2>3. Settled(o, decoded[c], rate[c], fee'[c], setup.proxy)
      BY <1>1, <2>2 DEF Settled
    <2>4. BtcRequest(o, rate[c]) = RequestOf(o, decoded[c], rate[c], setup.proxy)
      BY <1>1 DEF RequestOf
    <2> QED BY <1>1, <1>3, <2>2, <2>3, <2>4, LaterSends DEF SendShape
  <1> QED BY <1>2, <1>3 DEF Quote

LEMMA DispatchSends ==
  ASSUME SendsInv, NEW c \in Sends, Dispatch(c), setup' = setup
  PROVE  SendsInv'
  <1>1. /\ SendShape /\ pc[c] = "due"
        /\ Settled(order[c], decoded[c], rate[c], fee[c], setup.proxy)
        /\ order' = order /\ decoded' = decoded /\ rate' = rate /\ fee' = fee
    BY DEF Dispatch, sendVars, SendsInv, SendInv
  <1>2. Deliver(c, RequestOf(order[c], decoded[c], rate[c], setup.proxy))
    BY DEF Dispatch, Request, RequestOf
  <1> QED BY <1>1, <1>2, LaterSends DEF SendShape

\* What leaves the sends alone, or only brings their turn, keeps SendsInv.
LEMMA KeepSends ==
  ASSUME SendsInv, setup' = setup, UNCHANGED sendVars, DOMAIN pc' = Calls, DOMAIN sent' = Payments,
         pc' = [x \in DOMAIN pc' |-> pc'[x]], sent' = [x \in DOMAIN sent' |-> sent'[x]],
         \A x \in Sends : /\ sent'[x] = sent[x]
                          /\ pc'[x] = pc[x] \/ (pc[x] = "deferred" /\ pc'[x] = "due")
  PROVE  SendsInv'
  <1>1. SendShape'
    BY DEF SendsInv, SendShape, sendVars
  <1>2. ASSUME NEW x \in Sends PROVE SendInv(x)'
    BY DEF SendsInv, SendInv, sendVars
  <1> QED BY <1>1, <1>2 DEF SendsInv

LEMMA SendsInvStep ==
  ASSUME CallsAssumption
  PROVE  SendsInv /\ [CallsNext]_callsVars => SendsInv'
  <1> SUFFICES ASSUME SendsInv, [CallsNext]_callsVars PROVE SendsInv'
    OBVIOUS
  <1>0. SendShape /\ Sends \subseteq Calls /\ Sends \subseteq Payments
    BY DEF SendsInv, Calls, Payments
  <1>1. ASSUME NEW c \in Sends, SendStep(c), setup' = setup PROVE SendsInv'
    BY <1>1, SendSends, DecodeSends, RateSends, QuoteSends, DispatchSends DEF SendStep
  <1>2. ASSUME NEW b \in Burns, BurnAsset(b) \/ BurnDispatch(b), UNCHANGED sendVars, setup' = setup
        PROVE  SendsInv'
    <2>1. b \notin Sends
      BY DEF CallsAssumption
    <2>2. /\ \E phase : pc' = [pc EXCEPT ![b] = phase]
          /\ sent' = sent \/ \E request : sent' = [sent EXCEPT ![b] = request]
      BY <1>2 DEF BurnAsset, BurnDispatch, Fail, Await, Enter, Give
    <2>3. DOMAIN pc' = Calls /\ pc' = [x \in DOMAIN pc' |-> pc'[x]]
          /\ \A x \in Sends : pc'[x] = pc[x]
      <3>1. DOMAIN pc = Calls
        BY <1>0 DEF SendShape
      <3>2. PICK phase : pc' = [pc EXCEPT ![b] = phase]
        BY <2>2
      <3> QED BY <1>0, <2>1, <3>1, <3>2
    <2>4. DOMAIN sent' = Payments /\ sent' = [x \in DOMAIN sent' |-> sent'[x]]
          /\ \A x \in Sends : sent'[x] = sent[x]
      BY <1>0, <2>1, <2>2 DEF SendShape
    <2> QED BY <1>2, <2>3, <2>4, KeepSends
  <1>3. CASE PaymentSteps
    BY <1>1, <1>2, <1>3 DEF PaymentSteps, accountVars
  <1>4. CASE RecoverySteps
    <2>1. PICK r \in Recoveries : Recover(r) \/ RecoveryRuns(r)
      BY <1>4 DEF RecoverySteps
    <2>2. r \notin Sends
      BY DEF CallsAssumption, Payments
    <2>3. (\E phase : pc' = [pc EXCEPT ![r] = phase]) /\ sent' = sent
      BY <2>1 DEF Recover, RecoveryRuns, RecoverNatively, Fail, Await, Enter
    <2>4. DOMAIN pc' = Calls /\ pc' = [x \in DOMAIN pc' |-> pc'[x]]
          /\ \A x \in Sends : pc'[x] = pc[x]
      <3>1. DOMAIN pc = Calls
        BY <1>0 DEF SendShape
      <3>2. PICK phase : pc' = [pc EXCEPT ![r] = phase]
        BY <2>3
      <3> QED BY <1>0, <2>2, <3>1, <3>2
    <2> QED BY <1>0, <1>4, <2>3, <2>4, KeepSends DEF RecoverySteps, accountVars, SendShape
  <1>5. CASE UNCHANGED <<setup, pc, sendVars, sent>>
    BY <1>0, <1>5, KeepSends DEF SendShape
  <1>6. CASE TransitionSteps
    <2>1. DOMAIN pc' = Calls /\ pc' = [x \in DOMAIN pc' |-> pc'[x]]
          /\ \A x \in Sends : pc'[x] = pc[x] \/ (pc[x] = "deferred" /\ pc'[x] = "due")
      BY <1>0, <1>6 DEF TransitionSteps, BeginTransition, EndTransition, SendShape
    <2> QED BY <1>0, <1>6, <2>1, KeepSends DEF TransitionSteps, SendShape
  <1> QED BY <1>3, <1>4, <1>5, <1>6
       DEF CallsNext, UnlockSteps, TeardownSteps, callsVars, accountVars

LEMMA CallsInitSends ==
  ASSUME CallsAssumption, CallsInit
  PROVE  SendsInv
  <1>0. setup.proxy \in BOOLEAN /\ setup.mainnet \in BOOLEAN
    BY DEF CallsAssumption, CallsInit
  <1>1. SendShape
    BY <1>0 DEF CallsInit, SendShape, Unset
  <1>2. ASSUME NEW c \in Sends PROVE SendInv(c)
    BY DEF CallsInit, SendInv, Calls, Payments
  <1> QED BY <1>1, <1>2 DEF SendsInv

\* Whatever the estimates and the decoder answer and however long the call is
\* delayed, the node is given what was ordered, at the rate that was quoted.
THEOREM CallsSentAsOrdered == CallsSpec => []SentAsOrdered
  <1>1. CallsInit => SendsInv
    BY CallsInitSends, CallsAssumption
  <1>2. SendsInv => SentAsOrdered
    BY DEF SendsInv, SendInv, SentAsOrdered, AsOrdered, Rated
  <1>3. SendsInv /\ [CallsNext]_callsVars => SendsInv'
    BY SendsInvStep, CallsAssumption
  <1> QED BY <1>1, <1>2, <1>3, PTL DEF CallsSpec
-----------------------------------------------------------------------------
(* Where it is sent.  A burn takes its node before it waits for a policy    *)
(* transition.  While it waits no step but an unlock stops a node, and an    *)
(* unlock that may run before it is one it is not ordered before.            *)
Unlocking == {"none", "waiting", "behind", "due"}

BurnInv ==
  /\ DOMAIN pc = Calls /\ pc = [x \in DOMAIN pc |-> pc[x]]
  /\ DOMAIN target = Payments /\ target = [x \in DOMAIN target |-> target[x]]
  /\ DOMAIN sent = Payments /\ sent = [x \in DOMAIN sent |-> sent[x]]
  /\ unlock \in Unlocking /\ address \in Unlocking
  /\ address # "none" => setup.auto
  /\ \A b \in Burns : pc[b] \in {"idle", "deferred", "due"} => sent[b] = NoRequest
  /\ \A b \in Burns : pc[b] \in {"deferred", "due"} => target[b] \in Nodes
  /\ \A b \in Burns : pc[b] = "deferred" =>
       transition /\ (setup.auto \/ unlock \in {"none", "waiting"})

\* A step that does not touch the burns.
LEMMA KeepBurns ==
  ASSUME BurnInv, setup' = setup,
         DOMAIN pc' = Calls, pc' = [x \in DOMAIN pc' |-> pc'[x]],
         DOMAIN target' = Payments, target' = [x \in DOMAIN target' |-> target'[x]],
         DOMAIN sent' = Payments, sent' = [x \in DOMAIN sent' |-> sent'[x]],
         \A b \in Burns : pc'[b] = pc[b] /\ target'[b] = target[b] /\ sent'[b] = sent[b],
         UNCHANGED <<transition, unlock, address>>
  PROVE  BurnInv'
  BY DEF BurnInv

\* What opens a node stops none.
StaysLive == \A n \in Nodes : nodeState[n] = "live" => nodeState'[n] = "live"

LEMMA NodesKept ==
  ASSUME IInv,
         \/ \E n \in Nodes : TakeNode(n) \/ InitializeFails(n) \/ PrepareVssRestore(n) \/ EnsureNode(n)
         \/ \E s \in Signers, from \in Seeds, fallback \in {"legacy", None} :
              AttachExternalSigner(s, from, fallback)
         \/ UNCHANGED vars
  PROVE  StaysLive
  <1>1. nodeState \in [Nodes -> NodeStates]
    BY DEF IInv, TypeOK
  <1>2. nodeState' = nodeState \/ \E n \in Nodes : nodeState' = Opened(n)
    BY DEF TakeNode, InitializeFails, PrepareVssRestore, EnsureNode, AttachExternalSigner, vars
  <1> QED BY <1>1, <1>2 DEF Opened, StaysLive

\* A function with one value replaced.
LEMMA Replaced ==
  ASSUME NEW S, NEW f, DOMAIN f = S, f = [x \in DOMAIN f |-> f[x]], NEW c, NEW v,
         NEW g, g = [f EXCEPT ![c] = v]
  PROVE  /\ DOMAIN g = S /\ g = [x \in DOMAIN g |-> g[x]]
         /\ \A x \in S \ {c} : g[x] = f[x]
         /\ c \in S => g[c] = v
  OBVIOUS

LEMMA BurnShape ==
  ASSUME BurnInv
  PROVE  /\ DOMAIN pc = Calls /\ pc = [x \in DOMAIN pc |-> pc[x]]
         /\ DOMAIN target = Payments /\ target = [x \in DOMAIN target |-> target[x]]
         /\ DOMAIN sent = Payments /\ sent = [x \in DOMAIN sent |-> sent[x]]
  BY DEF BurnInv

\* A send step leaves the burns alone.
LEMMA SendBurns ==
  ASSUME CallsAssumption, BurnInv, NEW c \in Sends, SendStep(c), UNCHANGED accountVars
  PROVE  BurnInv'
  <1>1. ASSUME NEW request, Deliver(c, request) \/ Mutate(c, request) \/ \E phase : Await(c, phase)
        PROVE  /\ \E phase : pc' = [pc EXCEPT ![c] = phase]
               /\ target' = target \/ \E n : target' = [target EXCEPT ![c] = n]
               /\ sent' = sent \/ \E r : sent' = [sent EXCEPT ![c] = r]
               /\ (\E n \in Nodes : TakeNode(n)) \/ UNCHANGED vars
    BY <1>1 DEF Mutate, Deliver, Fail, Await, Enter, Give
  <1>2. \E request : Deliver(c, request) \/ Mutate(c, request) \/ \E phase : Await(c, phase)
    BY DEF SendStep, Send, Decode, Rate, Quote, Dispatch, Fail
  <1>3. /\ \E phase : pc' = [pc EXCEPT ![c] = phase]
        /\ target' = target \/ \E n : target' = [target EXCEPT ![c] = n]
        /\ sent' = sent \/ \E r : sent' = [sent EXCEPT ![c] = r]
        /\ (\E n \in Nodes : TakeNode(n)) \/ UNCHANGED vars
    BY <1>1, <1>2
  <1>4. c \notin Burns /\ Burns \subseteq Calls /\ Burns \subseteq Payments
    BY DEF CallsAssumption, Calls, Payments
  <1>5. DOMAIN pc' = Calls /\ pc' = [x \in DOMAIN pc' |-> pc'[x]] /\ \A b \in Burns : pc'[b] = pc[b]
    <2>1. PICK phase : pc' = [pc EXCEPT ![c] = phase]
      BY <1>3
    <2>2. DOMAIN pc = Calls /\ pc = [x \in DOMAIN pc |-> pc[x]]
      BY BurnShape
    <2> QED BY <1>4, <2>1, <2>2
  <1>6. /\ DOMAIN target' = Payments /\ target' = [x \in DOMAIN target' |-> target'[x]]
        /\ \A b \in Burns : target'[b] = target[b]
    BY <1>3, <1>4, BurnShape, Replaced
  <1>7. /\ DOMAIN sent' = Payments /\ sent' = [x \in DOMAIN sent' |-> sent'[x]]
        /\ \A b \in Burns : sent'[b] = sent[b]
    BY <1>3, <1>4, BurnShape, Replaced
  <1> QED BY <1>5, <1>6, <1>7, KeepBurns DEF accountVars

LEMMA AssetBurns ==
  ASSUME BurnInv, NEW b \in Burns, BurnAsset(b), UNCHANGED accountVars
  PROVE  BurnInv'
  <1>0. b \in Calls /\ b \in Payments /\ Burns \subseteq Calls /\ Burns \subseteq Payments
        /\ sent[b] = NoRequest
    BY DEF Calls, Payments, BurnAsset, BurnInv
  <1>1. CASE Fail(b)
    BY <1>0, <1>1 DEF Fail, Await, Enter, accountVars, vars, BurnInv
  <1>2. ASSUME NEW n \in Nodes, unlock = "none", TakeNode(n), target' = [target EXCEPT ![b] = n],
               IF transition THEN Enter(b, "deferred") /\ UNCHANGED sent ELSE Give(b, BurnRequest)
        PROVE  BurnInv'
    <2>2. \/ transition /\ pc' = [pc EXCEPT ![b] = "deferred"] /\ sent' = sent
          \/ \E phase \in {"done", "failed"} :
               pc' = [pc EXCEPT ![b] = phase] /\ sent' = [sent EXCEPT ![b] = BurnRequest]
      BY <1>2 DEF Enter, Give
    <2>3. /\ DOMAIN pc' = Calls /\ pc' = [x \in DOMAIN pc' |-> pc'[x]]
          /\ DOMAIN target' = Payments /\ target' = [x \in DOMAIN target' |-> target'[x]]
          /\ DOMAIN sent' = Payments /\ sent' = [x \in DOMAIN sent' |-> sent'[x]]
      <3>1. DOMAIN pc' = Calls /\ pc' = [x \in DOMAIN pc' |-> pc'[x]]
        BY <2>2, BurnShape, Replaced
      <3>2. DOMAIN target' = Payments /\ target' = [x \in DOMAIN target' |-> target'[x]]
        <4>1. DOMAIN target = Payments /\ target = [x \in DOMAIN target |-> target[x]]
          BY BurnShape
        <4>2. target' = [target EXCEPT ![b] = n]
          BY <1>2
        <4> QED BY <4>1, <4>2
      <3>3. DOMAIN sent' = Payments /\ sent' = [x \in DOMAIN sent' |-> sent'[x]]
        BY <2>2, BurnShape, Replaced
      <3> QED BY <3>1, <3>2, <3>3
    <2>4. /\ \A x \in Burns \ {b} : pc'[x] = pc[x] /\ target'[x] = target[x] /\ sent'[x] = sent[x]
          /\ target'[b] = n
          /\ \/ transition /\ pc'[b] = "deferred" /\ sent'[b] = NoRequest
             \/ pc'[b] \in {"done", "failed"}
      BY <1>0, <1>2, <2>2 DEF BurnInv
    <2>5. unlock' = unlock /\ transition' = transition /\ address' = address /\ setup' = setup
      BY DEF accountVars
    <2>6. ASSUME NEW x \in Burns
          PROVE  /\ pc'[x] \in {"idle", "deferred", "due"} => sent'[x] = NoRequest
                 /\ pc'[x] \in {"deferred", "due"} => target'[x] \in Nodes
                 /\ pc'[x] = "deferred" =>
                      transition /\ (setup.auto \/ unlock \in {"none", "waiting"})
      BY <1>2, <2>4 DEF BurnInv
    <2> QED BY <2>3, <2>5, <2>6 DEF BurnInv
  <1> QED BY <1>1, <1>2 DEF BurnAsset

LEMMA DispatchBurns ==
  ASSUME BurnInv, NEW b \in Burns, BurnDispatch(b), UNCHANGED accountVars
  PROVE  BurnInv'
  <1>1. PICK phase \in {"done", "failed"} : pc' = [pc EXCEPT ![b] = phase]
    BY DEF BurnDispatch, Give, Enter
  <1>2. sent' = [sent EXCEPT ![b] = BurnRequest] /\ target' = target /\ pc[b] = "due"
    BY DEF BurnDispatch, Give
  <1>3. Burns \subseteq Calls /\ Burns \subseteq Payments
    BY DEF Calls, Payments
  <1> QED BY <1>1, <1>2, <1>3 DEF BurnInv, accountVars

LEMMA RecoveryBurns ==
  ASSUME CallsAssumption, BurnInv, RecoverySteps
  PROVE  BurnInv'
  <1>1. PICK r \in Recoveries : Recover(r) \/ RecoveryRuns(r)
    BY DEF RecoverySteps
  <1>2. r \notin Burns /\ Burns \subseteq Calls
    BY DEF CallsAssumption, Payments, Calls
  <1>3. /\ \E phase : pc' = [pc EXCEPT ![r] = phase]
        /\ target' = target /\ sent' = sent
    BY <1>1 DEF Recover, RecoveryRuns, RecoverNatively, Fail, Await, Enter
  <1>4. DOMAIN pc' = Calls /\ pc' = [x \in DOMAIN pc' |-> pc'[x]] /\ \A b \in Burns : pc'[b] = pc[b]
    <2>1. DOMAIN pc = Calls
      BY DEF BurnInv
    <2>2. PICK phase : pc' = [pc EXCEPT ![r] = phase]
      BY <1>3
    <2> QED BY <2>1, <2>2, <1>2
  <1> QED BY <1>3, <1>4, BurnShape, KeepBurns DEF RecoverySteps, accountVars

LEMMA UnlockBurns ==
  ASSUME BurnInv, UnlockSteps
  PROVE  BurnInv'
  <1>0. setup' = setup /\ transition' = transition /\ pc' = pc /\ target' = target /\ sent' = sent
    BY DEF UnlockSteps
  <1>1. CASE AccountUnlock
    <2>1. address' = address /\ unlock' \in Unlocking
      BY <1>1 DEF AccountUnlock, BurnInv, Unlocking
    <2>2. \A b \in Burns : pc[b] = "deferred" => setup.auto \/ unlock' = "waiting"
      BY <1>1 DEF AccountUnlock, BurnInv
    <2> QED BY <1>0, <2>1, <2>2 DEF BurnInv
  <1>2. CASE GetAddress
    BY <1>0, <1>2 DEF GetAddress, BurnInv, Unlocking
  <1>3. CASE AddressReads
    <2>1. setup.auto /\ address' = "none" /\ unlock' \in Unlocking
      BY <1>3 DEF AddressReads, BurnInv, Unlocking
    <2> QED BY <1>0, <2>1 DEF BurnInv, Unlocking
  <1>4. CASE UnlockRuns
    BY <1>0, <1>4 DEF UnlockRuns, BurnInv, Unlocking
  <1> QED BY <1>1, <1>2, <1>3, <1>4 DEF UnlockSteps

LEMMA TransitionBurns ==
  ASSUME BurnInv, TransitionSteps
  PROVE  BurnInv'
  <1>0. setup' = setup /\ target' = target /\ sent' = sent /\ Burns \subseteq Calls
    BY DEF TransitionSteps, Calls, Payments
  <1>1. CASE BeginTransition
    BY <1>0, <1>1 DEF BeginTransition, BurnInv
  <1>2. CASE EndTransition
    <2>1. pc' = [c \in Calls |-> IF pc[c] = "deferred" THEN "due" ELSE pc[c]]
      BY <1>2 DEF EndTransition
    <2>2. DOMAIN pc' = Calls /\ pc' = [x \in DOMAIN pc' |-> pc'[x]]
      BY <2>1
    <2>3. address' # "none" => setup.auto
      BY <1>2 DEF EndTransition, BurnInv
    <2>4. \A b \in Burns : pc'[b] = IF pc[b] = "deferred" THEN "due" ELSE pc[b]
      BY <1>0, <2>1
    <2>5. unlock' \in Unlocking /\ address' \in Unlocking
      BY <1>2 DEF EndTransition, BurnInv, Unlocking
    <2> QED BY <1>0, <2>2, <2>3, <2>4, <2>5 DEF BurnInv
  <1> QED BY <1>1, <1>2 DEF TransitionSteps

LEMMA BurnInvStep ==
  ASSUME CallsAssumption
  PROVE  BurnInv /\ [CallsNext]_callsVars => BurnInv'
  <1> SUFFICES ASSUME BurnInv, [CallsNext]_callsVars PROVE BurnInv'
    OBVIOUS
  <1>1. CASE PaymentSteps
    BY <1>1, SendBurns, AssetBurns, DispatchBurns DEF PaymentSteps
  <1>2. CASE UNCHANGED <<setup, transition, unlock, address, pc, target, sent>>
    BY <1>2, BurnShape, KeepBurns
  <1> QED BY <1>1, <1>2, RecoveryBurns, UnlockBurns, TransitionBurns
       DEF CallsNext, TeardownSteps, callsVars, accountVars

LEMMA CallsInitBurns == CallsInit => BurnInv
  BY DEF CallsInit, BurnInv, Unlocking, Calls, Payments

\* Shutdown and disposal wait for the burns, and an unlock that runs before a
\* burn which waits is one that overtakes it.
LEMMA TargetStep ==
  ASSUME IInv, BurnInv, CallsNext, NEW b \in Burns, pc[b] \in {"deferred", "due"},
         nodeState[target[b]] = "live", nodeState'[target[b]] # "live"
  PROVE  Overtaken(b)
  <1>0. target[b] \in Nodes /\ b \in Calls /\ b \in Payments /\ ~StaysLive
    BY DEF BurnInv, Calls, Payments, StaysLive
  <1>1. CASE UnlockRuns
    BY <1>1 DEF UnlockRuns, BurnInv, Overtaken
  <1>2. CASE Joined
    BY <1>0, <1>2 DEF Joined
  <1>3. ASSUME \/ \E n \in Nodes : TakeNode(n) \/ InitializeFails(n) \/ PrepareVssRestore(n) \/ EnsureNode(n)
               \/ \E s \in Signers, from \in Seeds, fallback \in {"legacy", None} :
                    AttachExternalSigner(s, from, fallback)
               \/ UNCHANGED vars
        PROVE  FALSE
    BY <1>0, <1>3, NodesKept
  <1>4. CASE PaymentSteps
    <2>1. \A c \in Payments : \A request :
            Deliver(c, request) \/ Mutate(c, request) \/ (\E phase : Await(c, phase)) =>
              (\E n \in Nodes : TakeNode(n)) \/ UNCHANGED vars
      BY DEF Mutate, Deliver, Fail, Await
    <2>2. \A c \in Sends : SendStep(c) =>
            \E request : Deliver(c, request) \/ Mutate(c, request) \/ \E phase : Await(c, phase)
      BY DEF SendStep, Send, Decode, Rate, Quote, Dispatch, Fail
    <2>3. \A c \in Burns : BurnAsset(c) \/ BurnDispatch(c) =>
            (\E n \in Nodes : TakeNode(n)) \/ UNCHANGED vars
      BY DEF BurnAsset, BurnDispatch, Fail, Await
    <2> QED BY <1>3, <1>4, <2>1, <2>2, <2>3 DEF PaymentSteps, Payments
  <1>5. CASE RecoverySteps
    BY <1>3, <1>5 DEF RecoverySteps, Recover, RecoveryRuns, RecoverNatively, Fail, Await
  <1>6. CASE HandleSteps
    BY <1>3, <1>6 DEF HandleSteps
  <1> QED BY <1>1, <1>2, <1>3, <1>4, <1>5, <1>6
       DEF CallsNext, UnlockSteps, TransitionSteps, TeardownSteps, ShutdownBegins, ShutdownRuns, Dispose

\* The step that gives payment c its request.
GivenLive(c) ==
  /\ sent[c] = NoRequest
  /\ life = "open" \/ pc[c] = "due"
  /\ c \in Sends \/ pc[c] = "idle" => ~closed /\ nodeState'[target'[c]] = "live"

LEMMA DeliverLive ==
  ASSUME IInv, BurnInv, NEW c \in Payments, NEW request,
         sent[c] = NoRequest, life = "open" \/ pc[c] = "due", Deliver(c, request)
  PROVE  \A x \in Payments : sent'[x] # sent[x] => x = c /\ GivenLive(c)
  <1>1. CASE Fail(c)
    BY <1>1 DEF Fail, Await
  <1>2. ASSUME NEW n \in Nodes, TakeNode(n), target' = [target EXCEPT ![c] = n], Give(c, request)
        PROVE  \A x \in Payments : sent'[x] # sent[x] => x = c /\ GivenLive(c)
    <2>1. target'[c] = n /\ nodeState'[n] = "live" /\ ~closed
      <3>1. DOMAIN target = Payments
        BY BurnShape
      <3> QED BY <1>2, <3>1, TakeFacts
    <2>2. sent' = [sent EXCEPT ![c] = request] /\ DOMAIN sent = Payments
      BY <1>2, BurnShape DEF Give
    <2>3. \A x \in Payments \ {c} : sent'[x] = sent[x]
      BY <2>2
    <2> QED BY <2>1, <2>3 DEF GivenLive
  <1> QED BY <1>1, <1>2 DEF Deliver

LEMMA MutateLive ==
  ASSUME IInv, BurnInv, NEW c \in Payments, NEW request, sent[c] = NoRequest, Mutate(c, request)
  PROVE  \A x \in Payments : sent'[x] # sent[x] => x = c /\ GivenLive(c)
  BY DeliverLive DEF Mutate, Fail, Await

LEMMA SendLive ==
  ASSUME IInv, SendsInv, BurnInv, NEW c \in Sends, SendStep(c)
  PROVE  \A x \in Payments : sent'[x] # sent[x] => x = c /\ GivenLive(c)
  <1>1. c \in Payments /\ pc[c] \notin {"done", "failed"}
    BY DEF SendStep, Send, Decode, Rate, Quote, Dispatch, Payments
  <1>2. sent[c] = NoRequest
    BY <1>1 DEF SendsInv, SendInv
  <1>3. ASSUME NEW phase, Await(c, phase) PROVE sent' = sent
    BY <1>3 DEF Await
  <1>4. CASE Send(c)
    BY <1>1, <1>2, <1>3, <1>4, DeliverLive DEF Send, Fail
  <1>5. CASE Decode(c)
    BY <1>1, <1>2, <1>3, <1>5, MutateLive DEF Decode, Fail
  <1>6. CASE Rate(c)
    BY <1>1, <1>2, <1>3, <1>6, MutateLive DEF Rate
  <1>7. CASE Quote(c)
    BY <1>1, <1>2, <1>3, <1>7, MutateLive DEF Quote, Fail
  <1>8. CASE Dispatch(c)
    BY <1>1, <1>2, <1>8, DeliverLive DEF Dispatch
  <1> QED BY <1>4, <1>5, <1>6, <1>7, <1>8 DEF SendStep

LEMMA BurnLive ==
  ASSUME CallsAssumption, IInv, BurnInv, NEW b \in Burns, BurnAsset(b) \/ BurnDispatch(b)
  PROVE  \A x \in Payments : sent'[x] # sent[x] => x = b /\ GivenLive(b)
  <1>1. b \in Payments /\ b \notin Sends /\ sent[b] = NoRequest
    BY DEF CallsAssumption, BurnAsset, BurnDispatch, Payments, BurnInv
  <1>2. ASSUME Give(b, BurnRequest), life = "open" \/ pc[b] = "due",
               pc[b] = "idle" => ~closed /\ nodeState'[target'[b]] = "live"
        PROVE  \A x \in Payments : sent'[x] # sent[x] => x = b /\ GivenLive(b)
    <2>1. sent' = [sent EXCEPT ![b] = BurnRequest] /\ DOMAIN sent = Payments
      BY <1>2, BurnShape DEF Give
    <2>2. \A x \in Payments \ {b} : sent'[x] = sent[x]
      BY <2>1
    <2> QED BY <1>1, <1>2, <2>2 DEF GivenLive
  <1>3. CASE Fail(b)
    BY <1>3 DEF Fail, Await
  <1>4. ASSUME NEW n \in Nodes, TakeNode(n), target' = [target EXCEPT ![b] = n], life = "open",
               IF transition THEN Enter(b, "deferred") /\ UNCHANGED sent ELSE Give(b, BurnRequest)
        PROVE  \A x \in Payments : sent'[x] # sent[x] => x = b /\ GivenLive(b)
    <2>1. target'[b] = n
      <3>1. DOMAIN target = Payments
        BY BurnShape
      <3> QED BY <1>1, <1>4, <3>1
    <2> QED BY <1>2, <1>4, <2>1, TakeFacts
  <1>5. CASE BurnDispatch(b)
    BY <1>2, <1>5 DEF BurnDispatch
  <1> QED BY <1>3, <1>4, <1>5 DEF BurnAsset

LEMMA LiveStep ==
  ASSUME CallsAssumption, IInv, SendsInv, BurnInv, CallsNext, NEW c \in Payments, sent'[c] # sent[c]
  PROVE  GivenLive(c)
  <1>1. CASE PaymentSteps
    BY <1>1, SendLive, BurnLive DEF PaymentSteps
  <1>2. CASE RecoverySteps
    BY <1>2 DEF RecoverySteps, Recover, RecoveryRuns, Fail, Await
  <1>3. CASE sent' = sent
    BY <1>3
  <1> QED BY <1>1, <1>2, <1>3 DEF CallsNext, UnlockSteps, TransitionSteps, TeardownSteps

\* A send is given to a live node of an open binding, every payment is given
\* once and none to an account whose shutdown had begun before its call; the
\* node of a burn that waits is stopped only by an unlock that overtakes it.
THEOREM CallsSentToLiveNode == CallsSpec => SentToLiveNode
  <1>1. CallsInit => SendsInv
    BY CallsInitSends, CallsAssumption
  <1>2. SendsInv /\ [CallsNext]_callsVars => SendsInv'
    BY SendsInvStep, CallsAssumption
  <1>3. BurnInv /\ [CallsNext]_callsVars => BurnInv'
    BY BurnInvStep, CallsAssumption
  <1>4. IInv /\ SendsInv /\ BurnInv /\ [CallsNext]_callsVars =>
          [/\ \A c \in Payments : sent'[c] # sent[c] =>
                /\ sent[c] = NoRequest
                /\ life = "open" \/ pc[c] = "due"
                /\ c \in Sends \/ pc[c] = "idle" => ~closed /\ nodeState'[target'[c]] = "live"
           /\ \A b \in Burns :
                pc[b] \in {"deferred", "due"} /\ nodeState[target[b]] = "live"
                  /\ nodeState'[target[b]] # "live" => Overtaken(b)]_callsVars
    BY LiveStep, TargetStep, CallsAssumption DEF GivenLive
  <1> QED BY <1>1, <1>2, <1>3, <1>4, CallsInitBurns, CallsHandles, PTL
       DEF CallsSpec, SentToLiveNode
=============================================================================
