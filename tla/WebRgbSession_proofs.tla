------------------------- MODULE WebRgbSession_proofs -------------------------
(***************************************************************************)
(* Machine-checked facts about WebRgbSession, for any sets of calls and    *)
(* any number of revocations.                                              *)
(***************************************************************************)
EXTENDS WebRgbSession, TLAPS

USE SessionAssumption DEF WalletCalls, Requests, historyVars

\* A call that is waiting captured the current revision exactly if no revoke()
\* overtook it.
Captured == {"prompting", "native", "returned"}
RevisionsTell ==
  \A r \in Requests : pc[r] \in Captured =>
    began[r] <= revision /\ (r \in stale <=> began[r] # revision)

\* Only the owner of this.#enabling has a connection prompt or its outcome, and
\* only an enable() joins it.
Owned == {"prompting", "granted", "denied", "declined"}
OwnerPrompts ==
  /\ \A e \in Enables : pc[e] \in Owned => enabling = e
  /\ \A r \in WalletCalls : pc[r] # "joined"

IInv ==
  /\ TypeOK /\ SessionConsented /\ NothingAfterRevoke
  /\ RevisionsTell /\ OwnerPrompts
  /\ \A r \in Requests : pc[r] = "idle" => r \notin stale

LEMMA InvInit == Init => IInv
  BY DEF Init, IInv, TypeOK, SessionConsented, NothingAfterRevoke, RevisionsTell,
     OwnerPrompts, Captured, Owned, Phases, Settled

LEMMA EnableInv ==
  ASSUME IInv, NEW e \in Enables, EnableNext(e)
  PROVE  IInv'
  <1>1. CASE Enable(e)
    <2>1. TypeOK' /\ SessionConsented' /\ NothingAfterRevoke'
      BY <1>1 DEF Enable, Goto, IInv, TypeOK, SessionConsented, NothingAfterRevoke, Phases,
         Settled
    <2>2. RevisionsTell' /\ OwnerPrompts'
      BY <1>1 DEF Enable, Goto, IInv, TypeOK, RevisionsTell, OwnerPrompts, Captured, Owned
    <2>3. \A r \in Requests : pc'[r] = "idle" => r \notin stale'
      BY <1>1 DEF Enable, Goto, IInv, TypeOK
    <2> QED BY <2>1, <2>2, <2>3 DEF IInv
  <1>2. CASE EnableDeclined(e)
    BY <1>2 DEF EnableDeclined, Goto, IInv, TypeOK, SessionConsented, NothingAfterRevoke,
       RevisionsTell, OwnerPrompts, Captured, Owned, Phases, Settled
  <1>3. CASE EnableApproved(e)
    <2>1. e \in stale <=> began[e] # revision
      BY <1>3 DEF EnableApproved, IInv, RevisionsTell, Captured
    <2>2. TypeOK' /\ SessionConsented' /\ NothingAfterRevoke'
      BY <1>3, <2>1 DEF EnableApproved, Goto, IInv, TypeOK, SessionConsented,
         NothingAfterRevoke, Phases, Settled
    <2>3. RevisionsTell' /\ OwnerPrompts' /\ \A r \in Requests : pc'[r] = "idle" => r \notin stale'
      BY <1>3 DEF EnableApproved, Goto, IInv, TypeOK, RevisionsTell, OwnerPrompts, Captured, Owned
    <2> QED BY <2>2, <2>3 DEF IInv
  <1>4. CASE EnableFinally(e)
    <2>1. Outcome(pc[e]) \in Settled
      BY <1>4 DEF EnableFinally, Outcome, Settled
    <2>2. TypeOK' /\ SessionConsented'
      BY <1>4, <2>1 DEF EnableFinally, IInv, TypeOK, SessionConsented, Phases
    <2>3. \A r \in WalletCalls : pc'[r] = pc[r]
      BY <1>4 DEF EnableFinally, IInv, TypeOK, OwnerPrompts
    <2>4. \A r \in Requests : pc'[r] = pc[r] \/ pc'[r] \in Settled
      BY <1>4, <2>1 DEF EnableFinally
    <2>5. NothingAfterRevoke'
      BY <1>4, <2>3 DEF EnableFinally, IInv, NothingAfterRevoke
    <2>6. RevisionsTell'
      <3> SUFFICES ASSUME NEW r \in Requests, pc'[r] \in Captured
                   PROVE  began'[r] <= revision' /\ (r \in stale' <=> began'[r] # revision')
        BY DEF RevisionsTell
      <3>1. pc[r] \in Captured
        BY <2>4 DEF Captured, Settled
      <3> QED BY <1>4, <3>1 DEF EnableFinally, IInv, RevisionsTell
    <2>7. OwnerPrompts'
      <3>1. pc'[e] \in Settled
        BY <1>4, <2>1 DEF EnableFinally, IInv, TypeOK
      <3>2. ASSUME NEW other \in Enables, pc'[other] \in Owned PROVE FALSE
        <4>1. pc[other] \in Owned
          BY <2>4, <3>2 DEF Owned, Settled
        <4>2. other = e
          BY <1>4, <4>1 DEF EnableFinally, Owned, IInv, OwnerPrompts
        <4> QED BY <3>1, <3>2, <4>2 DEF Owned, Settled
      <3> QED BY <2>3, <3>2 DEF IInv, OwnerPrompts
    <2>8. \A r \in Requests : pc'[r] = "idle" => r \notin stale'
      BY <1>4, <2>4 DEF EnableFinally, IInv, Settled
    <2> QED BY <2>2, <2>5, <2>6, <2>7, <2>8 DEF IInv
  <1> QED BY <1>1, <1>2, <1>3, <1>4 DEF EnableNext

LEMMA WalletCallInv ==
  ASSUME IInv, NEW r \in WalletCalls,
         Call(r) \/ NativeEnd(r) \/ Returned(r) \/ ReceiveDeclined(r) \/ ReceiveApproved(r)
  PROVE  IInv'
  <1>1. CASE Call(r)
    <2>1. TypeOK' /\ SessionConsented' /\ NothingAfterRevoke'
      BY <1>1 DEF Call, Goto, IInv, TypeOK, SessionConsented, NothingAfterRevoke, Phases,
         Settled
    <2>2. RevisionsTell' /\ OwnerPrompts'
      BY <1>1 DEF Call, Goto, IInv, TypeOK, RevisionsTell, OwnerPrompts, Captured, Owned
    <2>3. \A q \in Requests : pc'[q] = "idle" => q \notin stale'
      BY <1>1 DEF Call, Goto, IInv, TypeOK
    <2> QED BY <2>1, <2>2, <2>3 DEF IInv
  <1>2. CASE NativeEnd(r) \/ Returned(r) \/ ReceiveDeclined(r) \/ ReceiveApproved(r)
    <2>1. /\ UNCHANGED <<authorized, revision, enabling, usable, began, consent, stale>>
          /\ pc[r] \in Captured
          /\ \E phase \in {"returned", "error", "malformed", "refused", "result", "native",
                           "rejected"} :
               /\ pc' = [pc EXCEPT ![r] = phase]
               /\ phase \in {"error", "result"} => began[r] = revision
      BY <1>2 DEF NativeEnd, Returned, ReceiveDeclined, ReceiveApproved, Goto, Active, Captured
    <2>2. began[r] = revision => r \notin stale
      BY <2>1 DEF IInv, RevisionsTell
    <2>3. TypeOK' /\ SessionConsented' /\ NothingAfterRevoke'
      BY <2>1, <2>2 DEF IInv, TypeOK, SessionConsented, NothingAfterRevoke, Phases, Settled
    <2>4. RevisionsTell' /\ OwnerPrompts'
      BY <2>1 DEF IInv, TypeOK, RevisionsTell, OwnerPrompts, Captured, Owned
    <2>5. \A q \in Requests : pc'[q] = "idle" => q \notin stale'
      BY <2>1 DEF IInv, TypeOK
    <2> QED BY <2>3, <2>4, <2>5 DEF IInv
  <1> QED BY <1>1, <1>2

LEMMA RevokeInv ==
  ASSUME IInv, Revoke
  PROVE  IInv'
  <1>1. InProgress \subseteq Requests /\ \A r \in InProgress : pc[r] \notin {"result", "error", "idle"}
    BY DEF InProgress, Settled
  <1>2. TypeOK' /\ SessionConsented' /\ NothingAfterRevoke'
    <2>1. TypeOK'
      <3>1. revision + 1 \in 0..MaxRevokes
        BY DEF Revoke, IInv, TypeOK
      <3>2. stale' \subseteq Requests
        BY <1>1 DEF Revoke, IInv, TypeOK
      <3> QED BY <3>1, <3>2 DEF Revoke, IInv, TypeOK
    <2>2. NothingAfterRevoke'
      BY <1>1 DEF Revoke, IInv, NothingAfterRevoke
    <2> QED BY <2>1, <2>2 DEF Revoke, SessionConsented
  <1>3. RevisionsTell'
    <2> SUFFICES ASSUME NEW r \in Requests, pc'[r] \in Captured
                 PROVE  began'[r] <= revision' /\ (r \in stale' <=> began'[r] # revision')
      BY DEF RevisionsTell
    <2>1. r \in stale'
      BY DEF Revoke, InProgress, Captured, Settled
    <2>2. began[r] <= revision /\ began[r] \in Nat /\ revision \in Nat
      BY DEF Revoke, IInv, TypeOK, RevisionsTell
    <2> QED BY <2>1, <2>2 DEF Revoke
  <1>4. OwnerPrompts' /\ \A r \in Requests : pc'[r] = "idle" => r \notin stale'
    BY <1>1 DEF Revoke, IInv, OwnerPrompts
  <1> QED BY <1>2, <1>3, <1>4 DEF IInv

LEMMA InvStep == IInv /\ [Next]_vars => IInv'
  <1> SUFFICES ASSUME IInv, [Next]_vars PROVE IInv'
    OBVIOUS
  <1>1. CASE HostChanges
    BY <1>1 DEF HostChanges, IInv, TypeOK, SessionConsented, NothingAfterRevoke,
       RevisionsTell, OwnerPrompts
  <1>2. CASE UNCHANGED vars
    BY <1>2 DEF vars, IInv, TypeOK, SessionConsented, NothingAfterRevoke, RevisionsTell,
       OwnerPrompts
  <1> QED BY <1>1, <1>2, EnableInv, WalletCallInv, RevokeInv DEF Next

LEMMA Invariant == Spec => []IInv
  BY InvInit, InvStep, PTL DEF Spec

\* The session is authorised only by an approval that no revoke() overtook, in
\* whatever order prompts are answered and the host revokes.
THEOREM SessionIsConsented == Spec => []SessionConsented
  <1>1. IInv => SessionConsented
    BY DEF IInv
  <1> QED BY <1>1, Invariant, PTL

\* A wallet call that a revoke() overtook returns neither its result nor the
\* wallet's error, even if the session was approved again meanwhile; only the
\* provider's refusal of a malformed list may still be its answer.
THEOREM SessionNothingAfterRevoke == Spec => []NothingAfterRevoke
  <1>1. IInv => NothingAfterRevoke
    BY DEF IInv
  <1> QED BY <1>1, Invariant, PTL

\* After a revoke() no native call is started for a request it overtook.
THEOREM SessionNoCallAfterRevoke == Spec => NoCallAfterRevoke
  <1> DEFINE Quiet == \A r \in stale : pc'[r] = "native" => pc[r] = "native"
  <1>1. IInv /\ [Next]_vars => [Quiet]_vars
    <2> SUFFICES ASSUME IInv, Next, NEW r \in stale, pc'[r] = "native", pc[r] # "native"
                 PROVE  FALSE
      OBVIOUS
    <2>1. r \in Requests /\ pc[r] # "idle" /\ (pc[r] \in Captured => began[r] # revision)
      BY DEF IInv, TypeOK, RevisionsTell
    <2>2. CASE Revoke \/ HostChanges
      BY <2>2 DEF Revoke, HostChanges
    <2>3. ASSUME NEW e \in Enables, EnableNext(e) PROVE FALSE
      BY <2>1, <2>3 DEF EnableNext, Enable, EnableDeclined, EnableApproved, EnableFinally,
         Outcome, Goto, IInv, TypeOK
    <2>4. ASSUME NEW q \in WalletCalls,
                 Call(q) \/ NativeEnd(q) \/ Returned(q) \/ ReceiveDeclined(q) \/ ReceiveApproved(q)
          PROVE  FALSE
      BY <2>1, <2>4 DEF Call, NativeEnd, Returned, ReceiveDeclined, ReceiveApproved, Goto,
         Active, Captured, IInv, TypeOK
    <2> QED BY <2>2, <2>3, <2>4 DEF Next
  <1> QED BY <1>1, Invariant, PTL DEF Spec, NoCallAfterRevoke

\* At most one connection prompt of a session is open.
THEOREM SessionSharedPrompt == Spec => []SharedPrompt
  <1>1. IInv => SharedPrompt
    BY DEF IInv, SharedPrompt, OwnerPrompts, Owned
  <1> QED BY <1>1, Invariant, PTL
=============================================================================
