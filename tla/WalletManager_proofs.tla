------------------------- MODULE WalletManager_proofs -------------------------
(***************************************************************************)
(* Machine-checked facts about WalletManager, for any sets of bindings and *)
(* registered signers.                                                     *)
(***************************************************************************)
EXTENDS WalletManager, TLAPS

USE DEF historyVars

(* The account is cached over the manager's own binding; once dispose() has *)
(* forgotten it, its binding is stopped and no joined work is left.        *)
CachedOverBinding ==
  /\ Account \in owners =>
       /\ accountOf # None
       /\ accountOf = binding \/ (accountOf \in stopped /\ work \cap JoinedWork = {})
  /\ accountOf # None /\ Account \notin owners =>
       accountOf \in stopped /\ work \cap JoinedWork = {}
  /\ accountOf = None => work = {} /\ ~shutdown
  /\ Account \notin owners /\ ~disposed => accountOf = None
  /\ {binding, accountOf} \subseteq constructed \cup {None}
\* An owner is forgotten when its disposer returns, and not before.
OwnersUncleaned == owners \cap cleaned = {} /\ (cleaned # {} => disposed)
IInv ==
  /\ TypeOK /\ HeldByManager /\ CleanedOnce /\ DisposalJoins
  /\ CachedOverBinding /\ OwnersUncleaned

LEMMA InvInit == Init => IInv
  BY ManagerAssumption DEF Init, IInv, TypeOK, HeldByManager, CleanedOnce, DisposalJoins,
     CachedOverBinding, OwnersUncleaned, Owners

LEMMA NoBindingInv ==
  ASSUME IInv, GetAccountNoBinding
  PROVE  IInv'
  BY ManagerAssumption DEF GetAccountNoBinding, Missing, IInv, TypeOK, HeldByManager,
     CleanedOnce, DisposalJoins, CachedOverBinding, OwnersUncleaned

LEMMA GetAccountInv ==
  ASSUME IInv, NEW b \in Bindings, GetAccount(b) \/ GetAccountFails(b)
  PROVE  IInv'
  <1>2. CASE GetAccount(b)
    <2>1. TypeOK' /\ HeldByManager' /\ DisposalJoins'
      BY <1>2, ManagerAssumption DEF GetAccount, Construct, Missing, IInv, TypeOK, Owners,
         HeldByManager, DisposalJoins, CachedOverBinding
    <2>2. CachedOverBinding' /\ CleanedOnce' /\ OwnersUncleaned'
      BY <1>2, ManagerAssumption DEF GetAccount, Construct, Missing, IInv, TypeOK,
         CleanedOnce, CachedOverBinding, OwnersUncleaned
    <2> QED BY <2>1, <2>2 DEF IInv
  <1>3. CASE GetAccountFails(b)
    <2>1. TypeOK' /\ HeldByManager' /\ DisposalJoins'
      BY <1>3, ManagerAssumption DEF GetAccountFails, Missing, IInv, TypeOK,
         HeldByManager, DisposalJoins, CachedOverBinding
    <2>2. CachedOverBinding' /\ CleanedOnce' /\ OwnersUncleaned'
      BY <1>3, ManagerAssumption DEF GetAccountFails, Missing, IInv, TypeOK,
         CleanedOnce, CachedOverBinding, OwnersUncleaned
    <2> QED BY <2>1, <2>2 DEF IInv
  <1> QED BY <1>2, <1>3

LEMMA AccountInv ==
  ASSUME IInv, NEW kind \in WorkKinds,
         StartWork(kind) \/ EndWork(kind) \/ AccountShutdown \/ AccountShutdownEnd
  PROVE  IInv'
  <1>1. CASE StartWork(kind)
    <2>1. CachedOverBinding'
      <3>1. /\ accountOf \notin stopped /\ accountOf # None
            /\ owners' = owners /\ binding' = binding /\ accountOf' = accountOf
            /\ constructed' = constructed
        BY <1>1 DEF StartWork
      <3>2. Account \in owners /\ accountOf = binding /\ binding \in constructed
        BY <3>1 DEF IInv, CachedOverBinding
      <3>3. Account \in owners' /\ accountOf' = binding' /\ accountOf' # None
        BY <3>1, <3>2
      <3>4. {binding, accountOf}' \subseteq constructed' \cup {None}
        BY <3>1, <3>2
      <3> QED BY <3>3, <3>4 DEF CachedOverBinding
    <2>2. TypeOK' /\ HeldByManager' /\ CleanedOnce' /\ DisposalJoins' /\ OwnersUncleaned'
      BY <1>1 DEF StartWork, IInv, TypeOK, HeldByManager, CleanedOnce, DisposalJoins,
         OwnersUncleaned
    <2> QED BY <2>1, <2>2 DEF IInv
  <1>2. CASE EndWork(kind)
    BY <1>2, ManagerAssumption DEF EndWork, IInv, TypeOK, HeldByManager,
       CleanedOnce, DisposalJoins, CachedOverBinding, OwnersUncleaned
  <1>3. CASE AccountShutdown
    BY <1>3, ManagerAssumption DEF AccountShutdown, IInv, TypeOK, HeldByManager,
       CleanedOnce, DisposalJoins, CachedOverBinding, OwnersUncleaned
  <1>4. CASE AccountShutdownEnd
    BY <1>4, ManagerAssumption DEF AccountShutdownEnd, IInv, TypeOK, HeldByManager,
       CleanedOnce, DisposalJoins, CachedOverBinding, OwnersUncleaned
  <1> QED BY <1>1, <1>2, <1>3, <1>4

LEMMA DisposeInv ==
  ASSUME IInv, Dispose
  PROVE  IInv'
  <1>1. PICK failing \in SUBSET owners : DisposeOwners(failing)
    BY DEF Dispose
  <1>2. work \cap JoinedWork = {}
    BY DEF Dispose, Pending, IInv, CachedOverBinding
  <1>3. TypeOK' /\ HeldByManager'
    BY <1>1, ManagerAssumption DEF Dispose, DisposeOwners, IInv, TypeOK, HeldByManager,
       CachedOverBinding
  <1>4. CleanedOnce' /\ OwnersUncleaned'
    BY <1>1 DEF Dispose, DisposeOwners, IInv, TypeOK, CleanedOnce, OwnersUncleaned
  <1>5. DisposalJoins'
    BY <1>2 DEF Dispose, IInv, DisposalJoins
  <1>6. CachedOverBinding'
    <2>1. accountOf # None => accountOf \in stopped'
      BY <1>1 DEF Dispose, IInv, CachedOverBinding
    <2> QED BY <1>1, <1>2, <2>1 DEF Dispose, DisposeOwners, IInv, TypeOK, CachedOverBinding
  <1> QED BY <1>3, <1>4, <1>5, <1>6 DEF IInv

LEMMA InvStep == IInv /\ [Next]_vars => IInv'
  <1> SUFFICES ASSUME IInv, [Next]_vars PROVE IInv'
    OBVIOUS
  <1>1. CASE UNCHANGED vars
    BY <1>1 DEF vars, IInv, TypeOK, HeldByManager, CleanedOnce, DisposalJoins,
       CachedOverBinding, OwnersUncleaned
  <1>2. CASE AccountShutdown \/ AccountShutdownEnd
    <2>1. "unlock" \in WorkKinds
      BY DEF WorkKinds, JoinedWork
    <2> QED BY <1>2, <2>1, AccountInv
  <1> QED BY <1>1, <1>2, NoBindingInv, GetAccountInv, AccountInv, DisposeInv DEF Next

LEMMA Invariant == Spec => []IInv
  BY InvInit, InvStep, PTL DEF Spec

\* However getAccount, account shutdown and dispose fail and are retried, the
\* only binding that can hold native handles is the manager's.
THEOREM ManagerHeldByManager == Spec => []HeldByManager
  <1>1. IInv => HeldByManager
    BY DEF IInv
  <1> QED BY <1>1, Invariant, PTL

\* Every registered signer is kept until its disposer returns, and no disposer
\* that returned runs again.
THEOREM ManagerCleanedOnce == Spec => []CleanedOnce
  <1>1. IInv => CleanedOnce
    BY DEF IInv
  <1> QED BY <1>1, Invariant, PTL

\* Until it is released a binding or a signer has an owner, and it is released
\* once.
THEOREM ManagerOwnedUntilReleased == Spec => []OwnedUntilReleased
  <1>1. IInv => OwnedUntilReleased
    BY DEF IInv, OwnedUntilReleased
  <1> QED BY <1>1, Invariant, PTL

\* No disposal, and no retry of one that failed half way, tears a binding down
\* under work that dispose() promises to wait for.
THEOREM ManagerDisposalJoins == Spec => []DisposalJoins
  <1>1. IInv => DisposalJoins
    BY DEF IInv
  <1> QED BY <1>1, Invariant, PTL
=============================================================================
