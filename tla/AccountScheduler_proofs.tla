----------------------- MODULE AccountScheduler_proofs -----------------------
(***************************************************************************)
(* Machine-checked facts about AccountScheduler, for any sets of calls.    *)
(***************************************************************************)
EXTENDS AccountScheduler, SequenceTheorems, TLAPS

USE DEF Goto, callVars, flightVars, policyVars, checkpointVars, queueVars,
        asideVars, shutdownVars, historyVars

LEMMA TypeInit == Init => TypeOK
  <1> SUFFICES ASSUME Init PROVE TypeOK
    OBVIOUS
  <1>1. admission \in [Calls -> Admission]
    BY DEF Init, NoAdmission, Admission
  <1>2. drain \in Drain
    BY DEF Init, NoDrain, Drain
  <1>3. vssQueue \in Seq(Tasks) /\ signQueue \in Seq(Signs)
    BY DEF Init
  <1>4. attempts \in 0..MaxShutdowns
    BY SchedulerAssumption DEF Init
  <1> QED BY <1>1, <1>2, <1>3, <1>4
       DEF Init, TypeOK, Phases, UnlockPhases, ShutdownPhases, Preference

LEMMA TicketType == ASSUME TypeOK PROVE Ticket \in Nat
  BY DEF TypeOK, Ticket

\* One completed piece of work keeps the types of what it changes.
LEMMA AfterVssMutationType ==
  ASSUME TypeOK, NEW c \in Work, AfterVssMutation(c)
  PROVE  /\ automatic' \in Preference \cup {"null"}
         /\ dirty' \in BOOLEAN /\ unsaved' \subseteq Work
         /\ vssQueue' \in Seq(Tasks) /\ checkpointPending' \in Nat
  <1>1. PICK known \in IF automatic = "null" THEN {nativePolicy, "null"} ELSE {automatic} :
          /\ automatic' = known
          /\ dirty' = TRUE
          /\ unsaved' = unsaved \cup {c}
          /\ IF known = "on" /\ checkpointPending = 0 /\ ~closed
               THEN /\ vssQueue' = Append(vssQueue, Checkpoint)
                    /\ checkpointPending' = Ticket + 1
               ELSE UNCHANGED <<vssQueue, checkpointPending>>
    BY DEF AfterVssMutation
  <1>2. Append(vssQueue, Checkpoint) \in Seq(Tasks)
    BY DEF TypeOK, Tasks
  <1>3. Ticket + 1 \in Nat
    BY TicketType
  <1>4. vssQueue' \in Seq(Tasks) /\ checkpointPending' \in Nat
    BY <1>1, <1>2, <1>3 DEF TypeOK
  <1>5. automatic' \in Preference \cup {"null"}
    BY <1>1 DEF TypeOK
  <1> QED BY <1>1, <1>4, <1>5 DEF TypeOK

LEMMA UnlockTypes ==
  ASSUME TypeOK, UnlockNext \/ UnlockProgress
  PROVE  TypeOK'
  <1>1. ASSUME NEW u \in Unlocks, Unlock(u) PROVE TypeOK'
    <2>1. PICK request \in Requests :
            IF ~Open \/ UnlockConflict(request)
              THEN unl' = [unl EXCEPT ![u] = "failed"] /\ UNCHANGED unlockInFlight
              ELSE IF unlockInFlight # None
                     THEN unl' = [unl EXCEPT ![u] = "joined"] /\ UNCHANGED unlockInFlight
                     ELSE UnlockWithPolicy(u, request, UnlockPolicy(request))
      BY <1>1 DEF Unlock
    <2>2. UnlockPolicy(request) \in Policies \cup {None}
      BY DEF TypeOK, UnlockPolicy, CurrentPolicy, Admission, Calls
    <2>3. unlockInFlight' \in Flight \cup {None}
      BY <2>1, <2>2 DEF TypeOK, UnlockWithPolicy, Flight, UnlockOps
    <2>4. unl' \in [UnlockOps -> UnlockPhases]
      BY <2>1 DEF TypeOK, UnlockWithPolicy, UnlockPhases
    <2> QED BY <1>1, <2>3, <2>4 DEF Unlock, TypeOK
  <1>2. ASSUME NEW u \in UnlockOps, UnlockStart(u) PROVE TypeOK'
    BY <1>2 DEF UnlockStart, TypeOK, UnlockPhases
  <1>3. ASSUME NEW u \in UnlockOps, UnlockEnd(u) PROVE TypeOK'
    <2>1. CASE unl' = [unl EXCEPT ![u] = "done"] /\ AfterVssMutation(u)
      BY <1>3, <2>1, AfterVssMutationType DEF UnlockEnd, TypeOK, UnlockPhases, Work
    <2>2. CASE unl' = [unl EXCEPT ![u] = "failed"] /\ NoVssMutation
      BY <1>3, <2>2 DEF UnlockEnd, NoVssMutation, TypeOK, UnlockPhases
    <2> QED BY <1>3, <2>1, <2>2 DEF UnlockEnd
  <1>4. CASE UnlockClear
    BY <1>4 DEF UnlockClear, TypeOK
  <1> QED BY <1>1, <1>2, <1>3, <1>4 DEF UnlockNext, UnlockProgress

\* An update of the promises a call captured keeps their types.
LEMMA AdmissionUpdate ==
  ASSUME TypeOK, NEW c \in Calls,
         NEW policy \in Policies \cup {None}, NEW unlock \in UnlockOps \cup {None}
  PROVE  /\ [admission EXCEPT ![c].policy = policy] \in [Calls -> Admission]
         /\ [admission EXCEPT ![c].unlock = unlock] \in [Calls -> Admission]
         /\ [admission EXCEPT ![c].policy = policy, ![c].unlock = unlock]
              \in [Calls -> Admission]
  <1>1. admission[c] \in Admission
    BY DEF TypeOK
  <1>2. [admission[c] EXCEPT !.policy = policy] \in Admission
    BY <1>1 DEF Admission
  <1>3. [admission[c] EXCEPT !.unlock = unlock] \in Admission
    BY <1>1 DEF Admission
  <1>4. [admission[c] EXCEPT !.policy = policy, !.unlock = unlock] \in Admission
    BY <1>1 DEF Admission
  <1> QED BY <1>2, <1>3, <1>4 DEF TypeOK

LEMMA CurrentTypes ==
  ASSUME TypeOK
  PROVE  CurrentPolicy \in Policies \cup {None} /\ CurrentUnlock \in UnlockOps \cup {None}
  BY DEF TypeOK, CurrentPolicy, CurrentUnlock, Flight

LEMMA AddressTypes ==
  ASSUME TypeOK, NEW a \in Addresses, GetAddress(a) \/ AddressProgress(a) \/ AddressClear
  PROVE  TypeOK'
  <1> a \in Calls /\ a \in UnlockOps /\ a \in Work
    BY DEF Calls, UnlockOps, Work
  <1>1. CASE GetAddress(a)
    <2>0. [admission EXCEPT ![a].policy = CurrentPolicy, ![a].unlock = CurrentUnlock]
            \in [Calls -> Admission]
      BY CurrentTypes, AdmissionUpdate
    <2>1. admission' \in [Calls -> Admission]
      BY <1>1, <2>0 DEF GetAddress, TypeOK
    <2> QED BY <1>1, <2>1, SMTT(30) DEF GetAddress, TypeOK, Phases
  <1>2. CASE AddressStart(a)
    BY <1>2 DEF AddressStart, TypeOK, Phases
  <1>3. CASE AddressEnd(a)
    <2>1. CASE Goto(a, "failed") /\ NoVssMutation /\ UNCHANGED lastAddress
      BY <1>3, <2>1 DEF AddressEnd, NoVssMutation, TypeOK, Phases
    <2>2. ASSUME NEW address \in Receives, AddressRead(a, address) PROVE TypeOK'
      <3>1. CASE address = lastAddress
        BY <1>3, <2>2, <3>1 DEF AddressEnd, AddressRead, NoVssMutation, TypeOK, Phases
      <3>2. CASE address # lastAddress
        BY <1>3, <2>2, <3>2, AfterVssMutationType DEF AddressEnd, AddressRead, TypeOK, Phases
      <3> QED BY <3>1, <3>2
    <2> QED BY <1>3, <2>1, <2>2 DEF AddressEnd
  <1>4. CASE AddressLocked(a)
    <2>0. [admission EXCEPT ![a].unlock =
             IF unlockInFlight = None THEN a ELSE CurrentUnlock]
            \in [Calls -> Admission]
      BY CurrentTypes, AdmissionUpdate
    <2>1. admission' \in [Calls -> Admission]
      BY <1>4, <2>0 DEF AddressLocked, TypeOK
    <2>2. admission[a].policy \in Policies \cup {None}
      BY DEF TypeOK, Admission
    <2>3. unlockInFlight' \in Flight \cup {None} /\ unl' \in [UnlockOps -> UnlockPhases]
      BY <1>4, <2>2 DEF AddressLocked, UnlockWithPolicy, TypeOK, Flight, Requests, UnlockPhases
    <2> QED BY <1>4, <2>1, <2>3 DEF AddressLocked, TypeOK, Phases
  <1>5. CASE AddressUnlocked(a)
    BY <1>5 DEF AddressUnlocked, TypeOK, Phases
  <1>6. CASE AddressClear
    BY <1>6 DEF AddressClear, TypeOK
  <1> QED BY <1>1, <1>2, <1>3, <1>4, <1>5, <1>6 DEF AddressProgress

LEMMA MutationTypes ==
  ASSUME TypeOK, NEW m \in Mutations, Mutate(m) \/ MutationProgress(m)
  PROVE  TypeOK'
  <1> m \in Calls /\ m \in Work
    BY DEF Calls, Work
  <1>1. CASE Mutate(m)
    <2>0. [admission EXCEPT ![m].policy = policyTail]
            \in [Calls -> Admission]
      BY CurrentTypes, AdmissionUpdate, ZenonT(60) DEF TypeOK
    <2>1. admission' \in [Calls -> Admission]
      BY <1>1, <2>0 DEF Mutate, TypeOK
    <2> QED BY <1>1, <2>1, SMTT(30) DEF Mutate, TypeOK, Phases
  <1>2. CASE MutationDispatch(m)
    BY <1>2 DEF MutationDispatch, TypeOK, Phases
  <1>3. CASE MutationEnd(m)
    <2>1. CASE Goto(m, "done") /\ AfterVssMutation(m)
      BY <1>3, <2>1, AfterVssMutationType DEF MutationEnd, TypeOK, Phases
    <2>2. CASE Goto(m, "failed") /\ NoVssMutation
      BY <1>3, <2>2 DEF MutationEnd, NoVssMutation, TypeOK, Phases
    <2> QED BY <1>3, <2>1, <2>2 DEF MutationEnd
  <1> QED BY <1>1, <1>2, <1>3 DEF MutationProgress

\* The operation at the head of _vssTail leaves it.
LEMMA LeaveType ==
  ASSUME TypeOK, vssQueue # <<>>, Leave
  PROVE  vssQueue' \in Seq(Tasks) /\ served' \in Nat
  BY DEF TypeOK, Leave

LEMMA BackupTypes ==
  ASSUME TypeOK, NEW v \in Manuals, VssBackup(v) \/ ManualProgress(v)
  PROVE  TypeOK'
  <1> v \in Calls /\ v \in Tasks
    BY DEF Calls, Tasks
  <1>1. Append(vssQueue, v) \in Seq(Tasks)
    BY DEF TypeOK
  <1>2. CASE VssBackup(v)
    <2>0. [admission EXCEPT ![v].policy = CurrentPolicy, ![v].unlock = CurrentUnlock]
            \in [Calls -> Admission]
      BY CurrentTypes, AdmissionUpdate
    <2>1. admission' \in [Calls -> Admission]
      BY <1>2, <2>0 DEF VssBackup, TypeOK
    <2> QED BY <1>1, <1>2, <2>1, ZenonT(60) DEF VssBackup, TypeOK, Phases
  <1>3. CASE VssBackupEnqueue(v)
    BY <1>1, <1>3 DEF VssBackupEnqueue, TypeOK, Phases
  <1>4. CASE VssBackupStart(v)
    BY <1>4, LeaveType DEF VssBackupStart, Running, TypeOK, Phases
  <1>5. CASE VssBackupEnd(v)
    <2>1. vssQueue' \in Seq(Tasks) /\ served' \in Nat
      BY <1>5, LeaveType DEF VssBackupEnd, Running
    <2>2. pc' \in [Calls -> Phases]
      BY <1>5 DEF VssBackupEnd, TypeOK, Phases
    <2>3. /\ unsaved' \subseteq Work /\ uploading' = {}
          /\ checkpointFailed' \in BOOLEAN
      BY <1>5 DEF VssBackupEnd, TypeOK
    <2> QED BY <1>5, <2>1, <2>2, <2>3 DEF VssBackupEnd, TypeOK
  <1> QED BY <1>2, <1>3, <1>4, <1>5 DEF ManualProgress

LEMMA CheckpointTypes ==
  ASSUME TypeOK, CheckpointProgress
  PROVE  TypeOK'
  <1>1. CASE CheckpointStart
    BY <1>1, LeaveType, ZenonT(60) DEF CheckpointStart, Running, TypeOK
  <1>2. CASE CheckpointEnd
    <2>1. CASE CheckpointUploaded
      BY <1>2, <2>1, LeaveType, ZenonT(60) DEF CheckpointEnd, CheckpointUploaded, Running, TypeOK
    <2>2. CASE CheckpointRefused
      BY <1>2, <2>2, LeaveType, ZenonT(60) DEF CheckpointEnd, CheckpointRefused, Running, TypeOK
    <2> QED BY <1>2, <2>1, <2>2 DEF CheckpointEnd
  <1>3. CASE CheckpointClear
    BY <1>3 DEF CheckpointClear, TypeOK
  <1> QED BY <1>1, <1>2, <1>3 DEF CheckpointProgress

LEMMA PolicyTypes ==
  ASSUME TypeOK, NEW p \in Policies, SetVssAutomatic(p) \/ PolicyProgress(p)
  PROVE  TypeOK'
  <1> p \in Calls /\ p \in Tasks
    BY DEF Calls, Tasks
  <1> want[p] \in Preference
    BY DEF TypeOK
  <1>1. CASE SetVssAutomatic(p)
    <2>1. [policy |-> policyTail, unlock |-> CurrentUnlock,
           address |-> addressInFlight, mutations |-> MutationsInFlight,
           ticket |-> 0] \in Admission
      BY CurrentTypes DEF TypeOK, Admission, MutationsInFlight
    <2> QED BY <1>1, <2>1 DEF SetVssAutomatic, TypeOK, Phases
  <1>2. CASE PolicyRefuse(p)
    BY <1>2 DEF PolicyRefuse, TypeOK, Phases
  <1>3. CASE PolicyDrain(p)
    <2>1. [admission[p] EXCEPT !.ticket = Ticket] \in Admission
      BY TicketType, ZenonT(60) DEF TypeOK, Admission
    <2>2. admission' \in [Calls -> Admission]
      BY <1>3, <2>1 DEF PolicyDrain, TypeOK
    <2> QED BY <1>3, <2>2 DEF PolicyDrain, TypeOK, Phases
  <1>4. CASE PolicyEnqueue(p)
    <2>1. Append(vssQueue, p) \in Seq(Tasks)
      BY DEF TypeOK
    <2> QED BY <1>4, <2>1, ZenonT(60) DEF PolicyEnqueue, TypeOK, Phases
  <1>5. CASE PolicyStart(p)
    BY <1>5, LeaveType, ZenonT(60) DEF PolicyStart, Running, TypeOK, Phases
  <1>6. CASE PolicyEnd(p)
    <2>1. CASE PolicyConfirm(p)
      BY <1>6, <2>1, LeaveType, ZenonT(60) DEF PolicyEnd, PolicyConfirm, Running, TypeOK, Phases
    <2>2. CASE PolicyUnknown(p)
      BY <1>6, <2>2, LeaveType DEF PolicyEnd, PolicyUnknown, Running, TypeOK, Phases
    <2> QED BY <1>6, <2>1, <2>2 DEF PolicyEnd
  <1>7. CASE PolicySettle(p)
    BY <1>7 DEF PolicySettle, TypeOK, Phases
  <1> QED BY <1>1, <1>2, <1>3, <1>4, <1>5, <1>6, <1>7 DEF PolicyProgress

LEMMA ReadTypes ==
  ASSUME TypeOK, NEW r \in Reads, ReadMetadata(r) \/ ReadEnd(r)
  PROVE  TypeOK'
  <1> r \in Calls
    BY DEF Calls
  <1>1. CASE ReadMetadata(r)
    <2>1. admission' \in [Calls -> Admission]
      BY <1>1, AdmissionUpdate, ZenonT(60) DEF ReadMetadata, TypeOK
    <2> QED BY <1>1, <2>1 DEF ReadMetadata, TypeOK, Phases
  <1>2. CASE ReadEnd(r)
    BY <1>2 DEF ReadEnd, TypeOK, Phases
  <1> QED BY <1>1, <1>2

LEMMA SignTypes ==
  ASSUME TypeOK, NEW s \in Signs, SignMessage(s) \/ SignProgress(s)
  PROVE  TypeOK'
  <1> s \in Calls
    BY DEF Calls
  <1>1. CASE SignMessage(s)
    <2>0. [admission EXCEPT ![s].unlock = CurrentUnlock]
            \in [Calls -> Admission]
      BY CurrentTypes, AdmissionUpdate
    <2>1. admission' \in [Calls -> Admission]
      BY <1>1, <2>0 DEF SignMessage, TypeOK
    <2>2. Append(signQueue, s) \in Seq(Signs)
      BY DEF TypeOK
    <2> QED BY <1>1, <2>1, <2>2, ZenonT(60) DEF SignMessage, TypeOK, Phases
  <1>0. Signing(s) => Tail(signQueue) \in Seq(Signs)
    BY DEF Signing, TypeOK
  <1>2. CASE SignStart(s)
    <2>1. signQueue' \in Seq(Signs)
      BY <1>0, <1>2 DEF SignStart, TypeOK
    <2>2. pc' \in [Calls -> Phases]
      BY <1>2 DEF SignStart, TypeOK, Phases
    <2> QED BY <1>2, <2>1, <2>2 DEF SignStart, TypeOK
  <1>3. CASE SignEnd(s)
    BY <1>0, <1>3 DEF SignEnd, TypeOK, Phases
  <1> QED BY <1>1, <1>2, <1>3 DEF SignProgress

LEMMA ShutdownTypes ==
  ASSUME TypeOK, Shutdown \/ ShutdownProgress
  PROVE  TypeOK'
  <1> USE DEF DrainNext, TypeOK, ShutdownPhases
  <1>1. /\ NoDrain \in Drain
        /\ \A calls \in SUBSET Calls, ticket \in Nat :
             /\ [NoDrain EXCEPT !.calls = calls] \in Drain
             /\ [NoDrain EXCEPT !.ticket = ticket] \in Drain
             /\ [NoDrain EXCEPT !.calls = calls, !.ticket = ticket] \in Drain
        /\ [NoDrain EXCEPT !.unlock = CurrentUnlock] \in Drain
    BY CurrentTypes, ZenonT(60) DEF NoDrain, Drain
  <1>2. CASE Shutdown
    <2>1. attempts' \in 0..MaxShutdowns
      BY <1>2, SchedulerAssumption DEF Shutdown
    <2> QED BY <1>1, <1>2, <2>1, ZenonT(60) DEF Shutdown
  <1>3. CASE ShutdownDrain
    <2>1. SignTail \in SUBSET Calls
      BY DEF SignTail, Calls
    <2>2. /\ {addressInFlight} \ {None} \in SUBSET Calls
          /\ {policyTail} \ {None} \in SUBSET Calls
          /\ MutationsInFlight \in SUBSET Calls
          /\ ManualsPending \in SUBSET Calls
      BY DEF Calls, MutationsInFlight, ManualsPending
    <2>3. shutdown' \in ShutdownPhases /\ drain' \in Drain
      BY <1>1, <1>3, <2>1, <2>2, TicketType, ZenonT(60) DEF ShutdownDrain
    <2> QED BY <1>3, <2>3 DEF ShutdownDrain
  <1>4. CASE ShutdownNative
    BY <1>1, <1>4, ZenonT(60) DEF ShutdownNative
  <1>5. CASE ShutdownEnd
    BY <1>1, <1>5, ZenonT(60) DEF ShutdownEnd
  <1> QED BY <1>2, <1>3, <1>4, <1>5 DEF ShutdownProgress

LEMMA TypeStep == TypeOK /\ [Next]_vars => TypeOK'
  <1> SUFFICES ASSUME TypeOK, [Next]_vars PROVE TypeOK'
    OBVIOUS
  <1>1. CASE UNCHANGED vars
    BY <1>1 DEF vars, TypeOK
  <1>2. CASE Request
    BY <1>2, UnlockTypes, AddressTypes, MutationTypes, PolicyTypes, BackupTypes,
       ReadTypes, SignTypes, ShutdownTypes DEF Request
  <1>3. CASE Progress
    <2>1. CASE AddressClear
      BY <2>1 DEF AddressClear, TypeOK
    <2> QED BY <1>3, <2>1, UnlockTypes, AddressTypes, MutationTypes, PolicyTypes,
         BackupTypes, ReadTypes, SignTypes, CheckpointTypes, ShutdownTypes DEF Progress
  <1> QED BY <1>1, <1>2, <1>3 DEF Next

\* The state of the scheduler always has the types of the program, whatever
\* calls are made and however they interleave, complete and fail.
THEOREM SchedulerTypeCorrect == Spec => []TypeOK
  BY TypeInit, TypeStep, PTL DEF Spec
-----------------------------------------------------------------------------
\* An unlock operation that waits or runs is the one in flight: the finally of
\* _unlockWithPolicy forgets an operation only after it has settled.
UnlockOwned ==
  \A u \in UnlockOps : unl[u] \in {"waiting", "native"} =>
    unlockInFlight # None /\ unlockInFlight.op = u

LEMMA OwnedInit == Init => UnlockOwned
  BY DEF Init, UnlockOwned

\* Starting an operation when none is in flight makes it the one in flight.
LEMMA OwnedUnlockWithPolicy ==
  ASSUME TypeOK, UnlockOwned, NEW op \in UnlockOps, NEW request \in Requests,
         NEW policy \in Policies \cup {None}, UnlockWithPolicy(op, request, policy)
  PROVE  UnlockOwned'
  <1>1. CASE unlockInFlight = None
    <2>1. [op |-> op, request |-> request, policy |-> policy] # None
      BY SchedulerAssumption DEF Flight
    <2> QED BY <1>1, <2>1 DEF UnlockWithPolicy, UnlockOwned, TypeOK
  <1>2. CASE unlockInFlight # None
    BY <1>2 DEF UnlockWithPolicy, UnlockOwned
  <1> QED BY <1>1, <1>2

LEMMA OwnedUnlock ==
  ASSUME TypeOK, UnlockOwned, NEW u \in Unlocks, Unlock(u)
  PROVE  UnlockOwned'
  <1> u \in UnlockOps
    BY DEF UnlockOps
  <1>1. PICK request \in Requests :
          IF ~Open \/ UnlockConflict(request)
            THEN unl' = [unl EXCEPT ![u] = "failed"] /\ UNCHANGED unlockInFlight
            ELSE IF unlockInFlight # None
                   THEN unl' = [unl EXCEPT ![u] = "joined"] /\ UNCHANGED unlockInFlight
                   ELSE UnlockWithPolicy(u, request, UnlockPolicy(request))
    BY DEF Unlock
  <1>2. UnlockPolicy(request) \in Policies \cup {None}
    BY DEF TypeOK, UnlockPolicy, CurrentPolicy, Admission, Calls
  <1>3. CASE UnlockWithPolicy(u, request, UnlockPolicy(request))
    BY <1>2, <1>3, OwnedUnlockWithPolicy
  <1>4. CASE /\ unl' = [unl EXCEPT ![u] = "failed"] \/ unl' = [unl EXCEPT ![u] = "joined"]
             /\ UNCHANGED unlockInFlight
    BY <1>4 DEF UnlockOwned, TypeOK
  <1> QED BY <1>1, <1>3, <1>4

LEMMA OwnedProgress ==
  ASSUME TypeOK, UnlockOwned, UnlockProgress
  PROVE  UnlockOwned'
  <1>1. ASSUME NEW u \in UnlockOps, UnlockStart(u) PROVE UnlockOwned'
    BY <1>1 DEF UnlockStart, UnlockOwned, TypeOK
  <1>2. ASSUME NEW u \in UnlockOps, UnlockEnd(u) PROVE UnlockOwned'
    BY <1>2 DEF UnlockEnd, UnlockOwned, TypeOK
  <1>3. CASE UnlockClear
    <2>1. unlockInFlight.op # None
      BY <1>3, SchedulerAssumption DEF UnlockClear, TypeOK, Flight, UnlockOps, Calls
    <2>2. unl[unlockInFlight.op] \in {"done", "failed"}
      BY <1>3, <2>1 DEF UnlockClear, UnlockSettled
    <2> QED BY <1>3, <2>2 DEF UnlockClear, UnlockOwned
  <1> QED BY <1>1, <1>2, <1>3 DEF UnlockProgress

LEMMA OwnedStep == TypeOK /\ UnlockOwned /\ [Next]_vars => UnlockOwned'
  <1> SUFFICES ASSUME TypeOK, UnlockOwned, [Next]_vars PROVE UnlockOwned'
    OBVIOUS
  <1>1. CASE UNCHANGED <<unl, unlockInFlight>>
    BY <1>1 DEF UnlockOwned
  <1>2. CASE UnlockNext
    BY <1>2, OwnedUnlock DEF UnlockNext
  <1>3. CASE UnlockProgress
    BY <1>3, OwnedProgress
  <1>4. ASSUME NEW a \in Addresses, AddressLocked(a) PROVE UnlockOwned'
    <2>1. a \in UnlockOps /\ admission[a].policy \in Policies \cup {None}
      BY DEF TypeOK, UnlockOps, Calls, Admission
    <2>2. CASE UNCHANGED <<unl, unlockInFlight>>
      BY <1>1, <2>2
    <2>3. CASE UnlockWithPolicy(a, "auto", admission[a].policy)
      BY <2>1, <2>3, OwnedUnlockWithPolicy DEF Requests
    <2> QED BY <1>4, <2>2, <2>3 DEF AddressLocked
  <1>5. ASSUME NEW a \in Addresses, GetAddress(a) \/ AddressProgress(a) \/ AddressClear
        PROVE  UnlockOwned'
    BY <1>1, <1>4, <1>5 DEF GetAddress, AddressProgress, AddressStart, AddressEnd,
       AddressUnlocked, AddressClear
  <1>6. ASSUME NEW m \in Mutations, Mutate(m) \/ MutationProgress(m) PROVE UnlockOwned'
    BY <1>1, <1>6 DEF Mutate, MutationProgress, MutationDispatch, MutationEnd
  <1>7. ASSUME NEW p \in Policies, SetVssAutomatic(p) \/ PolicyProgress(p) PROVE UnlockOwned'
    BY <1>1, <1>7 DEF SetVssAutomatic, PolicyProgress, PolicyRefuse, PolicyDrain,
       PolicyEnqueue, PolicyStart, PolicyEnd, PolicySettle
  <1>8. ASSUME NEW v \in Manuals, VssBackup(v) \/ ManualProgress(v) PROVE UnlockOwned'
    BY <1>1, <1>8 DEF VssBackup, ManualProgress, VssBackupEnqueue, VssBackupStart, VssBackupEnd
  <1>9. ASSUME NEW r \in Reads, ReadMetadata(r) \/ ReadEnd(r) PROVE UnlockOwned'
    BY <1>1, <1>9 DEF ReadMetadata, ReadEnd
  <1>10. ASSUME NEW s \in Signs, SignMessage(s) \/ SignProgress(s) PROVE UnlockOwned'
    BY <1>1, <1>10 DEF SignMessage, SignProgress, SignStart, SignEnd
  <1>11. CASE CheckpointProgress
    BY <1>1, <1>11 DEF CheckpointProgress, CheckpointStart, CheckpointEnd, CheckpointClear
  <1>12. CASE Shutdown \/ ShutdownProgress
    BY <1>1, <1>12 DEF Shutdown, ShutdownProgress, ShutdownDrain, ShutdownNative, ShutdownEnd
  <1>13. CASE AddressClear
    BY <1>1, <1>13 DEF AddressClear
  <1>14. CASE UNCHANGED vars
    BY <1>1, <1>14 DEF vars
  <1>15. CASE Request
    BY <1>2, <1>5, <1>6, <1>7, <1>8, <1>9, <1>10, <1>12, <1>15 DEF Request
  <1>16. CASE Progress
    BY <1>3, <1>5, <1>6, <1>7, <1>8, <1>9, <1>10, <1>11, <1>12, <1>13, <1>16 DEF Progress
  <1> QED BY <1>14, <1>15, <1>16 DEF Next

\* Two native unlocks never overlap: unlock() calls and the automatic unlock of
\* an address join the operation in flight or are refused.
THEOREM SchedulerSingleUnlock == Spec => []SingleUnlock
  <1>1. UnlockOwned => SingleUnlock
    BY DEF UnlockOwned, SingleUnlock
  <1> QED BY <1>1, SchedulerTypeCorrect, OwnedInit, OwnedStep, PTL DEF Spec
-----------------------------------------------------------------------------
\* What a step does to the calls, for each kind of call: the facts the proofs
\* below rest on.
Alone(c) == \A d \in Calls \ {c} : pc'[d] = pc[d] /\ admission'[d] = admission[d]
Untouched == pc' = pc /\ admission' = admission

LEMMA MutationEffect ==
  ASSUME TypeOK, NEW m \in Mutations, Mutate(m) \/ MutationProgress(m)
  PROVE  /\ Alone(m)
         /\ \/ pc'[m] \in {"done", "failed"} /\ admission'[m] = admission[m]
            \/ /\ pc[m] = "idle" /\ pc'[m] = "waiting" /\ Open /\ PolicyPending
               /\ admission'[m].policy = policyTail
            \/ /\ pc[m] = "idle" /\ pc'[m] = "native" /\ Open /\ ~PolicyPending
               /\ admission'[m] = admission[m]
            \/ /\ pc[m] = "waiting" /\ pc'[m] = "native" /\ Settled(admission[m].policy)
               /\ admission'[m] = admission[m]
         /\ UNCHANGED <<unl, flightVars, policyTail, want, nativePolicy, asideVars, shutdownVars>>
  <1> m \in Calls /\ pc \in [Calls -> Phases] /\ admission \in [Calls -> Admission]
    BY DEF Calls, TypeOK
  <1>1. CASE Mutate(m)
    BY <1>1 DEF Mutate, Alone, Admission
  <1>2. CASE MutationDispatch(m)
    BY <1>2 DEF MutationDispatch, Alone
  <1>3. CASE MutationEnd(m)
    BY <1>3 DEF MutationEnd, Alone
  <1> QED BY <1>1, <1>2, <1>3 DEF MutationProgress

LEMMA AddressEffect ==
  ASSUME TypeOK, NEW a \in Addresses, GetAddress(a) \/ AddressProgress(a)
  PROVE  /\ Alone(a)
         /\ \/ /\ pc'[a] \in {"joined", "done", "failed"} /\ admission'[a] = admission[a]
               /\ UNCHANGED <<unl, flightVars>>
            \/ /\ pc[a] = "idle" /\ pc'[a] = "waiting" /\ Open
               /\ addressInFlight = None /\ addressInFlight' = a
               /\ admission'[a].policy = CurrentPolicy /\ UNCHANGED <<unl, unlockInFlight>>
            \/ /\ pc[a] = "waiting" /\ pc'[a] = "reading" /\ Settled(admission[a].policy)
               /\ admission'[a] = admission[a] /\ UNCHANGED <<unl, flightVars>>
            \/ /\ pc[a] = "reading" /\ pc'[a] = "unlocking" /\ AutoUnlock
               /\ UnlockWithPolicy(a, "auto", admission[a].policy)
               /\ admission'[a] = [admission[a] EXCEPT !.unlock =
                    IF unlockInFlight = None THEN a ELSE CurrentUnlock]
               /\ addressInFlight' = addressInFlight
            \/ /\ pc[a] = "unlocking" /\ pc'[a] = "rereading" /\ UnlockSettled(admission[a].unlock)
               /\ admission'[a] = admission[a] /\ UNCHANGED <<unl, flightVars>>
         /\ pc'[a] \in {"joined", "done", "failed"} =>
              \/ pc[a] \in {"idle", "waiting", "reading", "rereading"}
              \/ pc[a] = "unlocking" /\ UnlockSettled(admission[a].unlock)
         /\ UNCHANGED <<policyTail, want, nativePolicy, asideVars, shutdownVars>>
  <1> a \in Calls /\ pc \in [Calls -> Phases] /\ admission \in [Calls -> Admission]
    BY DEF Calls, TypeOK
  <1>1. CASE GetAddress(a)
    BY <1>1 DEF GetAddress, Alone, Admission
  <1>2. CASE AddressStart(a)
    BY <1>2 DEF AddressStart, Alone
  <1>3. CASE AddressEnd(a)
    BY <1>3 DEF AddressEnd, AddressRead, Alone
  <1>4. CASE AddressLocked(a)
    BY <1>4 DEF AddressLocked, Alone
  <1>5. CASE AddressUnlocked(a)
    BY <1>5 DEF AddressUnlocked, Alone
  <1> QED BY <1>1, <1>2, <1>3, <1>4, <1>5 DEF AddressProgress

LEMMA UnlockEffect ==
  ASSUME TypeOK, UnlockNext \/ UnlockProgress
  PROVE  /\ Untouched
         /\ \/ /\ \E u \in Unlocks, request \in Requests :
                    Open /\ unl[u] = "idle" /\ unlockInFlight = None
                      /\ UnlockWithPolicy(u, request, UnlockPolicy(request))
            \/ /\ \E u \in UnlockOps :
                    /\ unl' = [unl EXCEPT ![u] = "native"]
                    /\ unl[u] = "waiting" /\ Settled(unlockInFlight.policy)
               /\ UNCHANGED <<unlockInFlight, queueVars>>
            \/ /\ \E u \in UnlockOps : \E phase \in {"joined", "done", "failed"} :
                    unl' = [unl EXCEPT ![u] = phase]
               /\ UNCHANGED unlockInFlight
            \/ UnlockClear
         /\ UNCHANGED <<addressInFlight, policyTail, want, nativePolicy, asideVars, shutdownVars>>
  <1>1. ASSUME NEW u \in Unlocks, Unlock(u) PROVE
          /\ \/ \E request \in Requests :
                  Open /\ unl[u] = "idle" /\ unlockInFlight = None
                    /\ UnlockWithPolicy(u, request, UnlockPolicy(request))
             \/ (\E phase \in {"joined", "failed"} : unl' = [unl EXCEPT ![u] = phase])
                  /\ UNCHANGED unlockInFlight
          /\ Untouched /\ u \in UnlockOps
          /\ UNCHANGED <<addressInFlight, policyTail, want, nativePolicy, asideVars, shutdownVars>>
    BY <1>1 DEF Unlock, Untouched, UnlockOps
  <1>2. ASSUME NEW u \in UnlockOps, UnlockStart(u) \/ UnlockEnd(u) PROVE
          /\ \/ /\ unl' = [unl EXCEPT ![u] = "native"]
                /\ unl[u] = "waiting" /\ Settled(unlockInFlight.policy)
                /\ UNCHANGED queueVars
             \/ \E phase \in {"done", "failed"} : unl' = [unl EXCEPT ![u] = phase]
          /\ Untouched /\ UNCHANGED flightVars
          /\ UNCHANGED <<addressInFlight, policyTail, want, nativePolicy, asideVars, shutdownVars>>
    BY <1>2 DEF UnlockStart, UnlockEnd, Untouched
  <1>3. CASE UnlockClear
    BY <1>3 DEF UnlockClear, Untouched
  <1> QED BY <1>1, <1>2, <1>3 DEF UnlockNext, UnlockProgress

LEMMA PolicyEffect ==
  ASSUME TypeOK, NEW p \in Policies, PolicyProgress(p)
  PROVE  /\ Alone(p)
         /\ \/ pc[p] = "waiting" /\ pc'[p] = "refused" /\ Settled(admission[p].policy)
            \/ /\ pc[p] = "waiting" /\ pc'[p] = "draining" /\ Settled(admission[p].policy)
               /\ UnlockSettled(admission[p].unlock) /\ Settled(admission[p].address)
               /\ \A m \in admission[p].mutations : Settled(m)
            \/ pc[p] = "draining" /\ pc'[p] \in {"queued", "refused"}
            \/ pc[p] = "queued" /\ pc'[p] \in {"native", "refused"}
            \/ pc[p] = "native" /\ pc'[p] \in {"acked", "refused"}
            \/ pc[p] = "acked" /\ pc'[p] = "done"
            \/ pc[p] = "refused" /\ pc'[p] = "failed"
         /\ \E ticket \in Nat : admission'[p] = [admission[p] EXCEPT !.ticket = ticket]
         /\ UNCHANGED <<unl, flightVars, policyTail, want, asideVars, shutdownVars>>
  <1> p \in Calls /\ pc \in [Calls -> Phases] /\ admission \in [Calls -> Admission]
    BY DEF Calls, TypeOK
  <1> admission[p] = [admission[p] EXCEPT !.ticket = @] /\ admission[p].ticket \in Nat
    BY DEF Admission
  <1>1. CASE PolicyRefuse(p)
    BY <1>1 DEF PolicyRefuse, Alone
  <1>2. CASE PolicyDrain(p)
    BY <1>2, TicketType DEF PolicyDrain, Alone
  <1>3. CASE PolicyEnqueue(p)
    BY <1>3 DEF PolicyEnqueue, Alone
  <1>4. CASE PolicyStart(p)
    BY <1>4 DEF PolicyStart, Alone
  <1>5. CASE PolicyEnd(p)
    BY <1>5 DEF PolicyEnd, PolicyConfirm, PolicyUnknown, Alone
  <1>6. CASE PolicySettle(p)
    BY <1>6 DEF PolicySettle, Alone
  <1> QED BY <1>1, <1>2, <1>3, <1>4, <1>5, <1>6 DEF PolicyProgress

LEMMA SetPolicyEffect ==
  ASSUME TypeOK, NEW p \in Policies, SetVssAutomatic(p)
  PROVE  /\ Alone(p) /\ pc[p] = "idle"
         /\ \/ pc'[p] = "failed" /\ admission'[p] = admission[p] /\ policyTail' = policyTail
            \/ /\ Open /\ pc'[p] = "waiting" /\ policyTail' = p
               /\ admission'[p] =
                    [policy |-> policyTail, unlock |-> CurrentUnlock, address |-> addressInFlight,
                     mutations |-> MutationsInFlight, ticket |-> 0]
         /\ UNCHANGED <<unl, flightVars, want, nativePolicy, asideVars, shutdownVars, queueVars>>
  <1> p \in Calls /\ pc \in [Calls -> Phases] /\ admission \in [Calls -> Admission]
    BY DEF Calls, TypeOK
  <1> QED BY DEF SetVssAutomatic, Alone

\* Backups, metadata reads and signing requests.
LEMMA AsideEffect ==
  ASSUME TypeOK, NEW c \in Manuals \cup Reads \cup Signs,
         \/ c \in Manuals /\ (VssBackup(c) \/ ManualProgress(c))
         \/ c \in Reads /\ (ReadMetadata(c) \/ ReadEnd(c))
         \/ c \in Signs /\ (SignMessage(c) \/ SignProgress(c))
  PROVE  /\ Alone(c)
         /\ UNCHANGED <<unl, flightVars, policyTail, want, nativePolicy, shutdownVars,
                        checkpointNative>>
  <1> c \in Calls /\ pc \in [Calls -> Phases] /\ admission \in [Calls -> Admission]
    BY DEF Calls, TypeOK
  <1>1. CASE c \in Manuals /\ (VssBackup(c) \/ ManualProgress(c))
    BY <1>1 DEF VssBackup, ManualProgress, VssBackupEnqueue, VssBackupStart, VssBackupEnd, Alone
  <1>2. CASE c \in Reads /\ (ReadMetadata(c) \/ ReadEnd(c))
    BY <1>2 DEF ReadMetadata, ReadEnd, Alone
  <1>3. CASE c \in Signs /\ (SignMessage(c) \/ SignProgress(c))
    BY <1>3 DEF SignMessage, SignProgress, SignStart, SignEnd, Alone
  <1> QED BY <1>1, <1>2, <1>3

\* The other continuations do not touch a call.
LEMMA QuietEffect ==
  ASSUME TypeOK, \/ AddressClear \/ CheckpointProgress \/ Shutdown \/ ShutdownProgress
                 \/ UNCHANGED vars
  PROVE  /\ Untouched
         /\ UNCHANGED <<unl, unlockInFlight, policyTail, want, nativePolicy>>
         /\ addressInFlight' # addressInFlight =>
              addressInFlight' = None /\ Settled(addressInFlight)
  <1>1. CASE AddressClear
    BY <1>1 DEF AddressClear, Untouched
  <1>2. CASE CheckpointProgress
    BY <1>2 DEF CheckpointProgress, CheckpointStart, CheckpointEnd, CheckpointClear, Untouched
  <1>3. CASE Shutdown \/ ShutdownProgress
    BY <1>3 DEF Shutdown, ShutdownProgress, ShutdownDrain, ShutdownNative, ShutdownEnd, Untouched
  <1>4. CASE UNCHANGED vars
    BY <1>4 DEF vars, Untouched
  <1> QED BY <1>1, <1>2, <1>3, <1>4

LEMMA StepCases ==
  ASSUME [Next]_vars
  PROVE  \/ UnlockNext \/ UnlockProgress
         \/ \E a \in Addresses : GetAddress(a) \/ AddressProgress(a)
         \/ \E m \in Mutations : Mutate(m) \/ MutationProgress(m)
         \/ \E p \in Policies : SetVssAutomatic(p)
         \/ \E p \in Policies : PolicyProgress(p)
         \/ \E c \in Manuals \cup Reads \cup Signs :
              \/ c \in Manuals /\ (VssBackup(c) \/ ManualProgress(c))
              \/ c \in Reads /\ (ReadMetadata(c) \/ ReadEnd(c))
              \/ c \in Signs /\ (SignMessage(c) \/ SignProgress(c))
         \/ AddressClear \/ CheckpointProgress \/ Shutdown \/ ShutdownProgress
         \/ UNCHANGED vars
  BY DEF Next, Request, Progress
-----------------------------------------------------------------------------
\* The policy transitions wait for each other in the order in which they were
\* admitted: p is before q when every set that holds q and, with a transition,
\* the one it waits for, holds p.
Unsettled(p) == pc[p] \notin {"idle", "done", "failed"}
WaitClosed(S) == \A q \in S : admission[q].policy # None => admission[q].policy \in S
Before(p, q) == q # None /\ \A S \in SUBSET Policies : q \in S /\ WaitClosed(S) => p \in S

\* A transition past its barrier has nothing before it; policyTail is the last.
PolicyOrder ==
  /\ \A p \in Policies : pc[p] = "idle" => admission[p].policy = None
  /\ \A p \in Policies : pc[p] # "waiting" => Settled(admission[p].policy)
  /\ \A p \in Policies : Unsettled(p) => Before(p, policyTail)
  /\ \A p, q \in Policies : Unsettled(p) /\ Unsettled(q) => Before(p, q) \/ Before(q, p)

SettledPolicies == {r \in Policies : pc[r] \in {"done", "failed"}}

LEMMA SettledClosed ==
  ASSUME TypeOK, PolicyOrder
  PROVE  /\ WaitClosed(SettledPolicies)
         /\ \A p \in Policies : Settled(admission[p].policy) => WaitClosed(SettledPolicies \cup {p})
  <1>1. \A p \in Policies : admission[p].policy \in Policies \cup {None} /\ p # None
    BY SchedulerAssumption DEF TypeOK, Calls, Admission
  <1>2. \A p \in Policies : Settled(admission[p].policy) =>
          admission[p].policy = None \/ admission[p].policy \in SettledPolicies
    BY <1>1 DEF Settled, SettledPolicies
  <1>3. \A p \in SettledPolicies : p \in Policies /\ Settled(admission[p].policy)
    BY DEF SettledPolicies, PolicyOrder
  <1> QED BY <1>2, <1>3 DEF WaitClosed

\* What is before a settled transition has settled.
LEMMA SettledBefore ==
  ASSUME TypeOK, PolicyOrder, NEW p \in Policies, NEW q \in Policies \cup {None},
         Before(p, q), Settled(q)
  PROVE  ~Unsettled(p)
  <1>1. q \in SettledPolicies
    BY SchedulerAssumption DEF Before, Settled, SettledPolicies, Calls
  <1>2. p \in SettledPolicies
    BY <1>1, SettledClosed DEF Before, SettledPolicies
  <1> QED BY <1>2 DEF SettledPolicies, Unsettled

\* No two transitions are past their barriers.
LEMMA OneTransition ==
  ASSUME TypeOK, PolicyOrder, NEW p \in Policies, NEW q \in Policies,
         Unsettled(p), Unsettled(q),
         Settled(admission[p].policy), Settled(admission[q].policy)
  PROVE  p = q
  <1>1. /\ WaitClosed(SettledPolicies \cup {p}) /\ WaitClosed(SettledPolicies \cup {q})
        /\ p \notin SettledPolicies /\ q \notin SettledPolicies
    BY SettledClosed DEF SettledPolicies, Unsettled
  <1>2. /\ SettledPolicies \cup {p} \in SUBSET Policies
        /\ SettledPolicies \cup {q} \in SUBSET Policies
    BY DEF SettledPolicies
  <1>3. Before(p, q) \/ Before(q, p)
    BY DEF PolicyOrder
  <1> QED BY <1>1, <1>2, <1>3 DEF Before

\* With the last transition settled none is left.
LEMMA TailSettled ==
  ASSUME TypeOK, PolicyOrder, Settled(policyTail)
  PROVE  ~PolicyPending
  <1> SUFFICES ASSUME NEW p \in Policies, Unsettled(p) PROVE FALSE
    BY DEF PolicyPending, Unsettled
  <1>1. Before(p, policyTail) /\ policyTail \in Policies \cup {None}
    BY DEF PolicyOrder, TypeOK
  <1> QED BY <1>1, SettledBefore

LEMMA OrderInit == Init => PolicyOrder
  <1> SUFFICES ASSUME Init PROVE PolicyOrder
    OBVIOUS
  <1>1. \A p \in Policies : pc[p] = "idle" /\ admission[p].policy = None
    BY DEF Init, NoAdmission, Calls
  <1> QED BY <1>1 DEF PolicyOrder, Unsettled, Settled

\* A step that admits no transition keeps what is before what.
LEMMA KeepBefore ==
  ASSUME \A r \in Policies : admission'[r].policy = admission[r].policy
  PROVE  \A p, q : Before(p, q)' <=> Before(p, q)
  <1>1. \A S \in SUBSET Policies : WaitClosed(S)' <=> WaitClosed(S)
    BY DEF WaitClosed
  <1> QED BY <1>1 DEF Before

LEMMA OrderKept ==
  ASSUME TypeOK, PolicyOrder, policyTail' = policyTail,
         \A p \in Policies : admission'[p].policy = admission[p].policy,
         \A p \in Policies :
            \/ pc'[p] = pc[p]
            \/ /\ pc[p] \in {"done", "failed"} => pc'[p] \in {"done", "failed"}
               /\ pc'[p] # "idle" /\ (Unsettled(p)' => Unsettled(p))
               /\ pc'[p] # "waiting" /\ Settled(admission[p].policy)
  PROVE  PolicyOrder'
  <1>1. \A p, q : Before(p, q)' <=> Before(p, q)
    BY KeepBefore
  <1>2. \A p \in Policies : Unsettled(p)' => Unsettled(p)
    BY DEF Unsettled
  <1>3. \A p \in Policies : admission[p].policy \in Policies \cup {None}
    BY DEF TypeOK, Calls, Admission
  <1>4. \A p \in Policies : Settled(admission[p].policy) => Settled(admission[p].policy)'
    BY <1>3 DEF Settled
  <1>5. \A p \in Policies : pc'[p] = "idle" => admission'[p].policy = None
    BY DEF PolicyOrder
  <1>6. \A p \in Policies : pc'[p] # "waiting" => Settled(admission[p].policy)'
    BY <1>4 DEF PolicyOrder
  <1>7. \A p \in Policies : Unsettled(p)' => Before(p, policyTail)'
    BY <1>1, <1>2 DEF PolicyOrder
  <1>8. \A p, q \in Policies : Unsettled(p)' /\ Unsettled(q)' => Before(p, q)' \/ Before(q, p)'
    BY <1>1, <1>2 DEF PolicyOrder
  <1> QED BY <1>5, <1>6, <1>7, <1>8 DEF PolicyOrder

\* A new transition is after all the others.
LEMMA OrderAdmitted ==
  ASSUME TypeOK, PolicyOrder, NEW p \in Policies, Alone(p), pc[p] = "idle",
         pc'[p] = "waiting", policyTail' = p, admission'[p].policy = policyTail
  PROVE  /\ PolicyOrder'
         /\ \A x, y : Before(x, y) => Before(x, y)'
         /\ \A q \in Policies : Unsettled(q) => Before(q, p)'
  <1>0. p # None /\ admission[p].policy = None /\ Policies \subseteq Calls
    BY SchedulerAssumption DEF PolicyOrder, Calls
  <1>1. \A S \in SUBSET Policies : WaitClosed(S)' => WaitClosed(S)
    BY <1>0 DEF WaitClosed, Alone
  <1>2. \A x, y : Before(x, y) => Before(x, y)'
    BY <1>1 DEF Before
  <1>3. \A q \in Policies : Unsettled(q) => Before(q, p)'
    <2> SUFFICES ASSUME NEW q \in Policies, Unsettled(q), NEW S \in SUBSET Policies, p \in S,
                        WaitClosed(S)'
                 PROVE  q \in S
      BY <1>0 DEF Before
    <2>1. Before(q, policyTail)
      BY DEF PolicyOrder
    <2>2. policyTail \in S
      BY <2>1 DEF WaitClosed, Before
    <2> QED BY <1>1, <2>1, <2>2 DEF Before
  <1>4. Before(p, p)'
    BY <1>0 DEF Before
  <1>5. \A q \in Policies : q # p => pc'[q] = pc[q] /\ admission'[q] = admission[q]
    BY <1>0 DEF Alone
  <1>6. \A q \in Policies : admission[q].policy \in Policies \cup {None}
    BY DEF TypeOK, Calls, Admission
  <1>7. \A q \in Policies : pc'[q] = "idle" => admission'[q].policy = None
    BY <1>5 DEF PolicyOrder
  <1>8. \A q \in Policies : pc'[q] # "waiting" => Settled(admission[q].policy)'
    BY <1>0, <1>5, <1>6 DEF PolicyOrder, Settled
  <1>9. \A q \in Policies : q # p /\ Unsettled(q)' => Unsettled(q)
    BY <1>5 DEF Unsettled
  <1>10. \A q \in Policies : Unsettled(q)' => Before(q, policyTail)'
    BY <1>3, <1>4, <1>9 DEF Before
  <1>11. \A x, q \in Policies : Unsettled(x)' /\ Unsettled(q)' => Before(x, q)' \/ Before(q, x)'
    BY <1>2, <1>3, <1>4, <1>9 DEF PolicyOrder
  <1> QED BY <1>2, <1>3, <1>7, <1>8, <1>10, <1>11 DEF PolicyOrder
-----------------------------------------------------------------------------
\* Work under way was captured by a transition that has not passed its barrier,
\* or waits for it.
Captures(p) == pc[p] \in {"waiting", "refused"}
InFlight(m) == pc[m] \in {"waiting", "native"}
ReadingAddress(a) == pc[a] \in {"waiting", "reading", "unlocking", "rereading"}
Unlocking(u) == unl[u] \in {"waiting", "native"}

MutationsOrdered ==
  \A p \in Policies, m \in Mutations : Unsettled(p) /\ InFlight(m) =>
    \/ Captures(p) /\ m \in admission[p].mutations
    \/ pc[m] = "waiting" /\ Before(p, admission[m].policy)
AddressOwned == \A a \in Addresses : ReadingAddress(a) => addressInFlight = a
AddressesOrdered ==
  \A p \in Policies, a \in Addresses : Unsettled(p) /\ ReadingAddress(a) =>
    \/ Captures(p) /\ admission[p].address = a
    \/ pc[a] = "waiting" /\ Before(p, admission[a].policy)
WorkOrdered ==
  PolicyOrder /\ MutationsOrdered /\ AddressOwned /\ AddressesOrdered

\* A step that leaves the transitions alone.
PoliciesKept ==
  /\ policyTail' = policyTail
  /\ \A p \in Policies : pc'[p] = pc[p] /\ admission'[p] = admission[p]

LEMMA PoliciesKeptOrder ==
  ASSUME TypeOK, PolicyOrder, PoliciesKept
  PROVE  /\ PolicyOrder'
         /\ \A p, q : Before(p, q)' <=> Before(p, q)
         /\ \A p \in Policies : (Unsettled(p)' <=> Unsettled(p)) /\ (Captures(p)' <=> Captures(p))
  BY OrderKept, KeepBefore DEF PoliciesKept, Unsettled, Captures

LEMMA KeepMutations ==
  ASSUME TypeOK, WorkOrdered, PoliciesKept,
         \A m \in Mutations : pc'[m] = pc[m] /\ admission'[m] = admission[m]
  PROVE  MutationsOrdered'
  BY PoliciesKeptOrder DEF WorkOrdered, MutationsOrdered, PoliciesKept, InFlight

LEMMA KeepAddresses ==
  ASSUME TypeOK, WorkOrdered, PoliciesKept,
         \A a \in Addresses : pc'[a] = pc[a] /\ admission'[a] = admission[a],
         addressInFlight' # addressInFlight => addressInFlight' = None /\ Settled(addressInFlight)
  PROVE  AddressOwned' /\ AddressesOrdered'
  <1>1. \A a \in Addresses : a # None
    BY SchedulerAssumption DEF Calls
  <1>2. AddressOwned'
    BY <1>1 DEF WorkOrdered, AddressOwned, ReadingAddress, Settled
  <1>3. AddressesOrdered'
    BY PoliciesKeptOrder DEF WorkOrdered, AddressesOrdered, PoliciesKept, ReadingAddress
  <1> QED BY <1>2, <1>3

LEMMA DisjointCalls ==
  /\ Mutations \subseteq Calls \ (Addresses \cup Policies \cup Manuals \cup Reads \cup Signs)
  /\ Addresses \subseteq Calls \ (Mutations \cup Policies \cup Manuals \cup Reads \cup Signs)
  /\ Policies \subseteq Calls \ (Mutations \cup Addresses \cup Manuals \cup Reads \cup Signs)
  /\ Manuals \subseteq Calls \ (Mutations \cup Addresses \cup Policies \cup Reads \cup Signs)
  /\ None \notin Calls \cup Unlocks \cup UnlockOps
  BY SchedulerAssumption DEF Calls, UnlockOps

LEMMA MutationOrdered ==
  ASSUME TypeOK, WorkOrdered, NEW m \in Mutations, Mutate(m) \/ MutationProgress(m)
  PROVE  WorkOrdered'
  <1>1. /\ Alone(m)
        /\ \/ pc'[m] \in {"done", "failed"} /\ admission'[m] = admission[m]
           \/ /\ pc[m] = "idle" /\ pc'[m] = "waiting" /\ Open /\ PolicyPending
              /\ admission'[m].policy = policyTail
           \/ /\ pc[m] = "idle" /\ pc'[m] = "native" /\ Open /\ ~PolicyPending
              /\ admission'[m] = admission[m]
           \/ /\ pc[m] = "waiting" /\ pc'[m] = "native" /\ Settled(admission[m].policy)
              /\ admission'[m] = admission[m]
        /\ UNCHANGED <<unl, flightVars, policyTail>>
    BY MutationEffect
  <1>2. /\ PoliciesKept
        /\ \A a \in Addresses : pc'[a] = pc[a] /\ admission'[a] = admission[a]
        /\ \A x \in Mutations \ {m} : pc'[x] = pc[x] /\ admission'[x] = admission[x]
    BY <1>1, DisjointCalls DEF Alone, PoliciesKept
  <1>3. /\ PolicyOrder' /\ \A p, q : Before(p, q)' <=> Before(p, q)
        /\ \A p \in Policies : (Unsettled(p)' <=> Unsettled(p)) /\ (Captures(p)' <=> Captures(p))
    BY <1>2, PoliciesKeptOrder DEF WorkOrdered
  <1>4. AddressOwned' /\ AddressesOrdered'
    BY <1>1, <1>2, KeepAddresses
  <1>5. ASSUME NEW p \in Policies, NEW x \in Mutations, Unsettled(p)', InFlight(x)'
        PROVE  \/ Captures(p)' /\ x \in admission'[p].mutations
               \/ pc'[x] = "waiting" /\ Before(p, admission[x].policy)'
    <2>1. Unsettled(p) /\ admission'[p] = admission[p]
      BY <1>2, <1>3, <1>5 DEF PoliciesKept
    <2>2. CASE x # m
      BY <1>2, <1>3, <1>5, <2>1, <2>2 DEF WorkOrdered, MutationsOrdered, InFlight
    <2>3. CASE x = m /\ pc[m] = "idle" /\ pc'[m] = "waiting" /\ admission'[m].policy = policyTail
      BY <1>3, <2>1, <2>3 DEF WorkOrdered, PolicyOrder
    <2>4. CASE x = m /\ pc[m] = "idle" /\ pc'[m] = "native" /\ ~PolicyPending
      BY <2>1, <2>4 DEF PolicyPending, Unsettled
    <2>5. CASE x = m /\ pc[m] = "waiting" /\ pc'[m] = "native" /\ Settled(admission[m].policy)
      <3>1. admission[m].policy \in Policies \cup {None}
        BY DisjointCalls DEF TypeOK, Admission
      <3>2. ~Before(p, admission[m].policy)
        BY <2>1, <2>5, <3>1, SettledBefore DEF WorkOrdered
      <3> QED BY <1>3, <2>1, <2>5, <3>2 DEF WorkOrdered, MutationsOrdered, InFlight
    <2> QED BY <1>1, <1>5, <2>2, <2>3, <2>4, <2>5 DEF InFlight
  <1>6. MutationsOrdered'
    BY <1>5 DEF MutationsOrdered
  <1> QED BY <1>3, <1>4, <1>6 DEF WorkOrdered

LEMMA AddressOrdered ==
  ASSUME TypeOK, WorkOrdered, NEW a \in Addresses, GetAddress(a) \/ AddressProgress(a)
  PROVE  WorkOrdered'
  <1>1. /\ Alone(a)
        /\ \/ /\ pc'[a] \in {"joined", "done", "failed"} /\ admission'[a] = admission[a]
              /\ UNCHANGED <<unl, flightVars>>
           \/ /\ pc[a] = "idle" /\ pc'[a] = "waiting" /\ Open
              /\ addressInFlight = None /\ addressInFlight' = a
              /\ admission'[a].policy = CurrentPolicy /\ UNCHANGED <<unl, unlockInFlight>>
           \/ /\ pc[a] = "waiting" /\ pc'[a] = "reading" /\ Settled(admission[a].policy)
              /\ admission'[a] = admission[a] /\ UNCHANGED <<unl, flightVars>>
           \/ /\ pc[a] = "reading" /\ pc'[a] = "unlocking" /\ AutoUnlock
              /\ addressInFlight' = addressInFlight
           \/ /\ pc[a] = "unlocking" /\ pc'[a] = "rereading"
              /\ admission'[a] = admission[a] /\ UNCHANGED <<unl, flightVars>>
        /\ policyTail' = policyTail
    BY AddressEffect
  <1>2. /\ PoliciesKept
        /\ \A m \in Mutations : pc'[m] = pc[m] /\ admission'[m] = admission[m]
        /\ \A x \in Addresses \ {a} : pc'[x] = pc[x] /\ admission'[x] = admission[x]
    BY <1>1, DisjointCalls DEF Alone, PoliciesKept
  <1>3. /\ PolicyOrder' /\ \A p, q : Before(p, q)' <=> Before(p, q)
        /\ \A p \in Policies : (Unsettled(p)' <=> Unsettled(p)) /\ (Captures(p)' <=> Captures(p))
    BY <1>2, PoliciesKeptOrder DEF WorkOrdered
  <1>4. MutationsOrdered'
    BY <1>2, KeepMutations
  <1>6. AddressOwned'
    BY <1>1, <1>2, DisjointCalls DEF WorkOrdered, AddressOwned, ReadingAddress
  <1>7. ASSUME NEW p \in Policies, NEW x \in Addresses, Unsettled(p)', ReadingAddress(x)'
        PROVE  \/ Captures(p)' /\ admission'[p].address = x
               \/ pc'[x] = "waiting" /\ Before(p, admission[x].policy)'
    <2>1. Unsettled(p) /\ admission'[p] = admission[p]
      BY <1>2, <1>3, <1>7 DEF PoliciesKept
    <2>2. CASE x # a
      BY <1>2, <1>3, <1>7, <2>1, <2>2 DEF WorkOrdered, AddressesOrdered, ReadingAddress
    <2>3. CASE x = a /\ pc'[a] = "waiting" /\ admission'[a].policy = CurrentPolicy
      <3>1. CurrentPolicy = policyTail
        BY <2>1 DEF CurrentPolicy, PolicyPending, Unsettled
      <3> QED BY <1>3, <2>1, <2>3, <3>1 DEF WorkOrdered, PolicyOrder
    <2>4. CASE x = a /\ pc[a] = "waiting" /\ pc'[a] = "reading" /\ Settled(admission[a].policy)
      <3>1. admission[a].policy \in Policies \cup {None}
        BY DisjointCalls DEF TypeOK, Admission
      <3>2. ~Before(p, admission[a].policy)
        BY <2>1, <2>4, <3>1, SettledBefore DEF WorkOrdered
      <3> QED BY <1>3, <2>1, <2>4, <3>2 DEF WorkOrdered, AddressesOrdered, ReadingAddress
    <2>5. CASE x = a /\ pc[a] \in {"reading", "unlocking"}
      BY <1>3, <2>1, <2>5 DEF WorkOrdered, AddressesOrdered, ReadingAddress
    <2> QED BY <1>1, <1>7, <2>2, <2>3, <2>4, <2>5 DEF ReadingAddress
  <1>8. AddressesOrdered'
    BY <1>7 DEF AddressesOrdered
  <1> QED BY <1>3, <1>4, <1>6, <1>8 DEF WorkOrdered

LEMMA UnlockOrdered ==
  ASSUME TypeOK, UnlockOwned, WorkOrdered, UnlockNext \/ UnlockProgress
  PROVE  WorkOrdered'
  <1>1. /\ PoliciesKept
        /\ \A m \in Mutations : pc'[m] = pc[m] /\ admission'[m] = admission[m]
        /\ \A a \in Addresses : pc'[a] = pc[a] /\ admission'[a] = admission[a]
        /\ addressInFlight' = addressInFlight
    BY UnlockEffect DEF Untouched, PoliciesKept
  <1>2. /\ PolicyOrder' /\ \A p, q : Before(p, q)' <=> Before(p, q)
        /\ \A p \in Policies : (Unsettled(p)' <=> Unsettled(p)) /\ (Captures(p)' <=> Captures(p))
    BY <1>1, PoliciesKeptOrder DEF WorkOrdered
  <1>3. MutationsOrdered' /\ AddressOwned' /\ AddressesOrdered'
    BY <1>1, KeepMutations, KeepAddresses
  <1> QED BY <1>2, <1>3 DEF WorkOrdered

LEMMA PolicyOrdered ==
  ASSUME TypeOK, UnlockOwned, WorkOrdered, NEW q \in Policies, PolicyProgress(q)
  PROVE  WorkOrdered'
  <1>1. /\ Alone(q)
        /\ \/ pc[q] = "waiting" /\ pc'[q] = "refused" /\ Settled(admission[q].policy)
           \/ /\ pc[q] = "waiting" /\ pc'[q] = "draining" /\ Settled(admission[q].policy)
              /\ UnlockSettled(admission[q].unlock) /\ Settled(admission[q].address)
              /\ \A m \in admission[q].mutations : Settled(m)
           \/ pc[q] = "draining" /\ pc'[q] \in {"queued", "refused"}
           \/ pc[q] = "queued" /\ pc'[q] \in {"native", "refused"}
           \/ pc[q] = "native" /\ pc'[q] \in {"acked", "refused"}
           \/ pc[q] = "acked" /\ pc'[q] = "done"
           \/ pc[q] = "refused" /\ pc'[q] = "failed"
        /\ \E ticket \in Nat : admission'[q] = [admission[q] EXCEPT !.ticket = ticket]
        /\ UNCHANGED <<unl, flightVars, policyTail>>
    BY PolicyEffect
  <1>2. /\ admission'[q].policy = admission[q].policy
        /\ admission'[q].unlock = admission[q].unlock
        /\ admission'[q].address = admission[q].address
        /\ admission'[q].mutations = admission[q].mutations
        /\ admission[q] \in Admission
    BY <1>1, DisjointCalls DEF TypeOK, Admission
  <1>3. /\ \A m \in Mutations : pc'[m] = pc[m] /\ admission'[m] = admission[m]
        /\ \A a \in Addresses : pc'[a] = pc[a] /\ admission'[a] = admission[a]
        /\ \A p \in Policies \ {q} : pc'[p] = pc[p] /\ admission'[p] = admission[p]
    BY <1>1, DisjointCalls DEF Alone
  <1>4. \A p \in Policies : admission'[p].policy = admission[p].policy
    BY <1>2, <1>3
  <1>5. PolicyOrder'
    BY <1>1, <1>3, <1>4, OrderKept DEF WorkOrdered, PolicyOrder, Unsettled
  <1>6. \A p, r : Before(p, r)' <=> Before(p, r)
    BY <1>4, KeepBefore
  <1>7. ASSUME NEW p \in Policies, Unsettled(p)'
        PROVE  /\ Unsettled(p)
               /\ \/ Captures(p) => Captures(p)'
                  \/ /\ UnlockSettled(admission[p].unlock) /\ Settled(admission[p].address)
                     /\ \A m \in admission[p].mutations : Settled(m)
               /\ admission'[p].unlock = admission[p].unlock
               /\ admission'[p].address = admission[p].address
               /\ admission'[p].mutations = admission[p].mutations
    BY <1>1, <1>2, <1>3, <1>7 DEF Unsettled, Captures
  <1>8. MutationsOrdered'
    <2> SUFFICES ASSUME NEW p \in Policies, NEW m \in Mutations, Unsettled(p)', InFlight(m)'
                 PROVE  \/ Captures(p)' /\ m \in admission'[p].mutations
                        \/ pc'[m] = "waiting" /\ Before(p, admission[m].policy)'
      BY DEF MutationsOrdered
    <2>1. \/ Captures(p) /\ m \in admission[p].mutations
          \/ pc[m] = "waiting" /\ Before(p, admission[m].policy)
      BY <1>3, <1>7 DEF WorkOrdered, MutationsOrdered, InFlight
    <2>2. CASE pc[m] = "waiting" /\ Before(p, admission[m].policy)
      BY <1>3, <1>6, <2>2
    <2>3. CASE Captures(p) /\ m \in admission[p].mutations
      BY <1>3, <1>7, <2>3, DisjointCalls DEF InFlight, Settled
    <2> QED BY <2>1, <2>2, <2>3
  <1>9. AddressOwned'
    BY <1>1, <1>3 DEF WorkOrdered, AddressOwned, ReadingAddress
  <1>10. AddressesOrdered'
    <2> SUFFICES ASSUME NEW p \in Policies, NEW a \in Addresses, Unsettled(p)', ReadingAddress(a)'
                 PROVE  \/ Captures(p)' /\ admission'[p].address = a
                        \/ pc'[a] = "waiting" /\ Before(p, admission[a].policy)'
      BY DEF AddressesOrdered
    <2>1. \/ Captures(p) /\ admission[p].address = a
          \/ pc[a] = "waiting" /\ Before(p, admission[a].policy)
      BY <1>3, <1>7 DEF WorkOrdered, AddressesOrdered, ReadingAddress
    <2>2. CASE pc[a] = "waiting" /\ Before(p, admission[a].policy)
      BY <1>3, <1>6, <2>2
    <2>3. CASE Captures(p) /\ admission[p].address = a
      BY <1>3, <1>7, <2>3, DisjointCalls DEF ReadingAddress, Settled
    <2> QED BY <2>1, <2>2, <2>3
  <1> QED BY <1>5, <1>8, <1>9, <1>10 DEF WorkOrdered

\* A new transition captures the work in flight.
LEMMA SetOrdered ==
  ASSUME TypeOK, UnlockOwned, WorkOrdered, NEW q \in Policies, SetVssAutomatic(q)
  PROVE  WorkOrdered'
  <1>1. /\ Alone(q) /\ pc[q] = "idle"
        /\ \/ pc'[q] = "failed" /\ admission'[q] = admission[q] /\ policyTail' = policyTail
           \/ /\ Open /\ pc'[q] = "waiting" /\ policyTail' = q
              /\ admission'[q] =
                   [policy |-> policyTail, unlock |-> CurrentUnlock, address |-> addressInFlight,
                    mutations |-> MutationsInFlight, ticket |-> 0]
        /\ UNCHANGED <<unl, flightVars>>
    BY SetPolicyEffect
  <1>2. /\ \A m \in Mutations : pc'[m] = pc[m] /\ admission'[m] = admission[m]
        /\ \A a \in Addresses : pc'[a] = pc[a] /\ admission'[a] = admission[a]
        /\ \A p \in Policies \ {q} : pc'[p] = pc[p] /\ admission'[p] = admission[p]
    BY <1>1, DisjointCalls DEF Alone
  <1>3. PolicyOrder' /\ \A x, y : Before(x, y) => Before(x, y)'
    <2>1. CASE pc'[q] = "failed" /\ admission'[q] = admission[q] /\ policyTail' = policyTail
      <3>1. \A p \in Policies : admission'[p].policy = admission[p].policy
        BY <1>2, <2>1
      <3>2. Settled(admission[q].policy)
        BY <1>1 DEF WorkOrdered, PolicyOrder, Settled
      <3>3. PolicyOrder'
        BY <1>1, <1>2, <2>1, <3>1, <3>2, OrderKept DEF WorkOrdered, Unsettled
      <3> QED BY <3>1, <3>3, KeepBefore
    <2>2. CASE /\ pc'[q] = "waiting" /\ policyTail' = q
               /\ admission'[q] =
                    [policy |-> policyTail, unlock |-> CurrentUnlock, address |-> addressInFlight,
                     mutations |-> MutationsInFlight, ticket |-> 0]
      BY <1>1, <2>2, OrderAdmitted DEF WorkOrdered
    <2> QED BY <1>1, <2>1, <2>2
  <1>4. ASSUME NEW p \in Policies, Unsettled(p)'
        PROVE  \/ /\ p # q /\ Unsettled(p) /\ (Captures(p)' <=> Captures(p))
                  /\ admission'[p] = admission[p]
               \/ /\ p = q /\ Captures(p)'
                  /\ admission'[p].unlock = CurrentUnlock
                  /\ admission'[p].address = addressInFlight
                  /\ admission'[p].mutations = MutationsInFlight
    BY <1>1, <1>2, <1>4 DEF Unsettled, Captures
  <1>5. MutationsOrdered'
    <2> SUFFICES ASSUME NEW p \in Policies, NEW m \in Mutations, Unsettled(p)', InFlight(m)'
                 PROVE  \/ Captures(p)' /\ m \in admission'[p].mutations
                        \/ pc'[m] = "waiting" /\ Before(p, admission[m].policy)'
      BY DEF MutationsOrdered
    <2>1. InFlight(m) /\ m \in MutationsInFlight
      BY <1>2 DEF InFlight, MutationsInFlight
    <2>2. Before(p, admission[m].policy) => Before(p, admission[m].policy)'
      <3>1. PICK x : x = admission[m].policy /\ x = admission'[m].policy
        BY <1>2
      <3>2. Before(p, admission[m].policy) => Before(p, x)'
        BY <1>3, <3>1
      <3>3. Before(p, x)' => Before(p, admission[m].policy)'
        BY <3>1 DEF Before
      <3> QED BY <3>2, <3>3
    <2> QED BY <1>2, <1>4, <2>1, <2>2 DEF WorkOrdered, MutationsOrdered
  <1>6. AddressOwned'
    BY <1>1, <1>2 DEF WorkOrdered, AddressOwned, ReadingAddress
  <1>7. AddressesOrdered'
    <2> SUFFICES ASSUME NEW p \in Policies, NEW a \in Addresses, Unsettled(p)', ReadingAddress(a)'
                 PROVE  \/ Captures(p)' /\ admission'[p].address = a
                        \/ pc'[a] = "waiting" /\ Before(p, admission[a].policy)'
      BY DEF AddressesOrdered
    <2>1. ReadingAddress(a) /\ addressInFlight = a
      BY <1>2 DEF ReadingAddress, WorkOrdered, AddressOwned
    <2>2. Before(p, admission[a].policy) => Before(p, admission[a].policy)'
      <3>1. PICK x : x = admission[a].policy /\ x = admission'[a].policy
        BY <1>2
      <3>2. Before(p, admission[a].policy) => Before(p, x)'
        BY <1>3, <3>1
      <3>3. Before(p, x)' => Before(p, admission[a].policy)'
        BY <3>1 DEF Before
      <3> QED BY <3>2, <3>3
    <2> QED BY <1>2, <1>4, <2>1, <2>2 DEF WorkOrdered, AddressesOrdered
  <1> QED BY <1>3, <1>5, <1>6, <1>7 DEF WorkOrdered

\* A step that touches no transition, mutation, address or unlock.
LEMMA RestOrdered ==
  ASSUME TypeOK, WorkOrdered, PoliciesKept, UNCHANGED <<unl, unlockInFlight>>,
         \A c \in Mutations \cup Addresses : pc'[c] = pc[c] /\ admission'[c] = admission[c],
         addressInFlight' # addressInFlight => addressInFlight' = None /\ Settled(addressInFlight)
  PROVE  WorkOrdered'
  <1>1. PolicyOrder'
    BY PoliciesKeptOrder DEF WorkOrdered
  <1>2. MutationsOrdered'
    BY KeepMutations
  <1>3. AddressOwned' /\ AddressesOrdered'
    BY KeepAddresses
  <1> QED BY <1>1, <1>2, <1>3 DEF WorkOrdered

LEMMA WorkOrderedInit == Init => WorkOrdered
  <1> SUFFICES ASSUME Init PROVE WorkOrdered
    OBVIOUS
  <1>1. \A c \in Calls : pc[c] = "idle"
    BY DEF Init
  <1>2. \A u \in UnlockOps : unl[u] = "idle"
    BY DEF Init
  <1> QED BY <1>1, <1>2, OrderInit, DisjointCalls
       DEF WorkOrdered, MutationsOrdered, AddressOwned, AddressesOrdered,
           Unsettled, ReadingAddress

LEMMA WorkOrderedStep ==
  TypeOK /\ UnlockOwned /\ WorkOrdered /\ [Next]_vars => WorkOrdered'
  <1> SUFFICES ASSUME TypeOK, UnlockOwned, WorkOrdered, [Next]_vars PROVE WorkOrdered'
    OBVIOUS
  <1>1. CASE UnlockNext \/ UnlockProgress
    BY <1>1, UnlockOrdered
  <1>2. ASSUME NEW a \in Addresses, GetAddress(a) \/ AddressProgress(a) PROVE WorkOrdered'
    BY <1>2, AddressOrdered
  <1>3. ASSUME NEW m \in Mutations, Mutate(m) \/ MutationProgress(m) PROVE WorkOrdered'
    BY <1>3, MutationOrdered
  <1>4. ASSUME NEW p \in Policies, SetVssAutomatic(p) PROVE WorkOrdered'
    BY <1>4, SetOrdered
  <1>5. ASSUME NEW p \in Policies, PolicyProgress(p) PROVE WorkOrdered'
    BY <1>5, PolicyOrdered
  <1>6. ASSUME NEW c \in Manuals \cup Reads \cup Signs,
               \/ c \in Manuals /\ (VssBackup(c) \/ ManualProgress(c))
               \/ c \in Reads /\ (ReadMetadata(c) \/ ReadEnd(c))
               \/ c \in Signs /\ (SignMessage(c) \/ SignProgress(c))
        PROVE  WorkOrdered'
    <2>1. Alone(c) /\ UNCHANGED <<unl, flightVars, policyTail>>
      BY <1>6, AsideEffect
    <2>2. /\ PoliciesKept
          /\ \A d \in Mutations \cup Addresses : pc'[d] = pc[d] /\ admission'[d] = admission[d]
      BY <2>1, DisjointCalls DEF Alone, PoliciesKept
    <2> QED BY <2>1, <2>2, RestOrdered
  <1>7. CASE \/ AddressClear \/ CheckpointProgress \/ Shutdown \/ ShutdownProgress
             \/ UNCHANGED vars
    <2>1. /\ PoliciesKept /\ UNCHANGED <<unl, unlockInFlight>>
          /\ \A d \in Mutations \cup Addresses : pc'[d] = pc[d] /\ admission'[d] = admission[d]
          /\ addressInFlight' # addressInFlight =>
               addressInFlight' = None /\ Settled(addressInFlight)
      BY <1>7, QuietEffect DEF Untouched, PoliciesKept
    <2> QED BY <2>1, RestOrdered
  <1> QED BY <1>1, <1>2, <1>3, <1>4, <1>5, <1>6, <1>7, StepCases
-----------------------------------------------------------------------------
\* The cached preference is forgotten or it is the native one, and a confirmed
\* transition nobody came after decided the native one.
ChoiceKept ==
  /\ automatic \in {"null", nativePolicy}
  /\ policyTail # None /\ pc[policyTail] \in {"acked", "done"} => nativePolicy = want[policyTail]

\* Only a transition changes the native preference; all else keeps, reads or
\* forgets it.
LEMMA AutomaticAfterWork ==
  ASSUME NEW c, AfterVssMutation(c) \/ NoVssMutation
  PROVE  automatic' \in {"null", nativePolicy, automatic}
  BY DEF AfterVssMutation, NoVssMutation

LEMMA AutomaticRead ==
  ASSUME TypeOK, [Next]_vars,
         \A q \in Policies : ~PolicyEnd(q)
  PROVE  automatic' \in {"null", nativePolicy, automatic} /\ nativePolicy' = nativePolicy
  <1>1. CASE UnlockNext \/ UnlockProgress
    BY <1>1, AutomaticAfterWork DEF UnlockNext, UnlockProgress, Unlock, UnlockStart, UnlockEnd,
       UnlockClear
  <1>2. ASSUME NEW a \in Addresses, GetAddress(a) \/ AddressProgress(a)
        PROVE  automatic' \in {"null", nativePolicy, automatic} /\ nativePolicy' = nativePolicy
    BY <1>2, AutomaticAfterWork DEF GetAddress, AddressProgress, AddressStart, AddressEnd,
       AddressRead, AddressLocked, AddressUnlocked
  <1>3. ASSUME NEW m \in Mutations, Mutate(m) \/ MutationProgress(m)
        PROVE  automatic' \in {"null", nativePolicy, automatic} /\ nativePolicy' = nativePolicy
    BY <1>3, AutomaticAfterWork DEF Mutate, MutationProgress, MutationDispatch, MutationEnd
  <1>4. ASSUME NEW q \in Policies, SetVssAutomatic(q) \/ PolicyProgress(q)
        PROVE  automatic' \in {"null", nativePolicy, automatic} /\ nativePolicy' = nativePolicy
    BY <1>4 DEF SetVssAutomatic, PolicyProgress, PolicyRefuse, PolicyDrain, PolicyEnqueue,
       PolicyStart, PolicySettle
  <1>5. ASSUME NEW c \in Manuals \cup Reads \cup Signs,
               \/ c \in Manuals /\ (VssBackup(c) \/ ManualProgress(c))
               \/ c \in Reads /\ (ReadMetadata(c) \/ ReadEnd(c))
               \/ c \in Signs /\ (SignMessage(c) \/ SignProgress(c))
        PROVE  automatic' \in {"null", nativePolicy, automatic} /\ nativePolicy' = nativePolicy
    BY <1>5 DEF VssBackup, ManualProgress, VssBackupEnqueue, VssBackupStart, VssBackupEnd,
       ReadMetadata, ReadEnd, SignMessage, SignProgress, SignStart, SignEnd
  <1>6. CASE AddressClear \/ CheckpointProgress
    BY <1>6 DEF AddressClear, CheckpointProgress, CheckpointStart, CheckpointEnd, CheckpointClear
  <1>7. CASE Shutdown \/ ShutdownProgress \/ UNCHANGED vars
    BY <1>7 DEF Shutdown, ShutdownProgress, ShutdownDrain, ShutdownNative, ShutdownEnd, vars
  <1> QED BY <1>1, <1>2, <1>3, <1>4, <1>5, <1>6, <1>7, StepCases

LEMMA TailKept ==
  ASSUME TypeOK, [Next]_vars
  PROVE  /\ want' = want
         /\ \/ policyTail' = policyTail
            \/ policyTail' \in Policies /\ pc'[policyTail'] = "waiting"
         /\ \A p \in Policies : pc'[p] \in {"acked", "done"} =>
              \/ pc[p] \in {"acked", "done"}
              \/ pc[p] = "native" /\ PolicyEnd(p)
  <1> DEFINE Goal ==
         /\ want' = want
         /\ \/ policyTail' = policyTail
            \/ policyTail' \in Policies /\ pc'[policyTail'] = "waiting"
         /\ \A p \in Policies : pc'[p] \in {"acked", "done"} =>
              \/ pc[p] \in {"acked", "done"}
              \/ pc[p] = "native" /\ PolicyEnd(p)
  <1>1. CASE UnlockNext \/ UnlockProgress
    BY <1>1, UnlockEffect DEF Untouched
  <1>2. ASSUME NEW a \in Addresses, GetAddress(a) \/ AddressProgress(a) PROVE Goal
    BY <1>2, AddressEffect, DisjointCalls DEF Alone
  <1>3. ASSUME NEW m \in Mutations, Mutate(m) \/ MutationProgress(m) PROVE Goal
    BY <1>3, MutationEffect, DisjointCalls DEF Alone
  <1>4. ASSUME NEW q \in Policies, SetVssAutomatic(q) PROVE Goal
    BY <1>4, SetPolicyEffect, DisjointCalls DEF Alone
  <1>5. ASSUME NEW q \in Policies, PolicyProgress(q) PROVE Goal
    <2>1. \A p \in Policies \ {q} : pc'[p] = pc[p]
      BY <1>5, PolicyEffect, DisjointCalls DEF Alone
    <2>2. want' = want /\ policyTail' = policyTail
      BY <1>5, PolicyEffect
    <2>3. pc'[q] \in {"acked", "done"} => pc[q] = "acked" \/ pc[q] = "native"
      BY <1>5, PolicyEffect
    <2>4. pc[q] = "native" /\ pc'[q] \in {"acked", "done"} => PolicyEnd(q)
      BY <1>5 DEF PolicyProgress, PolicyRefuse, PolicyDrain, PolicyEnqueue, PolicyStart, PolicySettle
    <2> QED BY <2>1, <2>2, <2>3, <2>4
  <1>6. ASSUME NEW c \in Manuals \cup Reads \cup Signs,
               \/ c \in Manuals /\ (VssBackup(c) \/ ManualProgress(c))
               \/ c \in Reads /\ (ReadMetadata(c) \/ ReadEnd(c))
               \/ c \in Signs /\ (SignMessage(c) \/ SignProgress(c))
        PROVE  Goal
    BY <1>6, AsideEffect, DisjointCalls DEF Alone
  <1>7. CASE \/ AddressClear \/ CheckpointProgress \/ Shutdown \/ ShutdownProgress
             \/ UNCHANGED vars
    BY <1>7, QuietEffect DEF Untouched
  <1> QED BY <1>1, <1>2, <1>3, <1>4, <1>5, <1>6, <1>7, StepCases

LEMMA ChoiceStep ==
  TypeOK /\ WorkOrdered /\ ChoiceKept /\ [Next]_vars => ChoiceKept'
  <1> SUFFICES ASSUME TypeOK, WorkOrdered, ChoiceKept, [Next]_vars PROVE ChoiceKept'
    OBVIOUS
  <1>0. policyTail \in Policies \cup {None} /\ \A p \in Policies : p # None
    BY DisjointCalls DEF TypeOK
  <1>1. CASE \A q \in Policies : ~PolicyEnd(q)
    <2>1. automatic' \in {"null", nativePolicy, automatic} /\ nativePolicy' = nativePolicy
      BY <1>1, AutomaticRead
    <2>2. policyTail' # None /\ pc'[policyTail'] \in {"acked", "done"} =>
            policyTail' = policyTail /\ pc[policyTail] \in {"acked", "done"}
      BY <1>0, <1>1, TailKept
    <2> QED BY <2>1, <2>2, TailKept DEF ChoiceKept
  <1>2. ASSUME NEW q \in Policies, PolicyEnd(q) PROVE ChoiceKept'
    <2>1. policyTail' = policyTail /\ want' = want /\ pc[q] = "native"
          /\ (PolicyConfirm(q) \/ PolicyUnknown(q))
      BY <1>2 DEF PolicyEnd
    <2>2. automatic' \in {"null", nativePolicy'}
      BY <2>1 DEF PolicyConfirm, PolicyUnknown
    <2>3. ASSUME policyTail # None, pc'[policyTail] \in {"acked", "done"}
          PROVE  nativePolicy' = want'[policyTail]
      <3>1. CASE policyTail = q
        BY <2>1, <2>3, <3>1, DisjointCalls DEF PolicyConfirm, PolicyUnknown, TypeOK
      <3>2. CASE policyTail # q
        <4>1. pc'[policyTail] = pc[policyTail]
          BY <1>0, <2>1, <2>3, <3>2, DisjointCalls DEF PolicyConfirm, PolicyUnknown, TypeOK
        <4>2. Unsettled(q) /\ PolicyPending
          BY <2>1 DEF Unsettled, PolicyPending
        <4>3. pc[policyTail] = "acked"
          BY <2>3, <4>1, <4>2, TailSettled DEF WorkOrdered, Settled
        <4> QED BY <1>0, <2>1, <2>3, <3>2, <4>2, <4>3, OneTransition
                DEF WorkOrdered, PolicyOrder, Unsettled
      <3> QED BY <3>1, <3>2
    <2> QED BY <2>1, <2>2, <2>3 DEF ChoiceKept
  <1> QED BY <1>1, <1>2

\* Once every transition has settled the cached preference is unknown or the
\* native one, and a last request that succeeded got what it asked for: no
\* metadata read, completed mutation or late transition brings an older
\* preference back.
THEOREM SchedulerConfirmedChoice == Spec => []ConfirmedChoice
  <1>1. Init => ChoiceKept
    BY DEF Init, ChoiceKept
  <1>2. ChoiceKept => ConfirmedChoice
    BY DEF ChoiceKept, ConfirmedChoice
  <1> QED BY <1>1, <1>2, ChoiceStep, SchedulerTypeCorrect, OwnedInit, OwnedStep,
       WorkOrderedInit, WorkOrderedStep, PTL DEF Spec

-----------------------------------------------------------------------------
\* What a step does to the backups: completed work, a step of a transition, a
\* manual backup or the checkpoint, or nothing.
WorkNative ==
  \/ \E m \in Mutations : pc[m] = "native"
  \/ \E a \in Addresses : pc[a] \in {"reading", "rereading"}
  \/ \E u \in UnlockOps : unl[u] = "native"
BackupsKept == \A c \in Manuals \cup Policies : pc'[c] = pc[c] /\ admission'[c] = admission[c]
Worked ==
  /\ WorkNative /\ BackupsKept
  /\ \E c \in Work : AfterVssMutation(c)
  /\ UNCHANGED <<served, uploading, checkpointNative, nativePolicy, want>>
NotWorked ==
  /\ BackupsKept
  /\ UNCHANGED <<dirty, unsaved, uploading, checkpointNative, vssQueue, served, nativePolicy, want>>

LEMMA BackupCases ==
  ASSUME TypeOK, [Next]_vars
  PROVE  \/ Worked \/ NotWorked
         \/ \E p \in Policies : SetVssAutomatic(p) \/ PolicyProgress(p)
         \/ \E v \in Manuals : VssBackup(v) \/ ManualProgress(v)
         \/ CheckpointProgress
  <1> DEFINE Goal == Worked \/ NotWorked
  <1> USE DEF Worked, NotWorked, NoVssMutation
  <1>1. CASE UnlockNext \/ UnlockProgress
    <2>1. BackupsKept
      BY <1>1, UnlockEffect DEF Untouched, BackupsKept
    <2>2. CASE UnlockNext \/ UnlockClear \/ \E u \in UnlockOps : UnlockStart(u)
      BY <2>1, <2>2 DEF UnlockNext, Unlock, UnlockStart, UnlockClear
    <2>3. ASSUME NEW u \in UnlockOps, UnlockEnd(u) PROVE Goal
      BY <2>1, <2>3 DEF UnlockEnd, WorkNative, Work
    <2> QED BY <1>1, <2>2, <2>3 DEF UnlockProgress
  <1>2. ASSUME NEW a \in Addresses, GetAddress(a) \/ AddressProgress(a) PROVE Goal
    <2>1. BackupsKept
      BY <1>2, AddressEffect, DisjointCalls DEF Alone, BackupsKept
    <2>2. CASE GetAddress(a) \/ AddressStart(a) \/ AddressLocked(a) \/ AddressUnlocked(a)
      BY <2>1, <2>2 DEF GetAddress, AddressStart, AddressLocked, AddressUnlocked
    <2>3. CASE AddressEnd(a)
      BY <2>1, <2>3 DEF AddressEnd, AddressRead, WorkNative, Work, UnlockOps
    <2> QED BY <1>2, <2>2, <2>3 DEF AddressProgress
  <1>3. ASSUME NEW m \in Mutations, Mutate(m) \/ MutationProgress(m) PROVE Goal
    <2>1. BackupsKept
      BY <1>3, MutationEffect, DisjointCalls DEF Alone, BackupsKept
    <2>2. CASE Mutate(m) \/ MutationDispatch(m)
      BY <2>1, <2>2 DEF Mutate, MutationDispatch
    <2>3. CASE MutationEnd(m)
      BY <2>1, <2>3 DEF MutationEnd, WorkNative, Work
    <2> QED BY <1>3, <2>2, <2>3 DEF MutationProgress
  <1>4. ASSUME NEW c \in Reads \cup Signs,
               \/ c \in Reads /\ (ReadMetadata(c) \/ ReadEnd(c))
               \/ c \in Signs /\ (SignMessage(c) \/ SignProgress(c))
        PROVE  Goal
    <2>1. BackupsKept
      BY <1>4, AsideEffect, DisjointCalls DEF Alone, BackupsKept
    <2> QED BY <1>4, <2>1 DEF ReadMetadata, ReadEnd, SignMessage, SignProgress, SignStart, SignEnd
  <1>5. CASE AddressClear \/ Shutdown \/ ShutdownProgress \/ UNCHANGED vars
    <2>1. BackupsKept
      BY <1>5, QuietEffect DEF Untouched, BackupsKept
    <2> QED BY <1>5, <2>1 DEF AddressClear, Shutdown, ShutdownProgress, ShutdownDrain,
         ShutdownNative, ShutdownEnd, vars
  <1> QED BY <1>1, <1>2, <1>3, <1>4, <1>5, StepCases

\* The unlock an address owns runs while that address awaits it.
AddressUnlocks ==
  \A a \in Addresses : Unlocking(a) => pc[a] = "unlocking" /\ admission[a].unlock = a

LEMMA SideCalls ==
  /\ Signs \subseteq Calls \ (Addresses \cup Mutations \cup Policies \cup Manuals \cup Reads)
  /\ Reads \subseteq Calls \ (Addresses \cup Mutations \cup Policies \cup Manuals \cup Signs)
  /\ Manuals \cup Reads \cup Signs \subseteq Calls
  /\ Addresses \subseteq UnlockOps /\ Addresses \cap Unlocks = {} /\ Unlocks \subseteq UnlockOps
  BY SchedulerAssumption DEF Calls, UnlockOps

LEMMA AddressUnlocksStep == TypeOK /\ AddressUnlocks /\ [Next]_vars => AddressUnlocks'
  <1> SUFFICES ASSUME TypeOK, AddressUnlocks, [Next]_vars PROVE AddressUnlocks'
    OBVIOUS
  <1>0. unl \in [UnlockOps -> UnlockPhases]
    BY DEF TypeOK
  <1>1. CASE UnlockNext \/ UnlockProgress
    <2>1. Untouched /\ \A a \in Addresses : Unlocking(a)' => Unlocking(a)
      BY <1>0, <1>1, UnlockEffect, SideCalls DEF Unlocking, UnlockWithPolicy, UnlockClear
    <2> QED BY <2>1 DEF AddressUnlocks, Untouched
  <1>2. ASSUME NEW a \in Addresses, GetAddress(a) \/ AddressProgress(a) PROVE AddressUnlocks'
    <2>1. \A b \in Addresses \ {a} : pc'[b] = pc[b] /\ admission'[b] = admission[b]
      BY <1>2, AddressEffect, DisjointCalls DEF Alone
    <2>2. \A b \in Addresses \ {a} : Unlocking(b)' => Unlocking(b)
      BY <1>0, <1>2, AddressEffect, SideCalls DEF Unlocking, UnlockWithPolicy
    <2>3. CASE pc[a] = "unlocking" /\ UnlockSettled(admission[a].unlock) /\ unl' = unl
      BY <2>1, <2>2, <2>3, DisjointCalls DEF AddressUnlocks, Unlocking, UnlockSettled
    <2>4. CASE pc[a] # "unlocking" /\ unl' = unl
      BY <2>1, <2>2, <2>4 DEF AddressUnlocks, Unlocking
    <2>5. CASE /\ pc[a] = "reading" /\ pc'[a] = "unlocking"
               /\ UnlockWithPolicy(a, "auto", admission[a].policy)
               /\ admission'[a] = [admission[a] EXCEPT !.unlock =
                    IF unlockInFlight = None THEN a ELSE CurrentUnlock]
      <3>1. admission[a] \in Admission
        BY DisjointCalls DEF TypeOK
      <3>2. unlockInFlight = None => admission'[a].unlock = a
        BY <2>5, <3>1 DEF Admission
      <3>3. unlockInFlight # None => ~Unlocking(a)'
        BY <2>5 DEF UnlockWithPolicy, AddressUnlocks, Unlocking
      <3> QED BY <2>1, <2>2, <2>5, <3>2, <3>3 DEF AddressUnlocks
    <2> QED BY <1>2, <2>3, <2>4, <2>5, AddressEffect
  <1>3. ASSUME UNCHANGED unl,
               \A a \in Addresses : pc'[a] = pc[a] /\ admission'[a] = admission[a]
        PROVE  AddressUnlocks'
    BY <1>3 DEF AddressUnlocks, Unlocking
  <1>4. ASSUME NEW c \in Calls \ Addresses, Alone(c), UNCHANGED unl PROVE AddressUnlocks'
    BY <1>3, <1>4, DisjointCalls DEF Alone
  <1>5. ASSUME NEW m \in Mutations, Mutate(m) \/ MutationProgress(m) PROVE AddressUnlocks'
    BY <1>4, <1>5, MutationEffect, DisjointCalls
  <1>6. ASSUME NEW p \in Policies, SetVssAutomatic(p) \/ PolicyProgress(p) PROVE AddressUnlocks'
    BY <1>4, <1>6, SetPolicyEffect, PolicyEffect, DisjointCalls
  <1>7. ASSUME NEW c \in Manuals \cup Reads \cup Signs,
               \/ c \in Manuals /\ (VssBackup(c) \/ ManualProgress(c))
               \/ c \in Reads /\ (ReadMetadata(c) \/ ReadEnd(c))
               \/ c \in Signs /\ (SignMessage(c) \/ SignProgress(c))
        PROVE  AddressUnlocks'
    BY <1>4, <1>7, AsideEffect, DisjointCalls, SideCalls
  <1>8. CASE \/ AddressClear \/ CheckpointProgress \/ Shutdown \/ ShutdownProgress
             \/ UNCHANGED vars
    BY <1>3, <1>8, QuietEffect DEF Untouched
  <1> QED BY <1>1, <1>2, <1>5, <1>6, <1>7, <1>8, StepCases

\* The application calls unlock() beside no address read whose automatic unlock
\* could be joined: such an unlock takes over the barrier of the address, which
\* may be older than the transitions under way.
UnlockApart ==
  AutoUnlock => \A u \in Unlocks :
    unl[u] = "idle" /\ unl'[u] = "waiting" => addressInFlight = None
UnlocksApart == [][UnlockApart]_vars

\* This is so when there is no automatic unlock, and when it is the only one.
LEMMA UnlocksUnmixed == ASSUME AutoUnlock => Unlocks = {} PROVE UnlocksApart
  <1>1. UnlockApart
    BY DEF UnlockApart
  <1> QED BY <1>1, PTL DEF UnlocksApart

\* An unlock of the application is captured by a transition, or waits for it.
UnlocksOrdered ==
  \A p \in Policies, u \in Unlocks : Unsettled(p) /\ Unlocking(u) =>
    \/ Captures(p) /\ admission[p].unlock = u
    \/ unl[u] = "waiting" /\ Before(p, unlockInFlight.policy)

LEMMA UnlocksOrderedKept ==
  ASSUME TypeOK, WorkOrdered, UnlocksOrdered, PoliciesKept,
         \A u \in Unlocks : Unlocking(u)' =>
           unl'[u] = unl[u] /\ unlockInFlight' = unlockInFlight
  PROVE  UnlocksOrdered'
  <1> SUFFICES ASSUME NEW p \in Policies, NEW u \in Unlocks, Unsettled(p)', Unlocking(u)'
               PROVE  \/ Captures(p)' /\ admission'[p].unlock = u
                      \/ unl'[u] = "waiting" /\ Before(p, unlockInFlight.policy)'
    BY DEF UnlocksOrdered
  <1>1. /\ Unsettled(p) /\ admission'[p] = admission[p] /\ (Captures(p)' <=> Captures(p))
        /\ Unlocking(u) /\ unl'[u] = unl[u] /\ unlockInFlight' = unlockInFlight
    BY PoliciesKeptOrder DEF WorkOrdered, PoliciesKept, Unlocking
  <1>2. PICK x : x = unlockInFlight.policy /\ x = unlockInFlight'.policy
    BY <1>1
  <1>3. Before(p, unlockInFlight.policy) => Before(p, x)'
    BY <1>2, PoliciesKeptOrder DEF WorkOrdered
  <1>4. Before(p, x)' => Before(p, unlockInFlight.policy)'
    BY <1>2 DEF Before
  <1> QED BY <1>1, <1>3, <1>4 DEF UnlocksOrdered

LEMMA UnlocksOrderedUnlock ==
  ASSUME TypeOK, UnlockOwned, WorkOrdered, UnlocksOrdered, UnlockNext \/ UnlockProgress,
         [UnlockApart]_vars
  PROVE  UnlocksOrdered'
  <1>1. PoliciesKept
    BY UnlockEffect DEF Untouched, PoliciesKept
  <1>2. unl \in [UnlockOps -> UnlockPhases] /\ Unlocks \subseteq UnlockOps
    BY SideCalls DEF TypeOK
  <1>3. ASSUME NEW v \in Unlocks, NEW request \in Requests, Open, unl[v] = "idle",
               unlockInFlight = None, UnlockWithPolicy(v, request, UnlockPolicy(request))
        PROVE  UnlocksOrdered'
    <2> SUFFICES ASSUME NEW p \in Policies, NEW u \in Unlocks, Unsettled(p)', Unlocking(u)'
                 PROVE  unl'[u] = "waiting" /\ Before(p, unlockInFlight.policy)'
      BY DEF UnlocksOrdered
    <2>1. unl'[v] = "waiting" /\ unl'[u] = "waiting"
          /\ unlockInFlight'.policy = UnlockPolicy(request)
      BY <1>2, <1>3 DEF UnlockWithPolicy, UnlockOwned, Unlocking
    <2>2. AutoUnlock => addressInFlight = None
      BY <1>3, <2>1 DEF UnlockApart, vars
    <2>3. Unsettled(p)
      BY <1>1, PoliciesKeptOrder DEF WorkOrdered
    <2>4. UnlockPolicy(request) = policyTail
      BY <2>2, <2>3 DEF UnlockPolicy, CurrentPolicy, PolicyPending, Unsettled
    <2>5. PICK x : x = policyTail /\ x = unlockInFlight'.policy
      BY <2>1, <2>4
    <2>6. Before(p, x)'
      BY <1>1, <2>3, <2>5, PoliciesKeptOrder DEF WorkOrdered, PolicyOrder
    <2> QED BY <2>1, <2>5, <2>6 DEF Before
  <1>4. ASSUME NEW v \in UnlockOps, unl' = [unl EXCEPT ![v] = "native"],
               unl[v] = "waiting", Settled(unlockInFlight.policy), UNCHANGED unlockInFlight
        PROVE  UnlocksOrdered'
    <2> SUFFICES ASSUME NEW p \in Policies, NEW u \in Unlocks, Unsettled(p)', Unlocking(u)'
                 PROVE  Captures(p)' /\ admission'[p].unlock = u
      BY DEF UnlocksOrdered
    <2>1. /\ Unsettled(p) /\ admission'[p] = admission[p] /\ (Captures(p)' <=> Captures(p))
      BY <1>1, PoliciesKeptOrder DEF WorkOrdered, PoliciesKept
    <2>2. unlockInFlight # None /\ unlockInFlight \in Flight /\ Unlocking(u)
      BY <1>2, <1>4 DEF UnlockOwned, TypeOK, Unlocking
    <2>3. ~Before(p, unlockInFlight.policy)
      BY <1>4, <2>1, <2>2, SettledBefore DEF WorkOrdered, Flight
    <2> QED BY <2>1, <2>2, <2>3 DEF UnlocksOrdered
  <1>5. ASSUME NEW v \in UnlockOps, NEW phase \in {"joined", "done", "failed"},
               unl' = [unl EXCEPT ![v] = phase], UNCHANGED unlockInFlight
        PROVE  UnlocksOrdered'
    BY <1>1, <1>2, <1>5, UnlocksOrderedKept DEF Unlocking
  <1>6. CASE UnlockClear
    <2>1. unl[unlockInFlight.op] \in {"done", "failed"} /\ unl' = unl
      BY <1>6, DisjointCalls DEF UnlockClear, UnlockSettled, TypeOK, Flight
    <2> QED BY <1>1, <1>2, <2>1, UnlocksOrderedKept DEF UnlockOwned, Unlocking
  <1> QED BY <1>3, <1>4, <1>5, <1>6, UnlockEffect

LEMMA UnlocksOrderedPolicy ==
  ASSUME TypeOK, WorkOrdered, UnlocksOrdered, NEW q \in Policies, PolicyProgress(q)
  PROVE  UnlocksOrdered'
  <1>1. /\ \A p \in Policies : p # q => pc'[p] = pc[p] /\ admission'[p] = admission[p]
        /\ UNCHANGED <<unl, unlockInFlight>> /\ Unsettled(q)
        /\ Captures(q) /\ Unsettled(q)' /\ ~Captures(q)' => UnlockSettled(admission[q].unlock)
    BY PolicyEffect, DisjointCalls DEF Alone, Captures, Unsettled, flightVars
  <1>2. /\ admission'[q].policy = admission[q].policy
        /\ admission'[q].unlock = admission[q].unlock
    <2>1. q \in Calls /\ admission[q] \in Admission
      BY DisjointCalls DEF TypeOK
    <2> QED BY <2>1, PolicyEffect DEF Admission
  <1>3. \A p, r : Before(p, r)' <=> Before(p, r)
    BY <1>1, <1>2, KeepBefore
  <1> SUFFICES ASSUME NEW p \in Policies, NEW u \in Unlocks, Unsettled(p)', Unlocking(u)'
               PROVE  \/ Captures(p)' /\ admission'[p].unlock = u
                      \/ unl'[u] = "waiting" /\ Before(p, unlockInFlight.policy)'
    BY DEF UnlocksOrdered
  <1>4. Unsettled(p) /\ Unlocking(u) /\ u # None
    BY <1>1, SchedulerAssumption DEF Unsettled, Unlocking
  <1>5. CASE unl[u] = "waiting" /\ Before(p, unlockInFlight.policy)
    <2>1. PICK x : x = unlockInFlight.policy /\ x = unlockInFlight'.policy
      BY <1>1
    <2>2. Before(p, unlockInFlight.policy) => Before(p, x)'
      BY <1>3, <2>1
    <2>3. Before(p, x)' => Before(p, unlockInFlight.policy)'
      BY <2>1 DEF Before
    <2> QED BY <1>1, <1>5, <2>2, <2>3
  <1>6. CASE Captures(p) /\ admission[p].unlock = u
    BY <1>1, <1>2, <1>4, <1>6 DEF Captures, Unlocking, UnlockSettled
  <1> QED BY <1>4, <1>5, <1>6 DEF UnlocksOrdered

\* A new transition captures the unlock in flight.
LEMMA UnlocksOrderedSet ==
  ASSUME TypeOK, UnlockOwned, WorkOrdered, UnlocksOrdered, NEW q \in Policies,
         SetVssAutomatic(q)
  PROVE  UnlocksOrdered'
  <1>1. /\ \A p \in Policies : p # q => pc'[p] = pc[p] /\ admission'[p] = admission[p]
        /\ pc[q] = "idle" /\ UNCHANGED <<unl, unlockInFlight>>
        /\ \/ pc'[q] = "failed" /\ admission'[q] = admission[q]
           \/ /\ Open /\ pc'[q] = "waiting" /\ policyTail' = q
              /\ admission'[q] =
                   [policy |-> policyTail, unlock |-> CurrentUnlock, address |-> addressInFlight,
                    mutations |-> MutationsInFlight, ticket |-> 0]
    BY SetPolicyEffect, DisjointCalls DEF Alone
  <1>2. \A x, y : Before(x, y) => Before(x, y)'
    <2>1. CASE admission'[q] = admission[q]
      BY <1>1, <2>1, KeepBefore
    <2>2. CASE /\ pc'[q] = "waiting" /\ policyTail' = q
               /\ admission'[q] =
                    [policy |-> policyTail, unlock |-> CurrentUnlock, address |-> addressInFlight,
                     mutations |-> MutationsInFlight, ticket |-> 0]
      BY <1>1, <2>2, OrderAdmitted, SetPolicyEffect DEF WorkOrdered
    <2> QED BY <1>1, <2>1, <2>2
  <1> SUFFICES ASSUME NEW p \in Policies, NEW u \in Unlocks, Unsettled(p)', Unlocking(u)'
               PROVE  \/ Captures(p)' /\ admission'[p].unlock = u
                      \/ unl'[u] = "waiting" /\ Before(p, unlockInFlight.policy)'
    BY DEF UnlocksOrdered
  <1>3. Unlocking(u) /\ CurrentUnlock = u
    BY <1>1, SideCalls DEF Unlocking, UnlockOwned, CurrentUnlock
  <1>4. CASE p = q
    BY <1>1, <1>3, <1>4 DEF Unsettled, Captures
  <1>5. CASE p # q
    <2>1. Unsettled(p) /\ (Captures(p)' <=> Captures(p)) /\ admission'[p] = admission[p]
      BY <1>1, <1>5 DEF Unsettled, Captures
    <2>2. PICK x : x = unlockInFlight.policy /\ x = unlockInFlight'.policy
      BY <1>1
    <2>3. Before(p, unlockInFlight.policy) => Before(p, x)'
      BY <1>2, <2>2
    <2>4. Before(p, x)' => Before(p, unlockInFlight.policy)'
      BY <2>2 DEF Before
    <2> QED BY <1>1, <1>3, <2>1, <2>3, <2>4 DEF UnlocksOrdered
  <1> QED BY <1>4, <1>5

LEMMA UnlocksOrderedStep ==
  /\ TypeOK /\ UnlockOwned /\ WorkOrdered /\ UnlocksOrdered
  /\ [Next]_vars /\ [UnlockApart]_vars
  => UnlocksOrdered'
  <1> SUFFICES ASSUME TypeOK, UnlockOwned, WorkOrdered, UnlocksOrdered,
                      [Next]_vars, [UnlockApart]_vars
               PROVE  UnlocksOrdered'
    OBVIOUS
  <1>1. CASE UnlockNext \/ UnlockProgress
    BY <1>1, UnlocksOrderedUnlock
  <1>2. ASSUME NEW p \in Policies, SetVssAutomatic(p) \/ PolicyProgress(p)
        PROVE  UnlocksOrdered'
    BY <1>2, UnlocksOrderedSet, UnlocksOrderedPolicy
  <1>3. ASSUME NEW a \in Addresses, GetAddress(a) \/ AddressProgress(a) PROVE UnlocksOrdered'
    <2>1. PoliciesKept
      BY <1>3, AddressEffect, DisjointCalls DEF Alone, PoliciesKept
    <2>2. unl \in [UnlockOps -> UnlockPhases]
      BY DEF TypeOK
    <2>3. ASSUME NEW u \in Unlocks, Unlocking(u)'
          PROVE  unl'[u] = unl[u] /\ unlockInFlight' = unlockInFlight
      <3>1. CASE UNCHANGED <<unl, unlockInFlight>>
        BY <3>1
      <3>2. CASE UnlockWithPolicy(a, "auto", admission[a].policy)
        BY <2>2, <2>3, <3>2, SideCalls DEF UnlockWithPolicy, UnlockOwned, Unlocking
      <3> QED BY <1>3, <3>1, <3>2, AddressEffect
    <2> QED BY <2>1, <2>3, UnlocksOrderedKept
  <1>4. ASSUME NEW m \in Mutations, Mutate(m) \/ MutationProgress(m) PROVE UnlocksOrdered'
    <2>1. PoliciesKept /\ UNCHANGED <<unl, unlockInFlight>>
      BY <1>4, MutationEffect, DisjointCalls DEF Alone, PoliciesKept
    <2> QED BY <2>1, UnlocksOrderedKept
  <1>5. ASSUME NEW c \in Manuals \cup Reads \cup Signs,
               \/ c \in Manuals /\ (VssBackup(c) \/ ManualProgress(c))
               \/ c \in Reads /\ (ReadMetadata(c) \/ ReadEnd(c))
               \/ c \in Signs /\ (SignMessage(c) \/ SignProgress(c))
        PROVE  UnlocksOrdered'
    <2>1. PoliciesKept /\ UNCHANGED <<unl, unlockInFlight>>
      BY <1>5, AsideEffect, DisjointCalls DEF Alone, PoliciesKept
    <2> QED BY <2>1, UnlocksOrderedKept
  <1>6. CASE \/ AddressClear \/ CheckpointProgress \/ Shutdown \/ ShutdownProgress
             \/ UNCHANGED vars
    <2>1. PoliciesKept /\ UNCHANGED <<unl, unlockInFlight>>
      BY <1>6, QuietEffect DEF Untouched, PoliciesKept
    <2> QED BY <2>1, UnlocksOrderedKept
  <1> QED BY <1>1, <1>2, <1>3, <1>4, <1>5, <1>6, StepCases

\* Past its barrier a transition has nothing in the node beside it: an automatic
\* unlock belongs to an address, which the transition has captured.
LEMMA NothingBeside ==
  ASSUME TypeOK, WorkOrdered, AddressUnlocks, UnlocksOrdered,
         NEW p \in Policies, Unsettled(p), ~Captures(p)
  PROVE  ~Worked
  <1>1. \A m \in Mutations : pc[m] # "native"
    BY DEF WorkOrdered, MutationsOrdered, InFlight
  <1>2. \A a \in Addresses : pc[a] \notin {"reading", "unlocking", "rereading"}
    BY DEF WorkOrdered, AddressesOrdered, ReadingAddress
  <1>3. \A u \in UnlockOps : unl[u] # "native"
    BY <1>2 DEF AddressUnlocks, UnlocksOrdered, UnlockOps, Unlocking
  <1> QED BY <1>1, <1>2, <1>3 DEF Worked, WorkNative

\* A backup or a transition in the node is at the head of the VSS queue.
HeadRuns ==
  /\ checkpointNative => Running(Checkpoint)
  /\ \A c \in Manuals \cup Policies : pc[c] = "native" => Running(c)

LEMMA OthersWait ==
  ASSUME HeadRuns, NEW task, Running(task)
  PROVE  /\ \A c \in Manuals \cup Policies : c # task => pc[c] # "native"
         /\ task # Checkpoint => ~checkpointNative
  BY DEF HeadRuns, Running

LEMMA RunningKept ==
  ASSUME TypeOK, NEW task, Running(task), NEW x \in Tasks,
         vssQueue' = vssQueue \/ vssQueue' = Append(vssQueue, x)
  PROVE  Running(task)'
  <1>1. vssQueue \in Seq(Tasks) /\ vssQueue # <<>>
    BY DEF TypeOK, Running
  <1>2. /\ Head(Append(vssQueue, x)) = Head(vssQueue) /\ Append(vssQueue, x) # <<>>
    BY <1>1
  <1> QED BY <1>2 DEF Running

LEMMA TaskTypes ==
  /\ Checkpoint \in Tasks /\ Manuals \cup Policies \subseteq Tasks
  /\ Checkpoint \notin Manuals \cup Policies
  /\ Manuals \cup Policies \subseteq Calls /\ Manuals \cap Policies = {}
  BY SchedulerAssumption DEF Tasks, Calls

\* The head of the queue may leave it once it runs no more.
LEMMA HeadLeaves ==
  ASSUME HeadRuns, NEW task, Running(task),
         checkpointNative' => checkpointNative /\ task # Checkpoint,
         \A c \in Manuals \cup Policies : pc'[c] = "native" => c # task /\ pc[c] = "native"
  PROVE  HeadRuns'
  BY OthersWait DEF HeadRuns

LEMMA HeadStays ==
  ASSUME TypeOK, HeadRuns, NEW x \in Tasks,
         vssQueue' = vssQueue \/ vssQueue' = Append(vssQueue, x),
         checkpointNative' => checkpointNative \/ Running(Checkpoint),
         \A c \in Manuals \cup Policies : pc'[c] = "native" => pc[c] = "native" \/ Running(c)
  PROVE  HeadRuns'
  BY RunningKept DEF HeadRuns

LEMMA HeadPolicy ==
  ASSUME TypeOK, HeadRuns, NEW q \in Policies, SetVssAutomatic(q) \/ PolicyProgress(q)
  PROVE  HeadRuns'
  <1>1. /\ \A c \in Manuals \cup Policies : c # q => pc'[c] = pc[c]
        /\ checkpointNative' = checkpointNative
    BY SetPolicyEffect, PolicyEffect, TaskTypes DEF Alone
  <1>2. q \in Calls /\ q \in Tasks /\ q # Checkpoint /\ pc \in [Calls -> Phases]
    BY TaskTypes DEF TypeOK
  <1>3. CASE SetVssAutomatic(q) \/ PolicyRefuse(q) \/ PolicyDrain(q) \/ PolicySettle(q)
    <2>1. pc'[q] # "native" /\ vssQueue' = vssQueue
      BY <1>2, <1>3 DEF SetVssAutomatic, PolicyRefuse, PolicyDrain, PolicySettle
    <2> QED BY <1>1, <1>2, <2>1, HeadStays
  <1>4. CASE PolicyEnqueue(q)
    <2>1. pc'[q] # "native" /\ (vssQueue' = vssQueue \/ vssQueue' = Append(vssQueue, q))
      BY <1>2, <1>4 DEF PolicyEnqueue
    <2> QED BY <1>1, <1>2, <2>1, HeadStays
  <1>5. CASE PolicyStart(q)
    <2>1. CASE pc'[q] = "native" /\ vssQueue' = vssQueue /\ Running(q)
      BY <1>1, <1>2, <2>1, HeadStays
    <2>2. CASE pc'[q] = "refused" /\ Running(q)
      BY <1>1, <1>2, <2>2, HeadLeaves
    <2> QED BY <1>2, <1>5, <2>1, <2>2 DEF PolicyStart
  <1>6. CASE PolicyEnd(q)
    <2>1. pc'[q] \in {"acked", "refused"} /\ Running(q)
      BY <1>2, <1>6 DEF PolicyEnd, PolicyConfirm, PolicyUnknown
    <2> QED BY <1>1, <1>2, <2>1, HeadLeaves
  <1> QED BY <1>3, <1>4, <1>5, <1>6 DEF PolicyProgress

LEMMA HeadManual ==
  ASSUME TypeOK, HeadRuns, NEW v \in Manuals, VssBackup(v) \/ ManualProgress(v)
  PROVE  HeadRuns'
  <1>1. v \in Calls /\ v \in Tasks /\ v # Checkpoint /\ pc \in [Calls -> Phases]
    BY TaskTypes DEF TypeOK
  <1>2. /\ \A c \in Manuals \cup Policies : c # v => pc'[c] = pc[c]
        /\ checkpointNative' = checkpointNative
    BY <1>1, AsideEffect, TaskTypes DEF Alone
  <1>3. CASE VssBackup(v) \/ VssBackupEnqueue(v)
    <2>1. pc'[v] # "native" /\ (vssQueue' = vssQueue \/ vssQueue' = Append(vssQueue, v))
      BY <1>1, <1>3 DEF VssBackup, VssBackupEnqueue
    <2> QED BY <1>1, <1>2, <2>1, HeadStays
  <1>4. CASE VssBackupStart(v)
    <2>1. CASE pc'[v] = "native" /\ vssQueue' = vssQueue /\ Running(v)
      BY <1>1, <1>2, <2>1, HeadStays
    <2>2. CASE pc'[v] = "failed" /\ Running(v)
      BY <1>1, <1>2, <2>2, HeadLeaves
    <2> QED BY <1>1, <1>4, <2>1, <2>2 DEF VssBackupStart
  <1>5. CASE VssBackupEnd(v)
    <2>1. pc'[v] \in {"done", "failed"} /\ Running(v)
      BY <1>1, <1>5 DEF VssBackupEnd
    <2> QED BY <1>1, <1>2, <2>1, HeadLeaves
  <1> QED BY <1>3, <1>4, <1>5 DEF ManualProgress

LEMMA HeadCheckpoint ==
  ASSUME TypeOK, HeadRuns, CheckpointProgress
  PROVE  HeadRuns'
  <1>1. \A c \in Manuals \cup Policies : pc'[c] = pc[c] /\ c # Checkpoint
    BY QuietEffect, TaskTypes DEF Untouched
  <1>2. CASE CheckpointStart
    <2>1. CASE UNCHANGED queueVars /\ Running(Checkpoint)
      BY <1>1, <2>1, TaskTypes, HeadStays
    <2>2. CASE Running(Checkpoint) /\ ~checkpointNative'
      BY <1>1, <2>2, HeadLeaves
    <2> QED BY <1>2, <2>1, <2>2 DEF CheckpointStart
  <1>3. CASE CheckpointEnd
    <2>1. CASE UNCHANGED queueVars /\ Running(Checkpoint)
      BY <1>1, <2>1, TaskTypes, HeadStays
    <2>2. CASE Running(Checkpoint) /\ ~checkpointNative'
      BY <1>1, <2>2, HeadLeaves
    <2> QED BY <1>3, <2>1, <2>2 DEF CheckpointEnd, CheckpointUploaded, CheckpointRefused
  <1>4. CASE CheckpointClear
    BY <1>1, <1>4, TaskTypes, HeadStays DEF CheckpointClear
  <1> QED BY <1>2, <1>3, <1>4 DEF CheckpointProgress

LEMMA HeadStep == TypeOK /\ HeadRuns /\ [Next]_vars => HeadRuns'
  <1> SUFFICES ASSUME TypeOK, HeadRuns, [Next]_vars PROVE HeadRuns'
    OBVIOUS
  <1>1. CASE Worked
    <2>1. vssQueue' = vssQueue \/ vssQueue' = Append(vssQueue, Checkpoint)
      BY <1>1 DEF Worked, AfterVssMutation
    <2> QED BY <1>1, <2>1, TaskTypes, HeadStays DEF Worked, BackupsKept
  <1>2. CASE NotWorked
    BY <1>2, TaskTypes, HeadStays DEF NotWorked, BackupsKept
  <1> QED BY <1>1, <1>2, BackupCases, HeadPolicy, HeadManual, HeadCheckpoint

-----------------------------------------------------------------------------
\* Completed work that is not dirty is covered by the checkpoint that uploads;
\* a transition that turns automatic backup on uploads all of it.
DirtyKept ==
  /\ ~dirty => unsaved = {} \/ (checkpointNative /\ unsaved \subseteq uploading)
  /\ \A p \in Policies : pc[p] = "native" /\ want[p] = "on" => unsaved \subseteq uploading

LEMMA DirtyPolicy ==
  ASSUME TypeOK, HeadRuns, DirtyKept, NEW q \in Policies, SetVssAutomatic(q) \/ PolicyProgress(q)
  PROVE  DirtyKept'
  <1>1. /\ \A p \in Policies : p # q => pc'[p] = pc[p]
        /\ checkpointNative' = checkpointNative /\ want' = want
    BY SetPolicyEffect, PolicyEffect, TaskTypes DEF Alone
  <1>2. q \in Calls /\ q # Checkpoint /\ pc \in [Calls -> Phases]
    BY TaskTypes DEF TypeOK
  <1>3. CASE pc'[q] # "native" /\ UNCHANGED <<dirty, unsaved, uploading>>
    BY <1>1, <1>3 DEF DirtyKept
  <1>4. CASE SetVssAutomatic(q) \/ PolicyRefuse(q) \/ PolicyDrain(q) \/ PolicySettle(q) \/ PolicyEnqueue(q)
    BY <1>2, <1>3, <1>4 DEF SetVssAutomatic, PolicyRefuse, PolicyDrain, PolicySettle, PolicyEnqueue
  <1>5. CASE PolicyStart(q)
    <2>1. /\ ~checkpointNative /\ \A p \in Policies : p # q => pc[p] # "native"
          /\ UNCHANGED <<dirty, unsaved>>
      BY <1>2, <1>5, OthersWait DEF PolicyStart
    <2>2. CASE pc'[q] = "refused" /\ UNCHANGED uploading
      BY <1>3, <2>1, <2>2
    <2>3. CASE uploading' = IF want[q] = "on" THEN unsaved ELSE {}
      BY <1>1, <2>1, <2>3 DEF DirtyKept
    <2> QED BY <1>2, <1>5, <2>2, <2>3 DEF PolicyStart
  <1>6. CASE PolicyEnd(q)
    <2>1. /\ pc[q] = "native" /\ pc'[q] # "native" /\ uploading' = {}
          /\ ~checkpointNative /\ \A p \in Policies : p # q => pc[p] # "native"
      BY <1>2, <1>6, OthersWait DEF PolicyEnd, PolicyConfirm, PolicyUnknown
    <2>2. CASE UNCHANGED <<dirty, unsaved>>
      BY <1>1, <2>1, <2>2 DEF DirtyKept
    <2>3. CASE want[q] = "on" /\ unsaved' = unsaved \ uploading
      BY <1>1, <2>1, <2>3 DEF DirtyKept
    <2> QED BY <1>6, <2>2, <2>3 DEF PolicyEnd, PolicyConfirm, PolicyUnknown
  <1> QED BY <1>4, <1>5, <1>6 DEF PolicyProgress

LEMMA DirtyManual ==
  ASSUME TypeOK, HeadRuns, DirtyKept, NEW v \in Manuals, VssBackup(v) \/ ManualProgress(v)
  PROVE  DirtyKept'
  <1>1. v # Checkpoint /\ \A p \in Policies : p # v /\ pc'[p] = pc[p]
    BY AsideEffect, TaskTypes DEF Alone
  <1>2. UNCHANGED <<checkpointNative, want, dirty>>
    BY DEF VssBackup, ManualProgress, VssBackupEnqueue, VssBackupStart, VssBackupEnd
  <1>3. CASE UNCHANGED <<unsaved, uploading>>
    BY <1>1, <1>2, <1>3 DEF DirtyKept
  <1>4. CASE VssBackup(v) \/ VssBackupEnqueue(v)
    BY <1>3, <1>4 DEF VssBackup, VssBackupEnqueue
  <1>5. CASE VssBackupStart(v) \/ VssBackupEnd(v)
    <2>1. ~checkpointNative /\ \A p \in Policies : pc[p] # "native"
      BY <1>1, <1>5, OthersWait DEF VssBackupStart, VssBackupEnd
    <2>2. unsaved' \subseteq unsaved
      BY <1>5 DEF VssBackupStart, VssBackupEnd
    <2> QED BY <1>1, <1>2, <2>1, <2>2 DEF DirtyKept
  <1> QED BY <1>4, <1>5 DEF ManualProgress

LEMMA DirtyCheckpoint ==
  ASSUME TypeOK, HeadRuns, DirtyKept, CheckpointProgress
  PROVE  DirtyKept'
  <1>1. /\ \A p \in Policies : pc'[p] = pc[p] /\ p # Checkpoint
        /\ want' = want
    BY QuietEffect, TaskTypes DEF Untouched
  <1>2. CASE CheckpointStart
    <2>1. \A p \in Policies : pc[p] # "native"
      BY <1>1, <1>2, OthersWait DEF CheckpointStart
    <2> QED BY <1>1, <1>2, <2>1 DEF CheckpointStart, DirtyKept
  <1>3. CASE CheckpointEnd
    <2>1. \A p \in Policies : pc[p] # "native"
      BY <1>1, <1>3, OthersWait DEF CheckpointEnd
    <2>2. CASE CheckpointUploaded
      BY <1>1, <1>3, <2>1, <2>2 DEF CheckpointEnd, CheckpointUploaded, DirtyKept
    <2>3. CASE CheckpointRefused
      BY <1>1, <1>3, <2>1, <2>3 DEF CheckpointRefused, DirtyKept
    <2> QED BY <1>3, <2>2, <2>3 DEF CheckpointEnd
  <1>4. CASE CheckpointClear
    BY <1>1, <1>4 DEF CheckpointClear, DirtyKept
  <1> QED BY <1>2, <1>3, <1>4 DEF CheckpointProgress

LEMMA DirtyStep ==
  /\ TypeOK /\ WorkOrdered /\ AddressUnlocks /\ UnlocksOrdered /\ HeadRuns
  /\ DirtyKept /\ [Next]_vars
  => DirtyKept'
  <1> SUFFICES ASSUME TypeOK, WorkOrdered, AddressUnlocks, UnlocksOrdered, HeadRuns,
                      DirtyKept, [Next]_vars
               PROVE  DirtyKept'
    OBVIOUS
  <1>1. CASE Worked
    <2>1. \A p \in Policies : pc'[p] = pc[p] /\ pc[p] # "native"
      BY <1>1, NothingBeside DEF Worked, BackupsKept, Unsettled, Captures
    <2>2. dirty'
      BY <1>1 DEF Worked, AfterVssMutation
    <2> QED BY <2>1, <2>2 DEF DirtyKept
  <1>2. CASE NotWorked
    BY <1>2 DEF NotWorked, BackupsKept, DirtyKept
  <1> QED BY <1>1, <1>2, BackupCases, DirtyPolicy, DirtyManual, DirtyCheckpoint

LEMMA BackupsInit == Init => HeadRuns /\ DirtyKept /\ AddressUnlocks /\ UnlocksOrdered
  BY TaskTypes, SideCalls DEF Init, HeadRuns, DirtyKept, AddressUnlocks, UnlocksOrdered, Unlocking

\* While the native preference is being changed no mutation, no receive address
\* read and no backup is in the node: a transition has drained what was in
\* flight when it was admitted, what came later waits for it, directly or
\* through the transitions admitted after it, and backups take turns with it.
THEOREM SchedulerPolicyExclusive == Spec => []PolicyExclusive
  <1>1. WorkOrdered /\ HeadRuns => PolicyExclusive
    <2> SUFFICES ASSUME WorkOrdered, HeadRuns, NEW p \in Policies, pc[p] = "native"
                 PROVE  /\ \A m \in Mutations : pc[m] # "native"
                        /\ \A a \in Addresses : pc[a] \notin {"reading", "rereading", "unlocking"}
                        /\ ~checkpointNative /\ \A v \in Manuals : pc[v] # "native"
      BY DEF PolicyExclusive
    <2>1. \A m \in Mutations : pc[m] # "native"
      BY DEF WorkOrdered, MutationsOrdered, Unsettled, Captures, InFlight
    <2>2. \A a \in Addresses : pc[a] \notin {"reading", "rereading", "unlocking"}
      BY DEF WorkOrdered, AddressesOrdered, Unsettled, Captures, ReadingAddress
    <2>3. ~checkpointNative /\ \A v \in Manuals : pc[v] # "native"
      <3>1. Running(p) /\ p # Checkpoint /\ \A v \in Manuals : v # p
        BY TaskTypes DEF HeadRuns
      <3> QED BY <3>1, OthersWait
    <2> QED BY <2>1, <2>2, <2>3
  <1> QED BY <1>1, SchedulerTypeCorrect, OwnedInit, OwnedStep, WorkOrderedInit,
       WorkOrderedStep, BackupsInit, HeadStep, PTL DEF Spec

\* Work that completed is dirty or covered by the upload in progress until an
\* upload that began after it is acknowledged, unless the application unlocks
\* beside an address read that may unlock by itself.
THEOREM SchedulerDirtyCovers == Spec /\ UnlocksApart => []DirtyCovers
  <1>1. DirtyKept => DirtyCovers
    BY DEF DirtyKept, DirtyCovers
  <1> QED BY <1>1, DirtyStep, SchedulerTypeCorrect, OwnedInit, OwnedStep, WorkOrderedInit,
       WorkOrderedStep, AddressUnlocksStep, UnlocksOrderedStep, BackupsInit, HeadStep, PTL
       DEF Spec, UnlocksApart
-----------------------------------------------------------------------------
\* The checkpoint waits or uploads only while the native preference is on, and
\* what a transition has drained leaves none in the queue.
CheckpointAt(i) == i \in DOMAIN vssQueue /\ vssQueue[i] = Checkpoint

CheckpointsDrained ==
  /\ \A i \in Nat : CheckpointAt(i) => nativePolicy = "on"
  /\ \A p \in Policies, i \in Nat : pc[p] = "draining" /\ CheckpointAt(i) =>
       served + i <= admission[p].ticket
  /\ \A p \in Policies, i \in Nat : pc[p] \in {"queued", "native"} => ~CheckpointAt(i)

LEMMA QueueAppend ==
  ASSUME TypeOK, NEW x \in Tasks, x # Checkpoint,
         vssQueue' = vssQueue \/ vssQueue' = Append(vssQueue, x)
  PROVE  \A i \in Nat : CheckpointAt(i)' => CheckpointAt(i)
  BY SMTT(30) DEF TypeOK, CheckpointAt

LEMMA QueueLeave ==
  ASSUME TypeOK, vssQueue # <<>>, Leave
  PROVE  /\ \A i \in Nat : CheckpointAt(i)' => CheckpointAt(i + 1)
         /\ served' = served + 1
  BY DEF TypeOK, CheckpointAt, Leave

LEMMA QueueLength ==
  ASSUME TypeOK
  PROVE  \A i \in Nat : CheckpointAt(i) => i >= 1 /\ served + i <= Ticket
  BY DEF TypeOK, CheckpointAt, Ticket

\* A step that starts no drain and adds no checkpoint keeps the queue drained.
LEMMA DrainKept ==
  ASSUME TypeOK, CheckpointsDrained, nativePolicy' = nativePolicy,
         \/ served' = served /\ \A i \in Nat : CheckpointAt(i)' => CheckpointAt(i)
         \/ vssQueue # <<>> /\ Leave,
         \A p \in Policies :
            /\ pc'[p] \in {"draining", "queued", "native"} =>
                 pc'[p] = pc[p] \/ (pc[p] = "queued" /\ pc'[p] = "native")
            /\ pc'[p] = "draining" => admission'[p].ticket = admission[p].ticket
  PROVE  CheckpointsDrained'
  <1>1. served \in Nat
    BY DEF TypeOK
  <1>2. \A i \in Nat : CheckpointAt(i)' =>
          \E j \in Nat : CheckpointAt(j) /\ served' + i = served + j
    BY <1>1, QueueLeave
  <1>3. \A i \in Nat : CheckpointAt(i)' => nativePolicy' = "on"
    BY <1>2 DEF CheckpointsDrained
  <1>4. ASSUME NEW p \in Policies, NEW i \in Nat, pc'[p] = "draining", CheckpointAt(i)'
        PROVE  served' + i <= admission'[p].ticket
    BY <1>2, <1>4 DEF CheckpointsDrained
  <1>5. ASSUME NEW p \in Policies, NEW i \in Nat, pc'[p] \in {"queued", "native"}
        PROVE  ~CheckpointAt(i)'
    BY <1>2, <1>5 DEF CheckpointsDrained
  <1> QED BY <1>3, <1>4, <1>5 DEF CheckpointsDrained

LEMMA DrainPolicy ==
  ASSUME TypeOK, HeadRuns, CheckpointsDrained, NEW q \in Policies,
         SetVssAutomatic(q) \/ PolicyProgress(q)
  PROVE  CheckpointsDrained'
  <1>1. \A p \in Policies : p # q => pc'[p] = pc[p] /\ admission'[p] = admission[p]
    BY SetPolicyEffect, PolicyEffect, TaskTypes DEF Alone
  <1>2. q \in Calls /\ q \in Tasks /\ q # Checkpoint /\ pc \in [Calls -> Phases]
    BY TaskTypes DEF TypeOK
  <1>3. CASE SetVssAutomatic(q) \/ PolicyRefuse(q) \/ PolicySettle(q)
    <2>1. /\ pc'[q] \notin {"draining", "queued", "native"}
          /\ UNCHANGED <<nativePolicy, vssQueue, served>>
      BY <1>2, <1>3 DEF SetVssAutomatic, PolicyRefuse, PolicySettle
    <2> QED BY <1>1, <2>1, DrainKept DEF CheckpointAt
  <1>4. CASE PolicyDrain(q)
    <2>1. /\ pc'[q] = "draining" /\ admission'[q].ticket = Ticket
          /\ UNCHANGED <<nativePolicy, vssQueue, served>>
      BY <1>2, <1>4 DEF PolicyDrain, TypeOK, Admission
    <2> QED BY <1>1, <2>1, QueueLength DEF CheckpointsDrained, CheckpointAt
  <1>5. CASE PolicyEnqueue(q)
    <2>1. /\ served >= admission[q].ticket /\ pc[q] = "draining"
          /\ pc'[q] \in {"queued", "refused"} /\ UNCHANGED <<nativePolicy, served, admission>>
          /\ vssQueue' = vssQueue \/ vssQueue' = Append(vssQueue, q)
      BY <1>2, <1>5 DEF PolicyEnqueue
    <2>2. \A i \in Nat : ~CheckpointAt(i)
      <3>1. served \in Nat /\ admission[q].ticket \in Nat
        BY <1>2 DEF TypeOK, Admission
      <3> QED BY <2>1, <3>1, QueueLength DEF CheckpointsDrained
    <2>3. \A i \in Nat : ~CheckpointAt(i)'
      BY <1>2, <2>1, <2>2, QueueAppend
    <2> QED BY <2>3 DEF CheckpointsDrained
  <1>6. CASE PolicyStart(q)
    <2>1. /\ pc[q] = "queued" /\ pc'[q] \in {"native", "refused"} /\ nativePolicy' = nativePolicy
          /\ UNCHANGED queueVars \/ (vssQueue # <<>> /\ Leave)
      BY <1>2, <1>6 DEF PolicyStart, Running
    <2> QED BY <1>1, <2>1, DrainKept DEF CheckpointAt
  <1>7. CASE PolicyEnd(q)
    <2>1. pc[q] = "native" /\ vssQueue # <<>> /\ Leave
      BY <1>7 DEF PolicyEnd, Running
    <2>2. \A i \in Nat : ~CheckpointAt(i)'
      BY <2>1, QueueLeave DEF CheckpointsDrained
    <2> QED BY <2>2 DEF CheckpointsDrained
  <1> QED BY <1>3, <1>4, <1>5, <1>6, <1>7 DEF PolicyProgress

LEMMA DrainManual ==
  ASSUME TypeOK, CheckpointsDrained, NEW v \in Manuals, VssBackup(v) \/ ManualProgress(v)
  PROVE  CheckpointsDrained'
  <1>1. /\ \A p \in Policies : pc'[p] = pc[p] /\ admission'[p] = admission[p]
        /\ v \in Tasks /\ v # Checkpoint /\ nativePolicy' = nativePolicy
    BY AsideEffect, TaskTypes DEF Alone
  <1>2. CASE served' = served /\ (vssQueue' = vssQueue \/ vssQueue' = Append(vssQueue, v))
    BY <1>1, <1>2, QueueAppend, DrainKept
  <1>3. CASE vssQueue # <<>> /\ Leave
    BY <1>1, <1>3, DrainKept
  <1> QED BY <1>2, <1>3 DEF VssBackup, ManualProgress, VssBackupEnqueue, VssBackupStart,
       VssBackupEnd, Running

LEMMA DrainCheckpoint ==
  ASSUME TypeOK, CheckpointsDrained, CheckpointProgress
  PROVE  CheckpointsDrained'
  <1>1. /\ \A p \in Policies : pc'[p] = pc[p] /\ admission'[p] = admission[p]
        /\ nativePolicy' = nativePolicy
    BY QuietEffect DEF Untouched
  <1>2. CASE UNCHANGED queueVars
    BY <1>1, <1>2, DrainKept DEF CheckpointAt
  <1>3. CASE vssQueue # <<>> /\ Leave
    BY <1>1, <1>3, DrainKept
  <1> QED BY <1>2, <1>3 DEF CheckpointProgress, CheckpointStart, CheckpointEnd, CheckpointClear,
       CheckpointUploaded, CheckpointRefused, Running

LEMMA DrainStep ==
  /\ TypeOK /\ WorkOrdered /\ AddressUnlocks /\ UnlocksOrdered /\ HeadRuns /\ ChoiceKept
  /\ CheckpointsDrained /\ [Next]_vars
  => CheckpointsDrained'
  <1> SUFFICES ASSUME TypeOK, WorkOrdered, AddressUnlocks, UnlocksOrdered, HeadRuns, ChoiceKept,
                      CheckpointsDrained, [Next]_vars
               PROVE  CheckpointsDrained'
    OBVIOUS
  <1>1. CASE Worked
    <2>1. /\ \A p \in Policies : pc'[p] = pc[p] /\ admission'[p] = admission[p]
          /\ nativePolicy' = nativePolicy /\ served' = served
      BY <1>1 DEF Worked, BackupsKept
    <2>2. \A p \in Policies : pc[p] \notin {"draining", "queued", "native"}
      BY <1>1, NothingBeside DEF Unsettled, Captures
    <2>3. CASE vssQueue' = vssQueue
      BY <2>1, <2>3, DrainKept DEF CheckpointAt
    <2>4. CASE nativePolicy = "on"
      BY <2>1, <2>2, <2>4 DEF CheckpointsDrained
    <2>5. vssQueue' # vssQueue => nativePolicy = "on"
      BY <1>1 DEF Worked, AfterVssMutation, ChoiceKept
    <2> QED BY <2>3, <2>4, <2>5
  <1>2. CASE NotWorked
    BY <1>2, DrainKept DEF NotWorked, BackupsKept, CheckpointAt
  <1> QED BY <1>1, <1>2, BackupCases, DrainPolicy, DrainManual, DrainCheckpoint

\* No automatic checkpoint uploads once automatic backup is known to be off: the
\* transition drained the queue of them, and nothing completed between its drain
\* and its acknowledgement, unless the application unlocks beside an address read
\* that may unlock by itself.
THEOREM SchedulerOffMeansOff == Spec /\ UnlocksApart => []OffMeansOff
  <1>1. TypeOK /\ HeadRuns /\ ChoiceKept /\ CheckpointsDrained => OffMeansOff
    <2> SUFFICES ASSUME TypeOK, HeadRuns, ChoiceKept, CheckpointsDrained, checkpointNative
                 PROVE  automatic # "off"
      BY DEF OffMeansOff
    <2>1. CheckpointAt(1)
      BY DEF HeadRuns, Running, CheckpointAt, TypeOK
    <2> QED BY <2>1 DEF ChoiceKept, CheckpointsDrained
  <1>2. Init => ChoiceKept /\ CheckpointsDrained
    BY DEF Init, ChoiceKept, CheckpointsDrained, CheckpointAt
  <1> QED BY <1>1, <1>2, DrainStep, SchedulerTypeCorrect, OwnedInit, OwnedStep, WorkOrderedInit,
       WorkOrderedStep, AddressUnlocksStep, UnlocksOrderedStep, BackupsInit, HeadStep, ChoiceStep,
       PTL DEF Spec, UnlocksApart

\* Both hold of an account without an automatic unlock, and of one whose
\* application leaves every unlock to it, in whatever order the calls come.
COROLLARY SchedulerUnmixedBackups ==
  ASSUME AutoUnlock => Unlocks = {}
  PROVE  Spec => [](DirtyCovers /\ OffMeansOff)
  BY UnlocksUnmixed, SchedulerDirtyCovers, SchedulerOffMeansOff, PTL
-----------------------------------------------------------------------------
\* Where the calls of each kind may be.
CallPhases ==
  /\ \A m \in Mutations : pc[m] \in {"idle", "waiting", "native", "done", "failed"}
  /\ \A a \in Addresses :
       pc[a] \in {"idle", "joined", "waiting", "reading", "unlocking", "rereading", "done", "failed"}
  /\ \A v \in Manuals : pc[v] \in {"idle", "waiting", "queued", "native", "done", "failed"}
  /\ \A s \in Signs : pc[s] \in {"idle", "queued", "native", "done", "failed"}

\* The signing queue holds the requests that wait for their turn, once each.
SignsQueued ==
  /\ \A i \in DOMAIN signQueue : pc[signQueue[i]] \in {"queued", "native"}
  /\ \A i, j \in DOMAIN signQueue : signQueue[i] = signQueue[j] => i = j
  /\ \A s \in Signs : pc[s] \in {"queued", "native"} => \E i \in DOMAIN signQueue : signQueue[i] = s

LEMMA PhasesStep == TypeOK /\ CallPhases /\ [Next]_vars => CallPhases'
  <1> SUFFICES ASSUME TypeOK, CallPhases, [Next]_vars PROVE CallPhases'
    OBVIOUS
  <1>1. CASE UnlockNext \/ UnlockProgress
    BY <1>1, UnlockEffect DEF Untouched, CallPhases
  <1>2. ASSUME NEW a \in Addresses, GetAddress(a) \/ AddressProgress(a) PROVE CallPhases'
    <2>1. \A c \in Mutations \cup Manuals \cup Signs \cup (Addresses \ {a}) : pc'[c] = pc[c]
      BY <1>2, AddressEffect, DisjointCalls, SideCalls DEF Alone
    <2>2. pc'[a] \in {"joined", "waiting", "reading", "unlocking", "rereading", "done", "failed"}
      BY <1>2, AddressEffect
    <2> QED BY <2>1, <2>2 DEF CallPhases
  <1>3. ASSUME NEW m \in Mutations, Mutate(m) \/ MutationProgress(m) PROVE CallPhases'
    <2>1. \A c \in Addresses \cup Manuals \cup Signs \cup (Mutations \ {m}) : pc'[c] = pc[c]
      BY <1>3, MutationEffect, DisjointCalls, SideCalls DEF Alone
    <2>2. pc'[m] \in {"waiting", "native", "done", "failed"}
      BY <1>3, MutationEffect
    <2> QED BY <2>1, <2>2 DEF CallPhases
  <1>4. ASSUME NEW p \in Policies, SetVssAutomatic(p) \/ PolicyProgress(p) PROVE CallPhases'
    <2>1. \A c \in Addresses \cup Manuals \cup Signs \cup Mutations : pc'[c] = pc[c]
      BY <1>4, SetPolicyEffect, PolicyEffect, DisjointCalls, SideCalls DEF Alone
    <2> QED BY <2>1 DEF CallPhases
  <1>5. ASSUME NEW c \in Manuals \cup Reads \cup Signs,
               \/ c \in Manuals /\ (VssBackup(c) \/ ManualProgress(c))
               \/ c \in Reads /\ (ReadMetadata(c) \/ ReadEnd(c))
               \/ c \in Signs /\ (SignMessage(c) \/ SignProgress(c))
        PROVE  CallPhases'
    <2>1. \A d \in Calls : d # c => pc'[d] = pc[d]
      BY <1>5, AsideEffect DEF Alone
    <2>2. c \in Calls /\ pc \in [Calls -> Phases]
      BY SideCalls DEF TypeOK
    <2>3. c \in Manuals => pc'[c] \in {"waiting", "queued", "native", "done", "failed"}
      BY <1>5, <2>2, SideCalls DEF VssBackup, ManualProgress, VssBackupEnqueue, VssBackupStart,
         VssBackupEnd
    <2>4. c \in Signs => pc'[c] \in {"queued", "native", "done", "failed"}
      BY <1>5, <2>2, SideCalls DEF SignMessage, SignProgress, SignStart, SignEnd
    <2>5. c \notin Mutations \cup Addresses /\ ~(c \in Manuals /\ c \in Signs)
      BY DisjointCalls, SideCalls
    <2>6. Mutations \cup Addresses \cup Manuals \cup Signs \subseteq Calls
      BY DisjointCalls, SideCalls
    <2> QED BY <2>1, <2>3, <2>4, <2>5, <2>6 DEF CallPhases
  <1>6. CASE \/ AddressClear \/ CheckpointProgress \/ Shutdown \/ ShutdownProgress
             \/ UNCHANGED vars
    BY <1>6, QuietEffect DEF Untouched, CallPhases
  <1> QED BY <1>1, <1>2, <1>3, <1>4, <1>5, <1>6, StepCases

\* A step of no signing request.
LEMMA SignsKept ==
  ASSUME TypeOK, SignsQueued, signQueue' = signQueue, \A s \in Signs : pc'[s] = pc[s]
  PROVE  SignsQueued'
  <1>1. \A i \in DOMAIN signQueue : signQueue[i] \in Signs
    BY DEF TypeOK
  <1> QED BY <1>1 DEF SignsQueued

LEMMA SignsOwnStep ==
  ASSUME TypeOK, SignsQueued, NEW s \in Signs, SignMessage(s) \/ SignProgress(s)
  PROVE  SignsQueued'
  <1>0. /\ s \in Calls /\ pc \in [Calls -> Phases] /\ signQueue \in Seq(Signs)
        /\ \A i \in DOMAIN signQueue : signQueue[i] \in Signs
        /\ \A x \in Signs : x # s => pc'[x] = pc[x]
    BY AsideEffect, SideCalls DEF TypeOK, Alone
  <1>1. CASE signQueue' = signQueue /\ (pc'[s] \in {"queued", "native"} <=> pc[s] \in {"queued", "native"})
    BY <1>0, <1>1 DEF SignsQueued
  <1>2. CASE signQueue' = Append(signQueue, s) /\ pc[s] = "idle" /\ pc'[s] = "queued"
    <2>1. \A i \in DOMAIN signQueue : signQueue[i] # s
      BY <1>2 DEF SignsQueued
    <2>2. /\ DOMAIN signQueue = 1..Len(signQueue) /\ Len(signQueue) \in Nat
          /\ DOMAIN signQueue' = 1..(Len(signQueue) + 1)
          /\ \A i \in 1..Len(signQueue) : signQueue'[i] = signQueue[i]
          /\ signQueue'[Len(signQueue) + 1] = s
      BY <1>0, <1>2
    <2>3. \A i \in DOMAIN signQueue' : i \in DOMAIN signQueue \/ i = Len(signQueue) + 1
      BY <2>2
    <2>4. \A i \in DOMAIN signQueue' : pc'[signQueue'[i]] \in {"queued", "native"}
      BY <1>0, <1>2, <2>1, <2>2, <2>3 DEF SignsQueued
    <2>5. \A i, j \in DOMAIN signQueue' : signQueue'[i] = signQueue'[j] => i = j
      BY <2>1, <2>2, <2>3 DEF SignsQueued
    <2>6. \A x \in Signs : pc'[x] \in {"queued", "native"} =>
            \E i \in DOMAIN signQueue' : signQueue'[i] = x
      BY <1>0, <2>2 DEF SignsQueued
    <2> QED BY <2>4, <2>5, <2>6 DEF SignsQueued
  <1>3. CASE Signing(s) /\ signQueue' = Tail(signQueue) /\ pc'[s] \in {"done", "failed"}
    <2>1. /\ DOMAIN signQueue = 1..Len(signQueue) /\ Len(signQueue) \in Nat \ {0}
          /\ DOMAIN signQueue' = 1..(Len(signQueue) - 1)
          /\ \A i \in 1..(Len(signQueue) - 1) : signQueue'[i] = signQueue[i + 1]
          /\ signQueue[1] = s
      BY <1>0, <1>3 DEF Signing
    <2>2. \A i \in DOMAIN signQueue' : signQueue[i + 1] # s
      BY <2>1 DEF SignsQueued
    <2>3. \A i \in DOMAIN signQueue' : pc'[signQueue'[i]] \in {"queued", "native"}
      BY <1>0, <2>1, <2>2 DEF SignsQueued
    <2>4. \A i, j \in DOMAIN signQueue' : signQueue'[i] = signQueue'[j] => i = j
      BY <2>1 DEF SignsQueued
    <2>5. ASSUME NEW x \in Signs, pc'[x] \in {"queued", "native"}
          PROVE  \E i \in DOMAIN signQueue' : signQueue'[i] = x
      <3>1. x # s
        BY <1>3, <2>5
      <3>2. PICK i \in DOMAIN signQueue : signQueue[i] = x
        BY <1>0, <2>5, <3>1 DEF SignsQueued
      <3>3. i # 1 /\ i - 1 \in DOMAIN signQueue' /\ signQueue'[i - 1] = x
        BY <2>1, <3>1, <3>2
      <3> QED BY <3>3
    <2> QED BY <2>3, <2>4, <2>5 DEF SignsQueued
  <1>4. CASE SignMessage(s)
    <2>1. CASE pc'[s] = "failed" /\ pc[s] = "idle" /\ signQueue' = signQueue
      BY <1>1, <2>1
    <2> QED BY <1>0, <1>2, <1>4, <2>1 DEF SignMessage
  <1>5. CASE SignStart(s)
    BY <1>0, <1>1, <1>3, <1>5 DEF SignStart
  <1>6. CASE SignEnd(s)
    BY <1>0, <1>3, <1>6 DEF SignEnd
  <1> QED BY <1>4, <1>5, <1>6 DEF SignProgress

LEMMA SignsStep == TypeOK /\ SignsQueued /\ [Next]_vars => SignsQueued'
  <1> SUFFICES ASSUME TypeOK, SignsQueued, [Next]_vars PROVE SignsQueued'
    OBVIOUS
  <1>1. ASSUME NEW c \in Calls \ Signs, Alone(c), signQueue' = signQueue PROVE SignsQueued'
    BY <1>1, SideCalls, SignsKept DEF Alone
  <1>2. CASE UnlockNext \/ UnlockProgress
    BY <1>2, UnlockEffect, SignsKept DEF Untouched
  <1>3. ASSUME NEW a \in Addresses, GetAddress(a) \/ AddressProgress(a) PROVE SignsQueued'
    BY <1>1, <1>3, AddressEffect, DisjointCalls
  <1>4. ASSUME NEW m \in Mutations, Mutate(m) \/ MutationProgress(m) PROVE SignsQueued'
    BY <1>1, <1>4, MutationEffect, DisjointCalls
  <1>5. ASSUME NEW p \in Policies, SetVssAutomatic(p) \/ PolicyProgress(p) PROVE SignsQueued'
    BY <1>1, <1>5, SetPolicyEffect, PolicyEffect, DisjointCalls
  <1>6. ASSUME NEW v \in Manuals, VssBackup(v) \/ ManualProgress(v) PROVE SignsQueued'
    <2>1. signQueue' = signQueue
      BY <1>6 DEF VssBackup, ManualProgress, VssBackupEnqueue, VssBackupStart, VssBackupEnd
    <2> QED BY <1>1, <1>6, <2>1, AsideEffect, DisjointCalls
  <1>7. ASSUME NEW r \in Reads, ReadMetadata(r) \/ ReadEnd(r) PROVE SignsQueued'
    <2>1. signQueue' = signQueue
      BY <1>7 DEF ReadMetadata, ReadEnd
    <2> QED BY <1>1, <1>7, <2>1, AsideEffect, SideCalls
  <1>8. ASSUME NEW s \in Signs, SignMessage(s) \/ SignProgress(s) PROVE SignsQueued'
    BY <1>8, SignsOwnStep
  <1>9. CASE \/ AddressClear \/ CheckpointProgress \/ Shutdown \/ ShutdownProgress
             \/ UNCHANGED vars
    <2>1. signQueue' = signQueue
      BY <1>9 DEF AddressClear, CheckpointProgress, CheckpointStart, CheckpointEnd,
         CheckpointClear, Shutdown, ShutdownProgress, ShutdownDrain, ShutdownNative, ShutdownEnd, vars
    <2> QED BY <1>9, <2>1, QuietEffect, SignsKept DEF Untouched
  <1> QED BY <1>2, <1>3, <1>4, <1>5, <1>6, <1>7, <1>8, <1>9, StepCases

-----------------------------------------------------------------------------
\* Nothing is admitted while the account is not open, so what is under way only
\* shrinks.
ManualPending(v) == pc[v] \in {"waiting", "queued", "native"}

LEMMA WorkShrinks ==
  ASSUME TypeOK, [Next]_vars, ~Open
  PROVE  /\ \A u \in Unlocks : Unlocking(u)' => Unlocking(u)
         /\ \A a \in Addresses : ReadingAddress(a)' => ReadingAddress(a)
         /\ \A m \in Mutations : InFlight(m)' => InFlight(m)
         /\ \A p \in Policies : Unsettled(p)' => Unsettled(p)
         /\ \A v \in Manuals : ManualPending(v)' => ManualPending(v)
         /\ policyTail' = policyTail
  <1> DEFINE Calm(c) == pc'[c] = pc[c]
             Goal ==
               /\ \A u \in Unlocks : Unlocking(u)' => Unlocking(u)
               /\ \A a \in Addresses : ReadingAddress(a)' => ReadingAddress(a)
               /\ \A m \in Mutations : InFlight(m)' => InFlight(m)
               /\ \A p \in Policies : Unsettled(p)' => Unsettled(p)
               /\ \A v \in Manuals : ManualPending(v)' => ManualPending(v)
               /\ policyTail' = policyTail
  <1> USE DEF InFlight, Unsettled, ReadingAddress, ManualPending
  <1>0. unl \in [UnlockOps -> UnlockPhases]
    BY DEF TypeOK
  <1>1. CASE UnlockNext \/ UnlockProgress
    <2>1. \A u \in Unlocks : Unlocking(u)' => Unlocking(u)
      BY <1>0, <1>1, UnlockEffect, SideCalls DEF Unlocking, UnlockClear
    <2>2. pc' = pc /\ policyTail' = policyTail
      BY <1>1, UnlockEffect DEF Untouched
    <2> QED BY <2>1, <2>2
  <1>2. ASSUME NEW a \in Addresses, GetAddress(a) \/ AddressProgress(a) PROVE Goal
    <2>1. \A u \in Unlocks : Unlocking(u)' => Unlocking(u)
      BY <1>0, <1>2, AddressEffect, SideCalls DEF Unlocking, UnlockWithPolicy
    <2>2. /\ \A c \in Mutations \cup Policies \cup Manuals \cup (Addresses \ {a}) : Calm(c)
          /\ policyTail' = policyTail
      BY <1>2, AddressEffect, DisjointCalls DEF Alone
    <2>3. ReadingAddress(a)' => ReadingAddress(a)
      BY <1>2, AddressEffect
    <2> QED BY <2>1, <2>2, <2>3
  <1>3. ASSUME NEW m \in Mutations, Mutate(m) \/ MutationProgress(m) PROVE Goal
    <2>1. /\ \A c \in Addresses \cup Policies \cup Manuals \cup (Mutations \ {m}) : Calm(c)
          /\ policyTail' = policyTail /\ unl' = unl
      BY <1>3, MutationEffect, DisjointCalls DEF Alone
    <2>2. InFlight(m)' => InFlight(m)
      BY <1>3, MutationEffect
    <2> QED BY <2>1, <2>2 DEF Unlocking
  <1>4. ASSUME NEW p \in Policies, SetVssAutomatic(p) \/ PolicyProgress(p) PROVE Goal
    <2>1. /\ \A c \in Addresses \cup Mutations \cup Manuals \cup (Policies \ {p}) : Calm(c)
          /\ policyTail' = policyTail /\ unl' = unl
      BY <1>4, SetPolicyEffect, PolicyEffect, DisjointCalls DEF Alone
    <2>2. Unsettled(p)' => Unsettled(p)
      BY <1>4, SetPolicyEffect, PolicyEffect
    <2> QED BY <2>1, <2>2 DEF Unlocking
  <1>5. ASSUME NEW c \in Manuals \cup Reads \cup Signs,
               \/ c \in Manuals /\ (VssBackup(c) \/ ManualProgress(c))
               \/ c \in Reads /\ (ReadMetadata(c) \/ ReadEnd(c))
               \/ c \in Signs /\ (SignMessage(c) \/ SignProgress(c))
        PROVE  Goal
    <2>1. /\ \A d \in Addresses \cup Mutations \cup Policies \cup (Manuals \ {c}) : Calm(d)
          /\ policyTail' = policyTail /\ unl' = unl
      BY <1>5, AsideEffect, DisjointCalls, SideCalls DEF Alone
    <2>2. c \in Calls /\ pc \in [Calls -> Phases]
      BY SideCalls DEF TypeOK
    <2>3. c \in Manuals => (ManualPending(c)' => ManualPending(c))
      BY <1>5, <2>2, SideCalls DEF VssBackup, ManualProgress, VssBackupEnqueue, VssBackupStart,
         VssBackupEnd
    <2> QED BY <2>1, <2>3 DEF Unlocking
  <1>6. CASE \/ AddressClear \/ CheckpointProgress \/ Shutdown \/ ShutdownProgress
             \/ UNCHANGED vars
    BY <1>6, QuietEffect DEF Untouched, Unlocking
  <1> QED BY <1>1, <1>2, <1>3, <1>4, <1>5, <1>6, StepCases

LEMMA SignsShrink ==
  ASSUME TypeOK, [Next]_vars, ~Open
  PROVE  signQueue' = signQueue \/ (signQueue # <<>> /\ signQueue' = Tail(signQueue))
  <1>1. ASSUME NEW c \in Manuals \cup Reads \cup Signs,
               \/ c \in Manuals /\ (VssBackup(c) \/ ManualProgress(c))
               \/ c \in Reads /\ (ReadMetadata(c) \/ ReadEnd(c))
               \/ c \in Signs /\ (SignMessage(c) \/ SignProgress(c))
        PROVE  signQueue' = signQueue \/ (signQueue # <<>> /\ signQueue' = Tail(signQueue))
    BY <1>1 DEF VssBackup, ManualProgress, VssBackupEnqueue, VssBackupStart, VssBackupEnd,
       ReadMetadata, ReadEnd, SignMessage, SignProgress, SignStart, SignEnd, Signing
  <1>2. CASE AddressClear \/ CheckpointProgress \/ Shutdown \/ ShutdownProgress \/ UNCHANGED vars
    BY <1>2 DEF AddressClear, CheckpointProgress, CheckpointStart, CheckpointEnd,
       CheckpointClear, Shutdown, ShutdownProgress, ShutdownDrain, ShutdownNative, ShutdownEnd, vars
  <1> QED BY <1>1, <1>2, UnlockEffect, AddressEffect, MutationEffect, SetPolicyEffect,
       PolicyEffect, StepCases

\* With no work in the node and no transition or manual backup pending the VSS
\* queue only shrinks too.
LEMMA QueueShrinks ==
  ASSUME TypeOK, [Next]_vars, ~Open, ~WorkNative, ~PolicyPending,
         \A v \in Manuals : ~ManualPending(v)
  PROVE  UNCHANGED queueVars \/ (vssQueue # <<>> /\ Leave)
  <1>1. CASE Worked \/ NotWorked
    BY <1>1 DEF Worked, NotWorked
  <1>2. ASSUME NEW p \in Policies, SetVssAutomatic(p) \/ PolicyProgress(p)
        PROVE  UNCHANGED queueVars
    BY <1>2, SetPolicyEffect, PolicyEffect DEF PolicyPending
  <1>3. ASSUME NEW v \in Manuals, VssBackup(v) \/ ManualProgress(v)
        PROVE  UNCHANGED queueVars
    BY <1>3 DEF VssBackup, ManualProgress, VssBackupEnqueue, VssBackupStart, VssBackupEnd,
       ManualPending
  <1>4. CASE CheckpointProgress
    BY <1>4 DEF CheckpointProgress, CheckpointStart, CheckpointEnd, CheckpointClear,
       CheckpointUploaded, CheckpointRefused, Running
  <1> QED BY <1>1, <1>2, <1>3, <1>4, BackupCases
-----------------------------------------------------------------------------
\* What each phase of shutdown() awaits holds all that is under way of its kind,
\* and what it has awaited is gone for good.
Past(phases) == closed \/ shutdown \in phases
LastPhases == {"vssTail", "native"}
OperationPhases == {"vssOperations"} \cup LastPhases
PolicyPhases == {"policy"} \cup OperationPhases
SigningPhases == {"signing"} \cup PolicyPhases
MutationPhases == {"mutations"} \cup SigningPhases
AddressPhases == {"address"} \cup MutationPhases

AwaitedByPhase ==
  /\ shutdown = "unlock" => \A u \in Unlocks : Unlocking(u) => drain.unlock = u
  /\ shutdown = "address" => \A a \in Addresses : ReadingAddress(a) => a \in drain.calls
  /\ shutdown = "mutations" => \A m \in Mutations : InFlight(m) => m \in drain.calls
  /\ shutdown = "signing" /\ signQueue # <<>> => signQueue[Len(signQueue)] \in drain.calls
  /\ shutdown = "policy" => policyTail = None \/ policyTail \in drain.calls
  /\ shutdown = "vssOperations" => \A v \in Manuals : ManualPending(v) => v \in drain.calls
  /\ shutdown = "vssTail" => Ticket <= drain.ticket

GoneForGood ==
  /\ Past(AddressPhases) => \A u \in Unlocks : ~Unlocking(u)
  /\ Past(MutationPhases) => \A a \in Addresses : ~ReadingAddress(a)
  /\ Past(SigningPhases) => \A m \in Mutations : ~InFlight(m)
  /\ Past(PolicyPhases) => signQueue = <<>>
  /\ Past(OperationPhases) => ~PolicyPending
  /\ Past(LastPhases) => \A v \in Manuals : ~ManualPending(v)
  /\ Past({"native"}) => vssQueue = <<>>

LEMMA NoWorkNative ==
  ASSUME AddressUnlocks, \A u \in Unlocks : ~Unlocking(u),
         \A a \in Addresses : ~ReadingAddress(a), \A m \in Mutations : ~InFlight(m)
  PROVE  ~WorkNative
  BY DEF AddressUnlocks, Unlocking, ReadingAddress, InFlight, WorkNative, UnlockOps

\* The calls run, shutdown() waits.
LEMMA TeardownWaits ==
  ASSUME TypeOK, AddressUnlocks, AwaitedByPhase, GoneForGood, [Next]_vars,
         UNCHANGED <<shutdown, drain, closed>>
  PROVE  AwaitedByPhase' /\ GoneForGood'
  <1> USE DEF Past, LastPhases, OperationPhases, PolicyPhases, SigningPhases, MutationPhases,
              AddressPhases
  <1>0. CASE Open
    BY <1>0 DEF Open, AwaitedByPhase, GoneForGood
  <1>1. CASE ~Open
    <2>1. /\ \A u \in Unlocks : Unlocking(u)' => Unlocking(u)
          /\ \A a \in Addresses : ReadingAddress(a)' => ReadingAddress(a)
          /\ \A m \in Mutations : InFlight(m)' => InFlight(m)
          /\ \A p \in Policies : Unsettled(p)' => Unsettled(p)
          /\ \A v \in Manuals : ManualPending(v)' => ManualPending(v)
          /\ policyTail' = policyTail
      BY <1>1, WorkShrinks
    <2>2. ~PolicyPending => ~PolicyPending'
      BY <2>1 DEF PolicyPending, Unsettled
    <2>3. signQueue = <<>> => signQueue' = <<>>
      BY <1>1, SignsShrink
    <2>4. signQueue' # <<>> => signQueue # <<>> /\ signQueue'[Len(signQueue')] = signQueue[Len(signQueue)]
      <3>1. CASE signQueue' = signQueue
        BY <3>1
      <3>2. CASE signQueue # <<>> /\ signQueue' = Tail(signQueue)
        BY <3>2 DEF TypeOK
      <3> QED BY <1>1, <3>1, <3>2, SignsShrink
    <2>5. Past(LastPhases) =>
            /\ vssQueue = <<>> => vssQueue' = <<>>
            /\ Ticket' = Ticket
      <3> SUFFICES ASSUME Past(LastPhases)
                   PROVE  (vssQueue = <<>> => vssQueue' = <<>>) /\ Ticket' = Ticket
        OBVIOUS
      <3>1. ~WorkNative
        BY NoWorkNative DEF GoneForGood
      <3>2. UNCHANGED queueVars \/ (vssQueue # <<>> /\ Leave)
        BY <1>1, <3>1, QueueShrinks DEF GoneForGood
      <3>3. CASE vssQueue # <<>> /\ Leave
        <4>1. vssQueue \in Seq(Tasks) /\ served \in Nat
          BY DEF TypeOK
        <4>2. Len(Tail(vssQueue)) = Len(vssQueue) - 1 /\ Len(vssQueue) \in Nat
          BY <3>3, <4>1
        <4> QED BY <3>3, <4>1, <4>2 DEF Leave, Ticket
      <3>4. CASE UNCHANGED queueVars
        BY <3>4 DEF Ticket
      <3> QED BY <3>2, <3>3, <3>4
    <2>6. AwaitedByPhase'
      BY <2>1, <2>4, <2>5 DEF AwaitedByPhase
    <2>7. GoneForGood'
      BY <2>1, <2>2, <2>3, <2>5 DEF GoneForGood
    <2> QED BY <2>6, <2>7
  <1> QED BY <1>0, <1>1

\* A phase ends when what it awaits has settled; the next captures what it awaits.
LEMMA TeardownAdvances ==
  ASSUME TypeOK, UnlockOwned, WorkOrdered, CallPhases, SignsQueued, AwaitedByPhase, GoneForGood,
         Shutdown \/ ShutdownProgress
  PROVE  AwaitedByPhase' /\ GoneForGood'
  <1> USE DEF DrainNext, Past, LastPhases, OperationPhases, PolicyPhases, SigningPhases,
              MutationPhases, AddressPhases
  <1>1. /\ UNCHANGED <<pc, unl, policyTail, signQueue, queueVars>>
        /\ \A u : Unlocking(u)' <=> Unlocking(u)
        /\ \A a : ReadingAddress(a)' <=> ReadingAddress(a)
        /\ \A m : InFlight(m)' <=> InFlight(m)
        /\ \A v : ManualPending(v)' <=> ManualPending(v)
        /\ PolicyPending' <=> PolicyPending
    BY DEF Shutdown, ShutdownProgress, ShutdownDrain, ShutdownNative, ShutdownEnd, Unlocking,
       ReadingAddress, InFlight, ManualPending, PolicyPending
  <1>2. CASE Shutdown
    <2>1. shutdown' = "begin" /\ closed' = closed
      BY <1>2 DEF Shutdown
    <2> QED BY <1>1, <2>1 DEF AwaitedByPhase, GoneForGood
  <1>3. CASE ShutdownEnd
    <2>1. shutdown' = "none" /\ shutdown = "native"
      BY <1>3 DEF ShutdownEnd
    <2> QED BY <1>1, <2>1 DEF AwaitedByPhase, GoneForGood
  <1>4. CASE ShutdownNative
    <2>1. shutdown = "vssTail" /\ shutdown' = "native" /\ closed' = closed /\ served >= drain.ticket
      BY <1>4 DEF ShutdownNative, Drained
    <2>2. vssQueue = <<>>
      <3>1. served + Len(vssQueue) <= drain.ticket
        BY <2>1 DEF AwaitedByPhase, Ticket
      <3>2. served \in Nat /\ drain.ticket \in Nat /\ vssQueue \in Seq(Tasks)
        BY DEF TypeOK, Drain
      <3> QED BY <2>1, <3>1, <3>2
    <2> QED BY <1>1, <2>1, <2>2 DEF AwaitedByPhase, GoneForGood
  <1>5. CASE ShutdownDrain
    <2>0. closed' = closed /\ UnlockSettled(drain.unlock) /\ \A c \in drain.calls : Settled(c)
      BY <1>5 DEF ShutdownDrain, Drained
    <2>1. CASE shutdown = "begin" /\ DrainNext("unlock", [NoDrain EXCEPT !.unlock = CurrentUnlock])
      <3>1. \A u \in Unlocks : Unlocking(u) => drain'.unlock = u
        BY <2>1, SideCalls DEF UnlockOwned, Unlocking, CurrentUnlock, NoDrain
      <3> QED BY <1>1, <2>0, <2>1, <3>1 DEF AwaitedByPhase, GoneForGood
    <2>2. CASE shutdown = "unlock"
               /\ DrainNext("address", [NoDrain EXCEPT !.calls = {addressInFlight} \ {None}])
      <3>1. \A u \in Unlocks : ~Unlocking(u)
        BY <2>0, <2>2, DisjointCalls DEF AwaitedByPhase, UnlockSettled, Unlocking
      <3>2. \A a \in Addresses : ReadingAddress(a) => a \in drain'.calls
        BY <2>2, DisjointCalls DEF WorkOrdered, AddressOwned, NoDrain
      <3> QED BY <1>1, <2>0, <2>2, <3>1, <3>2 DEF AwaitedByPhase, GoneForGood
    <2>3. CASE shutdown = "address"
               /\ DrainNext("mutations", [NoDrain EXCEPT !.calls = MutationsInFlight])
      <3>1. \A a \in Addresses : ~ReadingAddress(a)
        BY <2>0, <2>3, DisjointCalls DEF AwaitedByPhase, Settled, ReadingAddress
      <3>2. \A m \in Mutations : InFlight(m) => m \in drain'.calls
        BY <2>3 DEF MutationsInFlight, InFlight, NoDrain
      <3> QED BY <1>1, <2>0, <2>3, <3>1, <3>2 DEF AwaitedByPhase, GoneForGood
    <2>4. CASE shutdown = "mutations"
               /\ DrainNext("signing", [NoDrain EXCEPT !.calls = SignTail])
      <3>1. \A m \in Mutations : ~InFlight(m)
        BY <2>0, <2>4, DisjointCalls DEF AwaitedByPhase, Settled, InFlight
      <3>2. signQueue # <<>> => signQueue[Len(signQueue)] \in drain'.calls
        BY <2>4 DEF SignTail, NoDrain
      <3> QED BY <1>1, <2>0, <2>4, <3>1, <3>2 DEF AwaitedByPhase, GoneForGood
    <2>5. CASE shutdown = "signing"
               /\ DrainNext("policy", [NoDrain EXCEPT !.calls = {policyTail} \ {None}])
      <3>1. signQueue = <<>>
        <4> SUFFICES ASSUME signQueue # <<>> PROVE FALSE
          OBVIOUS
        <4>1. Len(signQueue) \in DOMAIN signQueue /\ signQueue[Len(signQueue)] \in Signs
          BY DEF TypeOK
        <4> QED BY <2>0, <2>5, <4>1, SideCalls, DisjointCalls
                DEF AwaitedByPhase, SignsQueued, Settled
      <3>2. policyTail = None \/ policyTail \in drain'.calls
        BY <2>5 DEF NoDrain
      <3> QED BY <1>1, <2>0, <2>5, <3>1, <3>2 DEF AwaitedByPhase, GoneForGood
    <2>6. CASE shutdown = "policy"
               /\ DrainNext("vssOperations",
                            [NoDrain EXCEPT !.calls = ManualsPending, !.ticket = Ticket])
      <3>1. ~PolicyPending
        BY <2>0, <2>6, TailSettled DEF AwaitedByPhase, WorkOrdered, Settled
      <3>2. \A v \in Manuals : ManualPending(v) => v \in drain'.calls
        BY <2>6 DEF ManualsPending, ManualPending, NoDrain
      <3> QED BY <1>1, <2>0, <2>6, <3>1, <3>2 DEF AwaitedByPhase, GoneForGood
    <2>7. CASE shutdown = "vssOperations"
               /\ DrainNext("vssTail", [NoDrain EXCEPT !.ticket = Ticket])
      <3>1. \A v \in Manuals : ~ManualPending(v)
        BY <2>0, <2>7, DisjointCalls DEF AwaitedByPhase, Settled, ManualPending
      <3>2. Ticket' = Ticket /\ drain'.ticket = Ticket /\ Ticket \in Nat
        BY <1>1, <2>7, TicketType DEF Ticket, NoDrain
      <3>3. Ticket' <= drain'.ticket
        BY <3>2
      <3> QED BY <1>1, <2>0, <2>7, <3>1, <3>3 DEF AwaitedByPhase, GoneForGood
    <2> QED BY <1>5, <2>1, <2>2, <2>3, <2>4, <2>5, <2>6, <2>7 DEF ShutdownDrain
  <1> QED BY <1>2, <1>3, <1>4, <1>5 DEF ShutdownProgress

\* The part of the state the theorems about shutdown() rest on.
TeardownKept ==
  CallPhases /\ AddressUnlocks /\ SignsQueued /\ AwaitedByPhase /\ GoneForGood

LEMMA TeardownInit == Init => TeardownKept
  <1> SUFFICES ASSUME Init PROVE TeardownKept
    OBVIOUS
  <1>1. \A c \in Calls : pc[c] = "idle"
    BY DEF Init
  <1>2. \A u \in UnlockOps : unl[u] = "idle"
    BY DEF Init
  <1>3. CallPhases
    BY <1>1, DisjointCalls, SideCalls DEF CallPhases
  <1>4. AddressUnlocks
    BY <1>2, SideCalls DEF AddressUnlocks, Unlocking
  <1>5. SignsQueued
    BY <1>1, SideCalls DEF Init, SignsQueued
  <1>6. AwaitedByPhase /\ GoneForGood
    BY DEF Init, AwaitedByPhase, GoneForGood, Past, LastPhases, OperationPhases, PolicyPhases,
       SigningPhases, MutationPhases, AddressPhases
  <1> QED BY <1>3, <1>4, <1>5, <1>6 DEF TeardownKept

LEMMA TeardownStep ==
  TypeOK /\ UnlockOwned /\ WorkOrdered /\ TeardownKept /\ [Next]_vars => TeardownKept'
  <1> SUFFICES ASSUME TypeOK, UnlockOwned, WorkOrdered, TeardownKept, [Next]_vars
               PROVE  TeardownKept'
    OBVIOUS
  <1>1. AwaitedByPhase' /\ GoneForGood'
    <2>1. CASE Shutdown \/ ShutdownProgress
      BY <2>1, TeardownAdvances DEF TeardownKept
    <2>2. CASE ~(Shutdown \/ ShutdownProgress)
      <3>1. UNCHANGED <<shutdown, drain, closed>>
        <4>1. CASE AddressClear \/ CheckpointProgress \/ UNCHANGED vars
          BY <4>1 DEF AddressClear, CheckpointProgress, CheckpointStart, CheckpointEnd,
             CheckpointClear, vars
        <4> QED BY <2>2, <4>1, UnlockEffect, AddressEffect, MutationEffect, SetPolicyEffect,
                   PolicyEffect, AsideEffect, StepCases
      <3> QED BY <3>1, TeardownWaits DEF TeardownKept
    <2> QED BY <2>1, <2>2
  <1> QED BY <1>1, PhasesStep, AddressUnlocksStep, SignsStep DEF TeardownKept

LEMMA TeardownQuiet == TeardownKept => TeardownSafe
  <1> SUFFICES ASSUME TeardownKept, shutdown = "native" \/ closed
               PROVE  /\ \A u \in UnlockOps : ~Unlocking(u)
                      /\ \A c \in Calls \ Reads : ~Busy(c)
                      /\ vssQueue = <<>> /\ signQueue = <<>>
    BY DEF TeardownSafe, Unlocking
  <1>1. /\ \A u \in Unlocks : ~Unlocking(u)
        /\ \A a \in Addresses : ~ReadingAddress(a)
        /\ \A m \in Mutations : ~InFlight(m)
        /\ signQueue = <<>> /\ ~PolicyPending /\ vssQueue = <<>>
        /\ \A v \in Manuals : ~ManualPending(v)
    BY DEF TeardownKept, GoneForGood, Past, LastPhases, OperationPhases, PolicyPhases,
       SigningPhases, MutationPhases, AddressPhases
  <1>2. \A u \in UnlockOps : ~Unlocking(u)
    BY <1>1 DEF TeardownKept, AddressUnlocks, ReadingAddress, UnlockOps
  <1>3. \A s \in Signs : ~Busy(s)
    BY <1>1 DEF TeardownKept, SignsQueued, CallPhases, Busy
  <1>4. \A c \in Addresses \cup Mutations \cup Manuals \cup Policies : ~Busy(c)
    BY <1>1 DEF TeardownKept, CallPhases, Busy, ReadingAddress, InFlight, ManualPending, PolicyPending
  <1> QED BY <1>1, <1>2, <1>3, <1>4 DEF Calls

\* While the binding shuts down, and once the account is closed, no admitted
\* call is unfinished and nothing is queued: each phase awaits all there is of
\* one kind of work, and no phase lets an earlier kind come back.
THEOREM SchedulerTeardownSafe == Spec => []TeardownSafe
  BY SchedulerTypeCorrect, OwnedInit, OwnedStep, WorkOrderedInit, WorkOrderedStep,
     TeardownInit, TeardownStep, TeardownQuiet, PTL DEF Spec

-----------------------------------------------------------------------------
\* The refinement of DrainedTeardown.  A job is active while its call is busy,
\* its unlock runs or the checkpoint is queued.
HasCheckpoint == \E i \in DOMAIN vssQueue : vssQueue[i] = Checkpoint

ActiveMember(x) ==
  \/ x \in Calls \ Reads /\ Busy(x)
  \/ x \in UnlockOps /\ Unlocking(x)
  \/ x = Checkpoint /\ HasCheckpoint

LEMMA ActiveMembers ==
  /\ \A x : x \in ActiveJobs <=> ActiveMember(x)
  /\ \A x : x \in ActiveJobs' <=> ActiveMember(x)'
  BY DEF ActiveJobs, Unlocking, HasCheckpoint, ActiveMember

\* A step settles a part of one job, admits one, or does neither.
JobStep ==
  \/ ActiveJobs' = ActiveJobs
  \/ \E job \in Jobs : Open /\ job \notin ActiveJobs /\ ActiveJobs' = ActiveJobs \cup {job}
  \/ \E job \in Jobs :
       /\ job \in ActiveJobs
       /\ ActiveJobs \ {job} \subseteq ActiveJobs' /\ ActiveJobs' \subseteq ActiveJobs \cup {Checkpoint}

LEMMA StepOfJob ==
  ASSUME NEW job \in Jobs,
         \A c \in Calls \ Reads : c # job => (Busy(c)' <=> Busy(c)),
         \A u \in UnlockOps : u # job => (Unlocking(u)' <=> Unlocking(u)),
         HasCheckpoint => HasCheckpoint',
         job \in ActiveJobs \/ ((HasCheckpoint' => HasCheckpoint) /\ (job \notin ActiveJobs' \/ Open))
  PROVE  JobStep
  <1>1. \A x : x # job /\ x # Checkpoint => (x \in ActiveJobs' <=> x \in ActiveJobs)
    BY ActiveMembers DEF ActiveMember
  <1>2. Checkpoint \in ActiveJobs /\ Checkpoint # job => Checkpoint \in ActiveJobs'
    BY ActiveMembers, SchedulerAssumption DEF ActiveMember, UnlockOps, Calls
  <1>3. CASE job \in ActiveJobs
    BY <1>1, <1>2, <1>3 DEF JobStep
  <1>4. CASE job \notin ActiveJobs
    <2>1. \A x : x # job => (x \in ActiveJobs' <=> x \in ActiveJobs)
      <3>1. Checkpoint # job => (Checkpoint \in ActiveJobs' <=> Checkpoint \in ActiveJobs)
        BY <1>4, ActiveMembers, SchedulerAssumption DEF ActiveMember, UnlockOps, Calls
      <3> QED BY <1>1, <3>1
    <2>2. CASE job \notin ActiveJobs'
      BY <1>4, <2>1, <2>2 DEF JobStep
    <2>3. CASE job \in ActiveJobs' /\ Open
      <3>1. ActiveJobs' = ActiveJobs \cup {job}
        BY <2>1, <2>3
      <3> QED BY <1>4, <2>3, <3>1 DEF JobStep
    <2> QED BY <1>4, <2>2, <2>3
  <1> QED BY <1>3, <1>4

LEMMA CheckpointKept ==
  ASSUME TypeOK
  PROVE  /\ \A x \in Tasks : vssQueue' = Append(vssQueue, x) => (HasCheckpoint => HasCheckpoint')
         /\ \A x \in Tasks : vssQueue' = Append(vssQueue, x) /\ x # Checkpoint =>
              (HasCheckpoint' => HasCheckpoint)
         /\ \A x : Running(x) /\ x # Checkpoint /\ Leave => (HasCheckpoint => HasCheckpoint')
         /\ vssQueue' = vssQueue => (HasCheckpoint' <=> HasCheckpoint)
         /\ Leave /\ vssQueue # <<>> => (HasCheckpoint' => HasCheckpoint)
  <1>0. vssQueue \in Seq(Tasks)
    BY DEF TypeOK
  <1>1. ASSUME NEW x \in Tasks, vssQueue' = Append(vssQueue, x)
        PROVE  /\ HasCheckpoint => HasCheckpoint'
               /\ x # Checkpoint => (HasCheckpoint' => HasCheckpoint)
    <2>1. /\ DOMAIN vssQueue = 1..Len(vssQueue) /\ Len(vssQueue) \in Nat
          /\ DOMAIN vssQueue' = 1..(Len(vssQueue) + 1)
          /\ \A i \in 1..Len(vssQueue) : vssQueue'[i] = vssQueue[i]
          /\ vssQueue'[Len(vssQueue) + 1] = x
      BY <1>0, <1>1
    <2> QED BY <2>1 DEF HasCheckpoint
  <1>2. ASSUME vssQueue # <<>>, Leave
        PROVE  /\ HasCheckpoint' => HasCheckpoint
               /\ Head(vssQueue) # Checkpoint => (HasCheckpoint => HasCheckpoint')
    <2>1. /\ DOMAIN vssQueue = 1..Len(vssQueue) /\ Len(vssQueue) \in Nat \ {0}
          /\ DOMAIN vssQueue' = 1..(Len(vssQueue) - 1)
          /\ \A i \in 1..(Len(vssQueue) - 1) : vssQueue'[i] = vssQueue[i + 1]
          /\ vssQueue[1] = Head(vssQueue)
      BY <1>0, <1>2 DEF Leave
    <2>2. HasCheckpoint' => HasCheckpoint
      BY <2>1 DEF HasCheckpoint
    <2>3. ASSUME Head(vssQueue) # Checkpoint, NEW i \in DOMAIN vssQueue, vssQueue[i] = Checkpoint
          PROVE  HasCheckpoint'
      <3>1. i - 1 \in DOMAIN vssQueue' /\ vssQueue'[i - 1] = Checkpoint
        BY <2>1, <2>3
      <3> QED BY <3>1 DEF HasCheckpoint
    <2> QED BY <2>2, <2>3 DEF HasCheckpoint
  <1> QED BY <1>1, <1>2 DEF Running, HasCheckpoint

LEMMA WorkAdds ==
  ASSUME TypeOK, NEW c, AfterVssMutation(c) \/ NoVssMutation
  PROVE  HasCheckpoint => HasCheckpoint'
  <1>1. vssQueue' = vssQueue \/ vssQueue' = Append(vssQueue, Checkpoint)
    BY DEF AfterVssMutation, NoVssMutation
  <1> QED BY <1>1, CheckpointKept, TaskTypes

LEMMA JobTypes ==
  /\ UnlockOps \subseteq Jobs /\ Calls \ Reads \subseteq Jobs /\ Checkpoint \in Jobs
  /\ Mutations \cup Addresses \cup Policies \cup Manuals \cup Signs = Calls \ Reads
  /\ Checkpoint \notin Calls \cup UnlockOps
  /\ \A c \in Mutations \cup Policies \cup Manuals \cup Signs : c \notin UnlockOps
  BY SchedulerAssumption DEF Jobs, UnlockOps, Calls

LEMMA UnlockJobs ==
  ASSUME TypeOK, UnlockNext \/ UnlockProgress
  PROVE  JobStep
  <1>0. unl \in [UnlockOps -> UnlockPhases]
    BY DEF TypeOK
  <1>1. pc' = pc /\ \A c : Busy(c)' <=> Busy(c)
    BY UnlockEffect DEF Untouched, Busy
  <1>2. ASSUME NEW u \in Unlocks, Unlock(u) PROVE JobStep
    <2>1. \A w \in UnlockOps : w # u => unl'[w] = unl[w]
      BY <1>0, <1>2, SideCalls DEF Unlock, UnlockWithPolicy
    <2>2. vssQueue' = vssQueue /\ u \in UnlockOps /\ u \in Jobs
      BY <1>2, SideCalls, JobTypes DEF Unlock
    <2>3. Open \/ (unl'[u] = "failed" /\ u \notin Calls)
      BY <1>0, <1>2, SideCalls, SchedulerAssumption DEF Unlock
    <2>4. Open \/ u \notin ActiveJobs'
      BY <2>2, <2>3, ActiveMembers, JobTypes DEF ActiveMember, Unlocking
    <2> QED BY <1>1, <2>1, <2>2, <2>4, StepOfJob, CheckpointKept DEF Unlocking
  <1>3. ASSUME NEW u \in UnlockOps, UnlockStart(u) \/ UnlockEnd(u) PROVE JobStep
    <2>1. \A w \in UnlockOps : w # u => unl'[w] = unl[w]
      BY <1>0, <1>3 DEF UnlockStart, UnlockEnd
    <2>2. u \in ActiveJobs /\ u \in Jobs
      BY <1>3, ActiveMembers, JobTypes DEF ActiveMember, UnlockStart, UnlockEnd, Unlocking
    <2>3. CASE UnlockStart(u)
      <3>1. vssQueue' = vssQueue
        BY <2>3 DEF UnlockStart
      <3> QED BY <1>1, <2>1, <2>2, <3>1, StepOfJob, CheckpointKept DEF Unlocking
    <2>4. CASE UnlockEnd(u)
      <3>1. HasCheckpoint => HasCheckpoint'
        BY <2>4, WorkAdds DEF UnlockEnd
      <3> QED BY <1>1, <2>1, <2>2, <3>1, StepOfJob DEF Unlocking
    <2> QED BY <1>3, <2>3, <2>4
  <1>4. CASE UnlockClear
    BY <1>4 DEF UnlockClear, JobStep, ActiveJobs, Busy
  <1> QED BY <1>2, <1>3, <1>4 DEF UnlockNext, UnlockProgress

LEMMA AddressJobs ==
  ASSUME TypeOK, NEW a \in Addresses, GetAddress(a) \/ AddressProgress(a)
  PROVE  JobStep
  <1>0. /\ unl \in [UnlockOps -> UnlockPhases] /\ a \in Jobs /\ a \in Calls \ Reads
        /\ pc \in [Calls -> Phases] /\ a \in UnlockOps
    BY JobTypes, SideCalls DEF TypeOK
  <1>1. /\ \A c \in Calls \ Reads : c # a => (Busy(c)' <=> Busy(c))
        /\ \A u \in UnlockOps : u # a => (Unlocking(u)' <=> Unlocking(u))
    BY <1>0, AddressEffect DEF Alone, Busy, Unlocking, UnlockWithPolicy
  <1>2. CASE GetAddress(a)
    <2>1. vssQueue' = vssQueue /\ unl' = unl /\ pc[a] = "idle"
      BY <1>2 DEF GetAddress
    <2>2. Open \/ pc'[a] = "failed"
      BY <1>0, <1>2 DEF GetAddress
    <2>3. a \in ActiveJobs \/ Open \/ a \notin ActiveJobs'
      BY <1>0, <2>1, <2>2, ActiveMembers, JobTypes DEF ActiveMember, Busy, Unlocking
    <2> QED BY <1>0, <1>1, <2>1, <2>3, StepOfJob, CheckpointKept
  <1>3. CASE AddressProgress(a)
    <2>1. pc[a] \in {"waiting", "reading", "unlocking", "rereading"}
      BY <1>3 DEF AddressProgress, AddressStart, AddressEnd, AddressLocked, AddressUnlocked
    <2>2. a \in ActiveJobs
      BY <1>0, <2>1, ActiveMembers DEF ActiveMember, Busy
    <2>3. HasCheckpoint => HasCheckpoint'
      <3>1. CASE AddressStart(a) \/ AddressLocked(a) \/ AddressUnlocked(a)
        BY <3>1, CheckpointKept DEF AddressStart, AddressLocked, AddressUnlocked
      <3>2. CASE AddressEnd(a)
        BY <3>2, WorkAdds DEF AddressEnd, AddressRead
      <3> QED BY <1>3, <3>1, <3>2 DEF AddressProgress
    <2> QED BY <1>0, <1>1, <2>2, <2>3, StepOfJob
  <1> QED BY <1>2, <1>3

\* A step of a call that owns no unlock.
LEMMA StepOfCall ==
  ASSUME TypeOK, NEW c \in Mutations \cup Policies \cup Manuals \cup Signs, Alone(c), unl' = unl,
         HasCheckpoint => HasCheckpoint',
         Busy(c) \/ ((HasCheckpoint' => HasCheckpoint) /\ (~Busy(c)' \/ Open))
  PROVE  JobStep
  <1>1. c \in Jobs /\ c \in Calls \ Reads /\ c \notin UnlockOps /\ c # Checkpoint
    BY JobTypes
  <1>2. /\ \A d \in Calls \ Reads : d # c => (Busy(d)' <=> Busy(d))
        /\ \A u \in UnlockOps : Unlocking(u)' <=> Unlocking(u)
    BY <1>1 DEF Alone, Busy, Unlocking
  <1>3. (c \in ActiveJobs <=> Busy(c)) /\ (c \in ActiveJobs' <=> Busy(c)')
    BY <1>1, ActiveMembers DEF ActiveMember
  <1> QED BY <1>1, <1>2, <1>3, StepOfJob

LEMMA MutationJobs ==
  ASSUME TypeOK, NEW m \in Mutations, Mutate(m) \/ MutationProgress(m)
  PROVE  JobStep
  <1>0. m \in Calls /\ pc \in [Calls -> Phases]
    BY DisjointCalls DEF TypeOK
  <1>1. CASE Mutate(m)
    <2>1. vssQueue' = vssQueue
      BY <1>1 DEF Mutate
    <2>2. ~Busy(m)' \/ Open
      BY <1>1, MutationEffect DEF Busy, Mutate
    <2> QED BY <1>1, <2>1, <2>2, StepOfCall, MutationEffect, CheckpointKept
  <1>2. CASE MutationProgress(m)
    <2>1. Busy(m)
      BY <1>2 DEF MutationProgress, MutationDispatch, MutationEnd, Busy
    <2>2. HasCheckpoint => HasCheckpoint'
      BY <1>2, WorkAdds, CheckpointKept DEF MutationProgress, MutationDispatch, MutationEnd
    <2> QED BY <1>2, <2>1, <2>2, StepOfCall, MutationEffect
  <1> QED BY <1>1, <1>2

LEMMA PolicyJobs ==
  ASSUME TypeOK, NEW p \in Policies, SetVssAutomatic(p) \/ PolicyProgress(p)
  PROVE  JobStep
  <1>0. p \in Tasks /\ p # Checkpoint
    BY TaskTypes
  <1>1. CASE SetVssAutomatic(p)
    <2>1. vssQueue' = vssQueue
      BY <1>1 DEF SetVssAutomatic
    <2>2. ~Busy(p)' \/ Open
      BY <1>1, SetPolicyEffect DEF Busy
    <2> QED BY <1>1, <2>1, <2>2, StepOfCall, SetPolicyEffect, CheckpointKept
  <1>2. CASE PolicyProgress(p)
    <2>1. Busy(p)
      BY <1>2, PolicyEffect DEF Busy
    <2>2. \/ vssQueue' = vssQueue \/ vssQueue' = Append(vssQueue, p)
          \/ Running(p) /\ Leave
      BY <1>2 DEF PolicyProgress, PolicyRefuse, PolicyDrain, PolicyEnqueue, PolicyStart,
         PolicyEnd, PolicySettle
    <2>3. HasCheckpoint => HasCheckpoint'
      BY <1>0, <2>2, CheckpointKept
    <2> QED BY <1>2, <2>1, <2>3, StepOfCall, PolicyEffect
  <1> QED BY <1>1, <1>2

LEMMA ManualJobs ==
  ASSUME TypeOK, NEW v \in Manuals, VssBackup(v) \/ ManualProgress(v)
  PROVE  JobStep
  <1>0. v \in Tasks /\ v # Checkpoint /\ v \in Calls /\ pc \in [Calls -> Phases]
    BY TaskTypes DEF TypeOK
  <1>1. Alone(v) /\ unl' = unl
    BY AsideEffect
  <1>2. CASE VssBackup(v)
    <2>1. vssQueue' = vssQueue \/ vssQueue' = Append(vssQueue, v)
      BY <1>2 DEF VssBackup
    <2>2. ~Busy(v)' \/ Open
      BY <1>0, <1>2 DEF VssBackup, Busy
    <2> QED BY <1>0, <1>1, <2>1, <2>2, StepOfCall, CheckpointKept
  <1>3. CASE ManualProgress(v)
    <2>1. Busy(v)
      BY <1>3 DEF ManualProgress, VssBackupEnqueue, VssBackupStart, VssBackupEnd, Busy
    <2>2. \/ vssQueue' = vssQueue \/ vssQueue' = Append(vssQueue, v)
          \/ Running(v) /\ Leave
      BY <1>3 DEF ManualProgress, VssBackupEnqueue, VssBackupStart, VssBackupEnd
    <2>3. HasCheckpoint => HasCheckpoint'
      BY <1>0, <2>2, CheckpointKept
    <2> QED BY <1>1, <2>1, <2>3, StepOfCall
  <1> QED BY <1>2, <1>3

LEMMA SignJobs ==
  ASSUME TypeOK, NEW s \in Signs, SignMessage(s) \/ SignProgress(s)
  PROVE  JobStep
  <1>0. s \in Calls /\ pc \in [Calls -> Phases]
    BY SideCalls DEF TypeOK
  <1>1. Alone(s) /\ unl' = unl /\ vssQueue' = vssQueue
    BY AsideEffect DEF SignMessage, SignProgress, SignStart, SignEnd
  <1>2. Busy(s) \/ ~Busy(s)' \/ Open
    BY <1>0 DEF SignMessage, SignProgress, SignStart, SignEnd, Busy
  <1> QED BY <1>1, <1>2, StepOfCall, CheckpointKept

LEMMA QuietJobs ==
  ASSUME TypeOK, AddressClear \/ CheckpointProgress \/ UNCHANGED vars
  PROVE  JobStep
  <1>1. pc' = pc /\ unl' = unl
    BY QuietEffect DEF Untouched
  <1>2. CASE vssQueue' = vssQueue
    BY <1>1, <1>2 DEF JobStep, ActiveJobs, Busy
  <1>3. CASE Running(Checkpoint) /\ Leave
    <2>1. HasCheckpoint /\ Checkpoint \in Jobs
      BY <1>3, JobTypes DEF HasCheckpoint, Running, TypeOK
    <2>2. \A x : x # Checkpoint => (x \in ActiveJobs' <=> x \in ActiveJobs)
      BY <1>1, ActiveMembers DEF ActiveMember, Busy, Unlocking
    <2>3. Checkpoint \in ActiveJobs
      BY <2>1, ActiveMembers DEF ActiveMember
    <2> QED BY <2>1, <2>2, <2>3 DEF JobStep
  <1> QED BY <1>2, <1>3 DEF AddressClear, CheckpointProgress, CheckpointStart, CheckpointEnd,
       CheckpointClear, CheckpointUploaded, CheckpointRefused, vars

LEMMA CallJobs ==
  ASSUME TypeOK, [Next]_vars, ~(Shutdown \/ ShutdownProgress)
  PROVE  JobStep /\ UNCHANGED <<shutdown, closed>>
  <1>1. JobStep
    <2>1. ASSUME NEW r \in Reads, ReadMetadata(r) \/ ReadEnd(r) PROVE JobStep
      <3>1. unl' = unl /\ vssQueue' = vssQueue /\ \A c \in Calls \ Reads : pc'[c] = pc[c]
        BY <2>1, AsideEffect DEF Alone, ReadMetadata, ReadEnd
      <3>2. \A x : x \in ActiveJobs' <=> x \in ActiveJobs
        BY <3>1, ActiveMembers DEF ActiveMember, Busy, Unlocking, HasCheckpoint
      <3>3. ActiveJobs' = ActiveJobs
        BY <3>2
      <3> QED BY <3>3 DEF JobStep
    <2> QED BY <2>1, UnlockJobs, AddressJobs, MutationJobs, PolicyJobs, ManualJobs, SignJobs,
            QuietJobs, StepCases
  <1>2. UNCHANGED <<shutdown, closed>>
    <2>1. CASE AddressClear \/ CheckpointProgress \/ UNCHANGED vars
      BY <2>1 DEF AddressClear, CheckpointProgress, CheckpointStart, CheckpointEnd,
         CheckpointClear, vars
    <2> QED BY <2>1, UnlockEffect, AddressEffect, MutationEffect, SetPolicyEffect,
               PolicyEffect, AsideEffect, StepCases
  <1> QED BY <1>1, <1>2

LEMMA StateNames ==
  ASSUME TypeOK
  PROVE  /\ closed => AccountState = "closed"
         /\ ~closed /\ shutdown = "none" => AccountState = "open"
         /\ ~closed /\ shutdown = "native" => AccountState = "native"
         /\ ~closed /\ shutdown \notin {"none", "native"} => AccountState = "stopping"
  BY DEF AccountState

LEMMA SafeMeansIdle ==
  /\ TeardownSafe /\ (shutdown = "native" \/ closed) => ActiveJobs = {}
  /\ TeardownSafe' /\ (shutdown' = "native" \/ closed') => ActiveJobs' = {}
  <1>1. ASSUME TeardownSafe, shutdown = "native" \/ closed PROVE ActiveJobs = {}
    <2>1. \A x : x \notin ActiveJobs
      BY <1>1, ActiveMembers DEF ActiveMember, TeardownSafe, Unlocking, HasCheckpoint
    <2> QED BY <2>1
  <1>2. ASSUME TeardownSafe', shutdown' = "native" \/ closed' PROVE ActiveJobs' = {}
    <2>1. \A x : x \notin ActiveJobs'
      BY <1>2, ActiveMembers DEF ActiveMember, TeardownSafe, Unlocking, HasCheckpoint
    <2> QED BY <2>1
  <1> QED BY <1>1, <1>2

LEMMA TeardownImplemented ==
  ASSUME TypeOK, TypeOK', TeardownSafe, TeardownSafe', [Next]_vars
  PROVE  [Teardown!Next]_(Teardown!vars)
  <1> USE DEF Teardown!vars
  <1>1. CASE ~(Shutdown \/ ShutdownProgress)
    <2>1. JobStep /\ UNCHANGED <<shutdown, closed>>
      BY <1>1, CallJobs
    <2>2. AccountState' = AccountState
      BY <2>1 DEF AccountState
    <2>3. CASE ActiveJobs' = ActiveJobs
      BY <2>2, <2>3
    <2>4. ASSUME NEW job \in Jobs, Open, job \notin ActiveJobs, ActiveJobs' = ActiveJobs \cup {job}
          PROVE  Teardown!Next
      <3>1. AccountState = "open"
        BY <2>4, StateNames DEF Open
      <3>2. Teardown!Admit(job)
        BY <2>2, <2>4, <3>1 DEF Teardown!Admit
      <3> QED BY <3>2 DEF Teardown!Next
    <2>5. ASSUME NEW job \in Jobs, job \in ActiveJobs,
                 ActiveJobs \ {job} \subseteq ActiveJobs',
                 ActiveJobs' \subseteq ActiveJobs \cup {Checkpoint}
          PROVE  Teardown!Next
      <3>1. ~closed /\ shutdown # "native"
        BY <2>5, SafeMeansIdle
      <3>2. AccountState \in {"open", "stopping"}
        BY <3>1, StateNames
      <3>3. Teardown!Advance(job)
        BY <2>2, <2>5, <3>2 DEF Teardown!Advance
      <3> QED BY <3>3 DEF Teardown!Next
    <2> QED BY <2>1, <2>3, <2>4, <2>5 DEF JobStep
  <1>2. CASE Shutdown \/ ShutdownProgress
    <2>1. UNCHANGED <<pc, unl, vssQueue>>
      BY <1>2 DEF Shutdown, ShutdownProgress, ShutdownDrain, ShutdownNative, ShutdownEnd
    <2>2. ActiveJobs' = ActiveJobs
      BY <2>1 DEF ActiveJobs, Busy
    <2>3. CASE closed
      <3>1. closed'
        BY <1>2, <2>3 DEF Shutdown, ShutdownProgress, ShutdownDrain, ShutdownNative, ShutdownEnd
      <3>2. AccountState = "closed" /\ AccountState' = "closed"
        BY <2>3, <3>1 DEF AccountState
      <3> QED BY <2>2, <3>2
    <2>4. CASE ~closed /\ Shutdown
      <3>1. shutdown = "none" /\ shutdown' = "begin" /\ closed' = closed
        BY <2>4 DEF Shutdown, DrainNext
      <3>2. AccountState = "open" /\ AccountState' = "stopping"
        BY <2>4, <3>1 DEF AccountState
      <3> QED BY <2>2, <3>2 DEF Teardown!Next, Teardown!Stop
    <2>5. CASE ~closed /\ ShutdownDrain
      <3>1. shutdown \notin {"none", "native"} /\ shutdown' \notin {"none", "native"}
            /\ closed' = closed
        BY <2>5 DEF ShutdownDrain, DrainNext
      <3>2. AccountState = "stopping" /\ AccountState' = "stopping"
        BY <2>5, <3>1 DEF AccountState
      <3> QED BY <2>2, <3>2
    <2>6. CASE ~closed /\ ShutdownNative
      <3>1. shutdown = "vssTail" /\ shutdown' = "native" /\ closed' = closed
        BY <2>6 DEF ShutdownNative, DrainNext
      <3>2. AccountState = "stopping" /\ AccountState' = "native"
        BY <2>6, <3>1 DEF AccountState
      <3>3. ActiveJobs' = {}
        BY <3>1, SafeMeansIdle
      <3> QED BY <2>2, <3>2, <3>3 DEF Teardown!Next, Teardown!Teardown
    <2>7. CASE ~closed /\ ShutdownEnd
      <3>1. shutdown = "native" /\ shutdown' = "none"
        BY <2>7 DEF ShutdownEnd, DrainNext
      <3>2. AccountState = "native" /\ AccountState' \in {"open", "closed"}
        BY <2>7, <3>1 DEF AccountState
      <3> QED BY <2>2, <3>2 DEF Teardown!Next, Teardown!TornDown
    <2> QED BY <1>2, <2>3, <2>4, <2>5, <2>6, <2>7 DEF ShutdownProgress
  <1> QED BY <1>1, <1>2

\* shutdown() implements DrainedTeardown: nothing is admitted once it has
\* started, the binding is torn down when the admitted work has settled, and a
\* failed shutdown opens the account again.
THEOREM SchedulerImplementsTeardown == Spec => ImplementsTeardown
  <1>1. Init => Teardown!Init
    <2> SUFFICES ASSUME Init PROVE AccountState = "open" /\ ActiveJobs = {}
      BY DEF Teardown!Init
    <2>1. \A x : x \notin ActiveJobs
      BY ActiveMembers, SideCalls DEF ActiveMember, Init, Busy, Unlocking, HasCheckpoint
    <2> QED BY <2>1 DEF Init, AccountState
  <1>2. TypeOK /\ TypeOK' /\ TeardownSafe /\ TeardownSafe' /\ [Next]_vars
          => [Teardown!Next]_(Teardown!vars)
    BY TeardownImplemented
  <1> QED BY <1>1, <1>2, SchedulerTypeCorrect, SchedulerTeardownSafe, PTL
          DEF Spec, ImplementsTeardown, Teardown!Spec
-----------------------------------------------------------------------------
\* The VSS queue holds the backups and the transitions that wait for their turn
\* or run, once each, and the checkpoint.
Chained(c) == pc[c] \in {"queued", "native"}
Chainers == Manuals \cup Policies

VssQueued ==
  /\ \A i \in DOMAIN vssQueue : vssQueue[i] # Checkpoint => Chained(vssQueue[i])
  /\ \A i, j \in DOMAIN vssQueue :
       vssQueue[i] = vssQueue[j] /\ vssQueue[i] # Checkpoint => i = j
  /\ \A c \in Chainers : Chained(c) => \E i \in DOMAIN vssQueue : vssQueue[i] = c

LEMMA VssStays ==
  ASSUME TypeOK, VssQueued, UNCHANGED vssQueue,
         \A c \in Chainers : Chained(c)' <=> Chained(c)
  PROVE  VssQueued'
  <1>1. \A i \in DOMAIN vssQueue : vssQueue[i] # Checkpoint => vssQueue[i] \in Chainers
    BY DEF TypeOK, Tasks, Chainers
  <1> QED BY <1>1 DEF VssQueued

LEMMA VssJoins ==
  ASSUME TypeOK, VssQueued, NEW x \in Tasks, vssQueue' = Append(vssQueue, x),
         x # Checkpoint => ~Chained(x) /\ Chained(x)',
         \A c \in Chainers \ {x} : Chained(c)' <=> Chained(c)
  PROVE  VssQueued'
  <1> DEFINE n == Len(vssQueue)
  <1>1. /\ vssQueue \in Seq(Tasks) /\ n \in Nat /\ DOMAIN vssQueue = 1..n
        /\ DOMAIN vssQueue' = 1..(n + 1) /\ vssQueue'[n + 1] = x
        /\ \A i \in 1..n : vssQueue'[i] = vssQueue[i]
    BY DEF TypeOK
  <1> HIDE DEF n
  <1>2. \A i \in 1..n : vssQueue[i] # Checkpoint => vssQueue[i] \in Chainers /\ vssQueue[i] # x
    BY <1>1 DEF VssQueued, Tasks, Chainers
  <1>3. \A i \in DOMAIN vssQueue' : vssQueue'[i] # Checkpoint => pc'[vssQueue'[i]] \in {"queued", "native"}
    BY <1>1, <1>2 DEF VssQueued, Chained
  <1>4. \A i, j \in DOMAIN vssQueue' :
          vssQueue'[i] = vssQueue'[j] /\ vssQueue'[i] # Checkpoint => i = j
    BY <1>1, <1>2 DEF VssQueued
  <1>5. \A c \in Chainers : Chained(c)' => \E i \in DOMAIN vssQueue' : vssQueue'[i] = c
    <2> SUFFICES ASSUME NEW c \in Chainers, Chained(c)'
                 PROVE  \E i \in 1..(n + 1) : vssQueue'[i] = c
      BY <1>1
    <2>1. CASE c = x
      BY <1>1, <2>1
    <2>2. CASE c # x
      <3>1. PICK i \in 1..n : vssQueue[i] = c
        BY <1>1, <2>2 DEF VssQueued
      <3> QED BY <1>1, <3>1
    <2> QED BY <2>1, <2>2
  <1> QED BY <1>3, <1>4, <1>5 DEF VssQueued, Chained

LEMMA VssLeaves ==
  ASSUME TypeOK, VssQueued, NEW x, Running(x), Leave, x # Checkpoint => ~Chained(x)',
         \A c \in Chainers \ {x} : Chained(c)' <=> Chained(c)
  PROVE  VssQueued'
  <1> DEFINE n == Len(vssQueue)
  <1>1. /\ vssQueue \in Seq(Tasks) /\ n \in Nat \ {0} /\ DOMAIN vssQueue = 1..n
        /\ DOMAIN vssQueue' = 1..(n - 1) /\ vssQueue[1] = x
        /\ \A i \in 1..(n - 1) : vssQueue'[i] = vssQueue[i + 1]
    BY DEF TypeOK, Running, Leave
  <1> HIDE DEF n
  <1>2. \A i \in 1..(n - 1) : vssQueue'[i] # Checkpoint =>
          vssQueue'[i] \in Chainers /\ vssQueue'[i] # x /\ Chained(vssQueue'[i])
    <2> SUFFICES ASSUME NEW i \in 1..(n - 1), vssQueue[i + 1] # Checkpoint
                 PROVE  vssQueue[i + 1] \in Chainers /\ vssQueue[i + 1] # x /\ Chained(vssQueue[i + 1])
      BY <1>1
    <2>1. i + 1 \in 1..n /\ i + 1 # 1 /\ 1 \in 1..n
      BY <1>1
    <2> QED BY <1>1, <2>1 DEF VssQueued, Tasks, Chainers
  <1>3. \A i \in DOMAIN vssQueue' : vssQueue'[i] # Checkpoint => pc'[vssQueue'[i]] \in {"queued", "native"}
    BY <1>1, <1>2 DEF Chained
  <1>4. \A i, j \in DOMAIN vssQueue' :
          vssQueue'[i] = vssQueue'[j] /\ vssQueue'[i] # Checkpoint => i = j
    <2> SUFFICES ASSUME NEW i \in 1..(n - 1), NEW j \in 1..(n - 1),
                        vssQueue[i + 1] = vssQueue[j + 1], vssQueue[i + 1] # Checkpoint
                 PROVE  i = j
      BY <1>1
    <2>1. i + 1 \in 1..n /\ j + 1 \in 1..n
      BY <1>1
    <2>2. i + 1 = j + 1
      BY <1>1, <2>1 DEF VssQueued
    <2> QED BY <2>2
  <1>5. \A c \in Chainers : Chained(c)' => \E i \in DOMAIN vssQueue' : vssQueue'[i] = c
    <2> SUFFICES ASSUME NEW c \in Chainers, Chained(c)'
                 PROVE  \E i \in 1..(n - 1) : vssQueue'[i] = c
      BY <1>1
    <2>1. c # x
      BY TaskTypes DEF Chainers
    <2>2. PICK i \in 1..n : vssQueue[i] = c
      BY <1>1, <2>1 DEF VssQueued
    <2>3. i # 1 /\ i - 1 \in 1..(n - 1) /\ (i - 1) + 1 = i
      BY <1>1, <2>1, <2>2
    <2> QED BY <1>1, <2>2, <2>3
  <1> QED BY <1>3, <1>4, <1>5 DEF VssQueued, Chained

LEMMA VssPolicy ==
  ASSUME TypeOK, VssQueued, NEW q \in Policies, SetVssAutomatic(q) \/ PolicyProgress(q)
  PROVE  VssQueued'
  <1>1. \A c \in Chainers \ {q} : Chained(c)' <=> Chained(c)
    BY SetPolicyEffect, PolicyEffect, TaskTypes DEF Alone, Chained, Chainers
  <1>2. q \in Calls /\ q \in Tasks /\ q # Checkpoint /\ pc \in [Calls -> Phases]
    BY TaskTypes DEF TypeOK
  <1>3. CASE UNCHANGED vssQueue /\ (Chained(q)' <=> Chained(q))
    BY <1>1, <1>3, VssStays
  <1>4. CASE SetVssAutomatic(q) \/ PolicyRefuse(q) \/ PolicyDrain(q) \/ PolicySettle(q)
    <2>1. UNCHANGED vssQueue /\ ~Chained(q)' /\ ~Chained(q)
      BY <1>2, <1>4 DEF SetVssAutomatic, PolicyRefuse, PolicyDrain, PolicySettle, Chained
    <2> QED BY <1>3, <2>1
  <1>5. CASE PolicyEnqueue(q)
    <2>1. CASE UNCHANGED vssQueue /\ ~Chained(q)' /\ ~Chained(q)
      BY <1>3, <2>1
    <2>2. CASE vssQueue' = Append(vssQueue, q) /\ ~Chained(q) /\ Chained(q)'
      BY <1>1, <1>2, <2>2, VssJoins
    <2> QED BY <1>2, <1>5, <2>1, <2>2 DEF PolicyEnqueue, Chained
  <1>6. CASE PolicyStart(q) \/ PolicyEnd(q)
    <2>1. CASE Running(q) /\ Leave /\ ~Chained(q)'
      BY <1>1, <2>1, VssLeaves
    <2> QED BY <1>2, <1>3, <1>6, <2>1
            DEF PolicyStart, PolicyEnd, PolicyConfirm, PolicyUnknown, Chained
  <1> QED BY <1>4, <1>5, <1>6 DEF PolicyProgress

LEMMA VssManual ==
  ASSUME TypeOK, VssQueued, NEW v \in Manuals, VssBackup(v) \/ ManualProgress(v)
  PROVE  VssQueued'
  <1>1. v \in Calls /\ v \in Tasks /\ v # Checkpoint /\ pc \in [Calls -> Phases]
    BY TaskTypes DEF TypeOK
  <1>2. \A c \in Chainers \ {v} : Chained(c)' <=> Chained(c)
    BY <1>1, AsideEffect, TaskTypes DEF Alone, Chained, Chainers
  <1>3. CASE UNCHANGED vssQueue /\ (Chained(v)' <=> Chained(v))
    BY <1>2, <1>3, VssStays
  <1>4. CASE VssBackup(v) \/ VssBackupEnqueue(v)
    <2>1. CASE UNCHANGED vssQueue /\ ~Chained(v)' /\ ~Chained(v)
      BY <1>3, <2>1
    <2>2. CASE vssQueue' = Append(vssQueue, v) /\ ~Chained(v) /\ Chained(v)'
      BY <1>1, <1>2, <2>2, VssJoins
    <2> QED BY <1>1, <1>4, <2>1, <2>2 DEF VssBackup, VssBackupEnqueue, Chained
  <1>5. CASE VssBackupStart(v) \/ VssBackupEnd(v)
    <2>1. CASE Running(v) /\ Leave /\ ~Chained(v)'
      BY <1>2, <2>1, VssLeaves
    <2> QED BY <1>1, <1>3, <1>5, <2>1 DEF VssBackupStart, VssBackupEnd, Chained
  <1> QED BY <1>4, <1>5 DEF ManualProgress

LEMMA VssQueuedStep == TypeOK /\ VssQueued /\ [Next]_vars => VssQueued'
  <1> SUFFICES ASSUME TypeOK, VssQueued, [Next]_vars PROVE VssQueued'
    OBVIOUS
  <1>1. CASE Worked
    <2>1. vssQueue' = vssQueue \/ vssQueue' = Append(vssQueue, Checkpoint)
      BY <1>1 DEF Worked, AfterVssMutation
    <2>2. \A c \in Chainers : Chained(c)' <=> Chained(c)
      BY <1>1 DEF Worked, BackupsKept, Chained, Chainers
    <2> QED BY <2>1, <2>2, TaskTypes, VssStays, VssJoins
  <1>2. CASE NotWorked
    BY <1>2, VssStays DEF NotWorked, BackupsKept, Chained, Chainers
  <1>3. CASE CheckpointProgress
    <2>1. \A c \in Chainers : Chained(c)' <=> Chained(c)
      BY <1>3, QuietEffect DEF Untouched, Chained
    <2>2. UNCHANGED vssQueue \/ (Running(Checkpoint) /\ Leave)
      BY <1>3 DEF CheckpointProgress, CheckpointStart, CheckpointEnd, CheckpointClear,
         CheckpointUploaded, CheckpointRefused
    <2> QED BY <2>1, <2>2, VssStays, VssLeaves
  <1> QED BY <1>1, <1>2, <1>3, BackupCases, VssPolicy, VssManual
-----------------------------------------------------------------------------
\* Tickets are taken from the queue, and the queue serves them.
TicketsPast ==
  /\ checkpointPending <= Ticket /\ drain.ticket <= Ticket
  /\ \A p \in Policies : admission[p].ticket <= Ticket

LEMMA QueueSteps ==
  ASSUME TypeOK, [Next]_vars
  PROVE  \/ served' = served /\ vssQueue' = vssQueue
         \/ served' = served /\ \E x \in Tasks : vssQueue' = Append(vssQueue, x)
         \/ vssQueue # <<>> /\ Leave
  <1>1. CASE Worked \/ NotWorked
    BY <1>1, TaskTypes DEF Worked, NotWorked, AfterVssMutation
  <1>2. ASSUME NEW p \in Policies, SetVssAutomatic(p) \/ PolicyProgress(p)
        PROVE  \/ served' = served /\ vssQueue' = vssQueue
               \/ served' = served /\ vssQueue' = Append(vssQueue, p)
               \/ vssQueue # <<>> /\ Leave
    BY <1>2 DEF SetVssAutomatic, PolicyProgress, PolicyRefuse, PolicyDrain, PolicyEnqueue,
       PolicyStart, PolicyEnd, PolicySettle, Running
  <1>3. ASSUME NEW v \in Manuals, VssBackup(v) \/ ManualProgress(v)
        PROVE  \/ served' = served /\ vssQueue' = vssQueue
               \/ served' = served /\ vssQueue' = Append(vssQueue, v)
               \/ vssQueue # <<>> /\ Leave
    BY <1>3 DEF VssBackup, ManualProgress, VssBackupEnqueue, VssBackupStart, VssBackupEnd, Running
  <1>4. CASE CheckpointProgress
    BY <1>4 DEF CheckpointProgress, CheckpointStart, CheckpointEnd, CheckpointClear,
       CheckpointUploaded, CheckpointRefused, Running
  <1> QED BY <1>1, <1>2, <1>3, <1>4, BackupCases, TaskTypes

LEMMA TicketGrows ==
  ASSUME TypeOK, [Next]_vars
  PROVE  Ticket' >= Ticket /\ Ticket \in Nat /\ Ticket' \in Nat
  <1>1. served \in Nat /\ vssQueue \in Seq(Tasks) /\ Ticket \in Nat
    BY TicketType DEF TypeOK
  <1>2. CASE served' = served /\ vssQueue' = vssQueue
    BY <1>1, <1>2 DEF Ticket
  <1>3. ASSUME NEW x \in Tasks, served' = served, vssQueue' = Append(vssQueue, x)
        PROVE  Ticket' = Ticket + 1
    <2>1. Len(vssQueue') = Len(vssQueue) + 1 /\ Len(vssQueue) \in Nat
      BY <1>1, <1>3
    <2> QED BY <1>1, <1>3, <2>1 DEF Ticket
  <1>4. CASE vssQueue # <<>> /\ Leave
    <2>1. Len(vssQueue') = Len(vssQueue) - 1 /\ Len(vssQueue) \in Nat
      BY <1>1, <1>4 DEF Leave
    <2> QED BY <1>1, <1>4, <2>1 DEF Ticket, Leave
  <1> QED BY <1>1, <1>2, <1>3, <1>4, QueueSteps

\* An unfinished checkpoint of _afterVssMutation is the last of the queue.
LEMMA PendingTicket ==
  ASSUME TypeOK, NEW c \in Work, AfterVssMutation(c), served' = served
  PROVE  checkpointPending' = checkpointPending \/ checkpointPending' = Ticket'
  <1>1. CASE checkpointPending' = Ticket + 1 /\ vssQueue' = Append(vssQueue, Checkpoint)
    <2>1. Len(vssQueue') = Len(vssQueue) + 1 /\ Len(vssQueue) \in Nat /\ served \in Nat
      BY <1>1, TaskTypes DEF TypeOK
    <2> QED BY <1>1, <2>1 DEF Ticket
  <1> QED BY <1>1 DEF AfterVssMutation

LEMMA TicketsPastStep == TypeOK /\ TypeOK' /\ TicketsPast /\ [Next]_vars => TicketsPast'
  <1> SUFFICES ASSUME TypeOK, TypeOK', TicketsPast, [Next]_vars PROVE TicketsPast'
    OBVIOUS
  <1>1. Ticket' >= Ticket /\ Ticket \in Nat /\ Ticket' \in Nat
    BY TicketGrows
  <1>2. checkpointPending \in Nat /\ drain.ticket \in Nat
    BY DEF TypeOK, Drain
  <1>3. \A p \in Policies : p \in Calls /\ admission[p].ticket \in Nat
    BY DEF TypeOK, Admission, Calls
  <1>4. \/ checkpointPending' = checkpointPending \/ checkpointPending' = Ticket'
        \/ checkpointPending' = 0
    <2> DEFINE Goal == \/ checkpointPending' = checkpointPending \/ checkpointPending' = Ticket'
                       \/ checkpointPending' = 0
    <2>1. ASSUME NEW u \in UnlockOps, UnlockStart(u) \/ UnlockEnd(u) PROVE Goal
      BY <2>1, PendingTicket DEF UnlockStart, UnlockEnd, NoVssMutation, Work
    <2>2. CASE UnlockNext \/ UnlockClear
      BY <2>2 DEF UnlockNext, Unlock, UnlockClear
    <2>3. ASSUME NEW a \in Addresses, GetAddress(a) \/ AddressProgress(a) PROVE Goal
      BY <2>3, PendingTicket DEF GetAddress, AddressProgress, AddressStart, AddressEnd,
         AddressRead, AddressLocked, AddressUnlocked, NoVssMutation, Work, UnlockOps
    <2>4. ASSUME NEW m \in Mutations, Mutate(m) \/ MutationProgress(m) PROVE Goal
      BY <2>4, PendingTicket DEF Mutate, MutationProgress, MutationDispatch, MutationEnd,
         NoVssMutation, Work
    <2>5. CASE CheckpointProgress
      BY <2>5 DEF CheckpointProgress, CheckpointStart, CheckpointEnd, CheckpointClear
    <2>6. ASSUME NEW p \in Policies, SetVssAutomatic(p) \/ PolicyProgress(p) PROVE Goal
      BY <2>6 DEF SetVssAutomatic, PolicyProgress, PolicyRefuse, PolicyDrain, PolicyEnqueue,
         PolicyStart, PolicyEnd, PolicySettle
    <2>7. ASSUME NEW c \in Manuals \cup Reads \cup Signs,
                 \/ c \in Manuals /\ (VssBackup(c) \/ ManualProgress(c))
                 \/ c \in Reads /\ (ReadMetadata(c) \/ ReadEnd(c))
                 \/ c \in Signs /\ (SignMessage(c) \/ SignProgress(c))
          PROVE  Goal
      BY <2>7 DEF VssBackup, ManualProgress, VssBackupEnqueue, VssBackupStart, VssBackupEnd,
         ReadMetadata, ReadEnd, SignMessage, SignProgress, SignStart, SignEnd
    <2>8. CASE AddressClear \/ Shutdown \/ ShutdownProgress \/ UNCHANGED vars
      BY <2>8 DEF AddressClear, Shutdown, ShutdownProgress, ShutdownDrain, ShutdownNative,
         ShutdownEnd, vars
    <2> QED BY <2>1, <2>2, <2>3, <2>4, <2>5, <2>6, <2>7, <2>8, StepCases DEF UnlockProgress
  <1>5. drain'.ticket = drain.ticket \/ drain'.ticket = 0 \/ drain'.ticket = Ticket
    <2>1. CASE Shutdown \/ ShutdownProgress
      <3>2. CASE ShutdownDrain
        <4>1. \/ \E u : drain' = [NoDrain EXCEPT !.unlock = u]
              \/ \E S : drain' = [NoDrain EXCEPT !.calls = S]
              \/ drain' = [NoDrain EXCEPT !.ticket = Ticket]
              \/ drain' = [NoDrain EXCEPT !.calls = ManualsPending, !.ticket = Ticket]
          BY <3>2, Zenon DEF ShutdownDrain, DrainNext
        <4> QED BY <4>1 DEF NoDrain
      <3>3. CASE Shutdown \/ ShutdownNative \/ ShutdownEnd
        <4>1. drain' = NoDrain
          BY <3>3, Zenon DEF Shutdown, ShutdownNative, ShutdownEnd, DrainNext
        <4> QED BY <4>1 DEF NoDrain
      <3> QED BY <2>1, <3>2, <3>3 DEF ShutdownProgress
    <2>2. CASE AddressClear \/ CheckpointProgress \/ UNCHANGED vars
      BY <2>2 DEF AddressClear, CheckpointProgress, CheckpointStart, CheckpointEnd,
         CheckpointClear, vars
    <2> QED BY <2>1, <2>2, UnlockEffect, AddressEffect, MutationEffect, SetPolicyEffect,
               PolicyEffect, AsideEffect, StepCases
  <1>6. \A p \in Policies :
          \/ admission'[p].ticket = admission[p].ticket
          \/ admission'[p].ticket = 0 \/ admission'[p].ticket = Ticket
    <2>1. CASE BackupsKept
      BY <2>1 DEF BackupsKept
    <2>2. ASSUME NEW q \in Policies, SetVssAutomatic(q) \/ PolicyProgress(q)
          PROVE  \A p \in Policies :
                   \/ admission'[p].ticket = admission[p].ticket
                   \/ admission'[p].ticket = 0 \/ admission'[p].ticket = Ticket
      <3>1. \A p \in Policies \ {q} : admission'[p] = admission[p]
        BY <1>3, <2>2, SetPolicyEffect, PolicyEffect DEF Alone
      <3>2. q \in Calls /\ admission \in [Calls -> Admission]
        BY <1>3 DEF TypeOK
      <3>3. \/ admission'[q].ticket = admission[q].ticket
            \/ admission'[q].ticket = 0 \/ admission'[q].ticket = Ticket
        BY <2>2, <3>2 DEF SetVssAutomatic, PolicyProgress, PolicyRefuse, PolicyDrain,
           PolicyEnqueue, PolicyStart, PolicyEnd, PolicySettle, Admission
      <3> QED BY <3>1, <3>3
    <2>3. ASSUME NEW v \in Manuals, VssBackup(v) \/ ManualProgress(v)
          PROVE  \A p \in Policies : admission'[p] = admission[p]
      BY <2>3, AsideEffect, TaskTypes DEF Alone
    <2>4. CASE CheckpointProgress
      BY <2>4, QuietEffect DEF Untouched
    <2> QED BY <2>1, <2>2, <2>3, <2>4, BackupCases DEF Worked, NotWorked
  <1>7. checkpointPending' <= Ticket' /\ drain'.ticket <= Ticket'
    BY <1>1, <1>2, <1>4, <1>5 DEF TicketsPast
  <1>8. \A p \in Policies : admission'[p].ticket <= Ticket'
    BY <1>1, <1>3, <1>6 DEF TicketsPast
  <1> QED BY <1>7, <1>8 DEF TicketsPast
-----------------------------------------------------------------------------
\* Calls and unlocks go on and never back; what a call captured when it was
\* admitted it keeps, except that an address captures the unlock it falls back to.
UnlockFresh ==
  \A a \in Addresses : pc[a] \in {"idle", "joined", "waiting", "reading"} => unl[a] = "idle"
CallFresh == \A c \in Calls : pc[c] = "idle" => admission[c] = NoAdmission

Kept(c) ==
  /\ admission'[c].policy = admission[c].policy /\ admission'[c].unlock = admission[c].unlock
  /\ admission'[c].address = admission[c].address
  /\ admission'[c].mutations = admission[c].mutations
Admits(c) ==
  /\ pc[c] = "idle" /\ pc'[c] \notin {"idle", "joined", "unlocking"}
  /\ UNCHANGED <<unl, unlockInFlight>>
  /\ admission'[c].policy \in {None, policyTail, CurrentPolicy}
  /\ admission'[c].unlock \in {None, CurrentUnlock}
  /\ admission'[c].unlock # None => c \in Signs \/ admission'[c].policy \in {policyTail, CurrentPolicy}
  /\ IF c \in Policies
       THEN /\ admission'[c].policy = policyTail /\ admission'[c].address = addressInFlight
            /\ admission'[c].mutations = MutationsInFlight
       ELSE admission'[c].address = None /\ admission'[c].mutations = {}
Falls(c) ==
  /\ c \in Addresses /\ pc[c] = "reading" /\ pc'[c] = "unlocking" /\ AddressLocked(c)
  /\ admission'[c].policy = admission[c].policy /\ admission'[c].address = admission[c].address
  /\ admission'[c].mutations = admission[c].mutations
  /\ admission'[c].unlock = IF unlockInFlight = None THEN c ELSE CurrentUnlock
Onward(c) ==
  /\ pc[c] \in {"done", "failed"} => pc'[c] = pc[c]
  /\ pc'[c] = "idle" => pc[c] = "idle" /\ admission'[c] = admission[c]
  /\ pc[c] \notin {"idle", "joined"} => pc'[c] # "joined"
  /\ Kept(c) \/ Admits(c) \/ Falls(c)

LEMMA MutationOnward ==
  ASSUME TypeOK, CallFresh, NEW m \in Mutations, Mutate(m) \/ MutationProgress(m)
  PROVE  Onward(m)
  <1>1. m \in Calls /\ m \notin Policies \cup Signs /\ pc \in [Calls -> Phases]
        /\ admission \in [Calls -> Admission]
    BY DisjointCalls DEF TypeOK
  <1>2. CASE Mutate(m)
    <2>1. admission[m] = NoAdmission
      BY <1>1, <1>2 DEF Mutate, CallFresh
    <2>2. \/ admission'[m] = admission[m]
          \/ admission'[m] = [NoAdmission EXCEPT !.policy = policyTail]
      BY <1>1, <1>2, <2>1 DEF Mutate
    <2> QED BY <1>1, <1>2, <2>1, <2>2 DEF Mutate, Onward, Kept, Admits, NoAdmission
  <1>3. CASE MutationProgress(m)
    BY <1>1, <1>3 DEF MutationProgress, MutationDispatch, MutationEnd, Onward, Kept
  <1> QED BY <1>2, <1>3

LEMMA AddressOnward ==
  ASSUME TypeOK, CallFresh, NEW a \in Addresses, GetAddress(a) \/ AddressProgress(a)
  PROVE  Onward(a)
  <1>1. a \in Calls /\ a \notin Policies \cup Signs /\ pc \in [Calls -> Phases]
        /\ admission \in [Calls -> Admission] /\ admission[a] \in Admission
    BY DisjointCalls DEF TypeOK
  <1>2. CASE GetAddress(a)
    <2>1. admission[a] = NoAdmission /\ pc[a] = "idle"
      BY <1>1, <1>2 DEF GetAddress, CallFresh
    <2>2. CASE admission' = admission
      BY <1>1, <1>2, <2>1, <2>2 DEF GetAddress, Onward, Kept
    <2>3. CASE admission'[a] = [NoAdmission EXCEPT !.policy = CurrentPolicy, !.unlock = CurrentUnlock]
               /\ pc'[a] = "waiting"
      BY <1>1, <1>2, <2>1, <2>3 DEF GetAddress, Onward, Admits, NoAdmission
    <2> QED BY <1>1, <1>2, <2>1, <2>2, <2>3 DEF GetAddress
  <1>3. CASE AddressLocked(a)
    <2>1. CASE admission' = admission /\ pc'[a] = "failed"
      BY <1>1, <1>3, <2>1 DEF AddressLocked, Onward, Kept
    <2>2. CASE pc'[a] = "unlocking" /\ admission'[a] = [admission[a] EXCEPT !.unlock =
                 IF unlockInFlight = None THEN a ELSE CurrentUnlock]
      <3>1. Falls(a)
        BY <1>1, <1>3, <2>2 DEF AddressLocked, Falls, Admission
      <3> QED BY <1>3, <2>2, <3>1 DEF AddressLocked, Onward
    <2> QED BY <1>1, <1>3, <2>1, <2>2 DEF AddressLocked
  <1>4. CASE AddressStart(a) \/ AddressEnd(a) \/ AddressUnlocked(a)
    BY <1>1, <1>4 DEF AddressStart, AddressEnd, AddressRead, AddressUnlocked, Onward, Kept
  <1> QED BY <1>2, <1>3, <1>4 DEF AddressProgress

LEMMA PolicyOnward ==
  ASSUME TypeOK, CallFresh, NEW p \in Policies, SetVssAutomatic(p) \/ PolicyProgress(p)
  PROVE  Onward(p)
  <1>1. p \in Calls /\ pc \in [Calls -> Phases]
        /\ admission \in [Calls -> Admission] /\ admission[p] \in Admission
    BY DisjointCalls DEF TypeOK
  <1>2. CASE SetVssAutomatic(p)
    <2>1. CASE admission' = admission
      BY <1>1, <1>2, <2>1 DEF SetVssAutomatic, Onward, Kept
    <2>2. CASE /\ pc'[p] = "waiting"
               /\ admission'[p] =
                    [policy |-> policyTail, unlock |-> CurrentUnlock, address |-> addressInFlight,
                     mutations |-> MutationsInFlight, ticket |-> 0]
      BY <1>2, <2>2 DEF SetVssAutomatic, Onward, Admits
    <2> QED BY <1>1, <1>2, <2>1, <2>2, SetPolicyEffect DEF SetVssAutomatic
  <1>3. CASE PolicyProgress(p)
    <2>1. Kept(p)
      BY <1>1, <1>3, PolicyEffect DEF Kept, Admission
    <2>2. pc[p] \notin {"idle", "joined", "done", "failed"} /\ pc'[p] \notin {"idle", "joined"}
      BY <1>3, PolicyEffect
    <2> QED BY <2>1, <2>2 DEF Onward
  <1> QED BY <1>2, <1>3

LEMMA AsideOnward ==
  ASSUME TypeOK, CallFresh, NEW c \in Manuals \cup Reads \cup Signs,
         \/ c \in Manuals /\ (VssBackup(c) \/ ManualProgress(c))
         \/ c \in Reads /\ (ReadMetadata(c) \/ ReadEnd(c))
         \/ c \in Signs /\ (SignMessage(c) \/ SignProgress(c))
  PROVE  Onward(c)
  <1>1. c \in Calls /\ c \notin Policies /\ pc \in [Calls -> Phases]
        /\ admission \in [Calls -> Admission] /\ admission[c] \in Admission
    BY SideCalls, DisjointCalls DEF TypeOK
  <1>2. CASE /\ pc[c] = "idle" /\ admission'[c] = NoAdmission /\ pc'[c] = "failed"
    BY <1>1, <1>2 DEF Onward, Kept, CallFresh
  <1>3. CASE c \in Manuals /\ VssBackup(c)
    <2>1. admission[c] = NoAdmission /\ pc[c] = "idle"
      BY <1>1, <1>3 DEF VssBackup, CallFresh
    <2>2. CASE admission'[c] = [NoAdmission EXCEPT !.policy = CurrentPolicy, !.unlock = CurrentUnlock]
               /\ pc'[c] \in {"waiting", "queued"}
      BY <1>1, <1>3, <2>1, <2>2 DEF VssBackup, Onward, Admits, NoAdmission
    <2> QED BY <1>1, <1>2, <1>3, <2>1, <2>2 DEF VssBackup
  <1>4. CASE c \in Reads /\ ReadMetadata(c)
    <2>1. admission[c] = NoAdmission /\ pc[c] = "idle"
      BY <1>1, <1>4 DEF ReadMetadata, CallFresh
    <2>2. admission'[c] = [NoAdmission EXCEPT !.policy = policyTail] /\ pc'[c] = "waiting"
      BY <1>1, <1>4, <2>1 DEF ReadMetadata
    <2> QED BY <1>1, <1>4, <2>1, <2>2 DEF ReadMetadata, Onward, Admits, NoAdmission
  <1>5. CASE c \in Signs /\ SignMessage(c)
    <2>1. admission[c] = NoAdmission /\ pc[c] = "idle"
      BY <1>1, <1>5 DEF SignMessage, CallFresh
    <2>2. CASE admission'[c] = [NoAdmission EXCEPT !.unlock = CurrentUnlock] /\ pc'[c] = "queued"
      BY <1>1, <1>5, <2>1, <2>2 DEF SignMessage, Onward, Admits, NoAdmission
    <2> QED BY <1>1, <1>2, <1>5, <2>1, <2>2 DEF SignMessage
  <1>6. CASE ManualProgress(c) \/ ReadEnd(c) \/ SignProgress(c)
    BY <1>1, <1>6 DEF ManualProgress, VssBackupEnqueue, VssBackupStart, VssBackupEnd, ReadEnd,
       SignProgress, SignStart, SignEnd, Onward, Kept
  <1> QED BY <1>3, <1>4, <1>5, <1>6

LEMMA CallsOnward ==
  ASSUME TypeOK, CallFresh, [Next]_vars
  PROVE  \A c \in Calls : Onward(c)
  <1>1. ASSUME NEW c \in Calls, pc'[c] = pc[c], admission'[c] = admission[c] PROVE Onward(c)
    BY <1>1 DEF Onward, Kept
  <1>2. CASE \/ UnlockNext \/ UnlockProgress \/ AddressClear \/ CheckpointProgress
             \/ Shutdown \/ ShutdownProgress \/ UNCHANGED vars
    BY <1>1, <1>2, UnlockEffect, QuietEffect DEF Untouched
  <1>3. ASSUME NEW d \in Calls, Alone(d), Onward(d) PROVE \A c \in Calls : Onward(c)
    BY <1>1, <1>3 DEF Alone
  <1>4. ASSUME NEW a \in Addresses, GetAddress(a) \/ AddressProgress(a)
        PROVE  \A c \in Calls : Onward(c)
    BY <1>3, <1>4, AddressEffect, AddressOnward, DisjointCalls
  <1>5. ASSUME NEW m \in Mutations, Mutate(m) \/ MutationProgress(m)
        PROVE  \A c \in Calls : Onward(c)
    BY <1>3, <1>5, MutationEffect, MutationOnward, DisjointCalls
  <1>6. ASSUME NEW p \in Policies, SetVssAutomatic(p) \/ PolicyProgress(p)
        PROVE  \A c \in Calls : Onward(c)
    BY <1>3, <1>6, SetPolicyEffect, PolicyEffect, PolicyOnward, DisjointCalls
  <1>7. ASSUME NEW c \in Manuals \cup Reads \cup Signs,
               \/ c \in Manuals /\ (VssBackup(c) \/ ManualProgress(c))
               \/ c \in Reads /\ (ReadMetadata(c) \/ ReadEnd(c))
               \/ c \in Signs /\ (SignMessage(c) \/ SignProgress(c))
        PROVE  \A d \in Calls : Onward(d)
    BY <1>3, <1>7, AsideEffect, AsideOnward, SideCalls
  <1> QED BY <1>2, <1>4, <1>5, <1>6, <1>7, StepCases

LEMMA CallFreshStep == TypeOK /\ CallFresh /\ [Next]_vars => CallFresh'
  <1> SUFFICES ASSUME TypeOK, CallFresh, [Next]_vars, NEW c \in Calls, pc'[c] = "idle"
               PROVE  admission'[c] = NoAdmission
    BY DEF CallFresh
  <1>1. Onward(c)
    BY CallsOnward
  <1> QED BY <1>1 DEF CallFresh, Onward

LEMMA UnlockSteps ==
  ASSUME TypeOK, [Next]_vars
  PROVE  \/ UNCHANGED <<unl, unlockInFlight>>
         \/ UnlockClear
         \/ \E u \in UnlockOps : UnlockStart(u) \/ UnlockEnd(u)
         \/ \E u \in Unlocks : Unlock(u)
         \/ \E a \in Addresses : AddressLocked(a)
  <1>1. ASSUME NEW a \in Addresses, GetAddress(a) \/ AddressProgress(a)
        PROVE  AddressLocked(a) \/ UNCHANGED <<unl, unlockInFlight>>
    BY <1>1 DEF GetAddress, AddressProgress, AddressStart, AddressEnd, AddressUnlocked
  <1>2. CASE \/ AddressClear \/ CheckpointProgress \/ Shutdown \/ ShutdownProgress
             \/ UNCHANGED vars
    BY <1>2, QuietEffect
  <1>3. CASE UnlockNext \/ UnlockProgress
    BY <1>3 DEF UnlockNext, UnlockProgress
  <1> QED BY <1>1, <1>2, <1>3, MutationEffect, SetPolicyEffect, PolicyEffect, AsideEffect, StepCases

UnlockGoes(u) ==
  /\ unl[u] \in {"done", "failed"} => unl'[u] = unl[u]
  /\ unl[u] \notin {"idle", "joined"} => unl'[u] \notin {"idle", "joined"}
  /\ unl[u] # "idle" /\ unl'[u] = "waiting" => unl[u] = "waiting" /\ unlockInFlight' = unlockInFlight
  /\ u \in Addresses /\ unl[u] = "idle" => unl'[u] = "idle" \/ pc'[u] = "unlocking"
FlightGoes ==
  \/ unlockInFlight' \in {unlockInFlight, None}
  \/ /\ unlockInFlight = None /\ UNCHANGED <<pc, admission, policyTail, addressInFlight>>
     /\ \E u \in Unlocks, request \in Requests :
          /\ unl'[u] = "waiting"
          /\ unlockInFlight' = [op |-> u, request |-> request, policy |-> UnlockPolicy(request)]
  \/ /\ unlockInFlight = None /\ UNCHANGED policyTail
     /\ \E a \in Addresses :
          /\ unl'[a] = "waiting" /\ pc[a] = "reading" /\ pc'[a] = "unlocking"
          /\ admission'[a].policy = admission[a].policy
          /\ unlockInFlight' = [op |-> a, request |-> "auto", policy |-> admission[a].policy]

LEMMA UnlocksOnward ==
  ASSUME TypeOK, UnlockOwned, UnlockFresh, [Next]_vars
  PROVE  (\A u \in UnlockOps : UnlockGoes(u)) /\ FlightGoes
  <1>0. unl \in [UnlockOps -> UnlockPhases] /\ Addresses \subseteq UnlockOps
        /\ Addresses \cap Unlocks = {} /\ Unlocks \subseteq UnlockOps
    BY SideCalls DEF TypeOK
  <1>1. CASE UNCHANGED <<unl, unlockInFlight>>
    BY <1>1 DEF UnlockGoes, FlightGoes
  <1>6. unlockInFlight # None => unlockInFlight.op \in UnlockOps /\ unlockInFlight.op # None
    BY DisjointCalls DEF TypeOK, Flight
  <1>2. CASE UnlockClear
    <2>1. unl[unlockInFlight.op] # "waiting"
      BY <1>2, <1>6 DEF UnlockClear, UnlockSettled
    <2>2. \A u \in UnlockOps : unl[u] # "waiting"
      BY <2>1 DEF UnlockOwned
    <2> QED BY <1>2, <2>2 DEF UnlockClear, UnlockGoes, FlightGoes
  <1>3. ASSUME NEW u \in UnlockOps, UnlockStart(u) \/ UnlockEnd(u)
        PROVE  (\A w \in UnlockOps : UnlockGoes(w)) /\ FlightGoes
    <2>1. /\ unl[u] \in {"waiting", "native"} /\ unl'[u] \in {"native", "done", "failed"}
          /\ unlockInFlight' = unlockInFlight
          /\ \A w \in UnlockOps \ {u} : unl'[w] = unl[w]
      BY <1>0, <1>3 DEF UnlockStart, UnlockEnd
    <2> QED BY <2>1 DEF UnlockGoes, FlightGoes
  <1>4. ASSUME NEW u \in Unlocks, Unlock(u)
        PROVE  (\A w \in UnlockOps : UnlockGoes(w)) /\ FlightGoes
    <2>1. /\ unl[u] = "idle" /\ u \notin Addresses
          /\ \A w \in UnlockOps \ {u} : unl'[w] = unl[w]
          /\ UNCHANGED <<pc, admission, policyTail, addressInFlight>>
      BY <1>0, <1>4 DEF Unlock, UnlockWithPolicy
    <2>2. \/ unlockInFlight' = unlockInFlight
          \/ /\ unlockInFlight = None
             /\ \E request \in Requests :
                  /\ unl'[u] = "waiting"
                  /\ unlockInFlight' = [op |-> u, request |-> request, policy |-> UnlockPolicy(request)]
      BY <1>0, <1>4 DEF Unlock, UnlockWithPolicy
    <2>3. \A w \in UnlockOps \ {u} : unl[w] = "waiting" => unlockInFlight' = unlockInFlight
      BY <2>2 DEF UnlockOwned
    <2> QED BY <2>1, <2>2, <2>3 DEF UnlockGoes, FlightGoes
  <1>5. ASSUME NEW a \in Addresses, AddressLocked(a)
        PROVE  (\A w \in UnlockOps : UnlockGoes(w)) /\ FlightGoes
    <2>0. a \in Calls /\ pc \in [Calls -> Phases] /\ admission \in [Calls -> Admission]
          /\ admission[a] \in Admission
      BY DisjointCalls DEF TypeOK
    <2>1. unl[a] = "idle" /\ UNCHANGED policyTail /\ pc[a] = "reading"
      BY <1>5 DEF AddressLocked, UnlockFresh
    <2>2. CASE UNCHANGED <<unl, unlockInFlight>>
      BY <2>2 DEF UnlockGoes, FlightGoes
    <2>3. CASE /\ unlockInFlight = None /\ pc'[a] = "unlocking"
               /\ unl' = [unl EXCEPT ![a] = "waiting"]
               /\ unlockInFlight' = [op |-> a, request |-> "auto", policy |-> admission[a].policy]
               /\ admission'[a].policy = admission[a].policy
      <3>1. unl'[a] = "waiting" /\ \A w \in UnlockOps \ {a} : unl'[w] = unl[w] /\ unl[w] # "waiting"
        BY <1>0, <2>3 DEF UnlockOwned
      <3>2. FlightGoes
        BY <2>1, <2>3, <3>1 DEF FlightGoes
      <3> QED BY <2>1, <2>3, <3>1, <3>2 DEF UnlockGoes
    <2> QED BY <1>5, <2>0, <2>1, <2>2, <2>3 DEF AddressLocked, UnlockWithPolicy, Admission
  <1> QED BY <1>1, <1>2, <1>3, <1>4, <1>5, UnlockSteps

LEMMA UnlockFreshStep == TypeOK /\ UnlockOwned /\ CallFresh /\ UnlockFresh /\ [Next]_vars => UnlockFresh'
  <1> SUFFICES ASSUME TypeOK, UnlockOwned, CallFresh, UnlockFresh, [Next]_vars, NEW a \in Addresses,
                      pc'[a] \in {"idle", "joined", "waiting", "reading"}
               PROVE  unl'[a] = "idle"
    BY DEF UnlockFresh
  <1>1. a \in Calls /\ a \in UnlockOps
    BY SideCalls, DisjointCalls
  <1>2. pc[a] \in {"idle", "joined", "waiting", "reading"}
    <2>1. CASE pc'[a] = pc[a]
      BY <2>1
    <2>2. CASE pc'[a] # pc[a]
      <3>1. PICK b \in Addresses : GetAddress(b) \/ AddressProgress(b)
        <4>1. CASE \/ UnlockNext \/ UnlockProgress \/ AddressClear \/ CheckpointProgress
                   \/ Shutdown \/ ShutdownProgress \/ UNCHANGED vars
          BY <2>2, <4>1, UnlockEffect, QuietEffect DEF Untouched
        <4> QED BY <1>1, <2>2, <4>1, MutationEffect, SetPolicyEffect, PolicyEffect, AsideEffect,
                   DisjointCalls, SideCalls, StepCases DEF Alone
      <3>2. b = a
        BY <1>1, <2>2, <3>1, AddressEffect DEF Alone
      <3>3. pc \in [Calls -> Phases]
        BY DEF TypeOK
      <3> QED BY <1>1, <3>1, <3>2, <3>3 DEF GetAddress, AddressProgress, AddressStart, AddressEnd,
                 AddressRead, AddressLocked, AddressUnlocked
    <2> QED BY <2>1, <2>2
  <1>3. unl[a] = "idle" /\ UnlockGoes(a)
    BY <1>1, <1>2, UnlocksOnward DEF UnlockFresh
  <1> QED BY <1>1, <1>3 DEF UnlockGoes
-----------------------------------------------------------------------------
\* Whatever somebody captured or a shutdown awaits has started.
Begun(u) == u # None => unl[u] \notin {"idle", "joined"}
Admitted(c) == c # None => pc[c] \notin {"idle", "joined"}
CapturedStarted(c) ==
  /\ Begun(admission[c].unlock) /\ Admitted(admission[c].policy) /\ Admitted(admission[c].address)
  /\ \A m \in admission[c].mutations : Admitted(m)
DrainStarted == Begun(drain.unlock) /\ \A c \in drain.calls : Admitted(c)
Started ==
  /\ unlockInFlight # None => Begun(unlockInFlight.op) /\ Admitted(unlockInFlight.policy)
  /\ Admitted(addressInFlight) /\ Admitted(policyTail)
  /\ \A c \in Calls : CapturedStarted(c)

Fresh == CallFresh /\ UnlockFresh

LEMMA StaysStarted ==
  ASSUME TypeOK, UnlockOwned, Fresh, [Next]_vars
  PROVE  /\ \A c \in Calls \cup {None} : Admitted(c) => Admitted(c)'
         /\ \A u \in UnlockOps \cup {None} : Begun(u) => Begun(u)'
         /\ \A c \in Calls \cup {None} : Settled(c) => Settled(c)'
         /\ \A u \in UnlockOps \cup {None} : UnlockSettled(u) => UnlockSettled(u)'
  <1>1. \A c \in Calls : Onward(c)
    BY CallsOnward DEF Fresh
  <1>2. \A u \in UnlockOps : UnlockGoes(u)
    BY UnlocksOnward DEF Fresh
  <1>3. \A c \in Calls \cup {None} : Admitted(c) => Admitted(c)'
    BY <1>1 DEF Onward, Admitted
  <1>4. \A c \in Calls \cup {None} : Settled(c) => Settled(c)'
    BY <1>1 DEF Onward, Settled
  <1> QED BY <1>2, <1>3, <1>4 DEF Begun, UnlockSettled, UnlockGoes

LEMMA CapturedTypes ==
  ASSUME TypeOK
  PROVE  /\ unlockInFlight # None =>
              /\ unlockInFlight.op \in UnlockOps /\ unlockInFlight.op # None
              /\ unlockInFlight.policy \in Policies \cup {None}
         /\ addressInFlight \in Addresses \cup {None} /\ policyTail \in Policies \cup {None}
         /\ drain.unlock \in UnlockOps \cup {None} /\ drain.calls \subseteq Calls
         /\ \A c \in Calls : /\ admission[c].policy \in Policies \cup {None}
                             /\ admission[c].unlock \in UnlockOps \cup {None}
                             /\ admission[c].address \in Addresses \cup {None}
                             /\ admission[c].mutations \subseteq Mutations
         /\ CurrentUnlock \in UnlockOps \cup {None} /\ CurrentPolicy \in Policies \cup {None}
         /\ MutationsInFlight \subseteq Mutations
         /\ Policies \cup Addresses \cup Mutations \subseteq Calls
  BY DisjointCalls DEF TypeOK, Flight, Drain, Admission, CurrentUnlock, CurrentPolicy,
     MutationsInFlight

LEMMA CurrentStarted ==
  ASSUME TypeOK, Started
  PROVE  /\ Begun(CurrentUnlock) /\ Admitted(CurrentPolicy)
         /\ \A m \in MutationsInFlight : Admitted(m)
         /\ \A request \in Requests : Admitted(UnlockPolicy(request))
  <1>1. Begun(CurrentUnlock) /\ Admitted(CurrentPolicy) /\ \A m \in MutationsInFlight : Admitted(m)
    BY DEF Started, CurrentUnlock, CurrentPolicy, MutationsInFlight, Begun, Admitted
  <1>2. addressInFlight # None => addressInFlight \in Calls
    BY CapturedTypes
  <1> QED BY <1>1, <1>2 DEF Started, UnlockPolicy, CapturedStarted

LEMMA StartedStep ==
  TypeOK /\ UnlockOwned /\ Fresh /\ Started /\ [Next]_vars => Started'
  <1> SUFFICES ASSUME TypeOK, UnlockOwned, Fresh, Started, [Next]_vars PROVE Started'
    OBVIOUS
  <1>1. /\ \A c \in Calls \cup {None} : Admitted(c) => Admitted(c)'
        /\ \A u \in UnlockOps \cup {None} : Begun(u) => Begun(u)'
    BY StaysStarted
  <1>2. unlockInFlight' # None => Begun(unlockInFlight.op)' /\ Admitted(unlockInFlight.policy)'
    <2>1. CASE unlockInFlight' \in {unlockInFlight, None}
      BY <1>1, <2>1, CapturedTypes DEF Started, Begun, Admitted
    <2>2. ASSUME NEW u \in Unlocks, NEW request \in Requests, unl'[u] = "waiting",
                 UNCHANGED <<pc, admission, policyTail, addressInFlight>>,
                 unlockInFlight' = [op |-> u, request |-> request, policy |-> UnlockPolicy(request)]
          PROVE  Begun(unlockInFlight.op)' /\ Admitted(unlockInFlight.policy)'
      BY <2>2, CurrentStarted DEF Begun, Admitted
    <2>3. ASSUME NEW a \in Addresses, unl'[a] = "waiting",
                 unlockInFlight' = [op |-> a, request |-> "auto", policy |-> admission[a].policy]
          PROVE  Begun(unlockInFlight.op)' /\ Admitted(unlockInFlight.policy)'
      BY <1>1, <2>3, CapturedTypes DEF Begun, Admitted, Started, CapturedStarted
    <2> QED BY <2>1, <2>2, <2>3, UnlocksOnward DEF FlightGoes, Fresh
  <1>3. Admitted(addressInFlight)'
    <2>1. CASE addressInFlight' \in {addressInFlight, None}
      BY <1>1, <2>1, CapturedTypes DEF Started, Admitted
    <2>2. ASSUME NEW a \in Addresses, GetAddress(a) \/ AddressProgress(a)
          PROVE  Admitted(addressInFlight)'
      BY <2>1, <2>2, AddressEffect DEF Admitted
    <2> QED BY <2>1, <2>2, UnlockEffect, MutationEffect, SetPolicyEffect, PolicyEffect,
               AsideEffect, QuietEffect, StepCases
  <1>4. Admitted(policyTail)'
    <2>1. CASE policyTail' = policyTail
      BY <1>1, <2>1, CapturedTypes DEF Started, Admitted
    <2>2. ASSUME NEW p \in Policies, SetVssAutomatic(p)
          PROVE  Admitted(policyTail)'
      BY <2>1, <2>2, SetPolicyEffect DEF Admitted
    <2> QED BY <2>1, <2>2, UnlockEffect, AddressEffect, MutationEffect, PolicyEffect,
               AsideEffect, QuietEffect, StepCases
  <1>5. ASSUME NEW c \in Calls PROVE CapturedStarted(c)'
    <2>1. CASE Kept(c)
      BY <1>1, <2>1, CapturedTypes DEF Kept, Started, CapturedStarted, Begun, Admitted
    <2>2. CASE Admits(c)
      <3>1. Admitted(admission[c].address)' /\ \A m \in admission'[c].mutations : Admitted(m)'
        BY <1>1, <2>2, CapturedTypes, CurrentStarted DEF Admits, Started, Admitted
      <3>2. Admitted(admission[c].policy)'
        BY <1>1, <2>2, CapturedTypes, CurrentStarted DEF Admits, Started, Admitted
      <3>3. Begun(admission[c].unlock)'
        BY <1>1, <2>2, CapturedTypes, CurrentStarted DEF Admits, Begun
      <3> QED BY <3>1, <3>2, <3>3 DEF CapturedStarted
    <2>3. CASE Falls(c)
      <3>1. Begun(admission[c].unlock)'
        <4>1. CASE unlockInFlight = None
          <5>1. unl'[c] = "waiting"
            BY <2>3, <4>1, SideCalls DEF Falls, AddressLocked, UnlockWithPolicy, UnlockConflict, TypeOK
          <5> QED BY <2>3, <4>1, <5>1 DEF Falls, Begun
        <4>2. CASE unlockInFlight # None
          BY <1>1, <2>3, <4>2, CapturedTypes, CurrentStarted DEF Falls, Begun
        <4> QED BY <4>1, <4>2
      <3> QED BY <1>1, <2>3, <3>1, CapturedTypes DEF Falls, Started, CapturedStarted, Admitted
    <2> QED BY <2>1, <2>2, <2>3, CallsOnward DEF Onward, Fresh
  <1> QED BY <1>2, <1>3, <1>4, <1>5 DEF Started

LEMMA DrainStartedStep ==
  TypeOK /\ UnlockOwned /\ Fresh /\ Started /\ SignsQueued /\ DrainStarted /\ [Next]_vars
    => DrainStarted'
  <1> SUFFICES ASSUME TypeOK, UnlockOwned, Fresh, Started, SignsQueued, DrainStarted, [Next]_vars
               PROVE  DrainStarted'
    OBVIOUS
  <1>1. /\ \A c \in Calls \cup {None} : Admitted(c) => Admitted(c)'
        /\ \A u \in UnlockOps \cup {None} : Begun(u) => Begun(u)'
    BY StaysStarted
  <1>2. CASE drain' = drain
    BY <1>1, <1>2, CapturedTypes DEF DrainStarted, Begun, Admitted
  <1>3. CASE Shutdown \/ ShutdownProgress
    <2>1. \/ drain'.unlock = None /\ drain'.calls = {}
          \/ drain'.unlock = CurrentUnlock /\ drain'.calls = {}
          \/ drain'.unlock = None /\ drain'.calls \in {{addressInFlight} \ {None}, MutationsInFlight,
               SignTail, {policyTail} \ {None}, ManualsPending}
      <3>1. CASE ShutdownDrain
        <4>1. \/ drain' = [NoDrain EXCEPT !.unlock = CurrentUnlock]
              \/ \E S \in {{addressInFlight} \ {None}, MutationsInFlight, SignTail,
                           {policyTail} \ {None}} : drain' = [NoDrain EXCEPT !.calls = S]
              \/ drain' = [NoDrain EXCEPT !.ticket = Ticket]
              \/ drain' = [NoDrain EXCEPT !.calls = ManualsPending, !.ticket = Ticket]
          BY <3>1, Zenon DEF ShutdownDrain, DrainNext
        <4> QED BY <4>1 DEF NoDrain
      <3>2. CASE Shutdown \/ ShutdownNative \/ ShutdownEnd
        <4>1. drain' = NoDrain
          BY <3>2, Zenon DEF Shutdown, ShutdownNative, ShutdownEnd, DrainNext
        <4> QED BY <4>1 DEF NoDrain
      <3> QED BY <1>3, <3>1, <3>2 DEF ShutdownProgress
    <2>2. \A c \in SignTail : Admitted(c)
      <3>1. signQueue # <<>> => Len(signQueue) \in DOMAIN signQueue
        BY DEF TypeOK
      <3> QED BY <3>1 DEF SignTail, SignsQueued, Admitted
    <2>3. /\ Begun(CurrentUnlock) /\ Begun(None) /\ \A m \in MutationsInFlight : Admitted(m)
          /\ Admitted(addressInFlight) /\ Admitted(policyTail)
          /\ \A v \in ManualsPending : Admitted(v)
      BY CurrentStarted DEF Started, ManualsPending, Begun, Admitted
    <2>4. Begun(drain'.unlock) /\ \A c \in drain'.calls : Admitted(c)
      BY <2>1, <2>2, <2>3
    <2>5. drain'.unlock \in UnlockOps \cup {None} /\ drain'.calls \subseteq Calls
      <3>1. SignTail \subseteq Calls
        <4>1. signQueue # <<>> => signQueue[Len(signQueue)] \in Signs
          BY DEF TypeOK
        <4> QED BY <4>1, SideCalls DEF SignTail
      <3>2. ManualsPending \subseteq Calls
        BY TaskTypes DEF ManualsPending
      <3> QED BY <2>1, <3>1, <3>2, CapturedTypes
    <2> QED BY <1>1, <2>4, <2>5 DEF DrainStarted, Begun, Admitted
  <1>4. CASE AddressClear \/ CheckpointProgress \/ UNCHANGED vars
    <2>1. drain' = drain
      BY <1>4 DEF AddressClear, CheckpointProgress, CheckpointStart, CheckpointEnd,
         CheckpointClear, vars
    <2> QED BY <1>2, <2>1
  <1> QED BY <1>2, <1>3, <1>4, UnlockEffect, AddressEffect, MutationEffect, SetPolicyEffect,
             PolicyEffect, AsideEffect, StepCases
-----------------------------------------------------------------------------
\* What waits, waits for transitions admitted before it: x has settled, or it is
\* before q.
Behind(x, q) == Settled(x) \/ Before(x, q)

LEMMA BehindItself ==
  /\ \A x : Behind(x, x)
  /\ \A q : Behind(None, q)
  BY DEF Behind, Settled, Before

\* The policy steps are those of one transition.
LEMMA PolicySteps ==
  ASSUME TypeOK, [Next]_vars
  PROVE  PoliciesKept \/ \E p \in Policies : SetVssAutomatic(p) \/ PolicyProgress(p)
  <1>1. CASE \/ UnlockNext \/ UnlockProgress \/ AddressClear \/ CheckpointProgress
             \/ Shutdown \/ ShutdownProgress \/ UNCHANGED vars
    BY <1>1, UnlockEffect, QuietEffect DEF Untouched, PoliciesKept
  <1>2. ASSUME NEW c \in Calls \ Policies, Alone(c), policyTail' = policyTail PROVE PoliciesKept
    BY <1>2, DisjointCalls DEF Alone, PoliciesKept
  <1>3. ASSUME NEW a \in Addresses, GetAddress(a) \/ AddressProgress(a) PROVE PoliciesKept
    BY <1>2, <1>3, AddressEffect, DisjointCalls
  <1>4. ASSUME NEW m \in Mutations, Mutate(m) \/ MutationProgress(m) PROVE PoliciesKept
    BY <1>2, <1>4, MutationEffect, DisjointCalls
  <1>5. ASSUME NEW c \in Manuals \cup Reads \cup Signs,
               \/ c \in Manuals /\ (VssBackup(c) \/ ManualProgress(c))
               \/ c \in Reads /\ (ReadMetadata(c) \/ ReadEnd(c))
               \/ c \in Signs /\ (SignMessage(c) \/ SignProgress(c))
        PROVE  PoliciesKept
    BY <1>2, <1>5, AsideEffect, DisjointCalls, SideCalls
  <1> QED BY <1>1, <1>3, <1>4, <1>5, StepCases

\* A step keeps what is before what, and admits transitions only after the last.
LEMMA OrderMoves ==
  ASSUME TypeOK, UnlockOwned, Fresh, PolicyOrder, [Next]_vars
  PROVE  /\ \A x \in Policies \cup {None} : \A q : Behind(x, q) => Behind(x, q)'
         /\ \A x \in Policies \cup {None} : Behind(x, policyTail) => Behind(x, policyTail)'
  <1>1. \A x \in Policies \cup {None} : Settled(x) => Settled(x)'
    BY StaysStarted, CapturedTypes
  <1>2. CASE /\ policyTail' = policyTail
             /\ \A r \in Policies : admission'[r].policy = admission[r].policy
    <2>1. \A p, q : Before(p, q)' <=> Before(p, q)
      BY <1>2, KeepBefore
    <2> QED BY <1>1, <1>2, <2>1 DEF Behind
  <1>3. ASSUME NEW p \in Policies, SetVssAutomatic(p), pc'[p] = "waiting", policyTail' = p,
               admission'[p].policy = policyTail
        PROVE  /\ \A x \in Policies \cup {None} : \A q : Behind(x, q) => Behind(x, q)'
               /\ \A x \in Policies \cup {None} : Behind(x, policyTail) => Behind(x, policyTail)'
    <2>1. Alone(p) /\ pc[p] = "idle"
      BY <1>3, SetPolicyEffect
    <2>2. \A x, y : Before(x, y) => Before(x, y)'
      BY <1>3, <2>1, OrderAdmitted
    <2>3. ASSUME NEW x \in Policies \cup {None}, Before(x, policyTail) PROVE Before(x, policyTail)'
      <3>1. policyTail # None /\ p # None
        BY <2>3, DisjointCalls DEF Before
      <3>2. PICK t : t = policyTail
        OBVIOUS
      <3>3. Before(x, t)'
        BY <2>2, <2>3, <3>2
      <3>4. ASSUME NEW S \in SUBSET Policies, p \in S, WaitClosed(S)' PROVE x \in S
        BY <1>3, <3>1, <3>2, <3>3, <3>4 DEF Before, WaitClosed
      <3> QED BY <1>3, <3>1, <3>4 DEF Before
    <2> QED BY <1>1, <2>2, <2>3 DEF Behind
  <1>4. ASSUME NEW p \in Policies, SetVssAutomatic(p) \/ PolicyProgress(p)
        PROVE  \/ /\ policyTail' = policyTail
                  /\ \A r \in Policies : admission'[r].policy = admission[r].policy
               \/ /\ SetVssAutomatic(p) /\ pc'[p] = "waiting" /\ policyTail' = p
                  /\ admission'[p].policy = policyTail
    <2>1. Alone(p) /\ p \in Calls /\ admission[p] \in Admission
      BY <1>4, SetPolicyEffect, PolicyEffect, CapturedTypes DEF TypeOK
    <2>2. \A r \in Policies \ {p} : admission'[r].policy = admission[r].policy
      BY <2>1, CapturedTypes DEF Alone
    <2>3. CASE PolicyProgress(p)
      BY <2>1, <2>2, <2>3, PolicyEffect DEF Admission
    <2>4. CASE SetVssAutomatic(p)
      BY <2>2, <2>4, SetPolicyEffect
    <2> QED BY <1>4, <2>3, <2>4
  <1> QED BY <1>2, <1>3, <1>4, PolicySteps DEF PoliciesKept

LEMMA BehindSettled ==
  ASSUME TypeOK, PolicyOrder, NEW x \in Policies \cup {None}, NEW q \in Policies \cup {None},
         Behind(x, q), Settled(q), Admitted(x)
  PROVE  Settled(x)
  <1>1. CASE x = None \/ Settled(x)
    BY <1>1 DEF Settled
  <1>2. CASE x # None /\ Before(x, q)
    BY <1>2, SettledBefore DEF Unsettled, Admitted, Settled
  <1> QED BY <1>1, <1>2 DEF Behind

LEMMA CurrentBehind ==
  ASSUME TypeOK, Started, PolicyOrder
  PROVE  /\ Behind(policyTail, policyTail) /\ Behind(CurrentPolicy, policyTail)
         /\ Behind(None, policyTail)
         /\ ~PolicyPending => \A x \in Policies \cup {None} : Admitted(x) => Settled(x)
  BY BehindItself DEF CurrentPolicy, PolicyPending, Admitted, Settled
-----------------------------------------------------------------------------
\* What the unlock in flight and every call await was admitted before them; and
\* what a transition drains does not wait for that transition.
WaitsBehind ==
  /\ unlockInFlight # None => Behind(unlockInFlight.policy, policyTail)
  /\ \A c \in Calls \ Policies : Behind(admission[c].policy, policyTail)
DrainsBehind ==
  \A p \in Policies :
    /\ admission[p].address # None =>
         Behind(admission[admission[p].address].policy, admission[p].policy)
    /\ \A m \in admission[p].mutations : Behind(admission[m].policy, admission[p].policy)

Placed == Fresh /\ Started /\ PolicyOrder

LEMMA PolicyStays ==
  ASSUME TypeOK, Fresh, [Next]_vars, NEW c \in Calls, Admitted(c)
  PROVE  admission'[c].policy = admission[c].policy
  <1>1. Onward(c) /\ c # None
    BY CallsOnward, DisjointCalls DEF Fresh
  <1> QED BY <1>1 DEF Onward, Kept, Admits, Falls, Admitted

LEMMA FlightBehind ==
  ASSUME TypeOK, UnlockOwned, Placed, WaitsBehind, [Next]_vars, unlockInFlight' # None
  PROVE  Behind(unlockInFlight.policy, policyTail)'
  <1>1. PICK x : x = unlockInFlight'.policy
    OBVIOUS
  <1>2. x \in Policies \cup {None} /\ Behind(x, policyTail)
    <2>1. CASE unlockInFlight' \in {unlockInFlight, None}
      BY <1>1, <2>1, CapturedTypes DEF WaitsBehind
    <2>2. ASSUME NEW u \in Unlocks, NEW request \in Requests,
                 unlockInFlight' = [op |-> u, request |-> request, policy |-> UnlockPolicy(request)]
          PROVE  x \in Policies \cup {None} /\ Behind(x, policyTail)
      <3>1. x = UnlockPolicy(request)
        BY <1>1, <2>2
      <3>2. CASE addressInFlight # None /\ AutoUnlock /\ request = "auto"
        BY <3>1, <3>2, CapturedTypes, DisjointCalls DEF UnlockPolicy, WaitsBehind
      <3>3. CASE ~(addressInFlight # None /\ AutoUnlock /\ request = "auto")
        BY <3>1, <3>3, CapturedTypes, CurrentBehind DEF UnlockPolicy, Placed
      <3> QED BY <3>2, <3>3
    <2>3. ASSUME NEW a \in Addresses,
                 unlockInFlight' = [op |-> a, request |-> "auto", policy |-> admission[a].policy]
          PROVE  x \in Policies \cup {None} /\ Behind(x, policyTail)
      BY <1>1, <2>3, CapturedTypes, DisjointCalls DEF WaitsBehind
    <2> QED BY <2>1, <2>2, <2>3, UnlocksOnward DEF FlightGoes, Placed, Fresh
  <1>3. Behind(x, policyTail)'
    BY <1>2, OrderMoves DEF Placed
  <1> QED BY <1>1, <1>3 DEF Behind, Settled, Before

LEMMA WaitsBehindStep ==
  TypeOK /\ UnlockOwned /\ Placed /\ WaitsBehind /\ [Next]_vars => WaitsBehind'
  <1> SUFFICES ASSUME TypeOK, UnlockOwned, Placed, WaitsBehind, [Next]_vars PROVE WaitsBehind'
    OBVIOUS
  <1>1. ASSUME NEW c \in Calls \ Policies PROVE Behind(admission[c].policy, policyTail)'
    <2>1. PICK x : x = admission'[c].policy
      OBVIOUS
    <2>2. x \in Policies \cup {None} /\ Behind(x, policyTail)
      <3>1. CASE admission'[c].policy = admission[c].policy
        BY <2>1, <3>1, CapturedTypes DEF WaitsBehind
      <3>2. CASE admission'[c].policy \in {None, policyTail, CurrentPolicy}
        BY <2>1, <3>2, CapturedTypes, CurrentBehind DEF Placed
      <3> QED BY <3>1, <3>2, CallsOnward DEF Onward, Kept, Admits, Falls, Placed, Fresh
    <2>3. Behind(x, policyTail)'
      BY <2>2, OrderMoves DEF Placed
    <2> QED BY <2>1, <2>3 DEF Behind, Settled, Before
  <1> QED BY <1>1, FlightBehind DEF WaitsBehind

LEMMA DrainsBehindStep ==
  TypeOK /\ UnlockOwned /\ Placed /\ WaitsBehind /\ DrainsBehind /\ [Next]_vars => DrainsBehind'
  <1> SUFFICES ASSUME TypeOK, UnlockOwned, Placed, WaitsBehind, DrainsBehind, [Next]_vars,
                      NEW p \in Policies
               PROVE  /\ admission'[p].address # None =>
                           Behind(admission[admission[p].address].policy, admission[p].policy)'
                      /\ \A m \in admission'[p].mutations :
                           Behind(admission[m].policy, admission[p].policy)'
    BY DEF DrainsBehind
  <1>1. ASSUME NEW c \in Calls, Admitted(c), Behind(admission[c].policy, admission'[p].policy)
        PROVE  Behind(admission[c].policy, admission[p].policy)'
    <2>1. PICK x : x = admission[c].policy
      OBVIOUS
    <2>2. PICK q : q = admission'[p].policy
      OBVIOUS
    <2>3. x = admission'[c].policy /\ x \in Policies \cup {None}
      BY <1>1, <2>1, PolicyStays, CapturedTypes DEF Placed
    <2>4. Behind(x, q)'
      BY <1>1, <2>1, <2>2, <2>3, OrderMoves DEF Placed
    <2> QED BY <2>2, <2>3, <2>4 DEF Behind, Settled, Before
  <1>2. p \in Calls /\ p \notin Addresses
    BY CapturedTypes, DisjointCalls
  <1>3. CASE Kept(p)
    <2>1. ASSUME admission[p].address # None
          PROVE  Behind(admission[admission[p].address].policy, admission[p].policy)'
      <3>1. PICK a : a = admission[p].address
        OBVIOUS
      <3>2. a \in Calls /\ Admitted(a) /\ a = admission'[p].address
        BY <1>2, <1>3, <2>1, <3>1, CapturedTypes DEF Placed, Started, CapturedStarted, Kept
      <3>3. Behind(admission[a].policy, admission'[p].policy)
        BY <1>3, <2>1, <3>1 DEF DrainsBehind, Kept
      <3>4. Behind(admission[a].policy, admission[p].policy)'
        BY <1>1, <3>2, <3>3
      <3> QED BY <3>2, <3>4
    <2>2. ASSUME NEW m \in admission[p].mutations
          PROVE  Behind(admission[m].policy, admission[p].policy)'
      <3>1. m \in Calls /\ Admitted(m)
        BY <1>2, CapturedTypes DEF Placed, Started, CapturedStarted
      <3>2. Behind(admission[m].policy, admission'[p].policy)
        BY <1>3 DEF DrainsBehind, Kept
      <3> QED BY <1>1, <3>1, <3>2
    <2> QED BY <1>3, <2>1, <2>2 DEF Kept
  <1>4. CASE Admits(p)
    <2>1. /\ admission'[p].policy = policyTail /\ admission'[p].address = addressInFlight
          /\ admission'[p].mutations = MutationsInFlight
      BY <1>4 DEF Admits
    <2>2. ASSUME NEW c \in Addresses \cup Mutations, Admitted(c)
          PROVE  Behind(admission[c].policy, admission[p].policy)'
      <3>1. Behind(admission[c].policy, admission'[p].policy)
        BY <2>1, DisjointCalls DEF WaitsBehind
      <3> QED BY <1>1, <2>2, <3>1, CapturedTypes
    <2>3. ASSUME addressInFlight # None
          PROVE  Behind(admission[admission[p].address].policy, admission[p].policy)'
      <3>1. PICK a : a = addressInFlight
        OBVIOUS
      <3>2. a \in Addresses /\ Admitted(a) /\ a = admission'[p].address
        BY <2>1, <2>3, <3>1, CapturedTypes DEF Placed, Started
      <3>3. Behind(admission[a].policy, admission[p].policy)'
        BY <2>2, <3>2
      <3> QED BY <3>2, <3>3
    <2>4. ASSUME NEW m \in MutationsInFlight PROVE Behind(admission[m].policy, admission[p].policy)'
      BY <2>2, CapturedTypes, CurrentStarted DEF Placed
    <2> QED BY <2>1, <2>3, <2>4
  <1> QED BY <1>2, <1>3, <1>4, CallsOnward DEF Onward, Falls, Placed, Fresh
-----------------------------------------------------------------------------
\* An address past its barrier has waited for its policy, and one that reads for
\* the unlock it captured; a backup on the VSS queue has waited for its policy.
ReadsClear ==
  \A a \in Addresses :
    /\ pc[a] \in {"reading", "unlocking", "rereading"} => Settled(admission[a].policy)
    /\ pc[a] = "reading" => UnlockSettled(admission[a].unlock)
ManualsClear == \A v \in Manuals : pc[v] \in {"queued", "native"} => Settled(admission[v].policy)

AddressMoves(a) ==
  \/ pc'[a] = pc[a] /\ Kept(a)
  \/ /\ pc[a] = "idle" /\ pc'[a] = "waiting" /\ admission'[a].policy = CurrentPolicy
     /\ admission'[a].unlock = CurrentUnlock /\ UNCHANGED <<unl, unlockInFlight>>
  \/ /\ pc[a] = "waiting" /\ pc'[a] = "reading" /\ Kept(a)
     /\ Settled(admission[a].policy) /\ UnlockSettled(admission[a].unlock)
  \/ pc[a] = "reading" /\ pc'[a] = "unlocking" /\ admission'[a].policy = admission[a].policy
  \/ pc[a] = "unlocking" /\ pc'[a] = "rereading" /\ Kept(a)
  \/ pc'[a] \in {"joined", "done", "failed"}

LEMMA AddressesMove ==
  ASSUME TypeOK, [Next]_vars, NEW a \in Addresses
  PROVE  AddressMoves(a)
  <1>1. a \in Calls /\ admission \in [Calls -> Admission] /\ pc \in [Calls -> Phases]
        /\ admission[a] \in Admission
    BY DisjointCalls DEF TypeOK
  <1>2. CASE pc'[a] = pc[a] /\ admission'[a] = admission[a]
    BY <1>2 DEF AddressMoves, Kept
  <1>3. ASSUME NEW b \in Addresses, GetAddress(b) \/ AddressProgress(b)
        PROVE  AddressMoves(a)
    <2>1. CASE b # a
      BY <1>1, <1>2, <1>3, <2>1, AddressEffect DEF Alone
    <2>2. CASE GetAddress(a)
      BY <1>1, <2>2 DEF GetAddress, AddressMoves, Admission
    <2>3. CASE AddressProgress(a)
      <3>1. CASE AddressStart(a) \/ AddressEnd(a) \/ AddressUnlocked(a)
        BY <1>1, <3>1 DEF AddressStart, AddressEnd, AddressRead, AddressUnlocked, AddressMoves, Kept
      <3>2. CASE AddressLocked(a)
        BY <1>1, <3>2 DEF AddressLocked, AddressMoves, Admission
      <3> QED BY <2>3, <3>1, <3>2 DEF AddressProgress
    <2> QED BY <1>3, <2>1, <2>2, <2>3
  <1>4. CASE \/ UnlockNext \/ UnlockProgress \/ AddressClear \/ CheckpointProgress
             \/ Shutdown \/ ShutdownProgress \/ UNCHANGED vars
    BY <1>2, <1>4, UnlockEffect, QuietEffect DEF Untouched
  <1> QED BY <1>1, <1>2, <1>3, <1>4, MutationEffect, SetPolicyEffect, PolicyEffect, AsideEffect,
             DisjointCalls, SideCalls, StepCases DEF Alone

LEMMA ReadsClearStep ==
  TypeOK /\ UnlockOwned /\ Fresh /\ ReadsClear /\ [Next]_vars => ReadsClear'
  <1> SUFFICES ASSUME TypeOK, UnlockOwned, Fresh, ReadsClear, [Next]_vars, NEW a \in Addresses
               PROVE  /\ pc'[a] \in {"reading", "unlocking", "rereading"} =>
                           Settled(admission[a].policy)'
                      /\ pc'[a] = "reading" => UnlockSettled(admission[a].unlock)'
    BY DEF ReadsClear
  <1>1. /\ \A c \in Policies \cup {None} : Settled(c) => Settled(c)'
        /\ \A u \in UnlockOps \cup {None} : UnlockSettled(u) => UnlockSettled(u)'
    BY StaysStarted, CapturedTypes
  <1>2. /\ a \in Calls /\ admission[a].policy \in Policies \cup {None}
        /\ admission[a].unlock \in UnlockOps \cup {None}
    BY CapturedTypes
  <1>3. pc'[a] \in {"reading", "unlocking", "rereading"} =>
          admission'[a].policy = admission[a].policy /\ Settled(admission[a].policy)
    BY AddressesMove DEF AddressMoves, ReadsClear, Kept
  <1>4. pc'[a] = "reading" =>
          admission'[a].unlock = admission[a].unlock /\ UnlockSettled(admission[a].unlock)
    BY AddressesMove DEF AddressMoves, ReadsClear, Kept
  <1> QED BY <1>1, <1>2, <1>3, <1>4 DEF Settled, UnlockSettled

LEMMA ManualsClearStep ==
  TypeOK /\ UnlockOwned /\ Placed /\ ManualsClear /\ [Next]_vars => ManualsClear'
  <1> SUFFICES ASSUME TypeOK, UnlockOwned, Placed, ManualsClear, [Next]_vars, NEW v \in Manuals,
                      pc'[v] \in {"queued", "native"}
               PROVE  Settled(admission[v].policy)'
    BY DEF ManualsClear
  <1>1. \A c \in Policies \cup {None} : Settled(c) => Settled(c)'
    BY StaysStarted, CapturedTypes DEF Placed
  <1>2. v \in Calls /\ admission \in [Calls -> Admission] /\ pc \in [Calls -> Phases]
        /\ admission[v].policy \in Policies \cup {None} /\ admission[v] \in Admission
    BY DisjointCalls, CapturedTypes DEF TypeOK
  <1>3. CASE pc'[v] = pc[v] /\ admission'[v] = admission[v]
    BY <1>1, <1>2, <1>3 DEF ManualsClear, Settled
  <1>4. CASE VssBackup(v)
    <2>1. ~PolicyPending /\ admission'[v].policy = CurrentPolicy
      BY <1>2, <1>4 DEF VssBackup, Admission
    <2> QED BY <2>1 DEF CurrentPolicy, Settled
  <1>5. CASE ManualProgress(v)
    <2>1. Settled(admission[v].policy) /\ admission'[v].policy = admission[v].policy
      BY <1>2, <1>5 DEF ManualProgress, VssBackupEnqueue, VssBackupStart, VssBackupEnd, ManualsClear
    <2> QED BY <1>1, <1>2, <2>1 DEF Settled
  <1>6. CASE \/ UnlockNext \/ UnlockProgress \/ AddressClear \/ CheckpointProgress
             \/ Shutdown \/ ShutdownProgress \/ UNCHANGED vars
    BY <1>3, <1>6, UnlockEffect, QuietEffect DEF Untouched
  <1>7. ASSUME NEW c \in Manuals \cup Reads \cup Signs,
               \/ c \in Manuals /\ (VssBackup(c) \/ ManualProgress(c))
               \/ c \in Reads /\ (ReadMetadata(c) \/ ReadEnd(c))
               \/ c \in Signs /\ (SignMessage(c) \/ SignProgress(c))
        PROVE  Settled(admission[v].policy)'
    <2>1. CASE c = v
      BY <1>4, <1>5, <1>7, <2>1, SideCalls
    <2>2. CASE c # v
      BY <1>2, <1>3, <1>7, <2>2, AsideEffect DEF Alone
    <2> QED BY <2>1, <2>2
  <1> QED BY <1>2, <1>3, <1>6, <1>7, AddressEffect, MutationEffect, SetPolicyEffect, PolicyEffect,
             DisjointCalls, SideCalls, StepCases DEF Alone
-----------------------------------------------------------------------------
\* An address that may fall back finds an unlock it captured, or one behind its
\* own policy: unlock(request) joins the barrier of the address in flight.
JoinClear ==
  \A a \in Addresses :
    pc[a] \in {"waiting", "reading"} /\ AutoUnlock
      /\ unlockInFlight # None /\ unlockInFlight.request = "auto" =>
        \/ unlockInFlight.op = admission[a].unlock
        \/ unlockInFlight.policy = admission[a].policy

LEMMA JoinClearStep ==
  TypeOK /\ UnlockOwned /\ Fresh /\ AddressOwned /\ JoinClear /\ [Next]_vars => JoinClear'
  <1> SUFFICES ASSUME TypeOK, UnlockOwned, Fresh, AddressOwned, JoinClear, [Next]_vars,
                      NEW a \in Addresses, pc'[a] \in {"waiting", "reading"}, AutoUnlock,
                      unlockInFlight' # None, unlockInFlight'.request = "auto"
               PROVE  \/ unlockInFlight'.op = admission'[a].unlock
                      \/ unlockInFlight'.policy = admission'[a].policy
    BY DEF JoinClear
  <1>1. a # None /\ a \in Calls
    BY DisjointCalls
  <1>2. CASE pc[a] = "idle"
    <2>1. admission'[a].unlock = CurrentUnlock /\ UNCHANGED <<unl, unlockInFlight>>
      BY <1>2, AddressesMove DEF AddressMoves
    <2> QED BY <2>1 DEF CurrentUnlock
  <1>3. CASE pc[a] \in {"waiting", "reading"} /\ Kept(a)
    <2>1. addressInFlight = a
      BY <1>3 DEF AddressOwned, ReadingAddress
    <2>2. CASE unlockInFlight' \in {unlockInFlight, None}
      BY <1>3, <2>2 DEF JoinClear, Kept
    <2>3. ASSUME NEW u \in Unlocks, NEW request \in Requests,
                 UNCHANGED <<pc, admission, policyTail, addressInFlight>>,
                 unlockInFlight' = [op |-> u, request |-> request, policy |-> UnlockPolicy(request)]
          PROVE  unlockInFlight'.policy = admission'[a].policy
      <3>1. request = "auto"
        BY <2>3
      <3> QED BY <1>1, <2>1, <2>3, <3>1 DEF UnlockPolicy
    <2>4. ASSUME NEW b \in Addresses, pc[b] = "reading", pc'[b] = "unlocking"
          PROVE  FALSE
      BY <2>1, <2>4 DEF AddressOwned, ReadingAddress
    <2> QED BY <2>2, <2>3, <2>4, UnlocksOnward DEF FlightGoes, Fresh
  <1> QED BY <1>2, <1>3, AddressesMove DEF AddressMoves

\* An unlock somebody awaits was admitted before what that call awaits.
UnlockBehind ==
  \A c \in Calls \ Signs :
    admission[c].unlock # None /\ unl[admission[c].unlock] = "waiting" =>
      Behind(unlockInFlight.policy, admission[c].policy)

LEMMA UnlockBehindStep ==
  TypeOK /\ UnlockOwned /\ Placed /\ WaitsBehind /\ ReadsClear /\ JoinClear /\ UnlockBehind
    /\ [Next]_vars => UnlockBehind'
  <1> SUFFICES ASSUME TypeOK, UnlockOwned, Placed, WaitsBehind, ReadsClear, JoinClear, UnlockBehind,
                      [Next]_vars, NEW c \in Calls \ Signs,
                      admission'[c].unlock # None, unl'[admission'[c].unlock] = "waiting"
               PROVE  Behind(unlockInFlight.policy, admission[c].policy)'
    BY DEF UnlockBehind
  <1>1. PICK x : x = unlockInFlight'.policy
    OBVIOUS
  <1>2. PICK q : q = admission'[c].policy
    OBVIOUS
  <1>3. Fresh /\ Started /\ PolicyOrder
    BY DEF Placed
  <1>4. ASSUME x \in Policies \cup {None}, Behind(x, q)
        PROVE  Behind(unlockInFlight.policy, admission[c].policy)'
    <2>1. Behind(x, q)'
      BY <1>3, <1>4, OrderMoves
    <2> QED BY <1>1, <1>2, <2>1 DEF Behind, Settled, Before
  <1>5. CASE Kept(c)
    <2>1. PICK u : u = admission[c].unlock
      OBVIOUS
    <2>2. u = admission'[c].unlock /\ u \in UnlockOps /\ u # None /\ unl'[u] = "waiting"
      BY <1>5, <2>1, CapturedTypes DEF Kept
    <2>3. unl[u] \notin {"idle", "joined"} /\ UnlockGoes(u)
      BY <1>3, <2>1, <2>2, UnlocksOnward DEF Started, CapturedStarted, Begun, Fresh
    <2>4. unl[u] = "waiting" /\ unlockInFlight' = unlockInFlight
      BY <2>2, <2>3 DEF UnlockGoes
    <2>5. unlockInFlight # None
      BY <2>2, <2>4 DEF UnlockOwned
    <2>6. Behind(x, q) /\ x \in Policies \cup {None}
      BY <1>1, <1>2, <1>5, <2>1, <2>2, <2>4, <2>5, CapturedTypes DEF UnlockBehind, Kept
    <2> QED BY <1>4, <2>6
  <1>6. CASE Admits(c)
    <2>1. /\ UNCHANGED <<unl, unlockInFlight>> /\ admission'[c].unlock = CurrentUnlock
          /\ q \in {policyTail, CurrentPolicy}
      BY <1>2, <1>6 DEF Admits
    <2>2. unlockInFlight # None /\ x = unlockInFlight.policy
      BY <1>1, <2>1 DEF CurrentUnlock
    <2>3. x \in Policies \cup {None} /\ Behind(x, policyTail) /\ Admitted(x)
      BY <1>3, <2>2, CapturedTypes DEF WaitsBehind, Started
    <2>4. Behind(x, q)
      BY <1>3, <2>1, <2>3, CurrentBehind DEF CurrentPolicy, Behind
    <2> QED BY <1>4, <2>3, <2>4
  <1>7. CASE Falls(c)
    <2>0. /\ c \in Addresses /\ pc[c] = "reading" /\ AutoUnlock /\ q = admission[c].policy
          /\ q \in Policies \cup {None}
          /\ admission'[c].unlock = IF unlockInFlight = None THEN c ELSE CurrentUnlock
      BY <1>2, <1>7, CapturedTypes DEF Falls, AddressLocked
    <2>1. CASE unlockInFlight = None
      <3>1. unlockInFlight'.policy = admission[c].policy
        BY <1>7, <2>1 DEF Falls, AddressLocked, UnlockConflict, UnlockWithPolicy, TypeOK
      <3> QED BY <1>1, <1>4, <2>0, <3>1, BehindItself
    <2>2. CASE unlockInFlight # None
      <3>1. unlockInFlight.request = "auto" /\ unlockInFlight' = unlockInFlight /\ unl' = unl
        BY <1>7, <2>0, <2>2 DEF Falls, AddressLocked, UnlockConflict, UnlockWithPolicy, TypeOK
      <3>2. unlockInFlight.op # admission[c].unlock
        <4>1. unl[unlockInFlight.op] = "waiting"
          BY <2>0, <2>2, <3>1 DEF CurrentUnlock
        <4> QED BY <2>0, <2>2, <4>1, CapturedTypes DEF ReadsClear, UnlockSettled
      <3>3. unlockInFlight.policy = admission[c].policy
        BY <2>0, <2>2, <3>1, <3>2 DEF JoinClear
      <3> QED BY <1>1, <1>4, <2>0, <3>1, <3>3, BehindItself
    <2> QED BY <2>1, <2>2
  <1> QED BY <1>3, <1>5, <1>6, <1>7, CallsOnward DEF Onward, Fresh
-----------------------------------------------------------------------------
\* Where the transitions and the metadata reads may be.
PolicyPhasesOf == {"idle", "waiting", "draining", "queued", "native", "acked", "refused",
                   "done", "failed"}
OtherPhases ==
  /\ \A p \in Policies : pc[p] \in PolicyPhasesOf
  /\ \A r \in Reads : pc[r] \in {"idle", "waiting", "done", "failed"}

LEMMA OtherPhasesStep == TypeOK /\ OtherPhases /\ [Next]_vars => OtherPhases'
  <1> SUFFICES ASSUME TypeOK, OtherPhases, [Next]_vars PROVE OtherPhases'
    OBVIOUS
  <1>1. ASSUME NEW p \in Policies PROVE pc'[p] \in PolicyPhasesOf
    <2>1. CASE PoliciesKept
      BY <2>1 DEF PoliciesKept, OtherPhases
    <2>2. ASSUME NEW q \in Policies, SetVssAutomatic(q) \/ PolicyProgress(q)
          PROVE  pc'[p] \in PolicyPhasesOf
      <3>1. p # q => pc'[p] = pc[p]
        BY <2>2, SetPolicyEffect, PolicyEffect, CapturedTypes DEF Alone
      <3>2. pc'[q] \in PolicyPhasesOf
        BY <2>2, SetPolicyEffect, PolicyEffect DEF PolicyPhasesOf
      <3> QED BY <3>1, <3>2 DEF OtherPhases
    <2> QED BY <2>1, <2>2, PolicySteps
  <1>2. ASSUME NEW r \in Reads PROVE pc'[r] \in {"idle", "waiting", "done", "failed"}
    <2>1. r \in Calls /\ pc \in [Calls -> Phases]
      BY SideCalls DEF TypeOK
    <2>2. CASE pc'[r] = pc[r]
      BY <2>2 DEF OtherPhases
    <2>3. CASE \/ UnlockNext \/ UnlockProgress \/ AddressClear \/ CheckpointProgress
               \/ Shutdown \/ ShutdownProgress \/ UNCHANGED vars
      BY <2>2, <2>3, UnlockEffect, QuietEffect DEF Untouched
    <2>4. ASSUME NEW c \in Manuals \cup Reads \cup Signs,
                 \/ c \in Manuals /\ (VssBackup(c) \/ ManualProgress(c))
                 \/ c \in Reads /\ (ReadMetadata(c) \/ ReadEnd(c))
                 \/ c \in Signs /\ (SignMessage(c) \/ SignProgress(c))
          PROVE  pc'[r] \in {"idle", "waiting", "done", "failed"}
      <3>1. CASE c = r
        BY <2>1, <2>4, <3>1, SideCalls DEF ReadMetadata, ReadEnd
      <3>2. CASE c # r
        BY <2>1, <2>2, <2>4, <3>2, AsideEffect DEF Alone
      <3> QED BY <3>1, <3>2
    <2> QED BY <2>1, <2>2, <2>3, <2>4, AddressEffect, MutationEffect, SetPolicyEffect,
               PolicyEffect, DisjointCalls, SideCalls, StepCases DEF Alone
  <1> QED BY <1>1, <1>2 DEF OtherPhases
-----------------------------------------------------------------------------
\* While a transition is pending one of them waits for no other, and each that is
\* not the last is the barrier of the next.
Chain ==
  /\ PolicyPending => \E p \in Policies : Unsettled(p) /\ Settled(admission[p].policy)
  /\ \A p \in Policies : Unsettled(p) /\ p # policyTail =>
       \E q \in Policies : admission[q].policy = p

LEMMA ChainAdmitted ==
  ASSUME TypeOK, Placed, Chain, NEW p \in Policies, SetVssAutomatic(p), pc'[p] = "waiting",
         policyTail' = p, admission'[p].policy = policyTail
  PROVE  Chain'
  <1>1. Alone(p) /\ pc[p] = "idle"
    BY SetPolicyEffect
  <1>2. admission[p].policy = None /\ p # None /\ Policies \subseteq Calls
    BY <1>1, DisjointCalls DEF Placed, PolicyOrder
  <1>3. \A r \in Policies : r # p =>
          pc'[r] = pc[r] /\ admission'[r] = admission[r] /\ (Unsettled(r)' <=> Unsettled(r))
    BY <1>1, <1>2 DEF Alone, Unsettled
  <1>4. \E r \in Policies : Unsettled(r)' /\ Settled(admission[r].policy)'
    <2>1. CASE PolicyPending
      <3>1. PICK r \in Policies : Unsettled(r) /\ Settled(admission[r].policy)
        BY <2>1 DEF Chain
      <3>2. r # p /\ admission[r].policy # p
        BY <1>1, <1>2, <3>1 DEF Unsettled, Settled
      <3>3. admission'[r].policy = admission[r].policy /\ admission[r].policy \in Policies \cup {None}
        BY <1>3, <3>2, CapturedTypes
      <3> QED BY <1>3, <3>1, <3>2, <3>3 DEF Settled
    <2>2. CASE ~PolicyPending
      <3>1. Settled(policyTail) /\ policyTail \in Policies \cup {None}
        BY <2>2, CurrentBehind, CapturedTypes DEF Placed, Started
      <3>2. policyTail # p
        BY <1>1, <1>2, <3>1 DEF Settled
      <3>3. Settled(admission[p].policy)'
        BY <1>3, <3>1, <3>2 DEF Settled
      <3> QED BY <3>3 DEF Unsettled
    <2> QED BY <2>1, <2>2
  <1>5. ASSUME NEW r \in Policies, Unsettled(r)', r # p
        PROVE  \E q \in Policies : admission'[q].policy = r
    <2>1. CASE r = policyTail
      BY <2>1
    <2>2. CASE r # policyTail
      <3>1. PICK q \in Policies : admission[q].policy = r
        BY <1>3, <1>5, <2>2 DEF Chain
      <3>2. q # p
        BY <1>2, <3>1, DisjointCalls
      <3> QED BY <1>3, <3>1, <3>2
    <2> QED BY <2>1, <2>2
  <1> QED BY <1>4, <1>5 DEF Chain

\* A transition that settles clears the barrier of the next one.
LEMMA ChainSettled ==
  ASSUME TypeOK, Placed, Chain, NEW p \in Policies, Alone(p), policyTail' = policyTail,
         pc[p] \in {"acked", "refused"}, pc'[p] \in {"done", "failed"},
         \A r \in Policies : admission'[r].policy = admission[r].policy
  PROVE  Chain'
  <1>1. /\ \A r \in Policies : r # p => pc'[r] = pc[r] /\ (Unsettled(r)' <=> Unsettled(r))
        /\ Unsettled(p) /\ Settled(admission[p].policy) /\ ~Unsettled(p)' /\ p # None
    BY CapturedTypes, DisjointCalls DEF Alone, Unsettled, Placed, PolicyOrder
  <1>2. ASSUME NEW s \in Policies, Unsettled(s)'
        PROVE  \E r \in Policies : Unsettled(r)' /\ Settled(admission[r].policy)'
    <2>1. s # p /\ Unsettled(s)
      BY <1>1, <1>2
    <2>2. p # policyTail
      <3> SUFFICES ASSUME p = policyTail PROVE FALSE
        OBVIOUS
      <3>1. WaitClosed(SettledPolicies \cup {p}) /\ SettledPolicies \cup {p} \in SUBSET Policies
        BY <1>1, SettledClosed DEF SettledPolicies, Placed
      <3>2. s \in SettledPolicies \cup {p}
        BY <2>1, <3>1 DEF Placed, PolicyOrder, Before
      <3> QED BY <2>1, <3>2 DEF SettledPolicies, Unsettled
    <2>3. PICK q \in Policies : admission[q].policy = p
      BY <1>1, <2>2 DEF Chain
    <2>4. ~Settled(p)
      BY <1>1 DEF Settled
    <2>5. pc[q] = "waiting" /\ q # p
      BY <1>1, <2>3, <2>4 DEF Placed, PolicyOrder
    <2>6. Unsettled(q)' /\ Settled(admission[q].policy)'
      BY <1>1, <2>3, <2>5 DEF Unsettled, Settled
    <2> QED BY <2>6
  <1>3. PolicyPending' => \E s \in Policies : Unsettled(s)'
    BY DEF PolicyPending, Unsettled
  <1> QED BY <1>1, <1>2, <1>3 DEF Chain

LEMMA ChainStep ==
  TypeOK /\ UnlockOwned /\ Placed /\ Chain /\ [Next]_vars => Chain'
  <1> SUFFICES ASSUME TypeOK, UnlockOwned, Placed, Chain, [Next]_vars PROVE Chain'
    OBVIOUS
  <1>1. \A c \in Policies \cup {None} : Settled(c) => Settled(c)'
    BY StaysStarted, CapturedTypes DEF Placed
  <1>2. ASSUME policyTail' = policyTail,
               \A r \in Policies : /\ admission'[r].policy = admission[r].policy
                                   /\ Unsettled(r)' <=> Unsettled(r)
        PROVE  Chain'
    <2>1. PolicyPending' <=> PolicyPending
      BY <1>2 DEF PolicyPending, Unsettled
    <2>2. \A r \in Policies : Settled(admission[r].policy) => Settled(admission[r].policy)'
      BY <1>1, <1>2, CapturedTypes DEF Settled
    <2> QED BY <1>2, <2>1, <2>2 DEF Chain
  <1>3. CASE PoliciesKept
    BY <1>2, <1>3 DEF PoliciesKept, Unsettled
  <1>4. ASSUME NEW p \in Policies, SetVssAutomatic(p) PROVE Chain'
    <2>1. CASE pc'[p] = "failed" /\ admission'[p] = admission[p] /\ policyTail' = policyTail
      BY <1>2, <1>4, <2>1, SetPolicyEffect, CapturedTypes DEF Alone, Unsettled
    <2> QED BY <1>4, <2>1, SetPolicyEffect, ChainAdmitted
  <1>5. ASSUME NEW p \in Policies, PolicyProgress(p) PROVE Chain'
    <2>1. /\ Alone(p) /\ policyTail' = policyTail
          /\ \A r \in Policies : admission'[r].policy = admission[r].policy
      <3>1. Alone(p) /\ policyTail' = policyTail
            /\ \E ticket \in Nat : admission'[p] = [admission[p] EXCEPT !.ticket = ticket]
        BY <1>5, PolicyEffect
      <3>2. p \in Calls /\ admission[p] \in Admission
        BY CapturedTypes DEF TypeOK
      <3> QED BY <3>1, <3>2, CapturedTypes DEF Alone, Admission
    <2>2. CASE pc[p] \in {"acked", "refused"} /\ pc'[p] \in {"done", "failed"}
      BY <2>1, <2>2, ChainSettled
    <2>3. CASE pc[p] \notin {"idle", "done", "failed"} /\ pc'[p] \notin {"idle", "done", "failed"}
      BY <1>2, <2>1, <2>3, CapturedTypes DEF Alone, Unsettled
    <2> QED BY <1>5, <2>2, <2>3, PolicyEffect
  <1> QED BY <1>3, <1>4, <1>5, PolicySteps
-----------------------------------------------------------------------------
\* A continuation can run or a native call can return: the guards of Progress.
CanRefuse(p) ==
  \/ UnlockFailed(admission[p].unlock)
  \/ UnlockSettled(admission[p].unlock) /\ AddressFailed(admission[p].address)
CanDrain(p) ==
  /\ UnlockSettled(admission[p].unlock) /\ Settled(admission[p].address)
  /\ \A m \in admission[p].mutations : Settled(m)
CanProgress ==
  \/ \E u \in UnlockOps :
       unl[u] = "native" \/ (unl[u] = "waiting" /\ Settled(unlockInFlight.policy))
  \/ \E a \in Addresses :
       \/ pc[a] = "waiting" /\ Settled(admission[a].policy) /\ UnlockSettled(admission[a].unlock)
       \/ pc[a] = "unlocking" /\ UnlockSettled(admission[a].unlock)
       \/ pc[a] \in {"reading", "rereading"}
  \/ \E m \in Mutations :
       pc[m] = "native" \/ (pc[m] = "waiting" /\ Settled(admission[m].policy))
  \/ \E p \in Policies :
       \/ pc[p] = "waiting" /\ Settled(admission[p].policy) /\ (CanRefuse(p) \/ CanDrain(p))
       \/ pc[p] = "draining" /\ served >= admission[p].ticket
       \/ pc[p] \in {"queued", "native"} /\ Running(p)
       \/ pc[p] \in {"acked", "refused"}
  \/ \E v \in Manuals :
       \/ pc[v] = "waiting" /\ Settled(admission[v].policy)
       \/ pc[v] = "queued" /\ Running(v) /\ UnlockSettled(admission[v].unlock)
       \/ pc[v] = "native" /\ Running(v)
  \/ \E r \in Reads : pc[r] = "waiting" /\ Settled(admission[r].policy)
  \/ \E s \in Signs :
       \/ pc[s] = "queued" /\ Signing(s) /\ UnlockSettled(admission[s].unlock)
       \/ pc[s] = "native" /\ Signing(s)
  \/ Running(Checkpoint)
  \/ checkpointPending # 0 /\ served >= checkpointPending
  \/ shutdown # "none" /\ (shutdown = "native" \/ Drained)

\* No order of calls and completions makes admitted work wait for itself: while
\* a call is unfinished, or a shutdown runs, some step of the account that is not
\* mere tidying (UnlockClear, AddressClear) has its guard.
NeverStuck == AllCallsSettled \/ CanProgress

\* The inductive invariant of NeverStuck.
StuckKept ==
  /\ UnlockOwned /\ Placed /\ WorkOrdered /\ HeadRuns /\ CallPhases /\ OtherPhases /\ SignsQueued
  /\ VssQueued /\ TicketsPast /\ DrainStarted /\ WaitsBehind /\ DrainsBehind
  /\ ReadsClear /\ ManualsClear /\ JoinClear /\ UnlockBehind /\ Chain

\* The unlock a call captured goes on when the transition the call captured has settled.
LEMMA UnlocksGoOn ==
  ASSUME TypeOK, StuckKept, ~CanProgress, NEW c \in Calls \ Signs, Settled(admission[c].policy)
  PROVE  UnlockSettled(admission[c].unlock)
  <1> SUFFICES ASSUME admission[c].unlock # None PROVE unl[admission[c].unlock] \in {"done", "failed"}
    BY DEF UnlockSettled
  <1>1. PICK u : u = admission[c].unlock
    OBVIOUS
  <1>2. /\ u \in UnlockOps /\ unl[u] \in {"waiting", "native", "done", "failed"}
        /\ admission[c].policy \in Policies \cup {None}
    BY <1>1, CapturedTypes DEF StuckKept, Placed, Started, CapturedStarted, Begun, TypeOK,
       UnlockPhases
  <1>3. unl[u] # "native"
    BY <1>2 DEF CanProgress
  <1>4. unl[u] # "waiting"
    <2> SUFFICES ASSUME unl[u] = "waiting" PROVE FALSE
      OBVIOUS
    <2>1. unlockInFlight # None /\ Behind(unlockInFlight.policy, admission[c].policy)
      BY <1>1, <1>2 DEF StuckKept, UnlockOwned, UnlockBehind
    <2>2. Settled(unlockInFlight.policy)
      BY <1>2, <2>1, BehindSettled, CapturedTypes DEF StuckKept, Placed, Started
    <2> QED BY <1>2, <2>2 DEF CanProgress
  <1> QED BY <1>1, <1>2, <1>3, <1>4

LEMMA WorkGoesOn ==
  ASSUME TypeOK, StuckKept, ~CanProgress, NEW c \in Addresses \cup Mutations,
         Settled(admission[c].policy), Admitted(c)
  PROVE  Settled(c)
  <1>1. c # None /\ c \in Calls \ Signs /\ pc[c] \notin {"idle", "joined"}
    BY DisjointCalls DEF Admitted
  <1>2. UnlockSettled(admission[c].unlock)
    BY <1>1, UnlocksGoOn
  <1>3. CASE c \in Addresses
    <2>1. pc[c] \notin {"waiting", "unlocking", "reading", "rereading"}
      BY <1>2, <1>3 DEF CanProgress
    <2> QED BY <1>1, <1>3, <2>1 DEF StuckKept, CallPhases, Settled
  <1>4. CASE c \in Mutations
    <2>1. pc[c] \notin {"waiting", "native"}
      BY <1>4 DEF CanProgress
    <2> QED BY <1>1, <1>4, <2>1 DEF StuckKept, CallPhases, Settled
  <1> QED BY <1>3, <1>4

LEMMA QueueGoesOn ==
  ASSUME TypeOK, StuckKept, ~CanProgress
  PROVE  /\ vssQueue = <<>> /\ checkpointPending = 0 /\ served >= drain.ticket
         /\ \A p \in Policies : served >= admission[p].ticket
         /\ \A c \in Manuals \cup Policies : pc[c] \notin {"queued", "native"}
  <1>1. vssQueue = <<>>
    <2> SUFFICES ASSUME vssQueue # <<>> PROVE FALSE
      OBVIOUS
    <2>1. PICK x : x = Head(vssQueue)
      OBVIOUS
    <2>2. Running(x) /\ x \in Tasks /\ 1 \in DOMAIN vssQueue /\ vssQueue[1] = x
      BY <2>1 DEF Running, TypeOK
    <2>3. x # Checkpoint
      BY <2>2 DEF CanProgress
    <2>4. x \in Manuals \cup Policies /\ pc[x] \in {"queued", "native"}
      BY <2>2, <2>3 DEF Tasks, StuckKept, VssQueued, Chained
    <2>5. CASE x \in Policies
      BY <2>2, <2>4, <2>5 DEF CanProgress
    <2>6. CASE x \in Manuals
      <3>1. UnlockSettled(admission[x].unlock)
        BY <2>4, <2>6, UnlocksGoOn, DisjointCalls DEF StuckKept, ManualsClear
      <3> QED BY <2>2, <2>4, <2>6, <3>1 DEF CanProgress
    <2> QED BY <2>4, <2>5, <2>6
  <1>2. Ticket = served /\ served \in Nat
    BY <1>1 DEF Ticket, TypeOK
  <1>3. /\ checkpointPending \in Nat /\ checkpointPending <= served
        /\ drain.ticket \in Nat /\ drain.ticket <= served
    BY <1>2 DEF StuckKept, TicketsPast, TypeOK, Drain
  <1>4. checkpointPending = 0
    <2>1. checkpointPending # 0 => CanProgress
      BY <1>2, <1>3 DEF CanProgress
    <2> QED BY <2>1
  <1>5. \A p \in Policies : served >= admission[p].ticket
    BY <1>2 DEF StuckKept, TicketsPast, TypeOK, Calls, Admission
  <1>6. \A c \in Manuals \cup Policies : pc[c] \notin {"queued", "native"}
    BY <1>1 DEF StuckKept, VssQueued, Chained, Chainers
  <1> QED BY <1>1, <1>2, <1>3, <1>4, <1>5, <1>6

\* The first of the pending transitions goes on: what it drains waits only for
\* transitions before it.
LEMMA PoliciesGoOn ==
  ASSUME TypeOK, StuckKept, ~CanProgress
  PROVE  ~PolicyPending
  <1> SUFFICES ASSUME PolicyPending PROVE FALSE
    OBVIOUS
  <1>1. PICK p \in Policies : Unsettled(p) /\ Settled(admission[p].policy)
    BY DEF StuckKept, Chain
  <1>2. /\ p \in Calls \ Signs /\ p \notin Addresses \cup Mutations
        /\ admission[p].policy \in Policies \cup {None}
        /\ admission[p].address \in Addresses \cup {None} /\ admission[p].mutations \subseteq Mutations
    BY DisjointCalls, CapturedTypes
  <1>3. pc[p] \in {"waiting", "draining", "queued", "native", "acked", "refused"}
    BY <1>1 DEF StuckKept, OtherPhases, PolicyPhasesOf, Unsettled
  <1>4. pc[p] \notin {"draining", "queued", "native", "acked", "refused"}
    BY QueueGoesOn DEF CanProgress
  <1>5. UnlockSettled(admission[p].unlock)
    BY <1>1, <1>2, UnlocksGoOn
  <1>6. ASSUME NEW c \in Addresses \cup Mutations, Admitted(c),
               Behind(admission[c].policy, admission[p].policy)
        PROVE  Settled(c)
    <2>1. admission[c].policy \in Policies \cup {None} /\ Admitted(admission[c].policy)
      BY CapturedTypes DEF StuckKept, Placed, Started, CapturedStarted
    <2>2. Settled(admission[c].policy)
      BY <1>1, <1>2, <1>6, <2>1, BehindSettled DEF StuckKept, Placed
    <2> QED BY <1>6, <2>2, WorkGoesOn
  <1>7. Settled(admission[p].address)
    <2>1. CASE admission[p].address = None
      BY <2>1 DEF Settled
    <2>2. CASE admission[p].address # None
      BY <1>2, <1>6, <2>2 DEF StuckKept, Placed, Started, CapturedStarted, DrainsBehind
    <2> QED BY <2>1, <2>2
  <1>8. \A m \in admission[p].mutations : Settled(m)
    BY <1>2, <1>6 DEF StuckKept, Placed, Started, CapturedStarted, DrainsBehind
  <1>9. CanDrain(p)
    BY <1>5, <1>7, <1>8 DEF CanDrain
  <1> QED BY <1>1, <1>3, <1>4, <1>9 DEF CanProgress

LEMMA NothingWaits ==
  ASSUME TypeOK, StuckKept, ~CanProgress
  PROVE  AllCallsSettled
  <1>1. \A x \in Policies \cup {None} : Admitted(x) => Settled(x)
    BY PoliciesGoOn, CurrentBehind DEF StuckKept, Placed
  <1>2. \A c \in Calls : Settled(admission[c].policy)
    BY <1>1, CapturedTypes DEF StuckKept, Placed, Started, CapturedStarted
  <1>3. \A u \in UnlockOps : unl[u] \notin {"waiting", "native"}
    <2> SUFFICES ASSUME NEW u \in UnlockOps, unl[u] = "waiting" PROVE FALSE
      BY DEF CanProgress
    <2>1. unlockInFlight # None
      BY DEF StuckKept, UnlockOwned
    <2>2. Settled(unlockInFlight.policy)
      BY <1>1, <2>1, CapturedTypes DEF StuckKept, Placed, Started
    <2> QED BY <2>2 DEF CanProgress
  <1>4. \A u \in UnlockOps \cup {None} : Begun(u) => UnlockSettled(u)
    BY <1>3 DEF Begun, UnlockSettled, TypeOK, UnlockPhases
  <1>5. \A c \in Addresses \cup Mutations : ~Busy(c)
    BY <1>2, WorkGoesOn, DisjointCalls DEF Busy, Admitted, Settled
  <1>6. \A p \in Policies : ~Busy(p)
    BY PoliciesGoOn DEF Busy, PolicyPending
  <1>7. \A v \in Manuals : ~Busy(v)
    <2>1. \A v \in Manuals : pc[v] \notin {"waiting", "queued", "native"}
      BY <1>2, QueueGoesOn, DisjointCalls DEF CanProgress
    <2> QED BY <2>1 DEF Busy, StuckKept, CallPhases
  <1>8. \A r \in Reads : ~Busy(r)
    <2>1. \A r \in Reads : pc[r] # "waiting"
      BY <1>2, SideCalls DEF CanProgress
    <2> QED BY <2>1 DEF Busy, StuckKept, OtherPhases
  <1>9. \A s \in Signs : ~Busy(s)
    <2>1. signQueue = <<>>
      <3> SUFFICES ASSUME signQueue # <<>> PROVE FALSE
        OBVIOUS
      <3>1. PICK s : s = Head(signQueue)
        OBVIOUS
      <3>2. Signing(s) /\ s \in Signs /\ pc[s] \in {"queued", "native"}
        BY <3>1 DEF Signing, TypeOK, StuckKept, SignsQueued
      <3>3. UnlockSettled(admission[s].unlock)
        BY <1>4, <3>2, SideCalls, CapturedTypes DEF StuckKept, Placed, Started, CapturedStarted
      <3> QED BY <3>2, <3>3 DEF CanProgress
    <2>2. \A s \in Signs : pc[s] \notin {"queued", "native"}
      BY <2>1 DEF StuckKept, SignsQueued
    <2> QED BY <2>2 DEF Busy, StuckKept, CallPhases
  <1>10. \A c \in Calls : ~Busy(c)
    BY <1>5, <1>6, <1>7, <1>8, <1>9 DEF Calls
  <1>11. shutdown = "none"
    <2>1. UnlockSettled(drain.unlock)
      BY <1>4, CapturedTypes DEF StuckKept, DrainStarted
    <2>2. \A c \in drain.calls : Settled(c)
      BY <1>10, CapturedTypes DEF StuckKept, DrainStarted, Busy, Admitted, Settled
    <2>3. Drained
      BY <2>1, <2>2, QueueGoesOn DEF Drained
    <2> QED BY <2>3 DEF CanProgress
  <1> QED BY <1>3, <1>10, <1>11, QueueGoesOn DEF AllCallsSettled

LEMMA StuckInit == Init => StuckKept
  <1> SUFFICES ASSUME Init PROVE StuckKept
    OBVIOUS
  <1>1. /\ \A c \in Calls : pc[c] = "idle" /\ admission[c] = NoAdmission
        /\ \A u \in UnlockOps : unl[u] = "idle"
        /\ unlockInFlight = None /\ addressInFlight = None /\ policyTail = None
        /\ vssQueue = <<>> /\ signQueue = <<>> /\ served = 0 /\ checkpointPending = 0
        /\ drain = NoDrain /\ checkpointNative = FALSE
    BY DEF Init
  <1>2. UnlockOwned /\ WorkOrdered /\ PolicyOrder
    BY OwnedInit, WorkOrderedInit, OrderInit
  <1>3. Fresh
    BY <1>1, DisjointCalls, SideCalls DEF Fresh, CallFresh, UnlockFresh
  <1>4. \A c \in Calls : /\ admission[c].policy = None /\ admission[c].unlock = None
                         /\ admission[c].address = None /\ admission[c].mutations = {}
                         /\ admission[c].ticket = 0
    BY <1>1 DEF NoAdmission
  <1>5. Started
    BY <1>1, <1>4 DEF Started, CapturedStarted, Begun, Admitted
  <1>6. HeadRuns /\ CallPhases /\ OtherPhases
    BY <1>1, DisjointCalls, SideCalls, TaskTypes DEF HeadRuns, CallPhases, OtherPhases, PolicyPhasesOf
  <1>7. SignsQueued /\ VssQueued
    BY <1>1, DisjointCalls, SideCalls, TaskTypes DEF SignsQueued, VssQueued, Chained, Chainers
  <1>8. TicketsPast /\ DrainStarted
    BY <1>1, <1>4, CapturedTypes, TypeInit, TaskTypes DEF TicketsPast, Ticket, DrainStarted, NoDrain, Begun
  <1>9. WaitsBehind /\ DrainsBehind /\ UnlockBehind
    BY <1>1, <1>4, BehindItself, TaskTypes DEF WaitsBehind, DrainsBehind, UnlockBehind
  <1>10. ReadsClear /\ ManualsClear /\ JoinClear
    BY <1>1, DisjointCalls DEF ReadsClear, ManualsClear, JoinClear
  <1>11. Chain
    BY <1>1, DisjointCalls DEF Chain, PolicyPending, Unsettled
  <1> QED BY <1>2, <1>3, <1>5, <1>6, <1>7, <1>8, <1>9, <1>10, <1>11 DEF StuckKept, Placed

LEMMA StuckStep == TypeOK /\ TypeOK' /\ StuckKept /\ [Next]_vars => StuckKept'
  <1> SUFFICES ASSUME TypeOK, TypeOK', StuckKept, [Next]_vars PROVE StuckKept'
    OBVIOUS
  <1>1. UnlockOwned' /\ WorkOrdered' /\ PolicyOrder' /\ AddressOwned
    BY OwnedStep, WorkOrderedStep DEF StuckKept, WorkOrdered
  <1>2. Fresh' /\ Started'
    BY CallFreshStep, UnlockFreshStep, StartedStep DEF StuckKept, Placed, Fresh
  <1>3. HeadRuns' /\ CallPhases' /\ OtherPhases' /\ SignsQueued' /\ VssQueued' /\ TicketsPast'
    BY HeadStep, PhasesStep, OtherPhasesStep, SignsStep, VssQueuedStep, TicketsPastStep DEF StuckKept
  <1>4. DrainStarted' /\ WaitsBehind' /\ DrainsBehind'
    BY DrainStartedStep, WaitsBehindStep, DrainsBehindStep DEF StuckKept, Placed
  <1>5. ReadsClear' /\ ManualsClear' /\ JoinClear' /\ UnlockBehind' /\ Chain'
    BY <1>1, ReadsClearStep, ManualsClearStep, JoinClearStep, UnlockBehindStep, ChainStep
       DEF StuckKept, Placed
  <1> QED BY <1>1, <1>2, <1>3, <1>4, <1>5 DEF StuckKept, Placed

\* "Every admitted call must settle without forming a cycle"
\* (tests/vss-automatic-policy.test.js:379), its part about states: whatever was
\* called in whatever order, and however many calls there are, while one is
\* unfinished or a shutdown runs, one of their continuations can run or a native
\* call can return.  What each waits for was admitted before it, so among the
\* promises that are left one waits for none of the others.
THEOREM SchedulerNeverStuck == Spec => []NeverStuck
  <1>1. TypeOK /\ StuckKept => NeverStuck
    BY NothingWaits DEF NeverStuck
  <1> QED BY <1>1, SchedulerTypeCorrect, StuckInit, StuckStep, PTL DEF Spec
-----------------------------------------------------------------------------
\* How far a call or an unlock has come; the phases of one kind of call are met
\* in this order.
Stage(phase) ==
  CASE phase = "idle" -> 0
    [] phase = "joined" -> 1
    [] phase = "waiting" -> 2
    [] phase \in {"reading", "draining"} -> 3
    [] phase \in {"unlocking", "queued"} -> 4
    [] phase \in {"rereading", "native"} -> 5
    [] phase \in {"acked", "refused"} -> 6
    [] phase \in {"done", "failed"} -> 7
Level ==
  /\ \A c \in Calls : pc'[c] = pc[c]
  /\ \A u \in UnlockOps : unl'[u] = unl[u]
Advance ==
  /\ \A c \in Calls : Stage(pc'[c]) >= Stage(pc[c])
  /\ \A u \in UnlockOps : Stage(unl'[u]) >= Stage(unl[u])
  /\ \/ \E c \in Calls : Stage(pc'[c]) > Stage(pc[c])
     \/ \E u \in UnlockOps : Stage(unl'[u]) > Stage(unl[u])

\* What is left to do when no call moves: uploads, the tidying of fields, and the
\* awaits of the shutdowns.
UploadsLeft ==
  4 * Len(vssQueue) + (IF dirty THEN 2 ELSE 0) + (IF checkpointNative THEN 1 ELSE 0)
TidyingLeft ==
  (IF unlockInFlight = None THEN 0 ELSE 1) + (IF addressInFlight = None THEN 0 ELSE 1)
    + (IF checkpointPending = 0 THEN 0 ELSE 1)
ShutdownLeft ==
  CASE shutdown = "none" -> 0
    [] shutdown = "begin" -> 9
    [] shutdown = "unlock" -> 8
    [] shutdown = "address" -> 7
    [] shutdown = "mutations" -> 6
    [] shutdown = "signing" -> 5
    [] shutdown = "policy" -> 4
    [] shutdown = "vssOperations" -> 3
    [] shutdown = "vssTail" -> 2
    [] shutdown = "native" -> 1
ShutdownsLeft == 10 * (MaxShutdowns - attempts) + ShutdownLeft
Remaining == UploadsLeft + TidyingLeft + ShutdownsLeft

\* No call is ever retried and no loop of the account feeds itself: a step brings a
\* call or an unlock further and none back, or it moves none and there is less to do.
RunsDown == [][Advance \/ (Level /\ Remaining' < Remaining)]_vars

LEMMA Stages ==
  /\ Stage("idle") = 0 /\ Stage("joined") = 1 /\ Stage("waiting") = 2
  /\ Stage("reading") = 3 /\ Stage("draining") = 3
  /\ Stage("unlocking") = 4 /\ Stage("queued") = 4
  /\ Stage("rereading") = 5 /\ Stage("native") = 5
  /\ Stage("acked") = 6 /\ Stage("refused") = 6
  /\ Stage("done") = 7 /\ Stage("failed") = 7
  /\ \A phase \in Phases \cup UnlockPhases : Stage(phase) \in Nat
  BY DEF Stage, Phases, UnlockPhases

\* A step of one call, which leaves the unlocks alone.
LEMMA CallAdvances ==
  ASSUME TypeOK, TypeOK', NEW c \in Calls, Alone(c), UNCHANGED unl, Stage(pc'[c]) > Stage(pc[c])
  PROVE  Advance
  <1>1. \A d \in Calls : Stage(pc[d]) \in Nat
    BY Stages DEF TypeOK
  <1>2. \A u \in UnlockOps : Stage(unl[u]) \in Nat
    BY Stages DEF TypeOK
  <1>3. \A d \in Calls : Stage(pc'[d]) \in Nat
    BY Stages DEF TypeOK
  <1>4. \A d \in Calls : d # c => Stage(pc'[d]) = Stage(pc[d])
    BY DEF Alone
  <1> QED BY <1>1, <1>2, <1>3, <1>4 DEF Advance

LEMMA UnlockAdvances ==
  ASSUME TypeOK, TypeOK', NEW u \in UnlockOps, \A w \in UnlockOps \ {u} : unl'[w] = unl[w],
         \A c \in Calls : pc'[c] = pc[c] \/ Stage(pc'[c]) > Stage(pc[c]),
         Stage(unl'[u]) > Stage(unl[u])
  PROVE  Advance
  <1>1. \A d \in Calls : Stage(pc[d]) \in Nat
    BY Stages DEF TypeOK
  <1>2. \A w \in UnlockOps : Stage(unl[w]) \in Nat
    BY Stages DEF TypeOK
  <1>3. \A w \in UnlockOps : w # u => Stage(unl'[w]) = Stage(unl[w])
    OBVIOUS
  <1>4. \A d \in Calls : Stage(pc'[d]) = Stage(pc[d]) \/ Stage(pc'[d]) > Stage(pc[d])
    OBVIOUS
  <1>5. /\ \A d \in Calls : Stage(pc'[d]) \in Nat
        /\ \A w \in UnlockOps : Stage(unl'[w]) \in Nat
    BY Stages DEF TypeOK
  <1>6. \A d \in Calls : Stage(pc'[d]) >= Stage(pc[d])
    BY <1>1, <1>4, <1>5
  <1> QED BY <1>2, <1>3, <1>6, <1>5 DEF Advance

LEMMA UnlocksAdvance ==
  ASSUME TypeOK, TypeOK', UnlockNext \/ \E u \in UnlockOps : UnlockStart(u) \/ UnlockEnd(u)
  PROVE  Advance
  <1>1. unl \in [UnlockOps -> UnlockPhases] /\ Unlocks \subseteq UnlockOps
    BY SideCalls DEF TypeOK
  <1>2. ASSUME NEW u \in UnlockOps, pc' = pc, \A w \in UnlockOps \ {u} : unl'[w] = unl[w],
               \/ unl[u] = "idle" /\ unl'[u] \in {"joined", "waiting", "failed"}
               \/ unl[u] = "waiting" /\ unl'[u] \in {"native", "failed"}
               \/ unl[u] = "native" /\ unl'[u] \in {"done", "failed"}
        PROVE  Advance
    <2>1. Stage(unl'[u]) > Stage(unl[u])
      BY <1>2, Stages
    <2> QED BY <1>2, <2>1, UnlockAdvances
  <1>3. ASSUME NEW u \in Unlocks, Unlock(u) PROVE Advance
    BY <1>1, <1>2, <1>3 DEF Unlock, UnlockWithPolicy, UnlockConflict
  <1>4. ASSUME NEW u \in UnlockOps, UnlockStart(u) \/ UnlockEnd(u) PROVE Advance
    BY <1>1, <1>2, <1>4 DEF UnlockStart, UnlockEnd
  <1> QED BY <1>3, <1>4 DEF UnlockNext

LEMMA AddressAdvances ==
  ASSUME TypeOK, TypeOK', UnlockFresh, NEW a \in Addresses, GetAddress(a) \/ AddressProgress(a)
  PROVE  Advance
  <1>1. a \in Calls /\ a \in UnlockOps /\ pc \in [Calls -> Phases]
        /\ unl \in [UnlockOps -> UnlockPhases] /\ Alone(a)
    BY DisjointCalls, SideCalls, AddressEffect DEF TypeOK
  <1>2. CASE GetAddress(a)
    <2>1. UNCHANGED unl /\ pc[a] = "idle" /\ pc'[a] \in {"failed", "joined", "waiting"}
      BY <1>1, <1>2 DEF GetAddress
    <2> QED BY <1>1, <2>1, Stages, CallAdvances
  <1>3. CASE AddressStart(a) \/ AddressEnd(a) \/ AddressUnlocked(a)
    <2>1. /\ UNCHANGED unl
          /\ \/ pc[a] = "waiting" /\ pc'[a] \in {"failed", "reading"}
             \/ pc[a] \in {"reading", "rereading"} /\ pc'[a] \in {"done", "failed"}
             \/ pc[a] = "unlocking" /\ pc'[a] \in {"failed", "rereading"}
      BY <1>1, <1>3 DEF AddressStart, AddressEnd, AddressRead, AddressUnlocked
    <2>2. Stage(pc'[a]) > Stage(pc[a])
      BY <2>1, Stages
    <2> QED BY <1>1, <2>1, <2>2, CallAdvances
  <1>4. CASE AddressLocked(a)
    <2>1. pc[a] = "reading" /\ pc'[a] \in {"failed", "unlocking"} /\ unl[a] = "idle"
      BY <1>1, <1>4 DEF AddressLocked, UnlockFresh
    <2>2. Stage(pc'[a]) > Stage(pc[a])
      BY <2>1, Stages
    <2>3. CASE UNCHANGED unl
      BY <1>1, <2>2, <2>3, CallAdvances
    <2>4. CASE unl' = [unl EXCEPT ![a] = "waiting"]
      <3>1. Stage(unl'[a]) > Stage(unl[a])
        BY <1>1, <2>1, <2>4, Stages
      <3> QED BY <1>1, <2>2, <2>4, <3>1, UnlockAdvances DEF Alone
    <2> QED BY <1>4, <2>3, <2>4 DEF AddressLocked, UnlockWithPolicy
  <1> QED BY <1>2, <1>3, <1>4 DEF AddressProgress

LEMMA MutationAdvances ==
  ASSUME TypeOK, TypeOK', NEW m \in Mutations, Mutate(m) \/ MutationProgress(m)
  PROVE  Advance
  <1>1. m \in Calls /\ pc \in [Calls -> Phases] /\ Alone(m) /\ UNCHANGED unl
    BY DisjointCalls, MutationEffect DEF TypeOK
  <1>2. \/ pc[m] = "idle" /\ pc'[m] \in {"failed", "waiting", "native"}
        \/ pc[m] = "waiting" /\ pc'[m] \in {"failed", "native"}
        \/ pc[m] = "native" /\ pc'[m] \in {"done", "failed"}
    BY <1>1 DEF Mutate, MutationProgress, MutationDispatch, MutationEnd
  <1>3. Stage(pc'[m]) > Stage(pc[m])
    BY <1>2, Stages
  <1> QED BY <1>1, <1>3, CallAdvances

LEMMA PolicyAdvances ==
  ASSUME TypeOK, TypeOK', NEW p \in Policies, SetVssAutomatic(p) \/ PolicyProgress(p)
  PROVE  Advance
  <1>1. p \in Calls /\ Alone(p) /\ UNCHANGED unl
    BY DisjointCalls, SetPolicyEffect, PolicyEffect
  <1>2. Stage(pc'[p]) > Stage(pc[p])
    BY SetPolicyEffect, PolicyEffect, Stages
  <1> QED BY <1>1, <1>2, CallAdvances

LEMMA AsideAdvances ==
  ASSUME TypeOK, TypeOK', NEW c \in Manuals \cup Reads \cup Signs,
         \/ c \in Manuals /\ (VssBackup(c) \/ ManualProgress(c))
         \/ c \in Reads /\ (ReadMetadata(c) \/ ReadEnd(c))
         \/ c \in Signs /\ (SignMessage(c) \/ SignProgress(c))
  PROVE  Advance
  <1>1. c \in Calls /\ pc \in [Calls -> Phases] /\ Alone(c) /\ UNCHANGED unl
    BY SideCalls, AsideEffect DEF TypeOK
  <1>2. \/ pc[c] = "idle" /\ pc'[c] \in {"failed", "waiting", "queued"}
        \/ pc[c] = "waiting" /\ pc'[c] \in {"queued", "done", "failed"}
        \/ pc[c] = "queued" /\ pc'[c] \in {"failed", "native"}
        \/ pc[c] = "native" /\ pc'[c] \in {"done", "failed"}
    <2>1. CASE VssBackup(c) \/ ManualProgress(c)
      BY <1>1, <2>1 DEF VssBackup, ManualProgress, VssBackupEnqueue, VssBackupStart, VssBackupEnd
    <2>2. CASE ReadMetadata(c) \/ ReadEnd(c)
      BY <1>1, <2>2 DEF ReadMetadata, ReadEnd
    <2>3. CASE SignMessage(c) \/ SignProgress(c)
      BY <1>1, <2>3 DEF SignMessage, SignProgress, SignStart, SignEnd
    <2> QED BY <2>1, <2>2, <2>3
  <1>3. Stage(pc'[c]) > Stage(pc[c])
    BY <1>2, Stages
  <1> QED BY <1>1, <1>3, CallAdvances

LEMMA RemainingType ==
  ASSUME TypeOK
  PROVE  /\ UploadsLeft \in Nat /\ TidyingLeft \in Nat /\ ShutdownsLeft \in Nat
         /\ ShutdownLeft \in 0..9
  <1>1. Len(vssQueue) \in Nat /\ MaxShutdowns - attempts \in Nat
    BY SchedulerAssumption DEF TypeOK
  <1>2. ShutdownLeft \in 0..9
    BY DEF TypeOK, ShutdownLeft, ShutdownPhases
  <1> QED BY <1>1, <1>2 DEF UploadsLeft, TidyingLeft, ShutdownsLeft

LEMMA TidyingEnds ==
  ASSUME TypeOK, UnlockClear \/ AddressClear \/ CheckpointClear
  PROVE  Level /\ Remaining' < Remaining
  <1>1. /\ Level /\ UNCHANGED <<vssQueue, dirty, checkpointNative, attempts, shutdown>>
    BY DEF UnlockClear, AddressClear, CheckpointClear, Level
  <1>2. UploadsLeft' = UploadsLeft /\ ShutdownsLeft' = ShutdownsLeft
    BY <1>1 DEF UploadsLeft, ShutdownsLeft, ShutdownLeft
  <1>3. TidyingLeft' = TidyingLeft - 1
    BY DEF UnlockClear, AddressClear, CheckpointClear, TidyingLeft
  <1> QED BY <1>1, <1>2, <1>3, RemainingType DEF Remaining

LEMMA UploadsEnd ==
  ASSUME TypeOK, CheckpointStart \/ CheckpointEnd
  PROVE  Level /\ Remaining' < Remaining
  <1>1. /\ Level
        /\ UNCHANGED <<unlockInFlight, addressInFlight, checkpointPending, attempts, shutdown>>
    BY DEF CheckpointStart, CheckpointEnd, Level
  <1>2. TidyingLeft' = TidyingLeft /\ ShutdownsLeft' = ShutdownsLeft
    BY <1>1 DEF TidyingLeft, ShutdownsLeft, ShutdownLeft
  <1>3. Len(vssQueue) \in Nat \ {0} /\ vssQueue # <<>> /\ Len(Tail(vssQueue)) = Len(vssQueue) - 1
    BY DEF CheckpointStart, CheckpointEnd, Running, TypeOK
  <1>4. \/ /\ dirty = TRUE /\ dirty' = FALSE /\ Len(vssQueue') = Len(vssQueue)
           /\ checkpointNative' = TRUE
        \/ /\ Len(vssQueue') = Len(vssQueue) - 1 /\ checkpointNative' = FALSE
    <2>1. CASE CheckpointStart
      BY <1>3, <2>1 DEF CheckpointStart, Leave, TypeOK
    <2>2. CASE CheckpointEnd
      BY <1>3, <2>2 DEF CheckpointEnd, CheckpointUploaded, CheckpointRefused, Leave, TypeOK
    <2> QED BY <2>1, <2>2
  <1> DEFINE dirtyLeft == IF dirty THEN 2 ELSE 0
             nativeLeft == IF checkpointNative THEN 1 ELSE 0
  <1>5. /\ UploadsLeft = 4 * Len(vssQueue) + dirtyLeft + nativeLeft
        /\ UploadsLeft' = 4 * Len(vssQueue') + dirtyLeft' + nativeLeft'
    BY DEF UploadsLeft
  <1>6. /\ dirtyLeft \in {0, 2} /\ dirtyLeft' \in {0, 2} /\ nativeLeft \in {0, 1}
        /\ \/ dirtyLeft = 2 /\ dirtyLeft' = 0 /\ Len(vssQueue') = Len(vssQueue) /\ nativeLeft' = 1
           \/ Len(vssQueue') = Len(vssQueue) - 1 /\ nativeLeft' = 0
    BY <1>4
  <1>7. nativeLeft' \in {0, 1}
    BY <1>4
  <1> HIDE DEF dirtyLeft, nativeLeft
  <1>8. dirtyLeft \in 0..2 /\ dirtyLeft' \in 0..2 /\ nativeLeft \in 0..1 /\ nativeLeft' \in 0..1
    BY <1>6, <1>7
  <1>9. CASE dirtyLeft = 2 /\ dirtyLeft' = 0 /\ Len(vssQueue') = Len(vssQueue) /\ nativeLeft' = 1
    BY <1>1, <1>2, <1>3, <1>5, <1>8, <1>9, RemainingType DEF Remaining
  <1>10. CASE Len(vssQueue') = Len(vssQueue) - 1 /\ nativeLeft' = 0
    <2>1. UploadsLeft' <= 4 * (Len(vssQueue) - 1) + 2 /\ UploadsLeft' \in Nat
      BY <1>3, <1>5, <1>8, <1>10
    <2>2. UploadsLeft >= 4 * Len(vssQueue) /\ UploadsLeft \in Nat
      BY <1>3, <1>5, <1>8
    <2> QED BY <1>1, <1>2, <1>3, <2>1, <2>2, RemainingType DEF Remaining
  <1> QED BY <1>6, <1>9, <1>10

LEMMA ShutdownEnds ==
  ASSUME TypeOK, Shutdown \/ ShutdownProgress
  PROVE  Level /\ Remaining' < Remaining
  <1>1. /\ Level
        /\ UNCHANGED <<unlockInFlight, addressInFlight, checkpointPending, vssQueue, dirty,
                       checkpointNative>>
    BY DEF Shutdown, ShutdownProgress, ShutdownDrain, ShutdownNative, ShutdownEnd, Level
  <1>2. UploadsLeft' = UploadsLeft /\ TidyingLeft' = TidyingLeft
    BY <1>1 DEF UploadsLeft, TidyingLeft
  <1>3. ShutdownsLeft' = ShutdownsLeft - 1
    <2>1. CASE Shutdown
      <3>1. /\ attempts' = attempts + 1 /\ attempts \in Nat /\ MaxShutdowns \in Nat
            /\ ShutdownLeft' = 9 /\ ShutdownLeft = 0
        BY <2>1, SchedulerAssumption DEF Shutdown, DrainNext, ShutdownLeft, TypeOK
      <3> QED BY <3>1 DEF ShutdownsLeft
    <2>2. CASE ShutdownProgress
      <3>1. attempts' = attempts
        BY <2>2 DEF ShutdownProgress, ShutdownDrain, ShutdownNative, ShutdownEnd
      <3>2. \/ shutdown = "begin" /\ shutdown' = "unlock"
            \/ shutdown = "unlock" /\ shutdown' = "address"
            \/ shutdown = "address" /\ shutdown' = "mutations"
            \/ shutdown = "mutations" /\ shutdown' = "signing"
            \/ shutdown = "signing" /\ shutdown' = "policy"
            \/ shutdown = "policy" /\ shutdown' = "vssOperations"
            \/ shutdown = "vssOperations" /\ shutdown' = "vssTail"
            \/ shutdown = "vssTail" /\ shutdown' = "native"
            \/ shutdown = "native" /\ shutdown' = "none"
        BY <2>2, Zenon DEF ShutdownProgress, ShutdownDrain, ShutdownNative, ShutdownEnd, DrainNext
      <3>3. ShutdownLeft' = ShutdownLeft - 1
        BY <3>2 DEF ShutdownLeft
      <3>4. attempts \in Nat /\ MaxShutdowns \in Nat
        BY SchedulerAssumption DEF TypeOK
      <3> QED BY <3>1, <3>3, <3>4, RemainingType DEF ShutdownsLeft
    <2> QED BY <2>1, <2>2
  <1> QED BY <1>1, <1>2, <1>3, RemainingType DEF Remaining

LEMMA RunsDownStep ==
  TypeOK /\ TypeOK' /\ UnlockFresh /\ [Next]_vars => [Advance \/ (Level /\ Remaining' < Remaining)]_vars
  <1> SUFFICES ASSUME TypeOK, TypeOK', UnlockFresh, [Next]_vars, ~UNCHANGED vars
               PROVE  Advance \/ (Level /\ Remaining' < Remaining)
    OBVIOUS
  <1>1. CASE UnlockNext \/ UnlockProgress
    BY <1>1, UnlocksAdvance, TidyingEnds DEF UnlockProgress
  <1>2. CASE AddressClear \/ CheckpointProgress \/ Shutdown \/ ShutdownProgress
    BY <1>2, TidyingEnds, UploadsEnd, ShutdownEnds DEF CheckpointProgress
  <1> QED BY <1>1, <1>2, AddressAdvances, MutationAdvances, PolicyAdvances, AsideAdvances, StepCases

\* "Every admitted call must settle" (tests/vss-automatic-policy.test.js:379), its
\* part about steps: every step of the account, of the application too, brings a
\* call or an unlock further and none back, or moves none and leaves less to upload,
\* to tidy and to await.  So a behaviour of finitely many calls takes finitely many
\* steps, and by SchedulerNeverStuck it can only stop where all have settled.
THEOREM SchedulerRunsDown == Spec => RunsDown
  <1>1. StuckKept => UnlockFresh
    BY DEF StuckKept, Placed, Fresh
  <1> QED BY <1>1, SchedulerTypeCorrect, StuckInit, StuckStep, RunsDownStep, PTL
          DEF Spec, RunsDown
=============================================================================
