------------------------ MODULE ReceiveAddress_proofs ------------------------
(***************************************************************************)
(* Machine-checked facts about ReceiveAddress, for any sets of calls, any  *)
(* number of addresses and both reuse policies.                            *)
(***************************************************************************)
EXTENDS ReceiveAddress, SequenceTheorems, TLAPS

USE AddressAssumption DEF Mutations, Admitted, Calls, nodeVars, queueVars, callVars

LEMMA LeaveType ==
  ASSUME NEW S, NEW q \in Seq(S), q # <<>>
  PROVE  Tail(q) \in Seq(S)
  BY HeadTailProperties

LEMMA TypeInit == Init => TypeOK
  <1> SUFFICES ASSUME Init PROVE TypeOK
    OBVIOUS
  <1>1. queue \in Seq(Calls)
    BY EmptySeq DEF Init
  <1>2. 0 \in Addresses
    BY DEF Addresses
  <1> QED BY <1>1, <1>2 DEF Init, TypeOK, NoDrain, Phases, ShutdownPhases

\* Everything a step of the queue may do to the variables TypeOK speaks of.
LEMMA FailType ==
  ASSUME TypeOK, NEW c \in Calls, Running(c), Fail(c)
  PROVE  /\ pc' \in [Calls -> Phases] /\ queue' \in Seq(Calls) /\ served' \in Nat
         /\ current' = None /\ retried' \subseteq AccountReads
  <1>1. Tail(queue) \in Seq(Calls)
    BY LeaveType DEF Running, TypeOK
  <1> QED BY <1>1 DEF Fail, Leave, Goto, TypeOK, Phases

LEMMA ReturnType ==
  ASSUME TypeOK, NEW c \in Calls, NEW address \in Addresses, Running(c), Return(c, address)
  PROVE  /\ pc' \in [Calls -> Phases] /\ queue' \in Seq(Calls) /\ served' \in Nat
         /\ current' \in Addresses /\ retried' \subseteq AccountReads
         /\ result' \in [Calls -> Addresses \cup {None}]
  <1>1. Tail(queue) \in Seq(Calls)
    BY LeaveType DEF Running, TypeOK
  <1> QED BY <1>1 DEF Return, Leave, Goto, TypeOK, Phases

LEMMA CallType ==
  ASSUME TypeOK, NEW c \in Calls,
         \/ c \in FacadeReads /\ FacadeRead(c)
         \/ c \in Admitted /\ (AccountCall(c) \/ Dispatch(c) \/ Abandon(c))
  PROVE  TypeOK'
  <1>1. /\ pc' \in [Calls -> Phases] /\ queue' \in Seq(Calls)
        /\ UNCHANGED <<served, current, retried, rotated, result, nodeVars, shutdownVars>>
    <2>1. Append(queue, c) \in Seq(Calls)
      BY AppendProperties DEF TypeOK
    <2>2. CASE c \in FacadeReads /\ FacadeRead(c)
      <3>1. pc' \in [Calls -> Phases]
        BY <2>2 DEF FacadeRead, Enqueue, Goto, TypeOK, Phases
      <3>2. queue' \in Seq(Calls) /\ served' \in Nat
        BY <2>1, <2>2 DEF FacadeRead, Enqueue, TypeOK
      <3> QED BY <2>2, <3>1, <3>2 DEF FacadeRead
    <2>3. CASE AccountCall(c)
      BY <2>3 DEF AccountCall, Goto, TypeOK, Phases
    <2>4. CASE Dispatch(c) \/ Abandon(c)
      BY <2>1, <2>4 DEF Dispatch, Abandon, Enqueue, Goto, TypeOK, Phases
    <2> QED BY <2>2, <2>3, <2>4
  <1> QED BY <1>1 DEF TypeOK, shutdownVars

LEMMA OperationType ==
  ASSUME TypeOK, NEW c \in Calls,
         StartFails(c) \/ StartCached(c) \/ Start(c) \/ Rotate(c) \/ Read(c) \/ ReadFails(c)
  PROVE  TypeOK'
  <1>1. CASE StartFails(c) \/ ReadFails(c)
    BY <1>1, FailType DEF StartFails, ReadFails, TypeOK, shutdownVars
  <1>2. CASE StartCached(c)
    <2>1. current \in Addresses
      BY <1>2 DEF StartCached, TypeOK
    <2> QED BY <1>2, <2>1, ReturnType DEF StartCached, TypeOK, shutdownVars
  <1>3. CASE Start(c)
    BY <1>3 DEF Start, Goto, TypeOK, Phases, shutdownVars
  <1>4. CASE Rotate(c)
    <2>1. latest' \in Addresses
      BY <1>4 DEF Rotate, TypeOK, Addresses
    <2>2. CASE Fail(c) /\ UNCHANGED rotated
      BY <1>4, <2>1, <2>2, FailType DEF Rotate, TypeOK, shutdownVars
    <2>3. CASE rotated' = [rotated EXCEPT ![c] = latest'] /\ Goto(c, "reading")
               /\ UNCHANGED <<queueVars, current, retried>>
      BY <1>4, <2>1, <2>3 DEF Rotate, Goto, TypeOK, Phases, shutdownVars
    <2> QED BY <1>4, <2>2, <2>3 DEF Rotate
  <1>5. CASE Read(c)
    <2>1. latest' \in Addresses /\ revealed' \subseteq Addresses
      BY <1>5 DEF Read, TypeOK
    <2>2. CASE Return(c, latest')
      BY <1>5, <2>1, <2>2, ReturnType DEF Read, TypeOK, shutdownVars
    <2>3. CASE Fail(c) /\ UNCHANGED result
      BY <1>5, <2>1, <2>3, FailType DEF Read, TypeOK, shutdownVars
    <2> QED BY <1>5, <2>2, <2>3 DEF Read
  <1> QED BY <1>1, <1>2, <1>3, <1>4, <1>5

LEMMA ShutdownType ==
  ASSUME TypeOK, NodeMovesOn \/ Shutdown \/ ShutdownDrain \/ ShutdownEnd
  PROVE  TypeOK'
  <1>1. CASE NodeMovesOn
    BY <1>1 DEF NodeMovesOn, TypeOK, Addresses, shutdownVars
  <1>2. CASE Shutdown
    BY <1>2 DEF Shutdown, DrainNext, TypeOK, ShutdownPhases
  <1>3. CASE ShutdownDrain
    <2>1. served + Len(queue) \in Nat
      BY LenProperties DEF TypeOK
    <2>2. shutdown' \in ShutdownPhases /\ drain' \in [calls : SUBSET Calls, ticket : Nat]
      BY <1>3, <2>1 DEF ShutdownDrain, DrainNext, ShutdownPhases
    <2> QED BY <1>3, <2>2 DEF ShutdownDrain, TypeOK
  <1>4. CASE ShutdownEnd
    BY <1>4 DEF ShutdownEnd, DrainNext, TypeOK, ShutdownPhases
  <1> QED BY <1>1, <1>2, <1>3, <1>4

(* What a call knows about addresses is behind the node: the current and    *)
(* the returned addresses are revealed, and a rotated one belongs to one    *)
(* call, which returns no other.                                           *)
CurrentRevealed == current # None => current \in revealed
RevealedKnown == \A a \in revealed : a <= latest
RotationOfCall ==
  \A c \in Calls :
    /\ pc[c] = "rotating" => reuse /\ c \in Mutations
    /\ rotated[c] # None =>
         /\ reuse /\ c \in Mutations /\ rotated[c] <= latest
         /\ pc[c] \in {"reading", "done", "failed"}
    /\ reuse /\ c \in Mutations /\ pc[c] = "reading" => rotated[c] # None
    /\ reuse /\ c \in Mutations /\ result[c] # None => result[c] = rotated[c]
    /\ result[c] # None => pc[c] = "done"
RotatedDistinct ==
  \A c, d \in Calls : c # d /\ rotated[c] # None => rotated[c] # rotated[d]

AddressInv ==
  /\ CurrentRevealed /\ RevealedKnown /\ RotationOfCall /\ RotatedDistinct
  /\ OnlyRevealed /\ FreshDistinct /\ CurrentIsLatest
IInv == TypeOK /\ AddressInv

LEMMA AddressInit == Init => AddressInv
  BY DEF Init, AddressInv, CurrentRevealed, RevealedKnown, RotationOfCall, RotatedDistinct,
     OnlyRevealed, FreshDistinct, CurrentIsLatest

USE DEF IInv, AddressInv

\* A step that moves a call without a native call, or ends it without a result.
LEMMA QuietInv ==
  ASSUME IInv, NEW c \in Calls, NEW phase \in Phases \ {"rotating", "reading"},
         pc' = [pc EXCEPT ![c] = phase], pc[c] # "done",
         rotated[c] # None => phase = "failed",
         current' = current \/ current' = None,
         UNCHANGED <<rotated, result, nodeVars>>
  PROVE  AddressInv'
  <1>1. RotationOfCall'
    BY DEF RotationOfCall, TypeOK
  <1>2. CurrentRevealed' /\ RevealedKnown' /\ RotatedDistinct'
    BY DEF CurrentRevealed, RevealedKnown, RotatedDistinct
  <1>3. OnlyRevealed' /\ FreshDistinct' /\ CurrentIsLatest'
    BY DEF OnlyRevealed, FreshDistinct, CurrentIsLatest
  <1> QED BY <1>1, <1>2, <1>3

LEMMA CallAddressInv ==
  ASSUME IInv, NEW c \in Calls,
         \/ c \in FacadeReads /\ FacadeRead(c)
         \/ c \in Admitted /\ (AccountCall(c) \/ Dispatch(c) \/ Abandon(c))
  PROVE  AddressInv'
  <1>1. /\ pc[c] \in {"idle", "admitted", "unlocking"}
        /\ \E phase \in {"admitted", "queued", "failed"} : pc' = [pc EXCEPT ![c] = phase]
        /\ UNCHANGED <<current, rotated, result, nodeVars>>
    BY DEF FacadeRead, AccountCall, Dispatch, Abandon, Enqueue, Goto
  <1>2. rotated[c] = None
    BY <1>1 DEF RotationOfCall
  <1> QED BY <1>1, <1>2, QuietInv DEF Phases

LEMMA FailAddressInv ==
  ASSUME IInv, NEW c \in Calls, Fail(c), pc[c] # "done", rotated[c] # None => c \in Mutations,
         UNCHANGED <<rotated, result, nodeVars>>
  PROVE  AddressInv'
  <1>1. \E phase \in {"failed", "unlocking"} :
          pc' = [pc EXCEPT ![c] = phase] /\ (rotated[c] # None => phase = "failed")
    BY DEF Fail, Goto
  <1> QED BY <1>1, QuietInv DEF Fail, Phases

LEMMA StartInv ==
  ASSUME IInv, NEW c \in Calls, StartCached(c) \/ Start(c)
  PROVE  AddressInv'
  <1>1. rotated[c] = None /\ result[c] = None /\ pc[c] = "queued"
    BY DEF StartCached, Start, RotationOfCall
  <1>2. CASE StartCached(c)
    <2>1. /\ ~reuse /\ c \notin Mutations /\ current' = current /\ current # None
          /\ pc' = [pc EXCEPT ![c] = "done"] /\ result' = [result EXCEPT ![c] = current]
          /\ UNCHANGED <<rotated, reuse, latest, revealed>>
      BY <1>2 DEF StartCached, Return, Goto
    <2>2. RotationOfCall'
      BY <1>1, <2>1 DEF RotationOfCall, TypeOK
    <2>3. OnlyRevealed' /\ CurrentRevealed' /\ RevealedKnown'
      BY <2>1 DEF OnlyRevealed, CurrentRevealed, RevealedKnown, TypeOK
    <2>4. FreshDistinct' /\ RotatedDistinct' /\ CurrentIsLatest'
      BY <2>1 DEF FreshDistinct, RotatedDistinct, CurrentIsLatest, TypeOK
    <2> QED BY <2>2, <2>3, <2>4
  <1>3. CASE Start(c)
    <2>1. /\ \E phase \in {"rotating", "reading"} :
               /\ pc' = [pc EXCEPT ![c] = phase]
               /\ phase = "rotating" <=> c \in Mutations /\ reuse
          /\ UNCHANGED <<current, rotated, result, reuse, latest, revealed>>
      BY <1>3 DEF Start, Goto
    <2>2. RotationOfCall'
      BY <1>1, <2>1 DEF RotationOfCall, TypeOK
    <2>3. OnlyRevealed' /\ CurrentRevealed' /\ RevealedKnown'
      BY <2>1 DEF OnlyRevealed, CurrentRevealed, RevealedKnown
    <2>4. FreshDistinct' /\ RotatedDistinct' /\ CurrentIsLatest'
      BY <2>1 DEF FreshDistinct, RotatedDistinct, CurrentIsLatest
    <2> QED BY <2>2, <2>3, <2>4
  <1> QED BY <1>2, <1>3

LEMMA RotateInv ==
  ASSUME IInv, NEW c \in Calls, Rotate(c)
  PROVE  AddressInv'
  <1>1. /\ reuse /\ rotated[c] = None /\ result[c] = None /\ pc[c] = "rotating"
        /\ c \in Mutations
    BY DEF Rotate, RotationOfCall
  <1>2. latest \in Nat /\ latest' \in Nat /\ latest <= latest'
        /\ UNCHANGED <<reuse, result, revealed>>
    BY DEF Rotate, TypeOK, Addresses
  <1>3. \A d \in Calls : rotated[d] # None => rotated[d] \in Nat /\ rotated[d] <= latest
    BY DEF RotationOfCall, TypeOK, Addresses
  <1>4. \A a \in revealed : a \in Nat /\ a <= latest
    BY DEF RevealedKnown, TypeOK, Addresses
  <1>5. RevealedKnown' /\ OnlyRevealed' /\ FreshDistinct' /\ CurrentIsLatest'
    BY <1>1, <1>2, <1>4 DEF RevealedKnown, OnlyRevealed, FreshDistinct, CurrentIsLatest
  <1>6. CASE Fail(c) /\ UNCHANGED rotated
    <2>1. pc' = [pc EXCEPT ![c] = "failed"] /\ current' = None
      BY <1>1, <1>6 DEF Fail, Goto
    <2>2. RotationOfCall'
      BY <1>1, <1>2, <1>3, <1>6, <2>1 DEF RotationOfCall, TypeOK
    <2> QED BY <1>5, <1>6, <2>1, <2>2 DEF RotatedDistinct, CurrentRevealed
  <1>7. CASE /\ latest' = latest + 1 /\ rotated' = [rotated EXCEPT ![c] = latest']
             /\ pc' = [pc EXCEPT ![c] = "reading"] /\ current' = current
    <2>1. RotationOfCall'
      BY <1>1, <1>2, <1>3, <1>7 DEF RotationOfCall, TypeOK
    <2>2. RotatedDistinct'
      <3> SUFFICES ASSUME NEW d \in Calls, NEW e \in Calls, d # e, rotated'[d] # None
                   PROVE  rotated'[d] # rotated'[e]
        BY DEF RotatedDistinct
      <3>1. rotated \in [Calls -> Addresses \cup {None}]
        BY DEF TypeOK
      <3>2. CASE d # c /\ e # c
        BY <1>7, <3>1, <3>2 DEF RotatedDistinct
      <3>3. CASE d = c
        BY <1>2, <1>3, <1>7, <3>1, <3>3
      <3>4. CASE e = c
        BY <1>2, <1>3, <1>7, <3>1, <3>4
      <3> QED BY <3>2, <3>3, <3>4
    <2> QED BY <1>2, <1>5, <1>7, <2>1, <2>2 DEF CurrentRevealed
  <1> QED BY <1>6, <1>7 DEF Rotate, Goto

LEMMA ReadInv ==
  ASSUME IInv, NEW c \in Calls, Read(c)
  PROVE  AddressInv'
  <1>1. /\ pc[c] = "reading" /\ result[c] = None
        /\ rotated[c] # None => c \in Mutations /\ reuse
        /\ reuse /\ c \in Mutations => rotated[c] # None
    BY DEF Read, RotationOfCall
  <1>2. /\ latest \in Nat /\ latest' \in Nat /\ latest <= latest'
        /\ ~reuse => latest' = latest + 1
        /\ revealed' = revealed \cup {latest'} /\ rotated' = rotated /\ reuse' = reuse
    BY DEF Read, TypeOK, Addresses
  <1>3. \A d \in Calls : rotated[d] # None => rotated[d] \in Nat /\ rotated[d] <= latest
    BY DEF RotationOfCall, TypeOK, Addresses
  <1>4. \A a \in revealed : a \in Nat /\ a <= latest
    BY DEF RevealedKnown, TypeOK, Addresses
  <1>5. RevealedKnown' /\ RotatedDistinct'
    BY <1>2, <1>4 DEF RevealedKnown, RotatedDistinct
  <1>6. CASE Fail(c) /\ UNCHANGED result
    <2>1. /\ \E phase \in {"failed", "unlocking"} :
               pc' = [pc EXCEPT ![c] = phase] /\ (rotated[c] # None => phase = "failed")
          /\ current' = None
      BY <1>1, <1>6 DEF Fail, Goto
    <2>2. RotationOfCall'
      BY <1>1, <1>2, <1>3, <1>6, <2>1 DEF RotationOfCall, TypeOK
    <2>3. OnlyRevealed' /\ FreshDistinct'
      BY <1>2, <1>6 DEF OnlyRevealed, FreshDistinct
    <2> QED BY <1>5, <2>1, <2>2, <2>3 DEF CurrentRevealed, CurrentIsLatest
  <1>7. CASE Return(c, latest') /\ rotated[c] \in {None, latest'}
    <2>1. /\ pc' = [pc EXCEPT ![c] = "done"] /\ current' = latest'
          /\ result' = [result EXCEPT ![c] = latest']
      BY <1>7 DEF Return, Goto
    <2>2. RotationOfCall'
      BY <1>1, <1>2, <1>3, <1>7, <2>1 DEF RotationOfCall, TypeOK
    <2>3. OnlyRevealed' /\ CurrentRevealed' /\ CurrentIsLatest'
      BY <1>2, <2>1 DEF OnlyRevealed, CurrentRevealed, CurrentIsLatest, TypeOK
    <2>4. FreshDistinct'
      <3>1. ASSUME NEW d \in Mutations, d # c, c \in Mutations, result[d] # None
            PROVE  result[d] # latest'
        <4>1. CASE reuse
          <5>1. result[d] = rotated[d] /\ rotated[c] = latest'
            BY <1>1, <1>7, <3>1, <4>1 DEF RotationOfCall
          <5>2. rotated[d] # rotated[c]
            BY <3>1, <5>1 DEF RotatedDistinct
          <5> QED BY <5>1, <5>2
        <4>2. CASE ~reuse
          <5>1. result[d] \in revealed
            BY <3>1 DEF OnlyRevealed
          <5> QED BY <1>2, <1>4, <4>2, <5>1
        <4> QED BY <4>1, <4>2
      <3>2. result \in [Calls -> Addresses \cup {None}] /\ latest' # None
        BY <1>2 DEF TypeOK
      <3> SUFFICES ASSUME NEW d \in Mutations, NEW e \in Mutations, d # e, result'[d] # None
                   PROVE  result'[d] # result'[e]
        BY DEF FreshDistinct
      <3>3. CASE d # c /\ e # c
        BY <2>1, <3>2, <3>3 DEF FreshDistinct
      <3>4. CASE d = c
        BY <2>1, <3>1, <3>2, <3>4
      <3>5. CASE e = c
        BY <2>1, <3>1, <3>2, <3>5
      <3> QED BY <3>3, <3>4, <3>5
    <2> QED BY <1>5, <2>2, <2>3, <2>4
  <1> QED BY <1>6, <1>7 DEF Read

LEMMA InvStep == IInv /\ [Next]_vars => IInv'
  <1> SUFFICES ASSUME IInv, [Next]_vars PROVE IInv'
    OBVIOUS
  <1>1. CASE UNCHANGED vars
    BY <1>1 DEF vars, TypeOK, CurrentRevealed, RevealedKnown, RotationOfCall,
       RotatedDistinct, OnlyRevealed, FreshDistinct, CurrentIsLatest
  <1>2. ASSUME NEW c \in Calls,
               \/ c \in FacadeReads /\ FacadeRead(c)
               \/ c \in Admitted /\ (AccountCall(c) \/ Dispatch(c) \/ Abandon(c))
        PROVE  IInv'
    BY <1>2, CallType, CallAddressInv
  <1>3. ASSUME NEW c \in Calls,
               StartFails(c) \/ StartCached(c) \/ Start(c) \/ Rotate(c) \/ Read(c) \/ ReadFails(c)
        PROVE  IInv'
    <2>1. CASE StartFails(c) \/ ReadFails(c)
      <3>1. pc[c] # "done" /\ (rotated[c] # None => c \in Mutations)
        BY <2>1 DEF StartFails, ReadFails, RotationOfCall
      <3> QED BY <1>3, <2>1, <3>1, OperationType, FailAddressInv DEF StartFails, ReadFails
    <2> QED BY <1>3, <2>1, OperationType, StartInv, RotateInv, ReadInv
  <1>4. CASE NodeMovesOn
    <2>1. reuse /\ latest' = latest + 1 /\ latest \in Nat
      BY <1>4 DEF NodeMovesOn, TypeOK, Addresses
    <2>2. RotationOfCall'
      BY <1>4, <2>1 DEF NodeMovesOn, RotationOfCall, TypeOK, Addresses
    <2>3. RevealedKnown'
      BY <1>4, <2>1 DEF NodeMovesOn, RevealedKnown, TypeOK, Addresses
    <2>4. CurrentRevealed' /\ RotatedDistinct' /\ OnlyRevealed' /\ FreshDistinct' /\ CurrentIsLatest'
      BY <1>4, <2>1 DEF NodeMovesOn, CurrentRevealed, RotatedDistinct, OnlyRevealed,
         FreshDistinct, CurrentIsLatest
    <2> QED BY <1>4, <2>2, <2>3, <2>4, ShutdownType
  <1>5. CASE Shutdown \/ ShutdownDrain \/ ShutdownEnd
    <2>1. UNCHANGED <<pc, current, rotated, result, reuse, latest, revealed>>
      BY <1>5 DEF Shutdown, ShutdownDrain, ShutdownEnd
    <2>2. AddressInv'
      BY <2>1 DEF CurrentRevealed, RevealedKnown, RotationOfCall, RotatedDistinct,
         OnlyRevealed, FreshDistinct, CurrentIsLatest
    <2> QED BY <1>5, <2>2, ShutdownType
  <1> QED BY <1>1, <1>2, <1>3, <1>4, <1>5 DEF Next

LEMMA Invariant == Spec => []IInv
  BY TypeInit, AddressInit, InvStep, PTL DEF Spec

\* The variables of the address queue keep their types.
THEOREM AddressTypeCorrect == Spec => []TypeOK
  <1>1. IInv => TypeOK
    OBVIOUS
  <1> QED BY <1>1, Invariant, PTL

\* Every address a call returned was revealed and persisted by the node.
THEOREM AddressOnlyRevealed == Spec => []OnlyRevealed
  <1>1. IInv => OnlyRevealed
    OBVIOUS
  <1> QED BY <1>1, Invariant, PTL

\* Two explicit requests for an address never return the same one.
THEOREM AddressFreshDistinct == Spec => []FreshDistinct
  <1>1. IInv => FreshDistinct
    OBVIOUS
  <1> QED BY <1>1, Invariant, PTL

\* With reuse off, a cached address is the last one the node allocated.
THEOREM AddressCurrentIsLatest == Spec => []CurrentIsLatest
  <1>1. IInv => CurrentIsLatest
    OBVIOUS
  <1> QED BY <1>1, Invariant, PTL
-----------------------------------------------------------------------------
(* The queue holds the calls that await their turn or run, once each.  A    *)
(* shutdown is behind a kind of calls when it awaited them all, and what is *)
(* gone stays gone, because a call that comes later fails: the facade's on  *)
(* the queue's stop flag, the account's on the account's.                  *)
QueuePhases == {"queued", "rotating", "reading"}

QueueHolds ==
  /\ \A i \in DOMAIN queue : pc[queue[i]] \in QueuePhases
  /\ \A i, j \in DOMAIN queue : queue[i] = queue[j] => i = j
  /\ \A c \in Calls : pc[c] \in QueuePhases => \E i \in DOMAIN queue : queue[i] = c

\* A call of the facade is pending only in the queue.
FacadeInQueue == \A f \in FacadeReads : Busy(f) => pc[f] \in QueuePhases

JoinedByPhase ==
  /\ shutdown # "none" => stopped
  /\ shutdown = "address" => \A a \in AccountReads : Busy(a) => a \in drain.calls
  /\ shutdown \in {"join", "mutations", "native"} => \A a \in AccountReads : ~Busy(a)
  /\ shutdown = "join" =>
       \A i \in DOMAIN queue : queue[i] \in FacadeReads => served + i <= drain.ticket
  /\ shutdown \in {"mutations", "native"} => \A f \in FacadeReads : ~Busy(f)
  /\ shutdown = "mutations" => \A m \in Mutations : Busy(m) => m \in drain.calls
  /\ shutdown = "native" => \A m \in Mutations : ~Busy(m)

JoinInv == QueueHolds /\ FacadeInQueue /\ JoinedByPhase

\* What a step of a call does to the queue.
Others(c) == \A x \in Calls : x # c => pc'[x] = pc[x]
Enters(c) ==
  /\ pc[c] \notin QueuePhases /\ pc'[c] = "queued"
  /\ queue' = Append(queue, c) /\ served' = served
  /\ c \in FacadeReads => ~stopped
Runs(c) ==
  /\ pc[c] \in QueuePhases /\ pc'[c] \in QueuePhases
  /\ UNCHANGED queueVars
Leaves(c) ==
  /\ Running(c) /\ pc[c] \in QueuePhases /\ pc'[c] \notin QueuePhases
  /\ queue' = Tail(queue) /\ served' = served + 1
Aside(c) ==
  /\ pc[c] \notin QueuePhases /\ pc'[c] \notin QueuePhases
  /\ UNCHANGED queueVars

CallStep(c) ==
  /\ Others(c) /\ UNCHANGED shutdownVars
  /\ Enters(c) \/ Runs(c) \/ Leaves(c) \/ Aside(c)
  /\ stopped /\ (closed \/ shutdown # "none") /\ Busy(c)' => Busy(c)
  /\ c \in FacadeReads /\ Busy(c)' => pc'[c] \in QueuePhases



LEMMA StepOfCall ==
  ASSUME TypeOK, NEW c \in Calls,
         \/ c \in FacadeReads /\ FacadeRead(c)
         \/ c \in Admitted /\ (AccountCall(c) \/ Dispatch(c) \/ Abandon(c))
  PROVE  CallStep(c)
  <1> USE DEF CallStep, Others, Busy, Goto, QueuePhases, TypeOK
  <1>1. CASE c \in FacadeReads /\ FacadeRead(c)
    BY <1>1 DEF FacadeRead, Enqueue, Enters, Aside
  <1>2. CASE c \in Admitted /\ AccountCall(c)
    BY <1>2 DEF AccountCall, Aside
  <1>3. CASE c \in Admitted /\ Dispatch(c)
    BY <1>3 DEF Dispatch, Enqueue, Enters
  <1>4. CASE c \in Admitted /\ Abandon(c)
    BY <1>4 DEF Abandon, Aside
  <1> QED BY <1>1, <1>2, <1>3, <1>4

LEMMA StepOfOperation ==
  ASSUME TypeOK, NEW c \in Calls,
         StartFails(c) \/ StartCached(c) \/ Start(c) \/ Rotate(c) \/ Read(c) \/ ReadFails(c)
  PROVE  CallStep(c)
  <1> USE DEF CallStep, Others, Busy, Goto, QueuePhases, TypeOK
  <1>1. ASSUME Running(c), pc[c] \in QueuePhases, Fail(c), UNCHANGED shutdownVars
        PROVE  CallStep(c)
    BY <1>1 DEF Fail, Leave, Leaves
  <1>2. ASSUME Running(c), pc[c] \in QueuePhases, NEW address, Return(c, address),
               UNCHANGED shutdownVars
        PROVE  CallStep(c)
    BY <1>2 DEF Return, Leave, Leaves
  <1>3. CASE StartFails(c) \/ ReadFails(c)
    BY <1>1, <1>3 DEF StartFails, ReadFails
  <1>4. CASE StartCached(c)
    BY <1>2, <1>4 DEF StartCached
  <1>5. CASE Start(c)
    BY <1>5 DEF Start, Runs
  <1>6. CASE Rotate(c)
    BY <1>1, <1>6 DEF Rotate, Runs
  <1>7. CASE Read(c)
    BY <1>1, <1>2, <1>7 DEF Read
  <1> QED BY <1>3, <1>4, <1>5, <1>6, <1>7

LEMMA HoldsStep ==
  ASSUME TypeOK, QueueHolds, NEW c \in Calls, CallStep(c)
  PROVE  QueueHolds'
  <1>0. /\ queue \in Seq(Calls) /\ Others(c)
        /\ DOMAIN queue = 1..Len(queue) /\ Len(queue) \in Nat
        /\ \A i \in DOMAIN queue : queue[i] \in Calls
    BY DEF TypeOK, CallStep
  <1>1. CASE Enters(c)
    <2>1. \A i \in DOMAIN queue : queue[i] # c
      BY <1>1 DEF Enters, QueueHolds
    <2>2. /\ DOMAIN queue' = 1..(Len(queue) + 1)
          /\ \A i \in DOMAIN queue : queue'[i] = queue[i]
          /\ queue'[Len(queue) + 1] = c
      BY <1>0, <1>1 DEF Enters
    <2>3. \A i \in DOMAIN queue' : i \in DOMAIN queue \/ i = Len(queue) + 1
      BY <1>0, <2>2
    <2>4. \A i \in DOMAIN queue' : pc'[queue'[i]] \in QueuePhases
      BY <1>0, <1>1, <2>1, <2>2, <2>3 DEF Enters, Others, QueueHolds, QueuePhases
    <2>5. \A i, j \in DOMAIN queue' : queue'[i] = queue'[j] => i = j
      BY <2>1, <2>2, <2>3 DEF QueueHolds
    <2>6. \A x \in Calls : pc'[x] \in QueuePhases => \E i \in DOMAIN queue' : queue'[i] = x
      BY <1>0, <2>2 DEF Others, QueueHolds
    <2> QED BY <2>4, <2>5, <2>6 DEF QueueHolds
  <1>2. CASE Runs(c) \/ Aside(c)
    BY <1>0, <1>2 DEF Runs, Aside, Others, QueueHolds
  <1>3. CASE Leaves(c)
    <2>1. /\ Len(queue) \in Nat \ {0}
          /\ DOMAIN queue' = 1..(Len(queue) - 1)
          /\ \A i \in 1..(Len(queue) - 1) : queue'[i] = queue[i + 1]
          /\ queue[1] = c
      BY <1>0, <1>3 DEF Leaves, Running
    <2>2. \A i \in DOMAIN queue' : queue[i + 1] # c
      BY <1>0, <2>1 DEF QueueHolds
    <2>3. \A i \in DOMAIN queue' : pc'[queue'[i]] \in QueuePhases
      BY <1>0, <2>1, <2>2 DEF Others, QueueHolds
    <2>4. \A i, j \in DOMAIN queue' : queue'[i] = queue'[j] => i = j
      BY <1>0, <2>1 DEF QueueHolds
    <2>5. ASSUME NEW x \in Calls, pc'[x] \in QueuePhases
          PROVE  \E i \in DOMAIN queue' : queue'[i] = x
      <3>1. x # c /\ pc[x] \in QueuePhases
        BY <1>0, <1>3, <2>5 DEF Leaves, Others
      <3>2. PICK i \in DOMAIN queue : queue[i] = x
        BY <3>1 DEF QueueHolds
      <3>3. i # 1 /\ i - 1 \in DOMAIN queue' /\ queue'[i - 1] = x
        BY <1>0, <2>1, <3>1, <3>2
      <3> QED BY <3>3
    <2> QED BY <2>3, <2>4, <2>5 DEF QueueHolds
  <1> QED BY <1>1, <1>2, <1>3 DEF CallStep

LEMMA JoinedStep ==
  ASSUME TypeOK, JoinInv, NEW c \in Calls, CallStep(c)
  PROVE  JoinedByPhase'
  <1>1. UNCHANGED <<shutdown, drain, stopped>>
    BY DEF CallStep, shutdownVars
  <1>2. shutdown # "none" => \A x \in Calls : Busy(x)' => Busy(x)
    BY DEF CallStep, Others, Busy, JoinInv, JoinedByPhase
  <1>3. ASSUME shutdown = "join"
        PROVE  \A i \in DOMAIN queue' : queue'[i] \in FacadeReads => served' + i <= drain.ticket
    <2>0. /\ queue \in Seq(Calls) /\ served \in Nat
          /\ DOMAIN queue = 1..Len(queue) /\ Len(queue) \in Nat
          /\ \A i \in DOMAIN queue : queue[i] \in FacadeReads => served + i <= drain.ticket
      BY <1>3 DEF TypeOK, JoinInv, JoinedByPhase
    <2>1. CASE Enters(c)
      <3>1. c \notin FacadeReads
        BY <1>3, <2>1 DEF Enters, JoinInv, JoinedByPhase
      <3>2. /\ DOMAIN queue' = 1..(Len(queue) + 1)
            /\ \A i \in DOMAIN queue : queue'[i] = queue[i]
            /\ queue'[Len(queue) + 1] = c
        BY <2>0, <2>1 DEF Enters
      <3>3. \A i \in DOMAIN queue' : i \in DOMAIN queue \/ i = Len(queue) + 1
        BY <2>0, <3>2
      <3> QED BY <2>0, <2>1, <3>1, <3>2, <3>3 DEF Enters
    <2>2. CASE Runs(c) \/ Aside(c)
      BY <2>0, <2>2 DEF Runs, Aside
    <2>3. CASE Leaves(c)
      <3>1. /\ DOMAIN queue' = 1..(Len(queue) - 1) /\ served' = served + 1
            /\ \A i \in 1..(Len(queue) - 1) : queue'[i] = queue[i + 1]
        BY <2>0, <2>3 DEF Leaves, Running
      <3>2. \A i \in DOMAIN queue' : i + 1 \in DOMAIN queue /\ served' + i = served + (i + 1)
        BY <2>0, <3>1
      <3> QED BY <2>0, <3>1, <3>2
    <2> QED BY <2>1, <2>2, <2>3 DEF CallStep
  <1> QED BY <1>1, <1>2, <1>3 DEF JoinInv, JoinedByPhase

LEMMA DrainStep ==
  ASSUME TypeOK, JoinInv, Shutdown \/ ShutdownDrain \/ ShutdownEnd
  PROVE  JoinInv'
  <1>1. UNCHANGED <<pc, queue, served>>
    BY DEF Shutdown, ShutdownDrain, ShutdownEnd
  <1>2. QueueHolds' /\ FacadeInQueue' /\ (\A c \in Calls : Busy(c)' <=> Busy(c))
    BY <1>1 DEF JoinInv, QueueHolds, FacadeInQueue, Busy
  <1>3. CASE Shutdown \/ ShutdownEnd
    BY <1>1, <1>2, <1>3 DEF Shutdown, ShutdownEnd, DrainNext, JoinInv, JoinedByPhase
  <1>4. CASE ShutdownDrain
    <2>1. /\ stopped' = stopped /\ stopped /\ Drained
          /\ queue \in Seq(Calls) /\ served \in Nat /\ drain.ticket \in Nat
      BY <1>4 DEF ShutdownDrain, TypeOK, JoinInv, JoinedByPhase
    <2>2. CASE shutdown = "begin"
      <3>1. shutdown' = "address" /\ drain'.calls = {a \in AccountReads : Busy(a)}
        BY <1>4, <2>2 DEF ShutdownDrain, DrainNext
      <3>2. \A a \in AccountReads : Busy(a)' => a \in drain'.calls
        BY <1>2, <3>1
      <3> QED BY <1>2, <2>1, <3>1, <3>2 DEF JoinInv, JoinedByPhase
    <2>3. CASE shutdown = "address"
      <3>1. \A a \in AccountReads : ~Busy(a)
        BY <2>1, <2>3 DEF Drained, JoinInv, JoinedByPhase
      <3>2. \A i \in DOMAIN queue : served + i <= served + Len(queue)
        BY <2>1
      <3>3. shutdown' = "join" /\ drain'.ticket = served + Len(queue)
        BY <1>4, <2>3 DEF ShutdownDrain, DrainNext
      <3>4. \A i \in DOMAIN queue' : served' + i <= drain'.ticket
        BY <1>1, <3>2, <3>3
      <3>5. \A a \in AccountReads : ~Busy(a)'
        BY <1>2, <3>1
      <3> QED BY <1>2, <2>1, <3>3, <3>4, <3>5 DEF JoinInv, JoinedByPhase
    <2>4. CASE shutdown = "join"
      <3>1. \A f \in FacadeReads : ~Busy(f)
        <4> SUFFICES ASSUME NEW f \in FacadeReads, Busy(f) PROVE FALSE
          OBVIOUS
        <4>1. PICK i \in DOMAIN queue : queue[i] = f
          BY DEF JoinInv, QueueHolds, FacadeInQueue
        <4>2. served + i <= drain.ticket /\ served >= drain.ticket
          BY <2>1, <2>4, <4>1 DEF JoinInv, JoinedByPhase, Drained
        <4>3. i \in Nat \ {0}
          BY <2>1
        <4> QED BY <2>1, <4>2, <4>3
      <3> QED BY <1>1, <1>2, <1>4, <2>1, <2>4, <3>1
           DEF ShutdownDrain, DrainNext, JoinInv, JoinedByPhase
    <2>5. CASE shutdown = "mutations"
      <3>1. \A m \in Mutations : ~Busy(m)
        BY <2>1, <2>5 DEF Drained, JoinInv, JoinedByPhase
      <3> QED BY <1>1, <1>2, <1>4, <2>1, <2>5, <3>1
           DEF ShutdownDrain, DrainNext, JoinInv, JoinedByPhase
    <2> QED BY <1>4, <2>2, <2>3, <2>4, <2>5 DEF ShutdownDrain
  <1> QED BY <1>2, <1>3, <1>4 DEF JoinInv

LEMMA JoinInit == Init => JoinInv
  BY DEF Init, JoinInv, QueueHolds, FacadeInQueue, JoinedByPhase, QueuePhases, Busy

LEMMA JoinStep == TypeOK /\ JoinInv /\ [Next]_vars => JoinInv'
  <1> SUFFICES ASSUME TypeOK, JoinInv, [Next]_vars PROVE JoinInv'
    OBVIOUS
  <1>1. ASSUME NEW c \in Calls, CallStep(c) PROVE JoinInv'
    <2>1. FacadeInQueue'
      BY <1>1 DEF CallStep, Others, FacadeInQueue, JoinInv, Busy
    <2> QED BY <1>1, <2>1, HoldsStep, JoinedStep DEF JoinInv
  <1>2. CASE NodeMovesOn \/ UNCHANGED vars
    <2>1. UNCHANGED <<pc, queue, served, shutdown, drain, stopped>>
      BY <1>2 DEF NodeMovesOn, shutdownVars, vars
    <2> QED BY <2>1 DEF JoinInv, QueueHolds, FacadeInQueue, JoinedByPhase, Busy
  <1> QED BY <1>1, <1>2, StepOfCall, StepOfOperation, DrainStep DEF Next

LEMMA JoinedEmpty == TypeOK /\ JoinInv => TeardownJoins
  <1> SUFFICES ASSUME TypeOK, JoinInv, shutdown = "native"
               PROVE  queue = <<>> /\ \A c \in Calls : ~Busy(c)
    BY DEF TeardownJoins
  <1>1. \A c \in Calls : ~Busy(c)
    BY DEF JoinInv, JoinedByPhase
  <1>2. \A i \in DOMAIN queue : queue[i] \in Calls /\ Busy(queue[i])
    BY DEF TypeOK, JoinInv, QueueHolds, QueuePhases, Busy
  <1> QED BY <1>1, <1>2, EmptySeq DEF TypeOK

\* While the binding shuts down no address operation is pending, whichever of
\* the two facades it came from and whatever other shutdowns failed before.
THEOREM AddressTeardownJoins == Spec => []TeardownJoins
  <1>1. IInv => TypeOK
    OBVIOUS
  <1> QED BY <1>1, Invariant, JoinInit, JoinStep, JoinedEmpty, PTL DEF Spec
-----------------------------------------------------------------------------
(* The queue implements DrainedTeardown: a step of a call admits it, goes on *)
(* or settles it, and a closed account has nothing left that could go on.   *)
ClosedGone == closed => stopped /\ shutdown = "none" /\ \A c \in Calls : ~Busy(c)

LEMMA ClosedStep ==
  TypeOK /\ JoinInv /\ TeardownJoins /\ ClosedGone /\ [Next]_vars => ClosedGone'
  <1> SUFFICES ASSUME TypeOK, JoinInv, TeardownJoins, ClosedGone, [Next]_vars
               PROVE  ClosedGone'
    OBVIOUS
  <1>1. ASSUME NEW c \in Calls, CallStep(c) PROVE ClosedGone'
    BY <1>1 DEF CallStep, Others, Busy, ClosedGone, shutdownVars
  <1>2. CASE NodeMovesOn \/ UNCHANGED vars
    BY <1>2 DEF NodeMovesOn, shutdownVars, vars, ClosedGone, Busy
  <1>3. CASE Shutdown \/ ShutdownDrain
    BY <1>3 DEF Shutdown, ShutdownDrain, ClosedGone, Busy
  <1>4. CASE ShutdownEnd
    BY <1>4 DEF ShutdownEnd, DrainNext, ClosedGone, TeardownJoins, Busy, JoinInv, JoinedByPhase
  <1> QED BY <1>1, <1>2, <1>3, <1>4, StepOfCall, StepOfOperation DEF Next

LEMMA CallImplements ==
  ASSUME ClosedGone, TeardownJoins, JoinInv, NEW c \in Calls, CallStep(c)
  PROVE  [Teardown!Next]_(Teardown!vars)
  <1>1. /\ QueueState' = QueueState
        /\ \A x \in Calls : x # c => (Busy(x)' <=> Busy(x))
    BY DEF CallStep, Others, Busy, QueueState, shutdownVars
  <1>2. CASE Busy(c)' <=> Busy(c)
    BY <1>1, <1>2 DEF Pending, Teardown!vars
  <1>3. CASE Busy(c) /\ ~Busy(c)'
    <2>1. QueueState \in {"open", "stopping"}
      BY <1>3 DEF QueueState, ClosedGone, TeardownJoins
    <2>2. c \in Pending /\ Pending' = Pending \ {c}
      BY <1>1, <1>3 DEF Pending
    <2> QED BY <1>1, <2>1, <2>2 DEF Teardown!Next, Teardown!Advance
  <1>4. CASE ~Busy(c) /\ Busy(c)'
    <2>1. QueueState = "open"
      BY <1>4 DEF CallStep, QueueState, ClosedGone, JoinInv, JoinedByPhase
    <2>2. c \notin Pending /\ Pending' = Pending \cup {c}
      BY <1>1, <1>4 DEF Pending
    <2> QED BY <1>1, <2>1, <2>2 DEF Teardown!Next, Teardown!Admit
  <1> QED BY <1>2, <1>3, <1>4

LEMMA TeardownStep ==
  TypeOK /\ JoinInv /\ TeardownJoins /\ TeardownJoins' /\ ClosedGone /\ [Next]_vars
    => [Teardown!Next]_(Teardown!vars)
  <1> SUFFICES ASSUME TypeOK, JoinInv, TeardownJoins, TeardownJoins', ClosedGone, [Next]_vars
               PROVE  [Teardown!Next]_(Teardown!vars)
    OBVIOUS
  <1>1. ASSUME NEW c \in Calls, CallStep(c) PROVE [Teardown!Next]_(Teardown!vars)
    BY <1>1, CallImplements
  <1>2. CASE NodeMovesOn \/ UNCHANGED vars
    <2>1. UNCHANGED <<pc, shutdown, closed>>
      BY <1>2 DEF NodeMovesOn, shutdownVars, vars
    <2> QED BY <2>1 DEF Pending, Busy, QueueState, Teardown!vars
  <1>3. ASSUME UNCHANGED pc PROVE Pending' = Pending
    BY <1>3 DEF Pending, Busy
  <1>4. CASE Shutdown
    <2>1. QueueState = "open" /\ QueueState' = "stopping" /\ UNCHANGED pc
      BY <1>4 DEF Shutdown, DrainNext, QueueState
    <2> QED BY <1>3, <2>1 DEF Teardown!Next, Teardown!Stop
  <1>5. CASE ShutdownDrain
    <2>1. UNCHANGED <<pc, closed>> /\ ~closed
          /\ shutdown \in {"begin", "address", "join", "mutations"}
      BY <1>5 DEF ShutdownDrain, ClosedGone
    <2>2. CASE shutdown = "mutations"
      <3>1. shutdown' = "native"
        BY <1>5, <2>2 DEF ShutdownDrain, DrainNext
      <3>2. Pending' = {} /\ Pending = {}
        BY <1>3, <2>1, <3>1 DEF TeardownJoins, Pending
      <3> QED BY <2>1, <2>2, <3>1, <3>2
           DEF QueueState, Teardown!Next, Teardown!Teardown
    <2>3. CASE shutdown # "mutations"
      <3>1. shutdown' \in {"address", "join", "mutations"}
        BY <1>5, <2>3 DEF ShutdownDrain, DrainNext
      <3> QED BY <1>3, <2>1, <3>1 DEF QueueState, Teardown!vars
    <2> QED BY <2>2, <2>3
  <1>6. CASE ShutdownEnd
    <2>1. QueueState = "native" /\ QueueState' \in {"open", "closed"} /\ UNCHANGED pc
      BY <1>6 DEF ShutdownEnd, DrainNext, QueueState, ClosedGone
    <2> QED BY <1>3, <2>1 DEF Teardown!Next, Teardown!TornDown
  <1> QED BY <1>1, <1>2, <1>4, <1>5, <1>6, StepOfCall, StepOfOperation DEF Next

\* The queue of receive addresses implements DrainedTeardown: once the account
\* was told to stop no call of either facade begins, the binding is torn down
\* when all have settled, and a failed shutdown opens the account again.
THEOREM AddressImplementsTeardown == Spec => ImplementsTeardown
  <1>1. Init => Teardown!Init /\ ClosedGone
    BY DEF Init, Teardown!Init, QueueState, Pending, Busy, ClosedGone
  <1>2. IInv => TypeOK
    OBVIOUS
  <1> QED BY <1>1, <1>2, Invariant, JoinInit, JoinStep, AddressTeardownJoins, ClosedStep,
       TeardownStep, PTL DEF Spec, ImplementsTeardown, Teardown!Spec
=============================================================================
