--------------------------- MODULE ReceiveAddress ---------------------------
(***************************************************************************)
(* The queue of receive-address operations of one binding                  *)
(* (src/src/receive-address.js), shared by the full account and its        *)
(* read-only facade, and the part of the account's shutdown that stops and *)
(* joins it.  An action is one synchronous segment of the code; the native *)
(* rotation and the native read, which reveals and persists the address,   *)
(* take any time and may fail.  The node is external: a rotation moves on  *)
(* to the next address, and with reuse off every read does.                *)
(***************************************************************************)
EXTENDS Naturals, Sequences

CONSTANTS
  FacadeReads,  \* calls of getAddress() on the read-only facade
  AccountReads, \* calls of getAddress() on the account
  News,         \* calls of getNewAddress()
  Rotates,      \* calls of rotateAddress()
  MaxAddress,   \* bound on the addresses of the node
  None          \* null / undefined

Mutations == News \cup Rotates
Admitted == AccountReads \cup Mutations
Calls == FacadeReads \cup Admitted
Addresses == 0..MaxAddress

ASSUME AddressAssumption ==
  /\ MaxAddress \in Nat
  /\ FacadeReads \cap Admitted = {} /\ AccountReads \cap Mutations = {}
  /\ News \cap Rotates = {}
  /\ None \notin Calls /\ None \notin Nat

VARIABLES
  reuse,         \* config.reuseAddresses, fixed when the node is created
  pc,            \* where each call is
  queue,         \* the operations chained on state.tail, the head runs
  served,        \* how many operations have left the queue
  current,       \* state.current
  stopped,       \* state.closed
  retried,       \* account reads that unlocked the node and read once more
  rotated,       \* the address each call's rotation returned
  result,        \* the address each call returned
  latest,        \* the address the node is at
  revealed,      \* addresses the node revealed and persisted
  shutdown,      \* the phase of the account's shutdown
  drain,         \* what that phase awaits
  closed,        \* the account's _closed
  bindingClosed  \* binding._closed

callVars == <<pc, retried, rotated, result>>
queueVars == <<queue, served>>
nodeVars == <<reuse, latest, revealed>>
shutdownVars == <<shutdown, drain, closed, stopped, bindingClosed>>
vars == <<pc, queue, served, current, stopped, retried, rotated, result, reuse, latest, revealed,
          shutdown, drain, closed, bindingClosed>>

Busy(c) == pc[c] \notin {"idle", "done", "failed"}
NoDrain == [calls |-> {}, ticket |-> 0]

Init ==
  /\ pc = [c \in Calls |-> "idle"]
  /\ queue = <<>> /\ served = 0 /\ current = None /\ stopped = FALSE
  /\ retried = {} /\ rotated = [c \in Calls |-> None] /\ result = [c \in Calls |-> None]
  /\ reuse \in BOOLEAN /\ latest = 0 /\ revealed = {}
  /\ shutdown = "none" /\ drain = NoDrain /\ closed = FALSE /\ bindingClosed = FALSE
-----------------------------------------------------------------------------
Goto(c, phase) == pc' = [pc EXCEPT ![c] = phase]
Enqueue(c) == Goto(c, "queued") /\ queue' = Append(queue, c)

\* The facade goes straight to the queue.
FacadeRead(c) ==
  /\ pc[c] = "idle"
  /\ IF stopped THEN Goto(c, "failed") /\ UNCHANGED queue ELSE Enqueue(c)
  /\ UNCHANGED <<served, current, retried, rotated, result, nodeVars, shutdownVars>>

\* The account admits a call, which reaches the queue at once or behind the
\* policy transition and the unlock it waits for; one read is in flight.
AccountCall(c) ==
  /\ pc[c] = "idle"
  /\ c \in AccountReads => \A a \in AccountReads : ~Busy(a)
  /\ Goto(c, IF closed \/ shutdown # "none" THEN "failed" ELSE "admitted")
  /\ UNCHANGED <<queueVars, current, retried, rotated, result, nodeVars, shutdownVars>>

Dispatch(c) ==
  /\ pc[c] \in {"admitted", "unlocking"}
  /\ Enqueue(c)
  /\ UNCHANGED <<served, current, retried, rotated, result, nodeVars, shutdownVars>>

\* The unlock the read waits for fails.
Abandon(c) ==
  /\ c \in AccountReads /\ pc[c] \in {"admitted", "unlocking"}
  /\ Goto(c, "failed")
  /\ UNCHANGED <<queueVars, current, retried, rotated, result, nodeVars, shutdownVars>>
-----------------------------------------------------------------------------
Running(c) == queue # <<>> /\ Head(queue) = c
Leave == queue' = Tail(queue) /\ served' = served + 1



\* The address known so far may be out of date.  The account unlocks a locked
\* node and reads once more.
Fail(c) ==
  /\ Leave /\ current' = None
  /\ \/ Goto(c, "failed") /\ UNCHANGED retried
     \/ /\ c \in AccountReads \ retried
        /\ Goto(c, "unlocking") /\ retried' = retried \cup {c}

Return(c, address) ==
  /\ Leave /\ Goto(c, "done") /\ UNCHANGED retried
  /\ current' = address
  /\ result' = [result EXCEPT ![c] = address]

\* ensureNode() throws once binding.shutdown() was called.
StartFails(c) ==
  /\ Running(c) /\ pc[c] = "queued"
  /\ bindingClosed \/ (c \in Rotates /\ ~reuse)
  /\ Fail(c)
  /\ UNCHANGED <<rotated, result, nodeVars, shutdownVars>>

\* With reuse off, a plain read answers from the session's current address.
StartCached(c) ==
  /\ Running(c) /\ pc[c] = "queued"
  /\ c \notin Mutations /\ ~reuse /\ current # None
  /\ Return(c, current)
  /\ UNCHANGED <<rotated, nodeVars, shutdownVars>>

\* Mutant: the rotation is left out.
StartReads(c) ==
  /\ Running(c) /\ pc[c] = "queued" /\ ~bindingClosed
  /\ c \in Rotates => reuse
  /\ c \in Mutations \/ reuse \/ current = None
  /\ Goto(c, "reading")
  /\ UNCHANGED <<queueVars, current, retried, rotated, result, nodeVars, shutdownVars>>

Start(c) ==
  /\ Running(c) /\ pc[c] = "queued" /\ ~bindingClosed
  /\ c \in Rotates => reuse
  /\ c \in Mutations \/ reuse \/ current = None
  /\ Goto(c, IF c \in Mutations /\ reuse THEN "rotating" ELSE "reading")
  /\ UNCHANGED <<queueVars, current, retried, rotated, result, nodeVars, shutdownVars>>

\* Mutant: the rotated address is returned without the native read.
RotateReturns(c) ==
  /\ Running(c) /\ pc[c] = "rotating"
  /\ latest < MaxAddress /\ latest' = latest + 1
  /\ Return(c, latest') /\ UNCHANGED rotated
  /\ UNCHANGED <<reuse, revealed, shutdownVars>>

\* node.rotateAddress(): the node moves on, and may still report a failure.
Rotate(c) ==
  /\ Running(c) /\ pc[c] = "rotating"
  /\ \/ /\ latest < MaxAddress /\ latest' = latest + 1
        /\ rotated' = [rotated EXCEPT ![c] = latest']
        /\ Goto(c, "reading") /\ UNCHANGED <<queueVars, current, retried>>
     \/ /\ latest' \in {latest, latest + 1} \cap Addresses
        /\ Fail(c) /\ UNCHANGED rotated
  /\ UNCHANGED <<reuse, result, revealed, shutdownVars>>

\* node.address(): the address it returns is revealed and persisted, also if
\* the call fails afterwards or returns another address than the rotated one.
Read(c) ==
  /\ Running(c) /\ pc[c] = "reading"
  /\ latest' = IF reuse THEN latest ELSE latest + 1
  /\ latest' \in Addresses
  /\ revealed' = revealed \cup {latest'}
  /\ \/ rotated[c] \in {None, latest'} /\ Return(c, latest')
     \/ Fail(c) /\ UNCHANGED result
  /\ UNCHANGED <<reuse, rotated, shutdownVars>>

ReadFails(c) ==
  /\ Running(c) /\ pc[c] = "reading" /\ Fail(c)
  /\ UNCHANGED <<rotated, result, nodeVars, shutdownVars>>

\* With reuse on the node may move on by itself, once an address was used.
NodeMovesOn ==
  /\ reuse /\ latest < MaxAddress /\ latest' = latest + 1
  /\ UNCHANGED <<callVars, queueVars, current, reuse, revealed, shutdownVars>>
-----------------------------------------------------------------------------
(* shutdown(): stopAddressOperations at once, then the address in flight,   *)
(* the tail of this queue, and the mutations, in this order.               *)
Drained == (\A c \in drain.calls : ~Busy(c)) /\ served >= drain.ticket

DrainNext(phase, calls, ticket) ==
  /\ shutdown' = phase
  /\ drain' = [calls |-> calls, ticket |-> ticket]

Shutdown ==
  /\ shutdown = "none" /\ ~closed
  /\ stopped' = TRUE
  /\ DrainNext("begin", {}, 0)
  /\ UNCHANGED <<callVars, queueVars, current, nodeVars, closed, bindingClosed>>

\* Mutant: the queue itself is not joined.
ShutdownDrainNoJoin ==
  /\ Drained
  /\ \/ shutdown = "begin" /\ DrainNext("join", {a \in AccountReads : Busy(a)}, 0)
     \/ shutdown = "join" /\ DrainNext("mutations", {m \in Mutations : Busy(m)}, 0)
     \/ shutdown = "mutations" /\ DrainNext("native", {}, 0)
  /\ bindingClosed' = (bindingClosed \/ shutdown = "mutations")
  /\ UNCHANGED <<callVars, queueVars, current, nodeVars, closed, stopped>>

ShutdownDrain ==
  /\ Drained
  /\ \/ shutdown = "begin" /\ DrainNext("address", {a \in AccountReads : Busy(a)}, 0)
     \/ shutdown = "address" /\ DrainNext("join", {}, served + Len(queue))
     \/ shutdown = "join" /\ DrainNext("mutations", {m \in Mutations : Busy(m)}, 0)
     \/ shutdown = "mutations" /\ DrainNext("native", {}, 0)
  /\ bindingClosed' = (bindingClosed \/ shutdown = "mutations")
  /\ UNCHANGED <<callVars, queueVars, current, nodeVars, closed, stopped>>

\* A shutdown that fails leaves the account open; this queue stays stopped for
\* calls of the facade.
ShutdownEnd ==
  /\ shutdown = "native"
  /\ closed' \in BOOLEAN
  /\ DrainNext("none", {}, 0)
  /\ UNCHANGED <<callVars, queueVars, current, nodeVars, stopped, bindingClosed>>
-----------------------------------------------------------------------------
Next ==
  \/ \E c \in FacadeReads : FacadeRead(c)
  \/ \E c \in Admitted : AccountCall(c) \/ Dispatch(c) \/ Abandon(c)
  \/ \E c \in Calls : \/ StartFails(c) \/ StartCached(c) \/ Start(c)
                      \/ Rotate(c) \/ Read(c) \/ ReadFails(c)
  \/ NodeMovesOn
  \/ Shutdown \/ ShutdownDrain \/ ShutdownEnd

Spec == Init /\ [][Next]_vars
-----------------------------------------------------------------------------
Phases == {"idle", "admitted", "queued", "rotating", "reading", "unlocking", "done", "failed"}
ShutdownPhases == {"none", "begin", "address", "join", "mutations", "native"}

\* The variables hold values of the program's types.
TypeOK ==
  /\ pc \in [Calls -> Phases]
  /\ queue \in Seq(Calls) /\ served \in Nat
  /\ current \in Addresses \cup {None}
  /\ rotated \in [Calls -> Addresses \cup {None}]
  /\ retried \subseteq AccountReads
  /\ result \in [Calls -> Addresses \cup {None}]
  /\ reuse \in BOOLEAN
  /\ latest \in Addresses /\ revealed \subseteq Addresses
  /\ shutdown \in ShutdownPhases
  /\ drain \in [calls : SUBSET Calls, ticket : Nat]
  /\ closed \in BOOLEAN /\ stopped \in BOOLEAN /\ bindingClosed \in BOOLEAN

\* "RLN rotation peeks the script. A native address read reveals/persists it"
\* (receive-address.js:54): no call returns an address the node would forget,
\* whichever rotations and reads fail before it.
OnlyRevealed == \A c \in Calls : result[c] # None => result[c] \in revealed

\* An explicit request never returns an address that another one returned,
\* however rotations and reads of both facades interleave and fail.
FreshDistinct ==
  \A c, d \in Mutations :
    c # d /\ result[c] # None => result[c] # result[d]

\* With reuse off, the session's current address is the last one the node
\* allocated, or unknown: after a failed allocation a plain read does not
\* answer with the address before it.
CurrentIsLatest == ~reuse => current \in {None, latest}

\* While the binding shuts down no address operation is pending, neither of
\* the account nor of the facade, although their calls reach one queue by
\* different ways ("share one queue", receive-address.js:36).
TeardownJoins == shutdown = "native" => queue = <<>> /\ \A c \in Calls : ~Busy(c)

\* The address queue as an abstract teardown: its jobs are the calls of both
\* facades, and a call that completes leaves nothing behind.
Pending == {c \in Calls : Busy(c)}
QueueState ==
  CASE closed -> "closed"
    [] ~closed /\ shutdown = "none" -> "open"
    [] ~closed /\ shutdown = "native" -> "native"
    [] OTHER -> "stopping"
Teardown == INSTANCE DrainedTeardown WITH
  Jobs <- Calls, Followup <- None, state <- QueueState, active <- Pending

\* The calls of both facades see the same teardown as the rest of the account,
\* DrainedTeardown: none begins once the account was told to stop, although the
\* facade looks at another flag than the account ("RGB Lightning account is closed",
\* receive-address.js:40), and the binding is torn down when all have settled.
ImplementsTeardown == Teardown!Spec
=============================================================================
