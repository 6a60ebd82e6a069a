---------------------------- MODULE WalletManager ----------------------------
(***************************************************************************)
(* WalletManagerRgbLightning (src/src/wallet-manager-rgb-lightning.js):    *)
(* creation of its only account over a runtime binding, and synchronous    *)
(* disposal of the account, the registered signers and the binding, each   *)
(* of which may throw.  The account's asynchronous work is abstracted to   *)
(* the kinds of promise dispose() looks at, and message signing.           *)
(***************************************************************************)
EXTENDS FiniteSets

CONSTANTS
  Bindings,  \* bindings `new Binding(config)` may return, one per construction
  WdkSigners,\* the default signer and the signers registered with the manager
  Account,   \* the cached account, as an owner of resources
  None       \* null / undefined

\* _unlockInFlight, _shutdownInFlight, _addressInFlight, _vssPending,
\* _vssPolicyChanges, _mutationsInFlight, and the tail of message signing.
JoinedWork == {"unlock", "address", "vss", "policy", "mutation"}
WorkKinds == JoinedWork \cup {"signing"}
Owners == WdkSigners \cup {Account}

ASSUME ManagerAssumption == None \notin Bindings \cup WdkSigners /\ Account \notin WdkSigners

VARIABLES
  disposed,   \* this._disposed
  owners,     \* this._accounts, this._defaultSigner and this._signers
  binding,    \* this._binding
  accountOf,  \* the binding the cached account was built over
  held,       \* bindings that hold native handles
  constructed,\* bindings constructed so far
  stopped,    \* bindings whose shutdown() was called: they start no native work
  work,       \* kinds of the account's promises that have not settled
  shutdown,   \* is account.shutdown() in flight?
  closed,     \* did account.shutdown() succeed?
  cleaned,    \* history: owners whose dispose() returned
  repeated,   \* history: owners whose dispose() returned twice
  torn        \* history: kinds of work that a binding was shut down under

historyVars == <<cleaned, repeated, torn>>
vars == <<disposed, owners, binding, accountOf, held, constructed, work,
          stopped, shutdown, closed, cleaned, repeated, torn>>

Init ==
  /\ disposed = FALSE /\ owners = WdkSigners
  /\ binding = None /\ accountOf = None
  /\ held = {} /\ constructed = {} /\ stopped = {}
  /\ work = {} /\ shutdown = FALSE /\ closed = FALSE
  /\ cleaned = {} /\ repeated = {} /\ torn = {}
-----------------------------------------------------------------------------
(* getAccount(0): a binding retained by a failed creation is shut down      *)
(* before a new one replaces it.                                           *)
Missing == ~disposed /\ Account \notin owners

\* Shutting the retained binding down, constructing the new one, or both fail.
GetAccountNoBinding ==
  /\ Missing /\ binding # None
  /\ binding' = None /\ held' = held \ {binding} /\ stopped' = stopped \cup {binding}
  /\ UNCHANGED <<disposed, owners, accountOf, constructed, work, shutdown, closed,
                 historyVars>>

\* The new binding b takes the place of a retained one that released.
Construct(b) ==
  /\ Missing /\ b \notin constructed
  /\ constructed' = constructed \cup {b}
  /\ held' = (held \ {binding}) \cup {b}
  /\ stopped' = stopped \cup ({binding} \ {None})

GetAccount(b) ==
  /\ Construct(b)
  /\ binding' = b /\ accountOf' = b
  /\ owners' = owners \cup {Account}
  /\ UNCHANGED <<disposed, work, shutdown, closed, historyVars>>

\* Attaching the signer fails; so may the shutdown that cleans up after it.
GetAccountFails(b) ==
  /\ Missing /\ b \notin constructed
  /\ constructed' = constructed \cup {b}
  /\ stopped' = stopped \cup ({b, binding} \ {None})
  /\ \/ binding' = None /\ held' = held \ {binding}
     \/ binding' = b /\ held' = (held \ {binding}) \cup {b}
  /\ UNCHANGED <<disposed, owners, accountOf, work, shutdown, closed, historyVars>>
-----------------------------------------------------------------------------
(* The account: work is admitted while it is open, shutdown() joins it.     *)
StartWork(kind) ==
  /\ accountOf \notin stopped \cup {None} /\ ~closed /\ ~shutdown
  /\ work' = work \cup {kind}
  /\ UNCHANGED <<disposed, owners, binding, accountOf, held, constructed, stopped, shutdown,
                 closed, historyVars>>

EndWork(kind) ==
  /\ kind \in work /\ work' = work \ {kind}
  /\ UNCHANGED <<disposed, owners, binding, accountOf, held, constructed, stopped, shutdown,
                 closed, historyVars>>

AccountShutdown ==
  /\ accountOf # None /\ ~shutdown /\ shutdown' = TRUE
  /\ UNCHANGED <<disposed, owners, binding, accountOf, held, constructed, stopped, work,
                 closed, historyVars>>

AccountShutdownEnd ==
  /\ shutdown /\ work = {} /\ shutdown' = FALSE
  /\ stopped' = stopped \cup {accountOf}
  /\ \/ closed' = TRUE /\ held' = held \ {accountOf}
     \/ UNCHANGED <<closed, held>>
  /\ UNCHANGED <<disposed, owners, binding, accountOf, constructed, work, historyVars>>
-----------------------------------------------------------------------------
(* dispose(): refused while the account owns the native handle; every       *)
(* owner that throws stays reachable for a retry.                          *)
\* Mutant: only operations with a native call of their own are looked at.
PendingNoPolicy ==
  \/ binding # None /\ "address" \in work
  \/ Account \in owners /\ (shutdown \/ work \cap (JoinedWork \ {"policy"}) # {})

Pending ==
  \/ binding # None /\ "address" \in work
  \/ Account \in owners /\ (shutdown \/ work \cap JoinedWork # {})

\* Mutant: a completed cleanup is not forgotten.
DisposeOwnersAgain(failing) ==
  /\ owners' = owners
  /\ cleaned' = cleaned \cup (owners \ failing)
  /\ repeated' = repeated \cup (cleaned \cap (owners \ failing))

DisposeOwners(failing) ==
  /\ owners' = failing
  /\ cleaned' = cleaned \cup (owners \ failing)
  /\ repeated' = repeated \cup (cleaned \cap (owners \ failing))

Dispose ==
  /\ ~Pending
  /\ disposed' = TRUE
  /\ \E failing \in SUBSET owners : DisposeOwners(failing)
  /\ torn' = torn \cup IF binding = None THEN {} ELSE work
  /\ stopped' = stopped \cup ({binding} \ {None})
  /\ \/ binding' = None /\ held' = held \ {binding}
     \/ binding # None /\ UNCHANGED <<binding, held>>
  /\ UNCHANGED <<accountOf, constructed, work, shutdown, closed>>
-----------------------------------------------------------------------------
Next ==
  \/ GetAccountNoBinding
  \/ \E b \in Bindings : GetAccount(b) \/ GetAccountFails(b)
  \/ \E kind \in WorkKinds : StartWork(kind) \/ EndWork(kind)
  \/ AccountShutdown
  \/ AccountShutdownEnd
  \/ Dispose

Spec == Init /\ [][Next]_vars
-----------------------------------------------------------------------------
\* The variables hold values of the program's types.
TypeOK ==
  /\ disposed \in BOOLEAN /\ shutdown \in BOOLEAN /\ closed \in BOOLEAN
  /\ owners \subseteq Owners /\ cleaned \subseteq Owners /\ repeated \subseteq Owners
  /\ binding \in Bindings \cup {None} /\ accountOf \in Bindings \cup {None}
  /\ torn \subseteq WorkKinds /\ stopped \subseteq constructed
  /\ held \subseteq constructed /\ constructed \subseteq Bindings
  /\ work \subseteq WorkKinds

\* "Do not replace it until its explicit shutdown succeeds"
\* (wallet-manager-rgb-lightning.js:156): every binding that holds native
\* handles is the manager's, so at most one opens the data directory and
\* dispose() can always release it.
HeldByManager == held \subseteq {binding}

\* "Keep it reachable for a later dispose() retry, while completed cleanup must
\* never run twice" (wallet-manager-rgb-lightning.js:274): whatever subset of
\* the disposers throws, in whatever attempts.
CleanedOnce == WdkSigners \ owners \subseteq cleaned /\ repeated = {}

\* Whatever fails in getAccount() and dispose(), and however often they are
\* retried, a binding or signer is the manager's until it is released, once.
OwnedUntilReleased == HeldByManager /\ CleanedOnce

\* "Await account activation and shutdown before synchronous manager disposal"
\* (wallet-manager-rgb-lightning.js:246): no disposal tears the binding down
\* under an unlock, address read, backup, policy transition or mutation, and
\* no retry after a partial failure does either.
DisposalJoins == torn \cap JoinedWork = {}
=============================================================================
