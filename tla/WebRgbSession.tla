---------------------------- MODULE WebRgbSession ----------------------------
(***************************************************************************)
(* The session of one dApp with the wallet, WebRgbProvider                 *)
(* (src/src/webrgb.js): approval and revocation of the session, and the    *)
(* wallet calls made in it.  Each action is one synchronous segment of the *)
(* code; prompts are answered and native calls return at any time, and the *)
(* host may revoke the session between any two segments.  The parameters   *)
(* and the results of the calls are abstracted.                            *)
(***************************************************************************)
EXTENDS Naturals

CONSTANTS
  Enables,    \* calls of enable()
  Reads,      \* calls of getAddress, getAssetBalance, listAssets, ...
  Lists,      \* those of listAssets, listTransfers and getTransferStatus
  Receives,   \* calls of blindReceive, which ask for an approval of their own
  MaxRevokes, \* how often the host calls revoke()
  None        \* undefined

WalletCalls == Reads \cup Receives
Requests == Enables \cup WalletCalls

ASSUME SessionAssumption ==
  /\ MaxRevokes \in Nat /\ None \notin Requests
  /\ Enables \cap WalletCalls = {} /\ Reads \cap Receives = {}
  /\ Lists \subseteq Reads

VARIABLES
  authorized, \* this.#authorized
  revision,   \* this.#revision
  enabling,   \* the call that owns this.#enabling
  usable,     \* transport authorised, wallet open and on the session's network?
  pc,         \* where each call is
  began,      \* the revision each call captured
  consent,    \* history: approved by the user since the last revoke()?
  stale       \* history: calls that a revoke() overtook

historyVars == <<consent, stale>>
vars == <<authorized, revision, enabling, usable, pc, began, consent, stale>>

Settled == {"result", "error", "malformed", "rejected", "refused"}
InProgress == {r \in Requests : pc[r] \notin Settled \cup {"idle"}}

\* A host that restores a session it already approved says so.
Init ==
  /\ authorized \in BOOLEAN /\ consent = authorized
  /\ revision = 0 /\ enabling = None /\ usable \in BOOLEAN
  /\ pc = [r \in Requests |-> "idle"]
  /\ began = [r \in Requests |-> 0]
  /\ stale = {}
-----------------------------------------------------------------------------
Enabled == usable /\ authorized

\* Mutant: the revision is not compared.
ActiveAnyRevision(r) == Enabled
\* #check(revision), with the revision the call captured.
Active(r) == Enabled /\ began[r] = revision

Goto(r, phase) == pc' = [pc EXCEPT ![r] = phase]


Revoke ==
  /\ revision < MaxRevokes /\ revision' = revision + 1
  /\ authorized' = FALSE
  /\ consent' = FALSE /\ stale' = stale \cup InProgress
  /\ UNCHANGED <<enabling, usable, pc, began>>

\* The transport drops or recovers, the wallet is disposed, a shutdown fails.
HostChanges ==
  /\ usable' = ~usable
  /\ UNCHANGED <<authorized, revision, enabling, pc, began, historyVars>>
-----------------------------------------------------------------------------
(* enable(): concurrent calls share the prompt of the first one.            *)
Enable(e) ==
  /\ pc[e] = "idle"
  /\ \/ Enabled /\ Goto(e, "result") /\ UNCHANGED <<enabling, began>>
     \/ ~Enabled /\ enabling # None /\ Goto(e, "joined") /\ UNCHANGED <<enabling, began>>
     \/ /\ ~Enabled /\ enabling = None
        /\ Goto(e, "prompting") /\ enabling' = e
        /\ began' = [began EXCEPT ![e] = revision]
  /\ UNCHANGED <<authorized, revision, usable, historyVars>>

EnableDeclined(e) ==
  /\ pc[e] = "prompting" /\ Goto(e, "declined")
  /\ UNCHANGED <<authorized, revision, enabling, usable, began, historyVars>>

\* Mutant: an approval counts whatever happened since the prompt opened.
EnableApprovedLate(e) ==
  /\ pc[e] = "prompting"
  /\ consent' = (consent \/ e \notin stale)
  /\ IF usable
       THEN Goto(e, "granted") /\ authorized' = TRUE
       ELSE Goto(e, "denied") /\ UNCHANGED authorized
  /\ UNCHANGED <<revision, enabling, usable, began, stale>>

\* The user approves; the session may have been revoked since the prompt.
EnableApproved(e) ==
  /\ pc[e] = "prompting"
  /\ consent' = (consent \/ e \notin stale)
  /\ IF usable /\ began[e] = revision
       THEN Goto(e, "granted") /\ authorized' = TRUE
       ELSE Goto(e, "denied") /\ UNCHANGED authorized
  /\ UNCHANGED <<revision, enabling, usable, began, stale>>

\* The finally of enable() runs some microtasks later; the calls that joined
\* settle with the call that owns the prompt.
Outcome(phase) ==
  CASE phase = "granted" -> "result"
    [] phase = "denied" -> "refused"
    [] phase = "declined" -> "rejected"

EnableFinally(e) ==
  /\ pc[e] \in {"granted", "denied", "declined"}
  /\ pc' = [r \in Requests |->
              IF r = e \/ pc[r] = "joined" THEN Outcome(pc[e]) ELSE pc[r]]
  /\ enabling' = None
  /\ UNCHANGED <<authorized, revision, usable, began, historyVars>>
-----------------------------------------------------------------------------
(* #call(revision, operation), from a method that read the revision first.  *)
Call(r) ==
  /\ pc[r] = "idle"
  /\ began' = [began EXCEPT ![r] = revision]
  /\ Goto(r, IF ~Enabled THEN "refused"
             ELSE IF r \in Receives THEN "prompting" ELSE "native")
  /\ UNCHANGED <<authorized, revision, enabling, usable, historyVars>>

\* blindReceive: the invoice is allocated only after this approval.
ReceiveDeclined(r) ==
  /\ pc[r] = "prompting" /\ Goto(r, "rejected")
  /\ UNCHANGED <<authorized, revision, enabling, usable, began, historyVars>>

ReceiveApproved(r) ==
  /\ pc[r] = "prompting"
  /\ Goto(r, IF Active(r) THEN "native" ELSE "refused")
  /\ UNCHANGED <<authorized, revision, enabling, usable, began, historyVars>>

\* Mutant: the wallet's error is not checked against the revision.
NativeEndUnchecked(r) ==
  /\ pc[r] = "native"
  /\ \/ Goto(r, "error")
     \/ Goto(r, IF Active(r) THEN "returned" ELSE "refused")
  /\ UNCHANGED <<authorized, revision, enabling, usable, began, historyVars>>
\* The native call resolves or rejects; its error is disclosed under the same
\* condition as its result.
NativeEnd(r) ==
  /\ pc[r] = "native"
  /\ \/ Active(r) /\ (Goto(r, "returned") \/ Goto(r, "error"))
     \/ ~Active(r) /\ Goto(r, "refused")
  /\ UNCHANGED <<authorized, revision, enabling, usable, began, historyVars>>

\* A method returns, or refuses a malformed value.  Those that list may make
\* another call (refresh, then list; assets, then the transfers of each), and
\* refuse a malformed list before they compare the revision again.
Returned(r) ==
  /\ pc[r] = "returned"
  /\ \/ Active(r) /\ (Goto(r, "result") \/ Goto(r, "error"))
     \/ ~Active(r) /\ Goto(r, "refused")
     \/ r \in Lists /\ (Goto(r, "malformed") \/ (Active(r) /\ Goto(r, "native")))
  /\ UNCHANGED <<authorized, revision, enabling, usable, began, historyVars>>
-----------------------------------------------------------------------------
EnableNext(e) ==
  Enable(e) \/ EnableDeclined(e) \/ EnableApproved(e) \/ EnableFinally(e)

Next ==
  \/ Revoke \/ HostChanges
  \/ \E e \in Enables : EnableNext(e)
  \/ \E r \in WalletCalls : Call(r) \/ NativeEnd(r) \/ Returned(r)
  \/ \E r \in Receives : ReceiveDeclined(r) \/ ReceiveApproved(r)

Spec == Init /\ [][Next]_vars
-----------------------------------------------------------------------------
Phases == Settled \cup {"idle", "prompting", "joined", "granted", "denied", "declined",
                        "native", "returned"}

\* The variables hold values of the program's types.
TypeOK ==
  /\ authorized \in BOOLEAN /\ usable \in BOOLEAN /\ consent \in BOOLEAN
  /\ revision \in 0..MaxRevokes
  /\ enabling \in Enables \cup {None}
  /\ pc \in [Requests -> Phases]
  /\ began \in [Requests -> Nat]
  /\ stale \subseteq Requests

\* The session is authorised only by an approval given to a prompt that no
\* revoke() overtook: "Approves this session" (WEBRGB.md:73), and a late answer
\* to an old prompt never revives a revoked session.
SessionConsented == authorized => consent

\* "revocation during a native read prevents its result from being returned"
\* (WEBRGB.md:60): nor is its error, even if the session was approved again
\* before the native call came back.  The one answer it may still get is the
\* provider's own refusal of a malformed list, which holds nothing of it.
NothingAfterRevoke == \A r \in stale \cap WalletCalls : pc[r] \notin {"result", "error"}

\* "Revocation during a prompt prevents the native call" (WEBRGB.md:59), and
\* no later call of a method that makes several is started either.
NoCallAfterRevoke ==
  [][\A r \in stale : pc'[r] = "native" => pc[r] = "native"]_vars

\* "concurrent calls share a prompt" (WEBRGB.md:73): the user never faces two
\* connection prompts of one session.
SharedPrompt ==
  \A e, f \in Enables : pc[e] = "prompting" /\ pc[f] = "prompting" => e = f
=============================================================================
