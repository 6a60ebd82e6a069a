---------------------------- MODULE LspReadiness ----------------------------
(***************************************************************************)
(* The flows of UtexoLsp that make a wallet ready to pay and to be paid:   *)
(* waitForChannel, waitForOutboundLiquidity, awaitReceiveSettlement,       *)
(* receiveAsset, enableLightningAddress and claimPendingPayments, and      *)
(* bootstrapLsp of the account.  One action per piece of code between two  *)
(* awaits; what the node and the LSP answer is any value of its type.  A   *)
(* deadline passes, and a timer fires, at any moment.                      *)
(***************************************************************************)
EXTENDS LinkedAssets

CONSTANTS
  Calls,       \* calls of the flows, each made at most once
  Mixes,       \* bound: what the calls ask for together, members of [Calls -> Orders]
  Payments,    \* inbound payments of the wallet, each with its invoice
  Asset,       \* the asset waitForChannel is asked for
  MinMsat,     \* the outbound liquidity that is waited for
  LspKey,      \* peer.peerPubkey
  MaxLookups,  \* LIGHTNING_ADDRESS_LOOKUP_ATTEMPTS
  Expiry,      \* lifetime of an invoice of receiveAsset, in seconds
  MaxTicks     \* bound on the time its creation takes, in quarters of a second

Polls == {"channel", "liquidity", "settlement"}

\* What a call asks for: waitForChannel may be given a hook for each poll,
\* bootstrapLsp the LSP's node to register with, and enableLightningAddress
\* may give up the attestation.  A call of kind "none" is never made.
Orders ==
  {o \in [kind : Polls \cup {"none", "receive", "address", "bootstrap", "claim"},
          hook : BOOLEAN, host : BOOLEAN, attested : BOOLEAN, payment : Payments \cup {None}] :
     /\ o.hook => o.kind = "channel"
     /\ o.host => o.kind = "bootstrap"
     /\ o.attested => o.kind = "address"
     /\ o.payment # None <=> o.kind = "settlement"}

ASSUME ReadinessAssumption ==
  /\ Mixes \subseteq [Calls -> Orders]
  /\ Asset \in Assets /\ LspKey \in Keys /\ None \notin Payments /\ IsFiniteSet(Payments)
  /\ MinMsat \in Nat /\ MaxLookups \in Nat \ {0} /\ Expiry \in Nat \ {0} /\ MaxTicks \in Nat

VARIABLES
  pc,          \* where the call awaits
  order,       \* what the caller asked for
  late,        \* calls whose deadline has passed
  aborted,     \* calls whose signal is aborted
  listing,     \* the channels the call listed last
  status,      \* the invoice status it read last
  found,       \* what it has learned of the LSP
  lookups,     \* how often it asked for the Lightning Address
  registered,  \* the APay batches it registered
  listed,      \* the payments it found claimable
  reports,     \* what it reports of them
  lifetime,    \* the lifetime it asked the LSP for, and what the invoice has left
  payment      \* the payments of the node

vars == <<pc, order, late, aborted, listing, status, found, lookups, registered,
          listed, reports, lifetime, payment>>
inputs == <<order, late, aborted>>
waited == <<listing, status>>
enlisted == <<found, lookups, registered>>
claims == <<listed, reports>>

Init ==
  /\ pc = [c \in Calls |-> "idle"]
  /\ order \in Mixes
  /\ late = {} /\ aborted = {}
  /\ listing = [c \in Calls |-> {}]
  /\ status = [c \in Calls |-> "Pending"]
  /\ found = [c \in Calls |-> {}]
  /\ lookups = [c \in Calls |-> 0]
  /\ registered = [c \in Calls |-> <<>>]
  /\ listed = [c \in Calls |-> {}]
  /\ reports = [c \in Calls |-> <<>>]
  /\ lifetime = [c \in Calls |-> None]
  /\ payment = [p \in Payments |-> "PENDING"]

Kind(c) == order[c].kind
Goto(c, state) == pc' = [pc EXCEPT ![c] = state]
Ended(c) == pc[c] \in {"ready", "timeout", "aborted", "refused", "done", "failed"}
-----------------------------------------------------------------------------
(* Polling: a round syncs the node, looks, and sleeps if it saw nothing.    *)

\* Mutant: the deadline is not read.
RoundUndated(c) ==
  Goto(c, IF c \in aborted THEN "aborted" ELSE IF order[c].hook THEN "hook" ELSE "syncing")
\* Mutant: the signal is read by the sleep only.
RoundUnread(c) ==
  Goto(c, IF c \in late THEN "timeout" ELSE IF order[c].hook THEN "hook" ELSE "syncing")
\* The head of the loop: the deadline first, then the signal.
Round(c) ==
  Goto(c, CASE c \in late -> "timeout"
            [] c \notin late /\ c \in aborted -> "aborted"
            [] OTHER -> IF order[c].hook THEN "hook" ELSE "syncing")

HookReturns(c) ==
  /\ pc[c] = "hook" /\ Goto(c, "syncing")
  /\ UNCHANGED <<inputs, waited, enlisted, claims, lifetime, payment>>

Synced(c) ==
  /\ pc[c] = "syncing" /\ Goto(c, "looking")
  /\ UNCHANGED <<inputs, waited, enlisted, claims, lifetime, payment>>

\* _isUsableRgbChannel
UsableRgb(channel) == channel.usable /\ channel.peer = LspKey /\ channel.asset = Asset
Outbound(channel) == IF channel.outbound = None THEN 0 ELSE channel.outbound
\* Mutant: the liquidity of several channels is added up.
LiquidityAdded(channels) ==
  MapThenSumSet(Outbound, {c \in channels : c.usable /\ c.peer = LspKey})
\* The strongest usable channel of the LSP: a payment is not split.
Liquidity(channels) ==
  Max({0} \cup {Outbound(c) : c \in {d \in channels : d.usable /\ d.peer = LspKey}})

ChannelsListed(c) ==
  /\ pc[c] = "looking" /\ Kind(c) \in {"channel", "liquidity"}
  /\ \E channels \in Listings :
       /\ listing' = [listing EXCEPT ![c] = channels]
       /\ Goto(c, IF \/ Kind(c) = "channel" /\ \E d \in channels : UsableRgb(d)
                     \/ Kind(c) = "liquidity" /\ Liquidity(channels) >= MinMsat
                    THEN "ready" ELSE "sleeping")
  /\ UNCHANGED <<inputs, status, enlisted, claims, lifetime, payment>>

Refusals == {"FAILED", "EXPIRED", "CANCELLED"}
\* normalizeReceiveStatus; its three failures are told apart in the message only.
Normalized(s) == IF s = "SUCCEEDED" THEN "Succeeded"
                 ELSE IF s \in Refusals THEN "Refused" ELSE "Pending"

StatusRead(c) ==
  /\ pc[c] = "looking" /\ Kind(c) = "settlement"
  /\ LET seen == Normalized(payment[order[c].payment]) IN
     /\ status' = [status EXCEPT ![c] = seen]
     /\ Goto(c, CASE seen = "Succeeded" -> "ready"
                  [] seen = "Refused" -> "refused"
                  [] OTHER -> "sleeping")
  /\ UNCHANGED <<inputs, listing, enlisted, claims, lifetime, payment>>

\* The interval of _sleep ends.
Wakes(c) ==
  /\ pc[c] = "sleeping" /\ Round(c)
  /\ UNCHANGED <<inputs, waited, enlisted, claims, lifetime, payment>>

\* The caller aborts the signal.  Only a sleep that began before listens.
Abort(c) ==
  /\ Kind(c) \in Polls /\ c \notin aborted /\ ~Ended(c)
  /\ aborted' = aborted \cup {c}
  /\ IF pc[c] = "sleeping" THEN Goto(c, "aborted") ELSE UNCHANGED pc
  /\ UNCHANGED <<order, late, waited, enlisted, claims, lifetime, payment>>

\* The deadline of a call passes; before its start: a timeout of zero.
Expire(c) ==
  /\ Kind(c) \in Polls \cup {"bootstrap"} /\ c \notin late /\ ~Ended(c)
  /\ late' = late \cup {c}
  /\ UNCHANGED <<pc, order, aborted, waited, enlisted, claims, lifetime, payment>>
-----------------------------------------------------------------------------
(* Registration with the LSP: enableLightningAddress and bootstrapLsp.      *)

\* apayNew or apayNewWithAddress is called.
Register(c, batch) ==
  /\ Goto(c, "registering")
  /\ registered' = [registered EXCEPT ![c] = Append(@, batch)]
Learn(c, fact) == found' = [found EXCEPT ![c] = @ \cup {fact}]

\* getNodeInfo answers with the wallet's public key.
NodeAnswers(c) ==
  /\ pc[c] = "node"
  /\ Goto(c, "lookup") /\ lookups' = [lookups EXCEPT ![c] = 1]
  /\ UNCHANGED <<inputs, waited, found, registered, claims, lifetime, payment>>

\* The address is there, or it is not, is incomplete, or the request failed.
AddressAnswers(c) ==
  /\ pc[c] = "lookup"
  /\ \/ Goto(c, "info") /\ Learn(c, "address")
     \/ /\ Goto(c, IF lookups[c] < MaxLookups THEN "resting" ELSE "failed")
        /\ UNCHANGED found
  /\ UNCHANGED <<inputs, waited, lookups, registered, claims, lifetime, payment>>

\* Mutant: the address is registered while the LSP has not provisioned it.
LookupAgainRegisters(c) ==
  /\ pc[c] = "resting" /\ Kind(c) = "address"
  /\ Register(c, "attested")
  /\ UNCHANGED <<inputs, waited, found, lookups, claims, lifetime, payment>>
LookupAgain(c) ==
  /\ pc[c] = "resting" /\ Kind(c) = "address"
  /\ Goto(c, "lookup") /\ lookups' = [lookups EXCEPT ![c] = @ + 1]
  /\ UNCHANGED <<inputs, waited, found, registered, claims, lifetime, payment>>

\* /get_info answers with the LSP's key; the account may be one that cannot
\* attest an address.
InfoAnswers(c) ==
  /\ pc[c] = "info"
  /\ Learn(c, "key")
  /\ \/ Register(c, IF order[c].attested THEN "attested" ELSE "plain")
     \/ order[c].attested /\ Goto(c, "failed") /\ UNCHANGED registered
  /\ UNCHANGED <<inputs, waited, lookups, claims, lifetime, payment>>

\* After the wait for the peer: register if a node is given and it was seen.
Bootstrapped(c, visible) ==
  \/ ~order[c].host /\ Goto(c, "done") /\ UNCHANGED registered
  \/ order[c].host /\ visible /\ Register(c, "plain")
  \/ order[c].host /\ ~visible /\ Goto(c, "failed") /\ UNCHANGED registered

PeerRound(c) ==
  \/ c \in late /\ Bootstrapped(c, FALSE)
  \/ c \notin late /\ Goto(c, "peers") /\ UNCHANGED registered

\* connectPeer answers (a peer that is known already counts as connected), or
\* the poll interval has passed.
NextPeerRound(c) ==
  /\ \/ pc[c] = "connecting"
     \/ pc[c] = "resting" /\ Kind(c) = "bootstrap"
  /\ PeerRound(c)
  /\ UNCHANGED <<inputs, waited, found, lookups, claims, lifetime, payment>>

\* listPeers answers; a failure counts as an empty list.
PeersListed(c) ==
  /\ pc[c] = "peers"
  /\ \/ Learn(c, "peer") /\ Bootstrapped(c, TRUE)
     \/ Goto(c, "resting") /\ UNCHANGED <<found, registered>>
  /\ UNCHANGED <<inputs, waited, lookups, claims, lifetime, payment>>

Registered(c) ==
  /\ pc[c] = "registering" /\ Goto(c, "done")
  /\ UNCHANGED <<inputs, waited, enlisted, claims, lifetime, payment>>
-----------------------------------------------------------------------------
(* receiveAsset: an invoice is created and registered for what is left of   *)
(* its lifetime.  Time counts in quarters of a second.                      *)

\* Mutant: the time that has passed is rounded down.
RemainingRoundedDown(took) == Max({1, Expiry - took \div 4})
\* durationSeconds: rounded to seconds, at least one.
Remaining(took) == Max({1, Expiry - (took + 2) \div 4})

\* createLightningInvoice answers; the node stamped the invoice meanwhile.
InvoiceCreated(c) ==
  /\ pc[c] = "creating"
  /\ \E took \in 0..MaxTicks : \E stamp \in 0..took :
       lifetime' = [lifetime EXCEPT ![c] =
                      [asked |-> Remaining(took), left |-> 4 * Expiry - (took - stamp)]]
  /\ Goto(c, "bridging")
  /\ UNCHANGED <<inputs, waited, enlisted, claims, payment>>

\* /lightning_receive answers.
Bridged(c) ==
  /\ pc[c] = "bridging" /\ Goto(c, "done")
  /\ UNCHANGED <<inputs, waited, enlisted, claims, lifetime, payment>>
-----------------------------------------------------------------------------
(* claimPendingPayments                                                     *)

Held == {"CLAIMABLE", "CLAIMING"}
Reported(c) == {reports[c][i].payment : i \in DOMAIN reports[c]}
Unclaimed(c) == listed[c] \ Reported(c)

\* listPayments answers; what is not a list counts as an empty one.
PaymentsListed(c) ==
  /\ pc[c] = "listing"
  /\ \E held \in {{}, {p \in Payments : payment[p] \in Held}} :
       /\ listed' = [listed EXCEPT ![c] = held]
       /\ Goto(c, IF held = {} THEN "done" ELSE "claiming")
  /\ UNCHANGED <<inputs, waited, enlisted, reports, lifetime, payment>>

Report(c, p, success) ==
  /\ reports' = [reports EXCEPT ![c] = Append(@, [payment |-> p, claimed |-> success])]
  /\ Goto(c, IF Unclaimed(c) = {p} THEN "done" ELSE "claiming")

\* Claimed by the node; a claim it has accepted before it may accept again.
Accepts(p) ==
  /\ payment[p] \in Held \cup {"SUCCEEDED"}
  /\ payment' = [payment EXCEPT ![p] = IF @ = "CLAIMABLE" THEN "CLAIMING" ELSE @]

\* Mutant: the first failure ends the call.
ClaimFailsAll(c) ==
  /\ pc[c] = "claiming"
  /\ \E p \in Unclaimed(c) :
       reports' = [reports EXCEPT ![c] = Append(@, [payment |-> p, claimed |-> FALSE])]
  /\ Goto(c, "done")
  /\ UNCHANGED <<inputs, waited, enlisted, listed, lifetime, payment>>
\* claimHodlInvoice throws, whether the node took the preimage or not; the
\* next payment is claimed all the same.
ClaimFails(c) ==
  /\ pc[c] = "claiming"
  /\ \E p \in Unclaimed(c) : Report(c, p, FALSE) /\ (Accepts(p) \/ UNCHANGED payment)
  /\ UNCHANGED <<inputs, waited, enlisted, listed, lifetime>>
ClaimAccepted(c) ==
  /\ pc[c] = "claiming"
  /\ \E p \in Unclaimed(c) : Report(c, p, TRUE) /\ Accepts(p)
  /\ UNCHANGED <<inputs, waited, enlisted, listed, lifetime>>
-----------------------------------------------------------------------------
Call(c) ==
  /\ pc[c] = "idle" /\ Kind(c) # "none"
  /\ CASE Kind(c) \in Polls -> Round(c)
       [] Kind(c) = "receive" -> Goto(c, "creating")
       [] Kind(c) = "address" -> Goto(c, "node")
       [] Kind(c) = "bootstrap" -> Goto(c, "connecting")
       [] Kind(c) = "claim" -> Goto(c, "listing")
  /\ UNCHANGED <<inputs, waited, enlisted, claims, lifetime, payment>>

\* Any other await rejects, and the call with it.
AwaitFails(c) ==
  /\ pc[c] \in {"hook", "syncing", "looking", "creating", "bridging", "node", "info",
                "connecting", "registering", "listing"}
  /\ Goto(c, "failed")
  /\ UNCHANGED <<inputs, waited, enlisted, claims, lifetime, payment>>

\* What an inbound payment may become without the wallet.
Moves == [PENDING |-> {"CLAIMABLE", "SUCCEEDED"} \cup Refusals,
          CLAIMABLE |-> Refusals, CLAIMING |-> {"SUCCEEDED"}]
\* Bound: a payment no call looks at stays as it is.
PaymentMoves(p) ==
  /\ \E c \in Calls : Kind(c) = "claim" \/ order[c].payment = p
  /\ payment[p] \in DOMAIN Moves
  /\ \E s \in Moves[payment[p]] : payment' = [payment EXCEPT ![p] = s]
  /\ UNCHANGED <<pc, order, late, aborted, waited, enlisted, claims, lifetime>>

Progress(c) ==
  \/ HookReturns(c) \/ Synced(c) \/ ChannelsListed(c) \/ StatusRead(c) \/ Wakes(c)
  \/ NodeAnswers(c) \/ AddressAnswers(c) \/ LookupAgain(c) \/ InfoAnswers(c)
  \/ NextPeerRound(c) \/ PeersListed(c) \/ Registered(c)
  \/ InvoiceCreated(c) \/ Bridged(c)
  \/ PaymentsListed(c) \/ ClaimAccepted(c) \/ ClaimFails(c) \/ AwaitFails(c)

Next ==
  \/ \E c \in Calls : Call(c) \/ Progress(c) \/ Abort(c) \/ Expire(c)
  \/ \E p \in Payments : PaymentMoves(p)

Spec == Init /\ [][Next]_vars

\* Every await settles, every timer fires and every deadline passes.
Fairness == \A c \in Calls : WF_vars(Progress(c)) /\ WF_vars(Expire(c))
-----------------------------------------------------------------------------
States == {"idle", "hook", "syncing", "looking", "sleeping", "creating", "bridging",
           "node", "lookup", "resting", "info", "connecting", "peers", "registering",
           "listing", "claiming", "ready", "timeout", "aborted", "refused", "done", "failed"}

TypeOK ==
  /\ pc \in [Calls -> States] /\ order \in [Calls -> Orders]
  /\ late \subseteq Calls /\ aborted \subseteq Calls
  /\ listing \in [Calls -> SUBSET Channels]
  /\ status \in [Calls -> {"Pending", "Succeeded", "Refused"}]
  /\ found \in [Calls -> SUBSET {"address", "key", "peer"}]
  /\ lookups \in [Calls -> 0..MaxLookups]
  /\ registered \in [Calls -> Seq({"plain", "attested"})]
  /\ listed \in [Calls -> SUBSET Payments]
  /\ reports \in [Calls -> Seq([payment : Payments, claimed : BOOLEAN])]
  /\ lifetime \in [Calls -> [asked : Nat, left : Int] \cup {None}]
  /\ payment \in [Payments -> Held \cup Refusals \cup {"PENDING", "SUCCEEDED"}]

\* A wait ends with what is true: waitForChannel has seen a usable channel with
\* the LSP for the asset, waitForOutboundLiquidity one that carries the whole
\* amount, awaitReceiveSettlement reports the end its payment really took, and
\* a timeout is never reported by a call that has seen what it waited for.
EndsTruly ==
  \A c \in Calls :
    LET mine == {d \in listing[c] : d.usable /\ d.peer = LspKey}
        seen == CASE Kind(c) = "channel" -> \E d \in mine : d.asset = Asset
                  [] Kind(c) = "liquidity" ->
                       MinMsat = 0 \/ \E d \in mine : d.outbound # None /\ d.outbound >= MinMsat
                  [] Kind(c) = "settlement" -> payment[order[c].payment] = "SUCCEEDED"
                  [] OTHER -> TRUE
    IN  /\ pc[c] = "ready" => seen
        /\ pc[c] = "refused" => payment[order[c].payment] \in Refusals
        /\ pc[c] = "timeout" => status[c] = "Pending"
        /\ pc[c] = "timeout" /\ Kind(c) # "settlement" /\ listing[c] # {} => ~seen

\* A call registers one APay batch at most, whatever fails and is retried;
\* enableLightningAddress only for an address and a key the LSP has named, and
\* unattested only when its caller gave up the attestation; bootstrapLsp only
\* when asked to and after its peer was listed ("registers exactly one signed
\* batch", utexo-lsp.js; "refusing to call apayNew", bootstrapLsp).
RegistersOnce ==
  \A c \in Calls : registered[c] # <<>> =>
    /\ Len(registered[c]) = 1
    /\ Kind(c) = "address" => /\ found[c] = {"address", "key"}
                              /\ registered[c] = <<IF order[c].attested THEN "attested" ELSE "plain">>
    /\ Kind(c) = "bootstrap" => order[c].host /\ found[c] = {"peer"}

\* claimPendingPayments reports each payment it found held exactly once, and
\* claimed only if the node has taken its preimage, even when other claims
\* fail and another call claims the same payments.
ClaimsReported ==
  \A c \in Calls :
    /\ Len(reports[c]) = Cardinality(Reported(c)) /\ Reported(c) \subseteq listed[c]
    /\ pc[c] = "done" => Reported(c) = listed[c]
    /\ \A i \in DOMAIN reports[c] :
         reports[c][i].claimed => payment[reports[c][i].payment] \in {"CLAIMING", "SUCCEEDED"}

\* receiveAsset never asks the LSP for more than the invoice has left, but for
\* the rounding to seconds and the least lifetime of one second.
LifetimeFits ==
  \A c \in Calls : lifetime[c] # None =>
    lifetime[c].asked = 1 \/ 4 * lifetime[c].asked <= lifetime[c].left + 2

\* Once the caller has aborted, a wait that sleeps or has not begun looks no
\* more: it ends, at the abort or when the sleep that missed it does.
NoRoundAfterAbort ==
  [][\A c \in Calls : c \in aborted /\ pc[c] \in {"idle", "sleeping"} /\ pc'[c] # pc[c]
       => pc'[c] \in {"aborted", "timeout"}]_vars

\* Every call that was made ends, though the LSP gives nothing: lookups and
\* claims are bounded, and a wait ends at its deadline if the node answers.
WaitsEnd == \A c \in Calls : pc[c] # "idle" ~> Ended(c)
=============================================================================
