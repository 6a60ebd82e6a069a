----------------------------- MODULE LspSession -----------------------------
(***************************************************************************)
(* A wallet that makes itself ready with the LSP (LspReadiness) or chooses *)
(* an asset and pays by relay (RelayPayment).  The two read the same       *)
(* channels and share no other state, so their steps are not interleaved:  *)
(* a session does the one or the other.                                    *)
(***************************************************************************)
EXTENDS LspReadiness, RelayPayment

sessionVars == <<vars, relayVars>>

SessionInit == Init /\ RelayInit

NoCall == \A c \in Calls : Kind(c) = "none"
Prepare == Next /\ UNCHANGED relayVars
Relay == NoCall /\ RelayNext /\ UNCHANGED vars

SessionNext == Prepare \/ Relay

SessionSpec == SessionInit /\ [][SessionNext]_sessionVars /\ Fairness

SessionTypeOK == TypeOK /\ RelayTypeOK
=============================================================================
