--------------------------- MODULE DrainedTeardown ---------------------------
(***************************************************************************)
(* What an account promises about shutdown(), without its queues, barriers *)
(* and captured promises: work is admitted only while the account is open, *)
(* a shutdown tears the binding down only once every admitted job has      *)
(* settled, and a failed shutdown opens the account again.                 *)
(***************************************************************************)
CONSTANTS
  Jobs,    \* the calls an application may make, and Followup
  Followup \* the automatic backup a completed job may leave behind

VARIABLES
  state,   \* "open", "stopping", "native" (the binding shuts down) or "closed"
  active   \* the admitted jobs that have not settled

vars == <<state, active>>

Init == state = "open" /\ active = {}

Admit(job) ==
  /\ state = "open"
  /\ job \in Jobs \ active /\ active' = active \cup {job}
  /\ UNCHANGED state

\* A job settles, or one part of it does; either may leave the follow-up.
Advance(job) ==
  /\ state \in {"open", "stopping"}
  /\ job \in active
  /\ active \ {job} \subseteq active' /\ active' \subseteq active \cup {Followup}
  /\ UNCHANGED state

Stop == state = "open" /\ state' = "stopping" /\ UNCHANGED active

Teardown == state = "stopping" /\ active = {} /\ state' = "native" /\ UNCHANGED active

TornDown == state = "native" /\ state' \in {"open", "closed"} /\ UNCHANGED active

Next ==
  \/ \E job \in Jobs : Admit(job) \/ Advance(job)
  \/ Stop \/ Teardown \/ TornDown

Spec == Init /\ [][Next]_vars
=============================================================================
