--------------------------- MODULE MCWebRgbSession ---------------------------
(* Calls of one kind are interchangeable. *)
EXTENDS WebRgbSession, TLC

RequestSymmetry ==
  Permutations(Enables) \cup Permutations(Lists) \cup Permutations(Reads \ Lists)
    \cup Permutations(Receives)
=============================================================================
