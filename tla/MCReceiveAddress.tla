-------------------------- MODULE MCReceiveAddress --------------------------
(* Calls of the same method are interchangeable. *)
EXTENDS ReceiveAddress, TLC

CallSymmetry ==
  Permutations(FacadeReads) \cup Permutations(AccountReads)
    \cup Permutations(News) \cup Permutations(Rotates)
=============================================================================
