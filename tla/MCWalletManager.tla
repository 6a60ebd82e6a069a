--------------------------- MODULE MCWalletManager ---------------------------
(***************************************************************************)
(* Model checking instances of WalletManager.                              *)
(***************************************************************************)
EXTENDS WalletManager, TLC
ManagerSymmetry == Permutations(Bindings) \cup Permutations(WdkSigners)
=============================================================================
