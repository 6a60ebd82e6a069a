---------------------------- MODULE MCLspRequest ----------------------------
(***************************************************************************)
(* Model checking instances of LspRequest: one call of each kind, which    *)
(* share the caller's signal, and a small retry budget.                    *)
(***************************************************************************)
EXTENDS LspRequest
=============================================================================
