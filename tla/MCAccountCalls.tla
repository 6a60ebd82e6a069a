--------------------------- MODULE MCAccountCalls ---------------------------
(***************************************************************************)
(* Model checking instances of AccountCalls: which calls the application   *)
(* makes in one behaviour, the orders and the answers of the node.  Native *)
(* handles are model values and interchangeable.                           *)
(***************************************************************************)
EXTENDS AccountCalls, TLC

CONSTANTS s, b, c, r, a1, a2, v, q

HandleSymmetry == Permutations(Nodes) \cup Permutations(Signers)

Order(route, token, amount, feeRate, witness) ==
  [route |-> route, token |-> token, amount |-> amount, feeRate |-> feeRate,
   witnessData |-> witness]

\* Every route with and without what it may leave out; 12.5 sat/vB and a rate
\* that makes no sense.
MCOrders ==
  {Order("bolt11", a1, "none", Unset, "none"), Order("ln-pubkey", "none", "none", Unset, "none"),
   Order("btc-address", a1, v, Unset, "none"), Order("btc-address", "none", v, 125, "none"),
   Order("btc-address", "none", v, 0, "none"), Order("rgb-invoice", "none", v, Unset, "none"),
   Order("rgb-invoice", a1, v, Unset, "valid"), Order("rgb-invoice", a1, v, 125, "valid")}

Decoding(recipient, asset, endpoints, type) ==
  [recipient |-> recipient, asset |-> asset, endpoints |-> endpoints, type |-> type]
MCDecodings ==
  {Decoding(q, a1, TRUE, "Blinded"), Decoding(q, a2, TRUE, "Witness"),
   Decoding(q, "none", TRUE, "Blinded"), Decoding(q, a1, FALSE, "Blinded"),
   Decoding("none", a1, TRUE, "Witness"), Decoding(q, "none", FALSE, "Witness")}

Setup(calls, proxy, mainnet, auto) ==
  [calls |-> calls, proxy |-> proxy, mainnet |-> mainnet, auto |-> auto]
MCSetups ==
  {Setup({s}, TRUE, FALSE, FALSE), Setup({s}, FALSE, TRUE, FALSE), Setup({b}, TRUE, FALSE, FALSE),
   Setup({b}, TRUE, FALSE, TRUE),
   Setup({c}, TRUE, FALSE, FALSE), Setup({r}, TRUE, FALSE, FALSE)}
MCEstimates == {0, 21}
=============================================================================
