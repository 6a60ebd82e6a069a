----------------------------- MODULE MCLnurlPay -----------------------------
(***************************************************************************)
(* Model checking instance of LnurlPay: two calls at a time, which wait    *)
(* for the same abort: of LspClient, or one of each client.                *)
(***************************************************************************)
EXTENDS LnurlPay

CONSTANTS g1, p1, r1, d1, i1, shop, other, local, usdt, gold

MCScenarios == {{g1, r1}, {p1, r1}, {g1, d1}, {p1, i1}}

\* An address, and a payment of an asset to it.
MCAddress ==
  [form |-> "address", scheme |-> "https", site |-> shop, allowHttp |-> FALSE,
   allowCross |-> FALSE, amount |-> 2, asset |-> "none", units |-> "none", comment |-> 0]
MCAsset == [MCAddress EXCEPT !.asset = usdt, !.units = "some"]
MCOrders ==
  {MCAddress, MCAsset,
   [MCAddress EXCEPT !.site = local],
   [MCAddress EXCEPT !.allowHttp = TRUE, !.comment = 1],
   [MCAddress EXCEPT !.form = "url", !.scheme = "http"],
   [MCAddress EXCEPT !.form = "url", !.allowCross = TRUE],
   [MCAsset EXCEPT !.units = "zero"],
   [MCAsset EXCEPT !.units = "none"]}

MCDocument ==
  [scheme |-> "https", site |-> shop, min |-> 1, max |-> 2, payout |-> "none",
   accepted |-> {"unset"}, comment |-> 0]
MCDocuments ==
  {MCDocument,
   [MCDocument EXCEPT !.site = other, !.payout = usdt],
   [MCDocument EXCEPT !.scheme = "http", !.comment = 1],
   [MCDocument EXCEPT !.scheme = "http", !.site = local, !.max = 3],
   [MCDocument EXCEPT !.scheme = "other"],
   [MCDocument EXCEPT !.max = 1, !.accepted = {usdt}],
   [MCDocument EXCEPT !.payout = usdt],
   [MCDocument EXCEPT !.payout = gold, !.accepted = {usdt, gold}],
   [MCDocument EXCEPT !.payout = gold, !.accepted = {usdt}],
   [MCDocument EXCEPT !.accepted = {gold}],
   [MCDocument EXCEPT !.min = 0],
   [MCDocument EXCEPT !.min = 3]}
=============================================================================
