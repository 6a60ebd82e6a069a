---------------------------- MODULE MCLspSession ----------------------------
(***************************************************************************)
(* Model checking instance of LspSession: three assets, two of which share *)
(* a ticker, seven kinds of channel, and the LSP's answers to a relay      *)
(* request: honest ones, and those that differ from one in what the        *)
(* invoice, the legs or the rest of the quote say.                         *)
(***************************************************************************)
EXTENDS LspSession, TLC

CONSTANTS a1, a2, a3, usd, eur, h1, h2, lsp, other, net1, net2, c1, c2, c3, p1, p2

MCEntries == {[asset |-> a1, ticker |-> usd], [asset |-> a2, ticker |-> usd],
              [asset |-> a3, ticker |-> None]}
MCMenus ==
  {<<>>} \cup {<<e>> : e \in MCEntries}
    \cup {m \in [1..2 -> MCEntries] : m[1] # m[2]}
    \cup {m \in [1..3 -> MCEntries] : m[1] # m[2] /\ m[1] # m[3] /\ m[2] # m[3]}

MCChannel(peer, asset, usable, units, outbound, least, most) ==
  [peer |-> peer, asset |-> asset, usable |-> usable, units |-> units,
   outbound |-> outbound, least |-> least, most |-> most]
MCChannels ==
  {MCChannel(lsp, a1, TRUE, 2, 3, None, None),    \* carries everything
   MCChannel(lsp, a1, TRUE, 1, 1, 0, 3),          \* too little of each
   MCChannel(lsp, a1, FALSE, 2, 3, None, None),   \* not usable
   MCChannel(other, a1, TRUE, 2, 3, None, 1),     \* bounded from above
   MCChannel(lsp, a2, TRUE, 2, 2, 2, None),       \* bounded from below
   MCChannel(lsp, a2, TRUE, 2, None, None, None), \* balance not reported
   MCChannel(lsp, None, TRUE, 0, 1, None, None)}  \* without an asset
MCListings == {l \in SUBSET MCChannels : Cardinality(l) <= 2}

Amount(asset, units, msat) == [asset |-> asset, units |-> units, msat |-> msat]
Invoice(terms, hash, payee, network, until) ==
  [terms |-> terms, hash |-> hash, payee |-> payee, network |-> network, until |-> until]
MCTargets ==
  {Invoice(t, h1, p, net1, 2) : t \in {Amount(a1, 2, 2), Amount(None, None, 2)}, p \in {other, None}}

\* Answers to the relay of Amount(a1, 2, 2): any signed invoice with the quote
\* that describes it, and a matching invoice with any quote.
MCAnswer(i, h, outbound, p, fee, until) ==
  [hodl |-> i,
   quote |-> [hash |-> h, inbound |-> i.terms, outbound |-> outbound, payee |-> p, fee |-> fee,
              until |-> until, converted |-> i.terms.asset # outbound.asset]]
MCAnswers ==
  {MCAnswer(Invoice(Amount(a, u, m), h, p, n, t), h1, Amount(a1, 2, 2), None, m - 2, t) :
     a \in {a1, a2}, u \in 1..2, m \in 2..3, h \in {h1, h2}, p \in {lsp, None},
     n \in {net1, net2}, t \in 1..2}
  \cup {MCAnswer(Invoice(Amount(a2, 2, m), h1, lsp, net1, 2), h, Amount(a, u, 2), p, f, t) :
     m \in 2..3, h \in {h1, h2}, a \in {a1, a3}, u \in 1..2, p \in {lsp, other, None},
     f \in 0..1, t \in 1..2}

Order(kind) ==
  [kind |-> kind, hook |-> FALSE, host |-> FALSE, attested |-> FALSE, payment |-> None]
Await(p) == [Order("settlement") EXCEPT !.payment = p]
MCMix(x, y, z) == c1 :> x @@ c2 :> y @@ c3 :> z
\* No call, each flow with each of its options alone, and the flows that meet:
\* two claims and the wait for one of the payments they claim.
MCMixes ==
  {MCMix(o, Order("none"), Order("none")) : o \in
     {Order(k) : k \in {"none", "channel", "liquidity", "receive", "address", "bootstrap"}}
     \cup {[Order("channel") EXCEPT !.hook = TRUE], [Order("address") EXCEPT !.attested = TRUE],
           [Order("bootstrap") EXCEPT !.host = TRUE]}}
  \cup {MCMix(Order("claim"), Order("claim"), Await(p1))}
=============================================================================
