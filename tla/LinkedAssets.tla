---------------------------- MODULE LinkedAssets ----------------------------
(***************************************************************************)
(* The decisions of lsp-linked-assets.js: which of the assets an address   *)
(* or the LSP names a payment is made with, whether a channel can carry    *)
(* it, and whether a relay quote describes one atomic payment.  A ticker   *)
(* is compared without regard to case, so it is one value; texts, keys and *)
(* hashes are well formed.                                                 *)
(***************************************************************************)
EXTENDS Integers, Sequences, FiniteSets, FiniteSetsExt

CONSTANTS
  Assets,    \* RGB contract ids
  Tickers,   \* tickers, which several contracts may share
  Hashes,    \* payment hashes
  Keys,      \* node public keys
  Networks,  \* Bitcoin networks
  MaxUnits,  \* bound on asset units
  MaxMsat,   \* bound on millisatoshi amounts
  MaxTime,   \* bound on expiry times
  Listings,  \* the channel listings the node may answer with
  None       \* an absent value

Units == 1..MaxUnits
Msats == 1..MaxMsat

\* A channel of the node, with its asset units and its msat bounds, which an
\* older node does not report.
Channels ==
  [peer : Keys, asset : Assets \cup {None}, usable : BOOLEAN, units : 0..MaxUnits,
   outbound : 0..MaxMsat \cup {None}, least : 0..MaxMsat \cup {None},
   most : 0..MaxMsat \cup {None}]

ASSUME AssetsAssumption ==
  /\ MaxUnits \in Nat /\ MaxMsat \in Nat /\ MaxTime \in Nat
  /\ None \notin Assets \cup Tickers \cup Hashes \cup Keys \cup Networks \cup Nat
  /\ Assets \cap Tickers = {}
  /\ Listings \subseteq SUBSET Channels


\* An asset of a menu; a menu names a contract once (uniqueAssets).
Entries == [asset : Assets, ticker : Tickers \cup {None}]
MenuOf(list) == {list[i] : i \in DOMAIN list}

\* A decoded invoice carries asset and units together or neither.
Terms ==
  {t \in [asset : Assets \cup {None}, units : Units \cup {None}, msat : Msats] :
     t.asset = None <=> t.units = None}
Invoices ==
  [terms : Terms, hash : Hashes, payee : Keys \cup {None}, network : Networks,
   until : 1..MaxTime]
-----------------------------------------------------------------------------
(* Channels: what is spendable is what one channel can carry.               *)

\* channelCarriesMsat: an unreported balance carries nothing, an unreported
\* HTLC bound does not bind.
CarriesMsat(channel, msat) ==
  \/ msat = 0
  \/ /\ channel.outbound # None /\ channel.outbound >= msat
     /\ channel.least # None => channel.least <= msat
     /\ channel.most # None => channel.most >= msat

\* Mutant: the carrier balance is looked for in any usable channel.
LargestBalanceAnyCarrier(channels, asset, msat) ==
  IF \E c \in channels : c.usable /\ CarriesMsat(c, msat)
    THEN Max({0} \cup {c.units : c \in {d \in channels : d.usable /\ d.asset = asset}})
    ELSE 0
\* largestUsableAssetBalances: RGB payments are not split over channels.
LargestBalance(channels, asset, msat) ==
  Max({0} \cup {c.units : c \in {d \in channels :
                  d.usable /\ d.asset = asset /\ CarriesMsat(d, msat)}})

\* assertLiquidPaymentAsset
Liquid(channels, asset, units, msat) == LargestBalance(channels, asset, msat) >= units
-----------------------------------------------------------------------------
(* The menu of a Lightning Address: payout is the receiver's own asset, and *)
(* accepted, which contains it, may be missing.                             *)

\* payableAssets
Accepted(discovery) ==
  IF discovery.accepted # None THEN MenuOf(discovery.accepted)
                               ELSE {discovery.payout} \ {None}
Convertible(discovery) ==
  {e \in Accepted(discovery) : discovery.payout # None /\ e.asset # discovery.payout.asset}

\* One member or nothing: an ambiguous choice is refused.
TheOne(entries) == IF Cardinality(entries) = 1 THEN CHOOSE e \in entries : TRUE ELSE None

\* A request names a contract by its id, or all that share the ticker.
Named(menu, requested) ==
  LET exact == {e \in menu : e.asset = requested}
  IN  IF exact # {} THEN exact ELSE {e \in menu : e.ticker = requested}

\* Mutant: without a single convertible asset the payout one is taken.
PickPayableAssetDefault(discovery, requested, preference) ==
  IF requested # None THEN TheOne(Named(Accepted(discovery), requested))
  ELSE IF preference = "convertible" /\ Cardinality(Convertible(discovery)) = 1
    THEN TheOne(Convertible(discovery))
  ELSE discovery.payout
\* pickPayableAsset; None where it throws.
PickPayableAsset(discovery, requested, preference) ==
  IF requested # None THEN TheOne(Named(Accepted(discovery), requested))
  ELSE IF Cardinality(Accepted(discovery)) = 1 THEN TheOne(Accepted(discovery))
  ELSE IF preference = "payout" THEN discovery.payout
  ELSE IF Convertible(discovery) = {} THEN discovery.payout
  ELSE TheOne(Convertible(discovery))

\* selectLiquidPaymentAsset: the payout asset first, then the menu in order;
\* its own entry for the payout asset, which the code leaves out, is no more
\* liquid there.
SelectLiquid(discovery, channels, units, msat) ==
  LET payout == discovery.payout
      menu == IF discovery.accepted = None THEN <<>> ELSE discovery.accepted
      liquid(e) == Liquid(channels, e.asset, units, msat)
      ready == {i \in DOMAIN menu : liquid(menu[i])}
  IN  IF payout # None /\ liquid(payout) THEN payout
      ELSE IF ready # {} THEN menu[Min(ready)]
      ELSE None

\* resolveRelayFundingAsset: what the caller names, else the target's own
\* asset if it can be paid; otherwise the LSP is asked to name one.
FundingRefused(requested, supported) ==
  requested # None /\ TheOne(Named(supported, requested)) = None
FundingAsset(target, channels, requested, supported) ==
  IF requested # None THEN TheOne(Named(supported, requested))
  ELSE IF /\ target.terms.units # None
          /\ Liquid(channels, target.terms.asset, target.terms.units, target.terms.msat)
    THEN TheOne({e \in supported : e.asset = target.terms.asset})
  ELSE None
-----------------------------------------------------------------------------
(* assertRelayQuote: the LSP relays the payment of the target invoice by a  *)
(* HODL invoice, which the wallet pays.                                     *)

\* Mutant: the hash of the quote is compared, and not that of the invoice.
SameRelayUnsigned(target, hodl) ==
  hodl.network = target.network /\ hodl.terms.units = target.terms.units
\* The two signed invoices belong to one payment, 1:1 in asset units.
SameRelay(target, hodl) ==
  /\ hodl.hash = target.hash /\ hodl.network = target.network
  /\ hodl.terms.units = target.terms.units

\* The quoted legs are those of the invoices, and the fee is their difference.
LegsHold(target, hodl, quote) ==
  /\ quote.hash = target.hash
  /\ quote.inbound = hodl.terms /\ quote.outbound = target.terms
  /\ quote.payee # None => quote.payee = target.payee
  /\ quote.inbound.msat - quote.outbound.msat = quote.fee
  /\ quote.converted = (quote.inbound.asset # quote.outbound.asset)

\* What the caller allows: a fee, and the payee when it pins one.
PolicyHolds(hodl, quote, policy) ==
  /\ quote.fee <= policy.maxFee
  /\ policy.lsp # None => hodl.payee = policy.lsp

\* The quote ends with the earlier invoice, and none has expired.
UnexpiredAt(now, target, hodl, quote) ==
  /\ now < quote.until /\ now < target.until /\ now < hodl.until
  /\ quote.until <= target.until /\ quote.until <= hodl.until

RelayQuoteHolds(target, hodl, quote, policy, now) ==
  /\ SameRelay(target, hodl) /\ LegsHold(target, hodl, quote)
  /\ PolicyHolds(hodl, quote, policy) /\ UnexpiredAt(now, target, hodl, quote)
=============================================================================
