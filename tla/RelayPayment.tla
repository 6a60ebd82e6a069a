---------------------------- MODULE RelayPayment ----------------------------
(***************************************************************************)
(* One payment whose asset the wallet has to choose, with the decisions of *)
(* module LinkedAssets: either the asset a Lightning Address is paid with, *)
(* or the relay of another wallet's invoice by the LSP, which answers      *)
(* /lightning_send with a HODL invoice of its own.  The flow around those  *)
(* decisions is the application's: "The caller must decode and verify both *)
(* invoices before paying" (lsp-client.js, lightningSend).                 *)
(***************************************************************************)
EXTENDS LinkedAssets

CONSTANTS
  Menus,      \* bound: lists of entries an address or /get_info may name
  Targets,    \* bound: invoices the wallet may be asked to pay
  Answers,    \* bound: answers of /lightning_send
  MaxFees,    \* bound: fees callers allow
  LspHashes   \* hashes whose preimage the LSP holds from the start

\* A parsed discovery document: an accepted menu contains the payout asset.
Discoveries ==
  {d \in [payout : Entries \cup {None}, accepted : Menus \cup {None}] :
     d.payout # None /\ d.accepted # None => d.payout \in MenuOf(d.accepted)}

\* What a caller wants: the asset an address is paid with, picked by preference
\* or selected by liquidity, the asset a relay is funded with, or the relay of
\* target; asset is the one it names, if any.
Wishes ==
  {w \in [flow : {"pick", "select", "fund", "relay"}, asset : Assets \cup Tickers \cup {None},
          preference : {"payout", "convertible", None}, target : Targets \cup {None},
          policy : [maxFee : MaxFees, lsp : Keys \cup {None}] \cup {None}] :
     /\ w.asset # None => w.flow \in {"pick", "fund"}
     /\ w.preference # None <=> w.flow = "pick"
     /\ w.target # None <=> w.flow # "pick"
     /\ w.policy # None <=> w.flow = "relay"
     /\ w.flow = "select" => w.target.terms.units # None}

\* A parsed quote and the HODL invoice that came with it, as the node decodes it.
Quotes ==
  [hash : Hashes, inbound : Terms, outbound : Terms, payee : Keys \cup {None},
   fee : 0..MaxMsat, until : 1..MaxTime, converted : BOOLEAN]

ASSUME RelayAssumption ==
  /\ Menus \subseteq Seq(Entries) /\ None \notin Menus
  /\ \A m \in Menus : Cardinality({m[i].asset : i \in DOMAIN m}) = Len(m)
  /\ Targets \subseteq Invoices /\ MaxFees \subseteq Nat
  /\ Answers \subseteq [hodl : Invoices, quote : Quotes]
  \* only the payee of a target knows its preimage
  /\ LspHashes \subseteq Hashes /\ \A t \in Targets : t.hash \notin LspHashes

VARIABLES
  stage,      \* where the payment is
  wish,       \* what the caller asked for
  menu,       \* the discovery document, or the assets the LSP supports
  channels,   \* the listing the last decision was made with
  chosen,     \* the entry of the menu that was chosen
  answer,     \* the answer that is paid
  delivered   \* has the LSP paid the target?

relayVars == <<stage, wish, menu, channels, chosen, answer, delivered>>

RelayInit ==
  /\ stage = "idle" /\ wish = None
  /\ menu = None /\ channels = {} /\ chosen = None /\ answer = None
  /\ delivered = FALSE

\* The caller states its wish.
Wish(flow) ==
  /\ stage = "idle"
  /\ wish' \in {w \in Wishes : w.flow = flow}

\* A decision: the entry it names, or a refusal.
Choose(entry) ==
  /\ chosen' = entry
  /\ stage' = IF entry = None THEN "refused" ELSE "chosen"

\* pickPayableAsset on a discovery document
PickAsset ==
  /\ Wish("pick")
  /\ \E d \in Discoveries :
       /\ menu' = d
       /\ Choose(IF Accepted(d) = {} THEN None
                                     ELSE PickPayableAsset(d, wish'.asset, wish'.preference))
  /\ UNCHANGED <<channels, answer, delivered>>

\* selectLiquidPaymentAsset on a discovery document and a channel listing
SelectAsset ==
  /\ Wish("select")
  /\ \E d \in Discoveries, l \in Listings :
       /\ menu' = d /\ channels' = l
       /\ Choose(SelectLiquid(d, l, wish'.target.terms.units, wish'.target.terms.msat))
  /\ UNCHANGED <<answer, delivered>>

\* resolveRelayFundingAsset on what the LSP supports; no entry leaves the
\* choice to the LSP.
FundRelay ==
  /\ Wish("fund")
  /\ \E m \in Menus, l \in Listings :
       /\ menu' = [payout |-> None, accepted |-> m] /\ channels' = l
       /\ IF FundingRefused(wish'.asset, MenuOf(m))
            THEN Choose(None)
            ELSE /\ chosen' = FundingAsset(wish'.target, l, wish'.asset, MenuOf(m))
                 /\ stage' = "chosen"
  /\ UNCHANGED <<answer, delivered>>

\* lightningSend asks for a quote, whatever it is to be funded with.
AskRelay ==
  /\ Wish("relay")
  /\ stage' = "quoting"
  /\ UNCHANGED <<menu, channels, chosen, answer, delivered>>

\* The quote arrives: it is compared with both decoded invoices, and paid if
\* one channel can carry the HODL payment.
QuoteAnswers ==
  /\ stage = "quoting"
  /\ \E a \in Answers, now \in 1..MaxTime :
       LET terms == a.hodl.terms
       IN  IF RelayQuoteHolds(wish.target, a.hodl, a.quote, wish.policy, now) /\ terms.asset # None
             THEN \E l \in Listings :
                    /\ answer' = a /\ channels' = l
                    /\ stage' = IF Liquid(l, terms.asset, terms.units, terms.msat)
                                  THEN "paying" ELSE "refused"
             ELSE stage' = "refused" /\ UNCHANGED <<answer, channels>>
  /\ UNCHANGED <<wish, menu, chosen, delivered>>

\* The LSP pays the target whenever it likes, and learns the preimage.
LspDelivers ==
  /\ stage \in {"quoting", "paying"} /\ ~delivered
  /\ delivered' = TRUE
  /\ UNCHANGED <<stage, wish, menu, channels, chosen, answer>>

Preimages == LspHashes \cup (IF delivered THEN {wish.target.hash} ELSE {})
\* The HODL payment is claimed with its preimage, or it times out.
HodlEnds ==
  /\ stage = "paying"
  /\ \/ answer.hodl.hash \in Preimages /\ stage' = "claimed"
     \/ stage' = "refunded"
  /\ UNCHANGED <<wish, menu, channels, chosen, answer, delivered>>

\* The request for the quote or a decoding rejects.
RelayFails ==
  /\ stage = "quoting" /\ stage' = "refused"
  /\ UNCHANGED <<wish, menu, channels, chosen, answer, delivered>>

RelayNext ==
  \/ PickAsset \/ SelectAsset \/ FundRelay
  \/ AskRelay \/ QuoteAnswers \/ LspDelivers \/ HodlEnds \/ RelayFails

RelaySpec == RelayInit /\ [][RelayNext]_relayVars
-----------------------------------------------------------------------------
RelayTypeOK ==
  /\ stage \in {"idle", "chosen", "quoting", "paying", "claimed", "refunded", "refused"}
  /\ wish \in Wishes \cup {None}
  /\ menu \in [payout : Entries \cup {None}, accepted : Seq(Entries) \cup {None}] \cup {None}
  /\ channels \subseteq Channels
  /\ chosen \in Entries \cup {None}
  /\ answer \in [hodl : Invoices, quote : Quotes] \cup {None}
  /\ delivered \in BOOLEAN

\* A relay the wallet has paid for has reached its target: the LSP cannot take
\* the HODL payment without having paid the target, and takes neither other
\* units, nor a higher fee than the caller allowed, nor pays out another LSP
\* (assertRelayQuote, for a caller that pays what it has accepted).
AtomicRelay ==
  stage = "claimed" =>
    LET paid == answer.hodl IN
    /\ delivered
    /\ paid.terms.units = wish.target.terms.units /\ paid.network = wish.target.network
    /\ paid.terms.msat <= wish.target.terms.msat + wish.policy.maxFee
    /\ wish.policy.lsp # None => paid.payee = wish.policy.lsp

Carries(channel, asset, units, msat) ==
  /\ channel.usable /\ channel.asset = asset /\ channel.units >= units
  /\ channel.outbound \in msat..MaxMsat
  /\ channel.least \in (0..msat) \cup {None} /\ channel.most \in (msat..MaxMsat) \cup {None}

\* What is chosen by liquidity, and what is paid, fits into one channel of its
\* asset, with its units and its msat: "RGB multi-part payments are not
\* available, so balances from different channels must never be combined".
CarriedByOne ==
  /\ stage = "chosen" /\ wish.asset = None /\ wish.flow \in {"select", "fund"} /\ chosen # None =>
       \E c \in channels : Carries(c, chosen.asset, wish.target.terms.units, wish.target.terms.msat)
  /\ stage \in {"paying", "claimed", "refunded"} =>
       LET terms == answer.hodl.terms
       IN  \E c \in channels : Carries(c, terms.asset, terms.units, terms.msat)

\* An asset is chosen only when the caller's words leave no other: it is on the
\* menu; if one was named it has that id, or is the only one with that ticker;
\* else it is the only one on the menu, or the payout asset where that was
\* preferred or nothing converts, or the only one that converts where that was
\* preferred, or the target's own for a relay ("Ambiguous implicit choices fail
\* closed"); and the payout asset wins where it has the liquidity.
ForcedChoice ==
  stage = "chosen" /\ chosen # None =>
    LET accepted == IF menu.accepted = None THEN {menu.payout} ELSE MenuOf(menu.accepted)
        converted == {e \in accepted : menu.payout # None /\ e.asset # menu.payout.asset}
        fits == {e \in accepted : wish.asset \in {e.asset, e.ticker}}
        liquid(e) == \E c \in channels :
                       Carries(c, e.asset, wish.target.terms.units, wish.target.terms.msat)
    IN  /\ chosen \in accepted
        /\ CASE wish.asset # None -> chosen.asset = wish.asset \/ fits = {chosen}
             [] wish.asset = None /\ wish.flow = "pick" ->
                  \/ accepted = {chosen}
                  \/ chosen = menu.payout /\ (wish.preference = "payout" \/ converted = {})
                  \/ wish.preference = "convertible" /\ converted = {chosen}
             [] wish.flow = "select" ->
                  menu.payout \notin {None, chosen} => ~liquid(menu.payout)
             [] OTHER -> chosen.asset = wish.target.terms.asset
=============================================================================
