------------------------------ MODULE LspQuote ------------------------------
(***************************************************************************)
(* What a Lightning Address server or the LSP answers to a call that pays, *)
(* what the node decodes from the invoice it issued, and the checks of     *)
(* lsp-linked-assets.js and lsp-payment-verification.js that compare them  *)
(* with the order.  The terms of a payment are its amount in msat, the RGB *)
(* asset and its units, compared all three by every check.  A signature is *)
(* either made by the key it names or refused: cryptography is abstract.   *)
(***************************************************************************)
EXTENDS ApayProof

CONSTANTS
  Terms,         \* amount, asset id and asset units of a payment
  Networks,      \* Bitcoin networks an invoice may be for
  Documents,     \* metadata strings of discovery documents
  LspKey,        \* peer.peerPubkey, the configured LSP
  PeerNetworks   \* values of peer.network: networks, or None when it is not set

Routes == {"hosted",    \* payAddress, the address is on the LSP's own host
           "external",  \* payAddress, any other host
           "resolver",  \* payLightningAddress of lsp-helpers.js
           "bridge",    \* sendAsset
           "relay"}     \* payRgbViaLsp of lsp-helpers.js

\* What a caller asks for: network is peer.network, which the flows of
\* lsp-helpers.js do not know; only payAddress takes requireAddressProof; only
\* the flows that leave the LSP's host take allowCrossHostCallback; and only
\* the bridge flows let the caller fix the payment hash (ln.paymentHash).
Orders ==
  {o \in [route : Routes, terms : Terms, network : PeerNetworks \cup {None},
          requireProof : BOOLEAN, crossHost : BOOLEAN, hash : Hashes \cup {None}] :
     /\ IF o.route \in {"resolver", "relay"} THEN o.network = None
                                             ELSE o.network \in PeerNetworks
     /\ o.requireProof => o.route \in {"hosted", "external"}
     /\ o.crossHost => o.route \in {"external", "resolver"}
     /\ o.hash # None => o.route \in {"bridge", "relay"}}

\* A parsed discovery document: the terms within its range and on its menu,
\* the host of its callback, and the recipient's signature of the address.
Discoveries ==
  [advertised : SUBSET Terms, sameHost : BOOLEAN, metadata : Documents,
   recipient : Keys \cup {None}, addressSig : {"none", "forged", "valid"}]

\* A decoded invoice; its payee and its description hash may be absent.
Invoices ==
  [terms : Terms, payee : Keys \cup {None}, network : Networks,
   hash : Hashes, anchor : Documents \cup {None}]

\* An absent value is not a value of any of these kinds.
ASSUME QuoteAssumption ==
  /\ LspKey \in Keys
  /\ PeerNetworks \subseteq Networks \cup {None}
  /\ None \notin Keys \cup Networks \cup Hashes \cup Documents
  /\ None \notin Discoveries /\ None \notin Invoices
-----------------------------------------------------------------------------
\* assertAddressRequest, enforceRange and enforceAssetRequest
AddressRequestAllowed(discovery, order) == order.terms \in discovery.advertised

\* assertCallbackOrigin; the hosted flow keeps the path and drops the host
CallbackAllowed(discovery, order) ==
  order.route = "hosted" \/ order.crossHost \/ discovery.sameHost

\* assertAddressQuote: a field the caller does not expect is not compared
AddressQuoteMatches(invoice, expected) ==
  /\ invoice.terms = expected.terms
  /\ expected.payee # None => invoice.payee = expected.payee
  /\ expected.network # None => invoice.network = expected.network
  /\ expected.hash # None => invoice.hash = expected.hash
  /\ expected.anchor # None => invoice.anchor = expected.anchor

\* verifyApayAddressAttestation, and what quoteAddress demands before it
AttestationHolds(discovery) ==
  discovery.recipient # None /\ discovery.addressSig = "valid"
=============================================================================
