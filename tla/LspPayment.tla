----------------------------- MODULE LspPayment -----------------------------
(***************************************************************************)
(* The flows that pay over the LSP: UtexoLsp.payAddress with quoteAddress  *)
(* for a hosted and for an external Lightning Address, UtexoLsp.sendAsset, *)
(* and payLightningAddress and payRgbViaLsp of lsp-helpers.js.  One action *)
(* per piece of code between two awaits; what the LSP, the address server, *)
(* the node and the caller's hook answer is any value of its type.  A      *)
(* request is one call of LspClient or one fetch of the resolver, with its *)
(* timeout and its retries (module LspRequest).                            *)
(***************************************************************************)
EXTENDS LspQuote

CONSTANT Calls   \* calls of the flows, each made at most once

VARIABLES
  pc,         \* where the call awaits
  order,      \* what the caller asked for
  network,    \* expectedNetwork of the call, None when it has none
  discovery,  \* the discovery document it accepted
  invoice,    \* the invoice it was issued, as the node decodes it
  proof,      \* the APay proof that came with it
  lapsed,     \* calls whose invoice has passed its expiry
  aborted,    \* calls whose signal is aborted
  asked,      \* how many times it asked for an invoice
  paid        \* the invoice it handed to account.sendPayment

vars == <<pc, order, network, discovery, invoice, proof, lapsed, aborted, asked, paid>>

Init ==
  /\ pc = [c \in Calls |-> "idle"]
  /\ order \in [Calls -> Orders]
  /\ network = [c \in Calls |-> None]
  /\ discovery = [c \in Calls |-> None]
  /\ invoice = [c \in Calls |-> None]
  /\ proof = [c \in Calls |-> None]
  /\ lapsed = {} /\ aborted = {}
  /\ asked = [c \in Calls |-> 0]
  /\ paid = [c \in Calls |-> None]

\* The flows of lsp-helpers.js and payAddress take opts.signal; the bridge
\* flows have no signal to give to the client.
ToAddress(c) == order[c].route \in {"hosted", "external", "resolver"}
HasSignal(c) == ToAddress(c)
Stopped(c) == c \in aborted /\ HasSignal(c)

Fail(c) == pc' = [pc EXCEPT ![c] = "failed"] /\ UNCHANGED asked

Invoicing == {"callback", "issue"}
\* Begin a request; both clients refuse to begin one on an aborted signal.
Begin(c, request) ==
  IF Stopped(c)
    THEN Fail(c)
    ELSE /\ pc' = [pc EXCEPT ![c] = request]
         /\ asked' = [asked EXCEPT ![c] = @ + (IF request \in Invoicing THEN 1 ELSE 0)]

\* account.sendPayment is called.
HandOver(c) ==
  /\ pc' = [pc EXCEPT ![c] = "paying"]
  /\ paid' = [paid EXCEPT ![c] = invoice[c]]
-----------------------------------------------------------------------------
\* A call starts: arguments are checked and the first request is begun.  The
\* bridge flows ask for the invoice at once, with what they know of a network.
Pay(c) ==
  /\ pc[c] = "idle"
  /\ LET o == order[c] IN
     /\ Begin(c, CASE o.route \in {"bridge", "relay"} -> "issue"
                   [] o.route = "hosted" -> "info"
                   [] o.route = "external" /\ o.network = None -> "info"
                   [] OTHER -> "discovery")
     /\ network' = [network EXCEPT ![c] = o.network]
  /\ UNCHANGED <<order, discovery, invoice, proof, lapsed, aborted, paid>>

\* /get_info answers: the LSP must be the configured one.
InfoAnswers(c) ==
  /\ pc[c] = "info"
  /\ \E key \in Keys, n \in Networks :
       IF key = LspKey /\ order[c].network \in {None, n}
         THEN /\ network' = [network EXCEPT ![c] = n]
              /\ Begin(c, "discovery")
         ELSE Fail(c) /\ UNCHANGED network
  /\ UNCHANGED <<order, discovery, invoice, proof, lapsed, aborted, paid>>

\* The discovery document answers; the callback is asked once and never
\* repeated, because issuing an invoice consumes an APay hash.
DiscoveryAnswers(c) ==
  /\ pc[c] = "discovery"
  /\ \E d \in Discoveries :
       IF AddressRequestAllowed(d, order[c]) /\ CallbackAllowed(d, order[c])
         THEN /\ discovery' = [discovery EXCEPT ![c] = d]
              /\ Begin(c, "callback")
         ELSE Fail(c) /\ UNCHANGED discovery
  /\ UNCHANGED <<order, network, invoice, proof, lapsed, aborted, paid>>

\* Mutant: the attestation is looked at only when the document carries one.
EvidenceCompleteIfSigned(c, p) ==
  /\ order[c].requireProof => p # None
  /\ order[c].route = "hosted" /\ discovery[c].addressSig # "none"
       => AttestationHolds(discovery[c])
\* What quoteAddress demands of the answer before the node decodes it.
EvidenceComplete(c, p) ==
  /\ order[c].requireProof => p # None
  /\ order[c].route = "hosted" /\ (order[c].requireProof \/ discovery[c].addressSig # "none")
       => AttestationHolds(discovery[c])

\* The callback answers with an invoice, which may be stale already.
CallbackAnswers(c) ==
  /\ pc[c] = "callback"
  /\ \E i \in Invoices, p \in Proofs \cup {None}, stale \in BOOLEAN :
       IF order[c].route # "resolver" /\ ~EvidenceComplete(c, p)
         THEN Fail(c) /\ UNCHANGED <<invoice, proof, lapsed>>
         ELSE /\ pc' = [pc EXCEPT ![c] = "decoding"]
              /\ invoice' = [invoice EXCEPT ![c] = i]
              /\ proof' = [proof EXCEPT ![c] = IF order[c].route = "resolver" THEN None ELSE p]
              /\ lapsed' = IF stale THEN lapsed \cup {c} ELSE lapsed
              /\ UNCHANGED asked
  /\ UNCHANGED <<order, network, discovery, aborted, paid>>

\* /onchain_send answers with the invoice the LSP wants to be paid.
IssueAnswers(c) ==
  /\ pc[c] = "issue"
  /\ \E i \in Invoices, stale \in BOOLEAN :
       /\ pc' = [pc EXCEPT ![c] = "decoding"]
       /\ invoice' = [invoice EXCEPT ![c] = i]
       /\ lapsed' = IF stale THEN lapsed \cup {c} ELSE lapsed
  /\ UNCHANGED <<order, network, discovery, proof, aborted, asked, paid>>
-----------------------------------------------------------------------------
\* Mutant: an invoice of the bridge is not tied to the configured LSP.
ExpectedUntied(c) ==
  [terms |-> order[c].terms,
   payee |-> IF order[c].route = "hosted" THEN LspKey ELSE None,
   network |-> network[c],
   hash |-> IF proof[c] # None THEN proof[c].hash ELSE order[c].hash,
   anchor |-> IF discovery[c] # None THEN discovery[c].metadata ELSE None]
Expected(c) ==
  [terms |-> order[c].terms,
   payee |-> IF order[c].route \in {"hosted", "bridge"} THEN LspKey ELSE None,
   network |-> network[c],
   hash |-> IF proof[c] # None THEN proof[c].hash ELSE order[c].hash,
   anchor |-> IF discovery[c] # None THEN discovery[c].metadata ELSE None]

\* The proof binds the invoice to a batch the recipient signed for the host:
\* the LSP, or whoever the invoice of an external address pays.
ProofMatches(c) ==
  proof[c] # None =>
    /\ discovery[c].recipient # None /\ invoice[c].payee # None
    /\ ApayProofHolds(proof[c], invoice[c].hash, discovery[c].recipient,
                      IF order[c].route = "hosted" THEN LspKey ELSE invoice[c].payee)

Verified(c) ==
  AddressQuoteMatches(invoice[c], Expected(c)) /\ c \notin lapsed /\ ProofMatches(c)

\* decodeInvoice answers.  payAddress checks its signal once more and pays
\* without another await; payLightningAddress runs the caller's beforePay.
Decoded(c) ==
  /\ pc[c] = "decoding"
  /\ \/ /\ Verified(c) /\ order[c].route = "resolver"
        /\ pc' = [pc EXCEPT ![c] = "beforePay"]
        /\ UNCHANGED <<asked, paid>>
     \/ /\ Verified(c) /\ order[c].route # "resolver" /\ ~Stopped(c)
        /\ HandOver(c) /\ UNCHANGED asked
     \/ /\ ~Verified(c) \/ (order[c].route # "resolver" /\ Stopped(c))
        /\ Fail(c) /\ UNCHANGED paid
  /\ UNCHANGED <<order, network, discovery, invoice, proof, lapsed, aborted>>

\* Mutant: the signal was read before the hook ran.
HookReturnsUnread(c) ==
  /\ pc[c] = "beforePay"
  /\ HandOver(c)
  /\ UNCHANGED <<order, network, discovery, invoice, proof, lapsed, aborted, asked>>
\* beforePay returns, at once when the caller gave none; the signal is read
\* again, the expiry is not.
HookReturns(c) ==
  /\ pc[c] = "beforePay"
  /\ \/ Stopped(c) /\ Fail(c) /\ UNCHANGED paid
     \/ ~Stopped(c) /\ HandOver(c) /\ UNCHANGED asked
  /\ UNCHANGED <<order, network, discovery, invoice, proof, lapsed, aborted>>

\* A request, decodeInvoice, the hook or sendPayment rejects.
AwaitFails(c) ==
  /\ pc[c] \in {"info", "discovery", "callback", "issue", "decoding", "beforePay", "paying"}
  /\ Fail(c)
  /\ UNCHANGED <<order, network, discovery, invoice, proof, lapsed, aborted, paid>>

PaymentAccepted(c) ==
  /\ pc[c] = "paying"
  /\ pc' = [pc EXCEPT ![c] = "done"]
  /\ UNCHANGED <<order, network, discovery, invoice, proof, lapsed, aborted, asked, paid>>
-----------------------------------------------------------------------------
Ended(c) == pc[c] \in {"done", "failed"}

\* The caller aborts its signal.
Abort(c) ==
  /\ HasSignal(c) /\ c \notin aborted /\ ~Ended(c)
  /\ aborted' = aborted \cup {c}
  /\ UNCHANGED <<pc, order, network, discovery, invoice, proof, lapsed, asked, paid>>

\* The expiry of an issued invoice passes.
Lapse(c) ==
  /\ pc[c] \in {"decoding", "beforePay"} /\ c \notin lapsed
  /\ lapsed' = lapsed \cup {c}
  /\ UNCHANGED <<pc, order, network, discovery, invoice, proof, aborted, asked, paid>>

Answer(c) ==
  \/ InfoAnswers(c) \/ DiscoveryAnswers(c) \/ CallbackAnswers(c) \/ IssueAnswers(c)
  \/ Decoded(c) \/ HookReturns(c) \/ AwaitFails(c) \/ PaymentAccepted(c)

Next == \E c \in Calls : Pay(c) \/ Answer(c) \/ Abort(c) \/ Lapse(c)

Spec == Init /\ [][Next]_vars
-----------------------------------------------------------------------------
States == {"idle", "info", "discovery", "callback", "issue", "decoding",
           "beforePay", "paying", "done", "failed"}

Discovered == {"callback", "decoding", "beforePay", "paying", "done"}

\* The variables hold values of the program's types, and the document and the
\* invoice are there whenever the code further on reads them.
TypeOK ==
  /\ pc \in [Calls -> States]
  /\ order \in [Calls -> Orders]
  /\ network \in [Calls -> Networks \cup {None}]
  /\ discovery \in [Calls -> Discoveries \cup {None}]
  /\ invoice \in [Calls -> Invoices \cup {None}]
  /\ proof \in [Calls -> Proofs \cup {None}]
  /\ lapsed \subseteq Calls /\ aborted \subseteq Calls
  /\ asked \in [Calls -> Nat]
  /\ paid \in [Calls -> Invoices \cup {None}]
  /\ \A c \in Calls :
       /\ pc[c] \in Discovered /\ ToAddress(c) => discovery[c] # None
       /\ pc[c] \in Discovered \ {"callback"} => invoice[c] # None

\* Whatever the servers answer, the invoice handed to the node asks for the
\* amount and the asset of the order; it pays the LSP when the LSP is to be
\* paid; it is for the configured network, and for payAddress for the network
\* the verified LSP named when none is configured; and an address is paid by
\* an invoice that commits to the discovery document that advertised the terms
\* (payAddress, sendAsset, payLightningAddress, payRgbViaLsp).
PaidAsOrdered ==
  \A c \in Calls : paid[c] # None =>
    /\ paid[c].terms = order[c].terms
    /\ order[c].route \in {"hosted", "bridge"} => paid[c].payee = LspKey
    /\ order[c].network # None => paid[c].network = order[c].network
    /\ order[c].route \in {"hosted", "external"} => paid[c].network = network[c]
    /\ order[c].hash # None => paid[c].hash = order[c].hash
    /\ ToAddress(c) => /\ paid[c].terms \in discovery[c].advertised
                       /\ paid[c].anchor = discovery[c].metadata

\* When a proof is required, or one came, the invoice that payAddress pays has
\* a hash of a batch that its recipient signed for the node that is paid,
\* whatever path and root the host sends; for a hosted address that must be
\* proved, that recipient also signed the address.
RecipientBound ==
  \A c \in Calls : paid[c] # None /\ order[c].route \in {"hosted", "external"} =>
    /\ order[c].requireProof => proof[c] # None
    /\ proof[c] # None => /\ NamesSignedHash(proof[c]) /\ proof[c].hash = paid[c].hash
                          /\ proof[c].recipient = discovery[c].recipient
                          /\ proof[c].host = paid[c].payee
    /\ order[c].route = "hosted" /\ order[c].requireProof =>
         /\ discovery[c].addressSig = "valid"
         /\ proof[c].recipient = discovery[c].recipient

\* A call asks for an invoice at most once, whatever fails: each one issued
\* consumes an APay hash or opens a mapping at the LSP (quoteAddress: no
\* fallback after an ambiguous callback).
OneInvoice == \A c \in Calls : asked[c] <= 1

\* Once the caller has aborted, its call asks for no invoice and pays none,
\* wherever it was waiting.
NoPayAfterAbort ==
  [][\A c \in Calls : Stopped(c) => paid'[c] = paid[c] /\ asked'[c] = asked[c]]_vars
=============================================================================
