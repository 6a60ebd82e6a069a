------------------------------ MODULE LnurlPay ------------------------------
(***************************************************************************)
(* The LNURL-pay resolver (src/src/lnurl-pay.js): fetchDiscovery() and     *)
(* resolveAddressToInvoice(), which fetches a discovery document and then  *)
(* the callback the document names, and the clients of one application,    *)
(* which share the caller's AbortSignal with LspRequest.  Every server is  *)
(* external: it may hang, redirect, break off or answer anything.          *)
(***************************************************************************)
EXTENDS LspRequest, Sequences

CONSTANTS
  Lookups,     \* calls of fetchDiscovery()
  Invoices,    \* calls of resolveAddressToInvoice()
  Orders,      \* what such a call may be given
  Documents,   \* discovery documents a server may answer with
  Assets,      \* exact asset representations
  Sites,       \* host and port of servers
  LocalSites,  \* those that are loopback or .onion
  MaxBytes,    \* MAX_RESPONSE_BYTES, in pieces of a response
  MaxChunk,    \* bound: the pieces of one chunk, and those of a text over the limit
  NoOrder, NoDocument, NoSite,
  Scenarios    \* which calls the application makes, one set of them

LnurlCalls == Lookups \cup Invoices

OrderType ==
  [form : {"address", "url"}, scheme : {"http", "https"}, site : Sites,
   allowHttp : BOOLEAN, allowCross : BOOLEAN, amount : Nat,
   asset : Assets \cup {"none"}, units : {"none", "zero", "some"}, comment : Nat]
\* "none": no payout_asset; {"unset"}: no accepted_assets.
DocumentType ==
  [scheme : {"http", "https", "other"}, site : Sites, min : Nat, max : Nat,
   payout : Assets \cup {"none"}, accepted : SUBSET (Assets \cup {"unset"}), comment : Nat]

ASSUME LnurlAssumption ==
  /\ MaxBytes \in Nat /\ MaxChunk \in Nat
  /\ Lookups \cap Invoices = {} /\ LnurlCalls \cap Requests = {}
  /\ LocalSites \subseteq Sites /\ "unset" \notin Assets
  /\ NoOrder \notin Orders /\ NoDocument \notin Documents
  /\ \A o \in Orders : o \in OrderType
  /\ \A d \in Documents : d \in DocumentType

VARIABLES
  made,      \* the calls the application makes
  step,      \* where each LNURL call is
  order,     \* its arguments
  document,  \* the discovery document it accepted
  visited,   \* history: the URLs it requested
  server,    \* history: the server of the response it reads
  buffered,  \* byteLength: what it holds of the response
  composed,  \* the calls with listeners on their timeout and on the caller's signal
  cut,       \* the calls whose composed signal is aborted
  result     \* what the call returned or threw

lnurlVars == <<step, order, document, visited, server, buffered, composed, cut, result>>

LnurlInit ==
  /\ step = [c \in LnurlCalls |-> "idle"]
  /\ order = [c \in LnurlCalls |-> NoOrder]
  /\ document = [c \in LnurlCalls |-> NoDocument]
  /\ visited = [c \in LnurlCalls |-> <<>>]
  /\ server = [c \in LnurlCalls |-> NoSite]
  /\ buffered = [c \in LnurlCalls |-> 0]
  /\ composed = {} /\ cut = {}
  /\ result = [c \in LnurlCalls |-> "none"]
-----------------------------------------------------------------------------
Url(scheme, site) == [scheme |-> scheme, site |-> site]

\* discoveryUrlFor: a URL is taken as it is; of an address pickScheme chooses.
DiscoveryUrl(o) ==
  IF o.form = "url" THEN Url(o.scheme, o.site)
  ELSE Url(IF o.site \in LocalSites \/ o.allowHttp THEN "http" ELSE "https", o.site)

PlainAllowed(url, o) == url.scheme = "https" \/ o.allowHttp \/ url.site \in LocalSites

\* validateDiscovery and parseLnurlDiscovery.
ValidDiscovery(d) ==
  /\ d.scheme \in {"http", "https"}
  /\ 0 < d.min /\ d.min <= d.max
  /\ d.payout = "none" \/ d.accepted = {"unset"} \/ d.payout \in d.accepted

Accepted(d) == IF d.accepted = {"unset"} THEN {d.payout} \ {"none"} ELSE d.accepted

\* Mutant: a cross-host callback is compared with the host of the address only
\* when it is plain http.
CallbackOriginPlain(o, d) ==
  LET url == Url(d.scheme, d.site)
  IN PlainAllowed(url, o) /\ (o.allowCross \/ url = DiscoveryUrl(o) \/ url.scheme = "https")
\* assertCallbackOrigin
CallbackOrigin(o, d) ==
  LET url == Url(d.scheme, d.site)
  IN PlainAllowed(url, o) /\ (o.allowCross \/ url.site = DiscoveryUrl(o).site)

\* enforceRange, enforceAssetRequest, enforceComment
TermsAdvertised(o, d) ==
  /\ d.min <= o.amount /\ o.amount <= d.max
  /\ o.asset = "none" <=> o.units = "none"
  /\ o.asset # "none" => o.units # "zero" /\ o.asset \in Accepted(d)
  /\ o.comment <= d.comment
-----------------------------------------------------------------------------
Enter(c, phase) == step' = [step EXCEPT ![c] = phase]

\* The finally of the function, requestSignal.cleanup(), and what it settles with.
Settle(c, phase, value) ==
  /\ Enter(c, phase) /\ result' = [result EXCEPT ![c] = value]
  /\ composed' = composed \ {c}
Refuse(c) == Settle(c, "failed", "LnurlPayError")

\* Mutant: an aborted signal is left to its listener.
FetchUrlUnread(c, url) ==
  /\ Enter(c, "fetching") /\ visited' = [visited EXCEPT ![c] = Append(@, url)]
  /\ composed' = composed \cup {c} /\ cut' = cut \ {c}
  /\ buffered' = [buffered EXCEPT ![c] = 0]
  /\ UNCHANGED result
\* composeRequestSignal throws if the caller has aborted; then fetchJson fetches.
FetchUrl(c, url) ==
  IF aborted
    THEN Refuse(c) /\ UNCHANGED <<visited, cut, buffered>>
    ELSE /\ Enter(c, "fetching") /\ visited' = [visited EXCEPT ![c] = Append(@, url)]
         /\ composed' = composed \cup {c} /\ cut' = cut \ {c}
         /\ buffered' = [buffered EXCEPT ![c] = 0]
         /\ UNCHANGED result

\* fetchDiscovery, which resolveAddressToInvoice calls first.
Discover(c) ==
  /\ step[c] = "idle"
  /\ \E o \in Orders :
       /\ order' = [order EXCEPT ![c] = o]
       /\ IF PlainAllowed(DiscoveryUrl(o), o)
            THEN FetchUrl(c, DiscoveryUrl(o))
            ELSE Refuse(c) /\ UNCHANGED <<visited, cut, buffered>>
  /\ UNCHANGED <<document, server>>

\* The discovery has returned: the document is held to the order, then the
\* callback is fetched, once.
Callback(c) ==
  /\ step[c] = "discovered"
  /\ IF CallbackOrigin(order[c], document[c]) /\ TermsAdvertised(order[c], document[c])
       THEN FetchUrl(c, Url(document[c].scheme, document[c].site))
       ELSE Refuse(c) /\ UNCHANGED <<visited, cut, buffered>>
  /\ UNCHANGED <<order, document, server>>
-----------------------------------------------------------------------------
Requested(c) == visited[c][Len(visited[c])]

FetchRejects(c) ==
  /\ step[c] = "fetching"
  /\ Refuse(c)
  /\ UNCHANGED <<order, document, visited, server, buffered, cut>>

\* Mutant: the response is read wherever it comes from.
ArrivesRedirected(c) ==
  /\ step[c] = "fetching"
  /\ \E site \in Sites, oversized \in BOOLEAN :
       /\ server' = [server EXCEPT ![c] = site]
       /\ IF oversized
            THEN Refuse(c)
            ELSE /\ \E phase \in {"reading", "gathering"} : Enter(c, phase)
                 /\ UNCHANGED <<composed, result>>
  /\ UNCHANGED <<order, document, visited, buffered, cut>>
\* assertNoRedirect refuses the response of another URL, whatever the runtime
\* makes of redirect: 'error'; a Content-Length over the limit is refused.  The
\* runtime gives the body as a stream, or only whole.
Arrives(c) ==
  /\ step[c] = "fetching"
  /\ \E site \in Sites, oversized \in BOOLEAN :
       /\ server' = [server EXCEPT ![c] = site]
       /\ IF site # Requested(c).site \/ oversized
            THEN Refuse(c)
            ELSE /\ \E phase \in {"reading", "gathering"} : Enter(c, phase)
                 /\ UNCHANGED <<composed, result>>
  /\ UNCHANGED <<order, document, visited, buffered, cut>>

\* readBoundedResponseText: a chunk that passes the limit ends the read.
Chunk(c) ==
  /\ step[c] = "reading"
  /\ \E n \in 1..MaxChunk :
       /\ buffered' = [buffered EXCEPT ![c] = @ + n]
       /\ IF buffered[c] + n > MaxBytes THEN Enter(c, "cancelling") ELSE UNCHANGED step
  /\ UNCHANGED <<order, document, visited, server, composed, cut, result>>

\* reader.cancel() has settled: responseTooLarge.
Cancelled(c) ==
  /\ step[c] = "cancelling"
  /\ Refuse(c)
  /\ UNCHANGED <<order, document, visited, server, buffered, cut>>

\* response.text() resolves: it has all of the body before its length is compared.
Text(c) ==
  /\ step[c] = "gathering"
  /\ \E n \in 1..(MaxBytes + MaxChunk) :
       /\ buffered' = [buffered EXCEPT ![c] = n]
       /\ IF n > MaxBytes THEN Refuse(c) ELSE Enter(c, "read") /\ UNCHANGED <<composed, result>>
  /\ UNCHANGED <<order, document, visited, server, cut>>

\* reader.read() or response.text() rejects, with the error of the stream or
\* the reason of the signal.
ReadRejects(c) ==
  /\ step[c] \in {"reading", "gathering"}
  /\ \E error \in {"raw", "LnurlPayError"} : Settle(c, "failed", error)
  /\ UNCHANGED <<order, document, visited, server, buffered, cut>>

\* The body is complete.  An HTTP error, bad JSON or a malformed document is
\* refused; a discovery document returns to the caller or to
\* resolveAddressToInvoice, the answer of the callback is the invoice.
Body(c) ==
  /\ step[c] \in {"reading", "read"}
  /\ \/ Refuse(c) /\ UNCHANGED document
     \/ /\ document[c] = NoDocument
        /\ \E d \in Documents :
             IF ~ValidDiscovery(d)
               THEN Refuse(c) /\ UNCHANGED document
               ELSE /\ document' = [document EXCEPT ![c] = d]
                    /\ IF c \in Lookups
                         THEN Settle(c, "done", "document")
                         ELSE Settle(c, "discovered", "none")
     \/ /\ document[c] # NoDocument
        /\ Settle(c, "done", "invoice") /\ UNCHANGED document
  /\ UNCHANGED <<order, visited, server, buffered, cut>>

\* timeoutSignal, 15 seconds per request: its listener aborts the composed signal.
TimeoutCuts(c) ==
  /\ c \in composed \ cut
  /\ cut' = cut \cup {c}
  /\ UNCHANGED <<step, order, document, visited, server, buffered, composed, result>>
-----------------------------------------------------------------------------
LnurlStep(c) ==
  \/ Discover(c) \/ Callback(c) \/ FetchRejects(c) \/ Arrives(c) \/ Chunk(c)
  \/ Cancelled(c) \/ Text(c) \/ ReadRejects(c) \/ Body(c) \/ TimeoutCuts(c)

callerVars == <<vars, made, lnurlVars>>

CallerInit == Init /\ LnurlInit /\ made \in Scenarios

RequestSteps == (\E r \in made \cap Requests : CallStep(r)) /\ UNCHANGED lnurlVars
LnurlSteps == (\E c \in made \cap LnurlCalls : LnurlStep(c)) /\ UNCHANGED vars
\* One abort runs the listeners of every request of the caller.
AbortAll ==
  /\ Abort
  /\ cut' = cut \cup composed
  /\ UNCHANGED <<step, order, document, visited, server, buffered, composed, result>>

CallerNext == (RequestSteps \/ LnurlSteps \/ AbortAll) /\ UNCHANGED made

CallerSpec == CallerInit /\ [][CallerNext]_callerVars

(* Timers fire and continuations run; a fetch or a read whose signal is     *)
(* aborted rejects, and the cancellation of a body settles.                *)
LnurlForced(c) ==
  \/ TimeoutCuts(c) \/ Callback(c) \/ Cancelled(c) \/ (step[c] = "read" /\ Body(c))
  \/ c \in cut /\ (FetchRejects(c) \/ ReadRejects(c))
FairCallerSpec ==
  /\ CallerSpec
  /\ \A r \in Requests : WF_callerVars(Forced(r) /\ UNCHANGED <<made, lnurlVars>>)
  /\ \A c \in LnurlCalls : WF_callerVars(LnurlForced(c) /\ UNCHANGED <<made, vars>>)
-----------------------------------------------------------------------------
Steps == {"idle", "fetching", "reading", "cancelling", "gathering", "read", "discovered",
          "done", "failed"}
Urls == [scheme : {"http", "https", "other"}, site : Sites]

\* The variables hold values of the program's types.
LnurlTypeOK ==
  /\ made \in Scenarios
  /\ step \in [LnurlCalls -> Steps]
  /\ order \in [LnurlCalls -> Orders \cup {NoOrder}]
  /\ document \in [LnurlCalls -> Documents \cup {NoDocument}]
  /\ visited \in [LnurlCalls -> Seq(Urls)]
  /\ server \in [LnurlCalls -> Sites \cup {NoSite}]
  /\ buffered \in [LnurlCalls -> 0..(MaxBytes + MaxChunk)]
  /\ composed \subseteq LnurlCalls /\ cut \subseteq LnurlCalls
  /\ result \in [LnurlCalls -> {"none", "document", "invoice", "LnurlPayError", "raw"}]

\* The invoice is asked of the host of the address, or of another one only with
\* the application's leave, by a document that host itself served; never in the
\* clear unless allowed; and within what the document advertises, for an
\* asset it accepts (lnurl-pay.js: assertCallbackOrigin and what follows it).
CallbackVouched ==
  \A c \in Invoices : Len(visited[c]) = 2 =>
    LET o == order[c]
        d == document[c]
    IN /\ visited[c][2].site = d.site /\ (o.allowCross \/ d.site = o.site)
       /\ \A i \in 1..2 : visited[c][i].scheme = "https" \/ o.allowHttp
                           \/ visited[c][i].site \in LocalSites
       /\ 0 < o.amount /\ d.min <= o.amount /\ o.amount <= d.max /\ o.comment <= d.comment
       /\ o.asset # "none" => o.asset \in (d.accepted \cup {d.payout}) /\ o.units = "some"

\* What a call reads, and an invoice or a document it returns, comes from the
\* server it asked; a body it accepts never exceeds the limit, and a stream is
\* given up with the chunk that passes it (lnurl-pay.js:
\* readBoundedResponseText).  Of a body that is no stream the runtime may have
\* gathered any amount before the call sees it.
ReadsBounded ==
  \A c \in LnurlCalls :
    /\ step[c] \in {"reading", "gathering", "read", "discovered", "done"} =>
         server[c] = Requested(c).site
    /\ step[c] \in {"reading", "read", "discovered", "done"} => buffered[c] <= MaxBytes
    /\ step[c] = "cancelling" => buffered[c] <= MaxBytes + MaxChunk

\* The caller's signal keeps no listener of a call of either client that has
\* settled, nor of one between its two requests.
CallersReleased ==
  /\ ListenersReleased
  /\ \A c \in LnurlCalls : step[c] \in {"discovered", "done", "failed"} => c \notin composed

\* Once the caller has aborted its signal neither client sends anything with
\* it, not even the callback of a document that arrives afterwards.
NothingSentAfterAbort ==
  [][aborted => /\ \A r \in Requests : sent'[r] <= sent[r]
                /\ \A c \in LnurlCalls : visited'[c] = visited[c]]_callerVars

\* Every call of either client settles, although no server may ever answer.
EveryCallerSettles ==
  /\ EveryRequestSettles
  /\ \A c \in LnurlCalls : step[c] # "idle" ~> step[c] \in {"done", "failed"}
=============================================================================
