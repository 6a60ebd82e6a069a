------------------------- MODULE LspRequest_proofs -------------------------
(***************************************************************************)
(* Proofs about LspRequest, for any number of calls and any retry budget,  *)
(* and about LnurlPay, for any orders, documents and sizes.                *)
(***************************************************************************)
EXTENDS LnurlPay, TLAPS

(* Exactly the attempts and backoffs under way listen to the caller, and    *)
(* the attempts made so far bound what went out.                           *)
Live == {"fetching", "reading", "backoff"}
ListenWhileLive == \A r \in Requests : r \in listening <=> pc[r] \in Live
SentByAttempts ==
  \A r \in Requests :
    /\ sent[r] <= attempt[r] + 1
    /\ pc[r] \in {"idle", "next", "backoff"} => sent[r] <= attempt[r]
    /\ r \in Posts \cup callback => attempt[r] = 0
IInv == TypeOK /\ ListenWhileLive /\ AbortReaches /\ SentByAttempts

USE RequestAssumption DEF RequestAssumption, Requests

LEMMA RequestInit == Init => IInv
  <1> SUFFICES ASSUME Init PROVE IInv
    OBVIOUS
  <1>1. TypeOK
    <2>1. 0 \in 0..MaxRetries /\ 0 \in 0..(MaxRetries + 1)
      OBVIOUS
    <2> QED BY <2>1 DEF Init, TypeOK, Phases, Statuses
  <1>2. ListenWhileLive /\ AbortReaches
    BY DEF Init, ListenWhileLive, AbortReaches, Live
  <1>3. SentByAttempts
    BY DEF Init, SentByAttempts
  <1> QED BY <1>1, <1>2, <1>3 DEF IInv

LEMMA AttemptInv ==
  ASSUME IInv, NEW r \in Requests, Request(r) \/ Resume(r)
  PROVE  IInv'
  <1>1. pc[r] \in {"idle", "next"} /\ UNCHANGED <<callback, attempt, status, aborted>>
    BY DEF Request, Resume
  <1>2. CASE aborted /\ Throw(r, "LspError") /\ UNCHANGED <<listening, signalled, sent>>
    BY <1>1, <1>2 DEF Throw, Goto, IInv, TypeOK, ListenWhileLive, AbortReaches,
       SentByAttempts, Phases, Live
  <1>3. CASE /\ ~aborted /\ pc' = [pc EXCEPT ![r] = "fetching"]
             /\ listening' = listening \cup {r} /\ signalled' = signalled \ {r}
             /\ sent' = [sent EXCEPT ![r] = @ + 1] /\ UNCHANGED outcome
    <2>1. sent[r] \in Nat /\ attempt[r] \in 0..MaxRetries /\ sent[r] <= attempt[r]
      BY <1>1 DEF IInv, TypeOK, SentByAttempts
    <2>2. TypeOK'
      BY <1>1, <1>3, <2>1 DEF IInv, TypeOK, Phases
    <2>3. ListenWhileLive' /\ AbortReaches'
      BY <1>1, <1>3 DEF IInv, TypeOK, ListenWhileLive, AbortReaches, Live
    <2>4. SentByAttempts'
      BY <1>1, <1>3, <2>1 DEF IInv, TypeOK, SentByAttempts
    <2> QED BY <2>2, <2>3, <2>4 DEF IInv
  <1> QED BY <1>2, <1>3 DEF Request, Resume, Attempt, Goto

\* A call that throws, or returns, leaves nothing on the caller's signal.
LEMMA SettleInv ==
  ASSUME IInv, NEW r \in Requests,
         NEW phase \in {"done", "failed"}, NEW end \in {"result", "LspError", "raw"},
         pc' = [pc EXCEPT ![r] = phase], outcome' = [outcome EXCEPT ![r] = end],
         Cleanup(r), UNCHANGED <<callback, attempt, status, signalled, aborted, sent>>
  PROVE  IInv'
  <1>1. TypeOK'
    BY DEF Cleanup, IInv, TypeOK, Phases
  <1>2. ListenWhileLive' /\ AbortReaches'
    BY DEF Cleanup, IInv, TypeOK, ListenWhileLive, AbortReaches, Live
  <1>3. SentByAttempts'
    BY DEF IInv, TypeOK, SentByAttempts
  <1> QED BY <1>1, <1>2, <1>3 DEF IInv

LEMMA BackoffInv ==
  ASSUME IInv, NEW r \in Requests, CanRetry(r), Backoff(r), ~aborted,
         UNCHANGED <<callback, status, aborted, sent>>
  PROVE  IInv'
  <1>1. /\ attempt[r] \in Nat /\ attempt[r] < MaxRetries /\ sent[r] <= attempt[r] + 1
        /\ r \notin Posts \cup callback
    BY DEF CanRetry, Repeatable, IInv, TypeOK, SentByAttempts
  <1>2. TypeOK'
    BY <1>1 DEF Backoff, Goto, IInv, TypeOK, Phases
  <1>3. ListenWhileLive' /\ AbortReaches'
    BY DEF Backoff, Goto, IInv, TypeOK, ListenWhileLive, AbortReaches, Live
  <1>4. SentByAttempts'
    BY <1>1 DEF Backoff, Goto, IInv, TypeOK, SentByAttempts
  <1> QED BY <1>2, <1>3, <1>4 DEF IInv

LEMMA FetchInv ==
  ASSUME IInv, NEW r \in Requests,
         FetchFails(r) \/ FetchRedirected(r) \/ FetchAnswered(r)
  PROVE  IInv'
  <1>1. CASE CanRetry(r) /\ ~aborted /\ FetchFails(r)
    BY <1>1, BackoffInv DEF FetchFails
  <1>2. CASE ~(CanRetry(r) /\ ~aborted) /\ FetchFails(r)
    BY <1>2, SettleInv DEF FetchFails, Throw, Goto
  <1>3. CASE FetchRedirected(r)
    BY <1>3, SettleInv DEF FetchRedirected, Throw, Goto
  <1>4. CASE FetchAnswered(r)
    <2>1. /\ pc[r] = "fetching" /\ pc' = [pc EXCEPT ![r] = "reading"]
          /\ UNCHANGED <<callback, attempt, listening, signalled, aborted, sent, outcome>>
      BY <1>4 DEF FetchAnswered, Goto
    <2>2. TypeOK'
      BY <1>4, <2>1 DEF FetchAnswered, IInv, TypeOK, Phases, Statuses
    <2>3. ListenWhileLive' /\ AbortReaches' /\ SentByAttempts'
      BY <2>1 DEF IInv, TypeOK, ListenWhileLive, AbortReaches, SentByAttempts, Live
    <2> QED BY <2>2, <2>3 DEF IInv
  <1> QED BY <1>1, <1>2, <1>3, <1>4

LEMMA ReadInv ==
  ASSUME IInv, NEW r \in Requests, ReadFails(r) \/ ReadDone(r)
  PROVE  IInv'
  <1>1. CASE ReadFails(r)
    BY <1>1, SettleInv DEF ReadFails, Throw, Goto
  <1>2. CASE Parse(r) /\ UNCHANGED <<status, aborted>>
    <2>1. CASE /\ r \in Resolves \ callback /\ pc' = [pc EXCEPT ![r] = "next"]
               /\ callback' = callback \cup {r}
               /\ attempt' = [attempt EXCEPT ![r] = 0] /\ sent' = [sent EXCEPT ![r] = 0]
               /\ UNCHANGED outcome
      <3>1. TypeOK'
        BY <1>2, <2>1 DEF Parse, Cleanup, IInv, TypeOK, Phases
      <3>2. ListenWhileLive' /\ AbortReaches'
        BY <1>2, <2>1 DEF Parse, Cleanup, IInv, TypeOK, ListenWhileLive, AbortReaches, Live
      <3>3. SentByAttempts'
        BY <2>1 DEF IInv, TypeOK, SentByAttempts
      <3> QED BY <3>1, <3>2, <3>3 DEF IInv
    <2>2. CASE /\ Goto(r, "done") /\ outcome' = [outcome EXCEPT ![r] = "result"]
               /\ UNCHANGED <<callback, attempt, sent>>
      BY <1>2, <2>2, SettleInv DEF Parse, Goto
    <2>3. CASE Throw(r, "LspError") /\ UNCHANGED <<callback, attempt, sent>>
      BY <1>2, <2>3, SettleInv DEF Parse, Throw, Goto
    <2> QED BY <1>2, <2>1, <2>2, <2>3 DEF Parse, Goto
  <1>3. CASE RepeatOrRefuse(r) /\ UNCHANGED <<callback, sent, status, aborted>>
    <2>1. CASE CanRetry(r) /\ ~aborted /\ Backoff(r)
      BY <1>3, <2>1, BackoffInv
    <2>2. CASE /\ \E error \in {"LspError", "raw"} : Throw(r, error)
               /\ Cleanup(r) /\ UNCHANGED <<attempt, signalled>>
      BY <1>3, <2>2, SettleInv DEF Throw, Goto
    <2> QED BY <1>3, <2>1, <2>2 DEF RepeatOrRefuse
  <1> QED BY <1>1, <1>2, <1>3 DEF ReadDone

LEMMA TimerInv ==
  ASSUME IInv, NEW r \in Requests,
         TimeoutFires(r) \/ BackoffFires(r) \/ BackoffInterrupted(r)
  PROVE  IInv'
  <1>1. CASE TimeoutFires(r)
    BY <1>1 DEF TimeoutFires, IInv, TypeOK, ListenWhileLive, AbortReaches, SentByAttempts
  <1>2. CASE BackoffFires(r)
    <2>1. TypeOK'
      BY <1>2 DEF BackoffFires, Cleanup, Goto, IInv, TypeOK, Phases
    <2>2. ListenWhileLive' /\ AbortReaches' /\ SentByAttempts'
      BY <1>2 DEF BackoffFires, Cleanup, Goto, IInv, TypeOK, ListenWhileLive, AbortReaches,
         SentByAttempts, Live
    <2> QED BY <2>1, <2>2 DEF IInv
  <1>3. CASE BackoffInterrupted(r)
    BY <1>3, SettleInv DEF BackoffInterrupted, Throw, Goto
  <1> QED BY <1>1, <1>2, <1>3

LEMMA InvStep == IInv /\ [Next]_vars => IInv'
  <1> SUFFICES ASSUME IInv, [Next]_vars PROVE IInv'
    OBVIOUS
  <1>1. CASE Abort
    BY <1>1 DEF Abort, IInv, TypeOK, ListenWhileLive, AbortReaches, SentByAttempts, Live
  <1>2. CASE UNCHANGED vars
    BY <1>2 DEF vars, IInv, TypeOK, ListenWhileLive, AbortReaches, SentByAttempts
  <1> QED BY <1>1, <1>2, AttemptInv, FetchInv, ReadInv, TimerInv DEF Next, CallStep

LEMMA Invariant == Spec => []IInv
  BY RequestInit, InvStep, PTL DEF Spec

\* The loop's state stays well typed and within the retry budget.
THEOREM RequestTypeCorrect == Spec => []TypeOK
  <1>1. IInv => TypeOK
    BY DEF IInv
  <1> QED BY <1>1, Invariant, PTL

\* A request that changes the state of the LSP goes out at most once.
THEOREM RequestSentOnce == Spec => []SentOnce
  <1>1. IInv => SentOnce
    BY DEF IInv, SentByAttempts, SentOnce, TypeOK
  <1> QED BY <1>1, Invariant, PTL

\* An abort of the caller reaches every attempt and backoff under way.
THEOREM RequestAbortReaches == Spec => []AbortReaches
  <1>1. IInv => AbortReaches
    BY DEF IInv
  <1> QED BY <1>1, Invariant, PTL

\* A settled call keeps no listener on the caller's signal.
THEOREM RequestListenersReleased == Spec => []ListenersReleased
  <1>1. IInv => ListenersReleased
    BY DEF IInv, ListenWhileLive, ListenersReleased, Live
  <1> QED BY <1>1, Invariant, PTL

\* After an abort nothing is sent.
THEOREM RequestNoSendAfterAbort == Spec => NoSendAfterAbort
  <1>1. TypeOK /\ [Next]_vars => [aborted => \A r \in Requests : sent'[r] <= sent[r]]_vars
    <2> SUFFICES ASSUME TypeOK, Next, aborted, NEW r \in Requests
                 PROVE  sent'[r] <= sent[r]
      BY DEF vars
    <2>1. sent \in [Requests -> Nat]
      BY DEF TypeOK
    <2>2. CASE Abort
      BY <2>1, <2>2 DEF Abort
    <2>3. ASSUME NEW q \in Requests,
                 \/ Request(q) \/ Resume(q) \/ TimeoutFires(q) \/ FetchRedirected(q)
                 \/ FetchAnswered(q) \/ ReadFails(q) \/ BackoffFires(q) \/ BackoffInterrupted(q)
                 \/ FetchFails(q)
          PROVE  sent' = sent
      BY <2>3 DEF Request, Resume, Attempt, TimeoutFires, FetchFails, FetchRedirected,
         FetchAnswered, ReadFails, BackoffFires, BackoffInterrupted
    <2>4. CASE \E q \in Requests : ReadDone(q)
      BY <2>1, <2>4 DEF ReadDone, Parse
    <2> QED BY <2>1, <2>2, <2>3, <2>4 DEF Next, CallStep
  <1> QED BY <1>1, RequestTypeCorrect, PTL DEF Spec, NoSendAfterAbort
-----------------------------------------------------------------------------
(* The LNURL calls.  A call has visited the URL of its order, and then that *)
(* of a valid document that passed every check of the order.               *)
Open == {"fetching", "reading", "cancelling", "gathering", "read"}
ComposedWhileOpen == \A c \in LnurlCalls : c \in composed <=> step[c] \in Open
VisitsAt(c) ==
  /\ step[c] = "idle" => visited[c] = <<>> /\ document[c] = NoDocument
  /\ step[c] \in Open => Len(visited[c]) = IF document[c] = NoDocument THEN 1 ELSE 2
  /\ step[c] = "discovered" => Len(visited[c]) = 1 /\ document[c] # NoDocument /\ c \in Invoices
  /\ step[c] = "done" => Len(visited[c]) > 0
  /\ Len(visited[c]) <= 2
Vouched(c) ==
  /\ document[c] # NoDocument => document[c] \in Documents /\ ValidDiscovery(document[c])
  /\ Len(visited[c]) > 0 =>
       /\ order[c] \in Orders /\ visited[c][1] = DiscoveryUrl(order[c])
       /\ PlainAllowed(visited[c][1], order[c])
  /\ Len(visited[c]) = 2 =>
       /\ document[c] # NoDocument
       /\ visited[c][2] = Url(document[c].scheme, document[c].site)
       /\ CallbackOrigin(order[c], document[c]) /\ TermsAdvertised(order[c], document[c])
BoundedAt(c) ==
  /\ step[c] \in {"reading", "gathering", "read", "discovered", "done"} =>
       server[c] = Requested(c).site
  /\ step[c] \in {"reading", "read", "discovered", "done"} => buffered[c] <= MaxBytes
HeldAt(c) == step[c] = "fetching" => buffered[c] = 0
LnurlInv ==
  /\ LnurlTypeOK /\ ComposedWhileOpen
  /\ \A c \in LnurlCalls : VisitsAt(c) /\ Vouched(c) /\ BoundedAt(c) /\ HeldAt(c)

USE LnurlAssumption DEF LnurlAssumption

LEMMA LnurlInitially == CallerInit => LnurlInv
  <1> SUFFICES ASSUME CallerInit PROVE LnurlInv
    OBVIOUS
  <1>1. 0 \in 0..(MaxBytes + MaxChunk)
    OBVIOUS
  <1>2. LnurlTypeOK
    BY <1>1 DEF CallerInit, LnurlInit, LnurlTypeOK, Steps
  <1>3. ComposedWhileOpen
    BY DEF CallerInit, LnurlInit, ComposedWhileOpen, Open
  <1>4. ASSUME NEW c \in LnurlCalls
        PROVE  VisitsAt(c) /\ Vouched(c) /\ BoundedAt(c) /\ HeldAt(c)
    BY <1>4 DEF CallerInit, LnurlInit, VisitsAt, Vouched, BoundedAt, HeldAt, Open
  <1> QED BY <1>2, <1>3, <1>4 DEF LnurlInv

\* URLs the resolver builds are URLs.
LEMMA UrlTypes ==
  /\ \A o \in Orders : DiscoveryUrl(o) \in Urls
  /\ \A d \in Documents : Url(d.scheme, d.site) \in Urls
  BY DEF DiscoveryUrl, Url, Urls, OrderType, DocumentType

\* A refusal, or any other end of a function, releases the signals.
LEMMA SettleLnurl ==
  ASSUME LnurlInv, NEW c \in LnurlCalls, step[c] # "idle" \/ visited[c] = <<>>,
         NEW value \in {"none", "document", "invoice", "LnurlPayError", "raw"},
         Settle(c, "failed", value),
         UNCHANGED <<made, document, visited>>,
         buffered' \in [LnurlCalls -> 0..(MaxBytes + MaxChunk)],
         \A e \in LnurlCalls \ {c} : buffered'[e] = buffered[e],
         cut' \subseteq LnurlCalls,
         order' \in [LnurlCalls -> Orders \cup {NoOrder}],
         \A e \in LnurlCalls : e # c \/ Len(visited[c]) > 0 => order'[e] = order[e],
         server' \in [LnurlCalls -> Sites \cup {NoSite}],
         \A e \in LnurlCalls \ {c} : server'[e] = server[e]
  PROVE  LnurlInv'
  <1>1. LnurlTypeOK'
    BY DEF Settle, Enter, LnurlInv, LnurlTypeOK, Steps
  <1>2. ComposedWhileOpen'
    BY DEF Settle, Enter, LnurlInv, LnurlTypeOK, ComposedWhileOpen, Open
  <1>3. step' = [step EXCEPT ![c] = "failed"]
    BY DEF Settle, Enter
  <1>4. ASSUME NEW e \in LnurlCalls
        PROVE  VisitsAt(e)' /\ Vouched(e)' /\ BoundedAt(e)' /\ HeldAt(e)'
    <2>1. VisitsAt(e) /\ Vouched(e) /\ BoundedAt(e) /\ HeldAt(e) /\ step \in [LnurlCalls -> Steps]
          /\ visited \in [LnurlCalls -> Seq(Urls)]
      BY DEF LnurlInv, LnurlTypeOK
    <2>2. Len(visited[e]) \in Nat /\ (e = c /\ step[c] = "idle" => Len(visited[e]) = 0)
      BY <2>1
    <2>3. VisitsAt(e)'
      BY <1>3, <2>1, <2>2 DEF VisitsAt, Open
    <2>4. Vouched(e)'
      BY <2>1, <2>2 DEF Vouched
    <2>5. BoundedAt(e)' /\ HeldAt(e)'
      BY <1>3, <2>1 DEF BoundedAt, HeldAt, Requested
    <2> QED BY <2>3, <2>4, <2>5
  <1> QED BY <1>1, <1>2, <1>4 DEF LnurlInv

\* A request goes out to a URL the call may visit.
LEMMA FetchLnurl ==
  ASSUME LnurlInv, NEW c \in LnurlCalls, NEW url \in Urls,
         ~aborted, FetchUrl(c, url), UNCHANGED <<made, document, server>>,
         order' \in [LnurlCalls -> Orders \cup {NoOrder}], order'[c] \in Orders,
         \A e \in LnurlCalls \ {c} : order'[e] = order[e],
         PlainAllowed(url, order'[c]),
         \/ step[c] = "idle" /\ url = DiscoveryUrl(order'[c])
         \/ /\ step[c] = "discovered" /\ order'[c] = order[c]
            /\ url = Url(document[c].scheme, document[c].site)
            /\ CallbackOrigin(order[c], document[c]) /\ TermsAdvertised(order[c], document[c])
  PROVE  LnurlInv'
  <1>1. /\ step' = [step EXCEPT ![c] = "fetching"]
        /\ visited' = [visited EXCEPT ![c] = Append(@, url)]
        /\ composed' = composed \cup {c} /\ cut' = cut \ {c}
        /\ buffered' = [buffered EXCEPT ![c] = 0] /\ result' = result
    BY DEF FetchUrl, Enter
  <1>2. 0 \in 0..(MaxBytes + MaxChunk)
    OBVIOUS
  <1>3. LnurlTypeOK'
    BY <1>1, <1>2 DEF LnurlInv, LnurlTypeOK, Steps
  <1>4. ComposedWhileOpen'
    BY <1>1 DEF LnurlInv, LnurlTypeOK, ComposedWhileOpen, Open
  <1>5. ASSUME NEW e \in LnurlCalls
        PROVE  VisitsAt(e)' /\ Vouched(e)' /\ BoundedAt(e)' /\ HeldAt(e)'
    <2>1. VisitsAt(e) /\ Vouched(e) /\ BoundedAt(e) /\ HeldAt(e) /\ step \in [LnurlCalls -> Steps]
          /\ visited \in [LnurlCalls -> Seq(Urls)]
      BY DEF LnurlInv, LnurlTypeOK
    <2>2. CASE e # c
      <3>1. /\ step'[e] = step[e] /\ visited'[e] = visited[e] /\ buffered'[e] = buffered[e]
            /\ order'[e] = order[e] /\ document'[e] = document[e] /\ server'[e] = server[e]
        BY <1>1, <2>2 DEF LnurlInv, LnurlTypeOK
      <3> QED BY <2>1, <3>1 DEF VisitsAt, Vouched, BoundedAt, HeldAt, Requested
    <2>3. CASE e = c
      <3>1. /\ Len(visited[c]) = IF step[c] = "idle" THEN 0 ELSE 1
            /\ step[c] = "idle" <=> document[c] = NoDocument
            /\ step[c] = "idle" \/ step[c] = "discovered"
        BY <2>1, <2>3 DEF VisitsAt
      <3>2. /\ step'[c] = "fetching" /\ visited'[c] = Append(visited[c], url)
            /\ document'[c] = document[c]
        BY <1>1, <2>1
      <3>3. /\ Len(visited'[c]) = Len(visited[c]) + 1
            /\ visited'[c][Len(visited[c]) + 1] = url
            /\ Len(visited[c]) = 1 => visited'[c][1] = visited[c][1]
        BY <2>1, <3>2
      <3>4. VisitsAt(c)'
        BY <3>1, <3>2, <3>3 DEF VisitsAt, Open
      <3>5. BoundedAt(c)' /\ HeldAt(c)'
        BY <1>1, <3>2 DEF BoundedAt, HeldAt, LnurlInv, LnurlTypeOK
      <3>6. Vouched(c)'
        BY <2>1, <2>3, <3>1, <3>2, <3>3 DEF Vouched
      <3> QED BY <2>3, <3>4, <3>5, <3>6
    <2> QED BY <2>2, <2>3
  <1> QED BY <1>3, <1>4, <1>5 DEF LnurlInv

LEMMA DiscoverInv ==
  ASSUME LnurlInv, NEW c \in LnurlCalls, Discover(c), UNCHANGED made
  PROVE  LnurlInv'
  <1>1. PICK o \in Orders :
          /\ order' = [order EXCEPT ![c] = o]
          /\ IF PlainAllowed(DiscoveryUrl(o), o)
               THEN FetchUrl(c, DiscoveryUrl(o))
               ELSE Refuse(c) /\ UNCHANGED <<visited, cut, buffered>>
    BY DEF Discover
  <1>2. /\ step[c] = "idle" /\ visited[c] = <<>> /\ UNCHANGED <<document, server>>
        /\ order' \in [LnurlCalls -> Orders \cup {NoOrder}] /\ order'[c] = o
        /\ \A e \in LnurlCalls \ {c} : order'[e] = order[e]
        /\ server \in [LnurlCalls -> Sites \cup {NoSite}] /\ cut \subseteq LnurlCalls
        /\ buffered \in [LnurlCalls -> 0..(MaxBytes + MaxChunk)]
    BY <1>1 DEF Discover, LnurlInv, LnurlTypeOK, VisitsAt
  <1>3. CASE PlainAllowed(DiscoveryUrl(o), o) /\ ~aborted
    BY <1>1, <1>2, <1>3, FetchLnurl, UrlTypes
  <1>4. CASE ~(PlainAllowed(DiscoveryUrl(o), o) /\ ~aborted)
    <2>1. Settle(c, "failed", "LnurlPayError") /\ UNCHANGED <<visited, cut, buffered>>
      BY <1>1, <1>4 DEF FetchUrl, Refuse
    <2>2. Len(visited[c]) = 0
      BY <1>2
    <2> QED BY <1>2, <2>1, <2>2, SettleLnurl
  <1> QED BY <1>3, <1>4

LEMMA CallbackInv ==
  ASSUME LnurlInv, NEW c \in LnurlCalls, Callback(c), UNCHANGED made
  PROVE  LnurlInv'
  <1>1. /\ step[c] = "discovered" /\ UNCHANGED <<order, document, server>>
        /\ order \in [LnurlCalls -> Orders \cup {NoOrder}]
        /\ server \in [LnurlCalls -> Sites \cup {NoSite}] /\ cut \subseteq LnurlCalls
        /\ order[c] \in Orders /\ document[c] \in Documents
        /\ buffered \in [LnurlCalls -> 0..(MaxBytes + MaxChunk)]
    <2>1. step[c] = "discovered" /\ VisitsAt(c) /\ Vouched(c)
      BY DEF Callback, LnurlInv
    <2>2. Len(visited[c]) = 1 /\ document[c] # NoDocument
      BY <2>1 DEF VisitsAt
    <2>3. order[c] \in Orders /\ document[c] \in Documents
      BY <2>1, <2>2 DEF Vouched
    <2> QED BY <2>3 DEF Callback, LnurlInv, LnurlTypeOK
  <1> DEFINE url == Url(document[c].scheme, document[c].site)
             passed == CallbackOrigin(order[c], document[c]) /\ TermsAdvertised(order[c], document[c])
  <1>2. CASE passed /\ ~aborted
    <2>1. FetchUrl(c, url) /\ PlainAllowed(url, order[c])
      BY <1>2 DEF Callback, CallbackOrigin
    <2> QED BY <1>1, <1>2, <2>1, FetchLnurl, UrlTypes
  <1>3. CASE ~(passed /\ ~aborted)
    <2>1. Settle(c, "failed", "LnurlPayError") /\ UNCHANGED <<visited, cut, buffered>>
      BY <1>3 DEF Callback, FetchUrl, Refuse
    <2> QED BY <1>1, <2>1, SettleLnurl
  <1> QED BY <1>2, <1>3

LEMMA ReadingInv ==
  ASSUME LnurlInv, NEW c \in LnurlCalls, UNCHANGED made,
         \/ FetchRejects(c) \/ Arrives(c) \/ Chunk(c) \/ Cancelled(c) \/ Text(c)
         \/ ReadRejects(c) \/ TimeoutCuts(c)
  PROVE  LnurlInv'
  <1>1. /\ order \in [LnurlCalls -> Orders \cup {NoOrder}]
        /\ server \in [LnurlCalls -> Sites \cup {NoSite}] /\ cut \subseteq LnurlCalls
        /\ step \in [LnurlCalls -> Steps] /\ buffered \in [LnurlCalls -> 0..(MaxBytes + MaxChunk)]
    BY DEF LnurlInv, LnurlTypeOK
  <1>2. CASE FetchRejects(c) \/ Cancelled(c) \/ ReadRejects(c)
    BY <1>1, <1>2, SettleLnurl DEF FetchRejects, Cancelled, ReadRejects, Refuse
  <1>3. CASE Arrives(c)
    <2>1. PICK site \in Sites :
            /\ server' = [server EXCEPT ![c] = site]
            /\ \/ Refuse(c)
               \/ /\ site = Requested(c).site /\ UNCHANGED <<composed, result>>
                  /\ \E phase \in {"reading", "gathering"} : Enter(c, phase)
      BY <1>3 DEF Arrives
    <2>2. step[c] = "fetching" /\ UNCHANGED <<order, document, visited, buffered, cut>>
      BY <1>3 DEF Arrives
    <2>3. CASE Refuse(c)
      BY <1>1, <2>1, <2>2, <2>3, SettleLnurl DEF Refuse
    <2>4. ASSUME site = Requested(c).site, NEW phase \in {"reading", "gathering"}, Enter(c, phase),
                 UNCHANGED <<composed, result>>
          PROVE  LnurlInv'
      <3>1. LnurlTypeOK' /\ ComposedWhileOpen'
        BY <1>1, <2>1, <2>2, <2>4 DEF Enter, LnurlInv, LnurlTypeOK, ComposedWhileOpen, Steps, Open
      <3>2. buffered[c] <= MaxBytes
        BY <1>1, <2>2 DEF LnurlInv, HeldAt
      <3>3. ASSUME NEW e \in LnurlCalls
            PROVE  VisitsAt(e)' /\ Vouched(e)' /\ BoundedAt(e)' /\ HeldAt(e)'
        <4>1. VisitsAt(e)' /\ Vouched(e)'
          BY <1>1, <2>2, <2>4 DEF Enter, LnurlInv, VisitsAt, Vouched, Open
        <4>2. BoundedAt(e)' /\ HeldAt(e)'
          BY <1>1, <2>1, <2>2, <2>4, <3>2 DEF Enter, LnurlInv, BoundedAt, HeldAt, Requested
        <4> QED BY <4>1, <4>2
      <3> QED BY <3>1, <3>3 DEF LnurlInv
    <2> QED BY <2>1, <2>3, <2>4
  <1>4. CASE Chunk(c)
    <2>1. PICK n \in 1..MaxChunk :
            /\ buffered' = [buffered EXCEPT ![c] = @ + n]
            /\ IF buffered[c] + n > MaxBytes THEN Enter(c, "cancelling") ELSE UNCHANGED step
      BY <1>4 DEF Chunk
    <2>2. /\ step[c] = "reading" /\ UNCHANGED <<order, document, visited, server, composed, cut, result>>
          /\ buffered[c] \in Nat /\ buffered[c] <= MaxBytes
      BY <1>1, <1>4 DEF Chunk, LnurlInv, BoundedAt
    <2>3. buffered[c] + n \in 0..(MaxBytes + MaxChunk)
      BY <2>1, <2>2
    <2>4a. /\ buffered' \in [LnurlCalls -> 0..(MaxBytes + MaxChunk)] /\ step' \in [LnurlCalls -> Steps]
          /\ \A e \in LnurlCalls : step'[e] \in Open <=> step[e] \in Open
      BY <1>1, <2>1, <2>2, <2>3 DEF Enter, Steps, Open
    <2>4. LnurlTypeOK' /\ ComposedWhileOpen'
      BY <2>2, <2>4a DEF LnurlInv, LnurlTypeOK, ComposedWhileOpen
    <2>5. ASSUME NEW e \in LnurlCalls
          PROVE  VisitsAt(e)' /\ Vouched(e)' /\ BoundedAt(e)' /\ HeldAt(e)'
      <3>1. VisitsAt(e)' /\ Vouched(e)'
        BY <1>1, <2>1, <2>2 DEF Enter, LnurlInv, VisitsAt, Vouched, Open
      <3>2. BoundedAt(e)' /\ HeldAt(e)'
        BY <1>1, <2>1, <2>2, <2>3 DEF Enter, LnurlInv, BoundedAt, HeldAt, Requested
      <3> QED BY <3>1, <3>2
    <2> QED BY <2>4, <2>5 DEF LnurlInv
  <1>5. CASE TimeoutCuts(c)
    BY <1>5 DEF TimeoutCuts, LnurlInv, LnurlTypeOK, ComposedWhileOpen, VisitsAt, Vouched,
       BoundedAt, HeldAt, Requested
  <1>6. CASE Text(c)
    <2>1. PICK n \in 1..(MaxBytes + MaxChunk) :
            /\ buffered' = [buffered EXCEPT ![c] = n]
            /\ IF n > MaxBytes THEN Refuse(c) ELSE Enter(c, "read") /\ UNCHANGED <<composed, result>>
      BY <1>6 DEF Text
    <2>2. step[c] = "gathering" /\ UNCHANGED <<order, document, visited, server, cut>>
      BY <1>6 DEF Text
    <2>3. /\ buffered' \in [LnurlCalls -> 0..(MaxBytes + MaxChunk)] /\ buffered'[c] = n
          /\ \A e \in LnurlCalls \ {c} : buffered'[e] = buffered[e]
      BY <1>1, <2>1
    <2>4. CASE Refuse(c)
      BY <1>1, <2>2, <2>3, <2>4, SettleLnurl DEF Refuse
    <2>5. CASE n <= MaxBytes /\ Enter(c, "read") /\ UNCHANGED <<composed, result>>
      <3>1. step' = [step EXCEPT ![c] = "read"]
        BY <2>5 DEF Enter
      <3>2. LnurlTypeOK' /\ ComposedWhileOpen'
        BY <1>1, <2>2, <2>3, <2>5, <3>1 DEF LnurlInv, LnurlTypeOK, ComposedWhileOpen, Steps, Open
      <3>3. ASSUME NEW e \in LnurlCalls
            PROVE  VisitsAt(e)' /\ Vouched(e)' /\ BoundedAt(e)' /\ HeldAt(e)'
        <4>1. VisitsAt(e)' /\ Vouched(e)'
          BY <1>1, <2>2, <3>1 DEF LnurlInv, VisitsAt, Vouched, Open
        <4>2. BoundedAt(e)' /\ HeldAt(e)'
          BY <1>1, <2>2, <2>3, <2>5, <3>1 DEF LnurlInv, BoundedAt, HeldAt, Requested
        <4> QED BY <4>1, <4>2
      <3> QED BY <3>2, <3>3 DEF LnurlInv
    <2>6. n <= MaxBytes \/ n > MaxBytes
      OBVIOUS
    <2> QED BY <2>1, <2>4, <2>5, <2>6
  <1> QED BY <1>2, <1>3, <1>4, <1>5, <1>6

LEMMA BodyInv ==
  ASSUME LnurlInv, NEW c \in LnurlCalls, Body(c), UNCHANGED made
  PROVE  LnurlInv'
  <1>1. /\ order \in [LnurlCalls -> Orders \cup {NoOrder}]
        /\ server \in [LnurlCalls -> Sites \cup {NoSite}] /\ cut \subseteq LnurlCalls
        /\ step \in [LnurlCalls -> Steps] /\ step[c] \in {"reading", "read"}
        /\ buffered \in [LnurlCalls -> 0..(MaxBytes + MaxChunk)]
        /\ UNCHANGED <<order, visited, server, buffered, cut>>
        /\ document \in [LnurlCalls -> Documents \cup {NoDocument}]
    BY DEF Body, LnurlInv, LnurlTypeOK
  <1>2. CASE Refuse(c) /\ UNCHANGED document
    BY <1>1, <1>2, SettleLnurl DEF Refuse
  <1>3. ASSUME NEW phase \in {"discovered", "done"}, NEW value \in {"none", "document", "invoice"},
               Settle(c, phase, value), phase = "discovered" => c \in Invoices,
               \/ UNCHANGED document /\ document[c] # NoDocument /\ phase = "done"
               \/ /\ document[c] = NoDocument
                  /\ \E d \in Documents :
                       ValidDiscovery(d) /\ document' = [document EXCEPT ![c] = d]
        PROVE  LnurlInv'
    <2>1. LnurlTypeOK' /\ ComposedWhileOpen'
      BY <1>1, <1>3 DEF Settle, Enter, LnurlInv, LnurlTypeOK, ComposedWhileOpen, Steps, Open
    <2>2. step' = [step EXCEPT ![c] = phase]
      BY <1>3 DEF Settle, Enter
    <2>3. ASSUME NEW e \in LnurlCalls
          PROVE  VisitsAt(e)' /\ Vouched(e)' /\ BoundedAt(e)' /\ HeldAt(e)'
      <3>1. VisitsAt(e) /\ Vouched(e) /\ BoundedAt(e) /\ HeldAt(e)
        BY DEF LnurlInv
      <3>2. VisitsAt(e)'
        <4>1. CASE e # c
          BY <1>1, <1>3, <2>2, <3>1, <4>1 DEF VisitsAt, Open
        <4>2. CASE e = c
          <5>1. /\ Len(visited[c]) = IF document[c] = NoDocument THEN 1 ELSE 2
                /\ visited[c] \in Seq(Urls)
            BY <1>1, <3>1, <4>2 DEF VisitsAt, Open, LnurlInv, LnurlTypeOK
          <5>2. step'[c] = phase /\ document'[c] # NoDocument /\ visited' = visited
            BY <1>1, <1>3, <2>2
          <5>3. Len(visited[c]) \in 1..2 /\ (phase = "discovered" => Len(visited[c]) = 1)
            BY <1>3, <5>1
          <5>4. phase \in {"discovered", "done"} /\ (phase = "discovered" => c \in Invoices)
            BY <1>3
          <5>5. step'[c] \notin Open /\ step'[c] # "idle"
            BY <5>2, <5>4 DEF Open
          <5>6. step'[c] = "discovered" => Len(visited'[c]) = 1 /\ document'[c] # NoDocument /\ c \in Invoices
            BY <5>2, <5>3, <5>4
          <5>7. Len(visited'[c]) > 0
            BY <5>1, <5>2, <5>3
          <5>8. Len(visited'[c]) <= 2
            BY <5>1, <5>2, <5>3
          <5>9. VisitsAt(c)'
            BY <5>5, <5>6, <5>7, <5>8 DEF VisitsAt
          <5> QED BY <4>2, <5>9
        <4> QED BY <4>1, <4>2
      <3>3. Vouched(e)'
        BY <1>1, <1>3, <3>1 DEF Vouched, VisitsAt, Open
      <3>4. BoundedAt(e)' /\ HeldAt(e)'
        BY <1>1, <2>2, <3>1 DEF BoundedAt, HeldAt, Requested
      <3> QED BY <3>2, <3>3, <3>4
    <2> QED BY <2>1, <2>3 DEF LnurlInv
  <1> QED BY <1>1, <1>2, <1>3 DEF Body, LnurlCalls

LEMMA CallerStep == IInv /\ LnurlInv /\ [CallerNext]_callerVars => (IInv /\ LnurlInv)'
  <1> SUFFICES ASSUME IInv, LnurlInv, [CallerNext]_callerVars PROVE (IInv /\ LnurlInv)'
    OBVIOUS
  <1>1. [Next]_vars
    BY DEF CallerNext, RequestSteps, LnurlSteps, AbortAll, Next, callerVars, vars
  <1>2. LnurlInv'
    <2>1. CASE UNCHANGED <<made, lnurlVars>>
      BY <2>1 DEF lnurlVars, LnurlInv, LnurlTypeOK, ComposedWhileOpen, VisitsAt, Vouched,
         BoundedAt, HeldAt, Requested
    <2>2. CASE AbortAll /\ UNCHANGED made
      BY <2>2 DEF AbortAll, LnurlInv, LnurlTypeOK, ComposedWhileOpen, VisitsAt, Vouched,
         BoundedAt, HeldAt, Requested
    <2>3. CASE LnurlSteps /\ UNCHANGED made
      BY <2>3, DiscoverInv, CallbackInv, ReadingInv, BodyInv DEF LnurlSteps, LnurlStep
    <2> QED BY <2>1, <2>2, <2>3 DEF CallerNext, RequestSteps, callerVars
  <1> QED BY <1>1, <1>2, InvStep

LEMMA CallerInvariant == CallerSpec => [](IInv /\ LnurlInv)
  <1>1. CallerInit => IInv /\ LnurlInv
    BY RequestInit, LnurlInitially DEF CallerInit
  <1> QED BY <1>1, CallerStep, PTL DEF CallerSpec

\* Every behaviour of the two clients is one of the request loop: what is
\* proved of LspRequest holds next to the LNURL calls too.
THEOREM CallerImplementsRequests == CallerSpec => Spec
  <1>1. CallerInit => Init
    BY DEF CallerInit
  <1>2. [CallerNext]_callerVars => [Next]_vars
    BY DEF CallerNext, RequestSteps, LnurlSteps, AbortAll, Next, callerVars, vars
  <1> QED BY <1>1, <1>2, PTL DEF CallerSpec, Spec

\* An invoice is asked only where, and for what, the order and the document allow.
THEOREM CallerCallbackVouched == CallerSpec => []CallbackVouched
  <1>1. LnurlInv => CallbackVouched
    <2> SUFFICES ASSUME LnurlInv, NEW c \in Invoices, Len(visited[c]) = 2
                 PROVE  LET o == order[c]
                            d == document[c]
                        IN /\ visited[c][2].site = d.site /\ (o.allowCross \/ d.site = o.site)
                           /\ \A i \in 1..2 : visited[c][i].scheme = "https" \/ o.allowHttp
                                              \/ visited[c][i].site \in LocalSites
                           /\ 0 < o.amount /\ d.min <= o.amount /\ o.amount <= d.max
                           /\ o.comment <= d.comment
                           /\ o.asset # "none" => o.asset \in (d.accepted \cup {d.payout})
                                                  /\ o.units = "some"
      BY DEF CallbackVouched
    <2>1. Vouched(c)
      BY DEF LnurlInv, LnurlCalls
    <2>2. /\ order[c] \in OrderType /\ document[c] \in DocumentType
          /\ visited[c][1] = DiscoveryUrl(order[c]) /\ PlainAllowed(visited[c][1], order[c])
          /\ visited[c][2] = Url(document[c].scheme, document[c].site)
          /\ CallbackOrigin(order[c], document[c]) /\ TermsAdvertised(order[c], document[c])
          /\ ValidDiscovery(document[c])
      BY <2>1 DEF Vouched
    <2>3. /\ visited[c][2].site = document[c].site
          /\ order[c].allowCross \/ document[c].site = order[c].site
          /\ \A i \in 1..2 : visited[c][i].scheme = "https" \/ order[c].allowHttp
                             \/ visited[c][i].site \in LocalSites
      BY <2>2 DEF CallbackOrigin, PlainAllowed, DiscoveryUrl, Url
    <2>4. /\ 0 < order[c].amount /\ document[c].min <= order[c].amount
          /\ order[c].amount <= document[c].max /\ order[c].comment <= document[c].comment
      BY <2>2 DEF TermsAdvertised, ValidDiscovery, OrderType, DocumentType
    <2>5. order[c].asset # "none" => order[c].asset \in (document[c].accepted \cup {document[c].payout})
                                     /\ order[c].units = "some"
      BY <2>2 DEF TermsAdvertised, Accepted, OrderType
    <2> QED BY <2>3, <2>4, <2>5
  <1> QED BY <1>1, CallerInvariant, PTL

\* No response exceeds the limit by more than one chunk, and all that is read
\* comes from the server that was asked.
THEOREM CallerReadsBounded == CallerSpec => []ReadsBounded
  <1>1. LnurlInv => ReadsBounded
    BY DEF LnurlInv, LnurlTypeOK, BoundedAt, ReadsBounded
  <1> QED BY <1>1, CallerInvariant, PTL

\* The caller's signal keeps no listener of a settled call of either client.
THEOREM CallerListenersReleased == CallerSpec => []CallersReleased
  <1>1. IInv /\ LnurlInv => CallersReleased
    BY DEF IInv, ListenWhileLive, ListenersReleased, Live, LnurlInv, ComposedWhileOpen,
       Open, CallersReleased
  <1> QED BY <1>1, CallerInvariant, PTL

\* After an abort neither client sends anything.
THEOREM CallerNothingSentAfterAbort == CallerSpec => NothingSentAfterAbort
  <1>1. LnurlTypeOK /\ [CallerNext]_callerVars
          => [aborted => \A c \in LnurlCalls : visited'[c] = visited[c]]_callerVars
    <2> SUFFICES ASSUME CallerNext, aborted, NEW c \in LnurlCalls
                 PROVE  visited'[c] = visited[c]
      OBVIOUS
    <2>1. CASE RequestSteps \/ AbortAll
      BY <2>1 DEF RequestSteps, AbortAll, lnurlVars
    <2>2. ASSUME NEW e \in LnurlCalls, LnurlStep(e) PROVE visited' = visited
      BY <2>2 DEF LnurlStep, Discover, Callback, FetchUrl, FetchRejects, Arrives, Chunk,
         Cancelled, Text, ReadRejects, Body, TimeoutCuts, Refuse, Settle
    <2> QED BY <2>1, <2>2 DEF CallerNext, LnurlSteps
  <1>2. LnurlInv => LnurlTypeOK
    BY DEF LnurlInv
  <1>3. /\ [CallerNext]_callerVars
        /\ [aborted => \A r \in Requests : sent'[r] <= sent[r]]_vars
        /\ [aborted => \A c \in LnurlCalls : visited'[c] = visited[c]]_callerVars
        /\ TypeOK
        => [aborted => /\ \A r \in Requests : sent'[r] <= sent[r]
                       /\ \A c \in LnurlCalls : visited'[c] = visited[c]]_callerVars
    BY DEF TypeOK, vars, callerVars
  <1>4. IInv => TypeOK
    BY DEF IInv
  <1> QED BY <1>1, <1>2, <1>3, <1>4, CallerInvariant, CallerImplementsRequests,
             RequestNoSendAfterAbort, PTL DEF NothingSentAfterAbort, NoSendAfterAbort, CallerSpec
-----------------------------------------------------------------------------
(* No call is left hanging.  What a call under way can do without the       *)
(* network or a server: the guards of Forced and of LnurlForced.           *)
CanGoOn(r) ==
  \/ pc[r] \in {"fetching", "reading"} /\ r \in listening \cup signalled
  \/ pc[r] \in {"backoff", "next"}
LnurlCanGoOn(c) ==
  \/ c \in composed \ cut
  \/ c \in cut /\ step[c] \in {"fetching", "reading", "gathering"}
  \/ step[c] \in {"discovered", "cancelling", "read"}

\* Every call under way of either client waits for a timer, for a signal that
\* has fired or for its own continuation, never for a server alone.
NoneHangs ==
  /\ \A r \in Requests : pc[r] \notin {"idle", "done", "failed"} => r \in made /\ CanGoOn(r)
  /\ \A c \in LnurlCalls :
       step[c] \notin {"idle", "done", "failed"} => c \in made /\ LnurlCanGoOn(c)

(* The most steps a call has left: the requests still to come, the attempts *)
(* its budget allows, and what is left of the one under way.               *)
RequestLeft(r) ==
  CASE pc[r] = "idle" -> 16 * MaxRetries + 18
    [] pc[r] \in {"done", "failed"} -> 0
    [] OTHER ->
         (IF r \in Resolves \ callback THEN 8 * (MaxRetries + 1) ELSE 0)
         + 8 * (MaxRetries - attempt[r])
         + (IF pc[r] = "backoff" THEN 8 ELSE IF pc[r] = "next" THEN 7
            ELSE IF pc[r] = "fetching" THEN 4 ELSE 2)
         + (IF r \in signalled THEN 0 ELSE IF pc[r] = "next" THEN 0 ELSE 1)
LnurlLeft(c) ==
  CASE step[c] = "idle" -> 2 * MaxBytes + 17
    [] step[c] \in {"done", "failed"} -> 0
    [] step[c] = "discovered" -> MaxBytes + 8
    [] OTHER ->
         (IF document[c] = NoDocument THEN MaxBytes + 10 ELSE 0)
         + (IF step[c] = "fetching" THEN MaxBytes + 4
            ELSE IF step[c] = "reading" THEN MaxBytes + 3 - buffered[c]
            ELSE IF step[c] = "gathering" THEN 3 ELSE 2)
         + (IF c \in composed \ cut THEN 1 ELSE 0)

\* Every step of a call brings it nearer to its end, and no step of another
\* call, and no abort, takes it further away: whatever the servers answer, no
\* retry, no chunk and no second request goes on for ever.
CallersRunDown ==
  [][/\ \A r \in Requests :
         /\ RequestLeft(r) \in Nat /\ RequestLeft(r)' <= RequestLeft(r)
         /\ CallStep(r) => RequestLeft(r)' < RequestLeft(r)
     /\ \A c \in LnurlCalls :
         /\ LnurlLeft(c) \in Nat /\ LnurlLeft(c)' <= LnurlLeft(c)
         /\ LnurlStep(c) => LnurlLeft(c)' < LnurlLeft(c)]_callerVars
\* Only the calls the application makes ever start.
OnlyMade ==
  /\ \A r \in Requests : pc[r] # "idle" => r \in made
  /\ \A c \in LnurlCalls : step[c] # "idle" => c \in made

LEMMA CallsApart ==
  ASSUME TypeOK, NEW r \in Requests, CallStep(r), NEW q \in Requests \ {r}
  PROVE  /\ pc'[q] = pc[q] /\ attempt'[q] = attempt[q]
         /\ q \in callback' <=> q \in callback
         /\ q \in signalled' <=> q \in signalled
  <1>1. pc'[q] = pc[q] /\ attempt'[q] = attempt[q]
    BY DEF TypeOK, CallStep, Request, Resume, Attempt, TimeoutFires, FetchFails, FetchRedirected,
       FetchAnswered, ReadFails, ReadDone, Parse, RepeatOrRefuse, BackoffFires,
       BackoffInterrupted, Backoff, Throw, Goto
  <1>2. (q \in callback' <=> q \in callback) /\ (q \in signalled' <=> q \in signalled)
    BY DEF CallStep, Request, Resume, Attempt, TimeoutFires, FetchFails, FetchRedirected,
       FetchAnswered, ReadFails, ReadDone, Parse, RepeatOrRefuse, BackoffFires,
       BackoffInterrupted, Backoff, Throw, Goto
  <1> QED BY <1>1, <1>2

LEMMA LnurlCallsApart ==
  ASSUME LnurlTypeOK, NEW c \in LnurlCalls, LnurlStep(c), NEW e \in LnurlCalls \ {c}
  PROVE  /\ step'[e] = step[e] /\ document'[e] = document[e] /\ buffered'[e] = buffered[e]
         /\ e \in composed' <=> e \in composed
         /\ e \in cut' <=> e \in cut
  <1>1. step'[e] = step[e] /\ document'[e] = document[e]
    BY DEF LnurlTypeOK, LnurlStep, Discover, Callback, FetchRejects, Arrives, Chunk, Cancelled,
       Text, ReadRejects, Body, TimeoutCuts, FetchUrl, Refuse, Settle, Enter
  <1>2. buffered'[e] = buffered[e]
    BY DEF LnurlTypeOK, LnurlStep, Discover, Callback, FetchRejects, Arrives, Chunk, Cancelled,
       Text, ReadRejects, Body, TimeoutCuts, FetchUrl, Refuse, Settle, Enter
  <1>3. (e \in composed' <=> e \in composed) /\ (e \in cut' <=> e \in cut)
    BY DEF LnurlStep, Discover, Callback, FetchRejects, Arrives, Chunk, Cancelled,
       Text, ReadRejects, Body, TimeoutCuts, FetchUrl, Refuse, Settle, Enter
  <1> QED BY <1>1, <1>2, <1>3

LEMMA OnlyMadeStep ==
  ASSUME TypeOK, LnurlTypeOK, OnlyMade, [CallerNext]_callerVars
  PROVE  OnlyMade'
  <1>1. CASE UNCHANGED callerVars
    BY <1>1 DEF callerVars, vars, lnurlVars, OnlyMade
  <1>2. CASE RequestSteps /\ UNCHANGED made
    <2>1. PICK r \in made \cap Requests : CallStep(r)
      BY <1>2 DEF RequestSteps
    <2>2. \A q \in Requests : q # r => pc'[q] = pc[q]
      BY <2>1, CallsApart
    <2> QED BY <1>2, <2>1, <2>2 DEF RequestSteps, lnurlVars, OnlyMade
  <1>3. CASE LnurlSteps /\ UNCHANGED made
    <2>1. PICK c \in made \cap LnurlCalls : LnurlStep(c)
      BY <1>3 DEF LnurlSteps
    <2>2. \A e \in LnurlCalls : e # c => step'[e] = step[e]
      BY <2>1, LnurlCallsApart
    <2> QED BY <1>3, <2>1, <2>2 DEF LnurlSteps, vars, OnlyMade
  <1>4. CASE AbortAll /\ UNCHANGED made
    BY <1>4 DEF AbortAll, Abort, OnlyMade
  <1> QED BY <1>1, <1>2, <1>3, <1>4 DEF CallerNext

\* No call of either client is ever left to a server that does not answer.
THEOREM CallerNoneHangs == CallerSpec => []NoneHangs
  <1>1. IInv /\ LnurlInv /\ OnlyMade => NoneHangs
    BY DEF IInv, TypeOK, Phases, ListenWhileLive, Live, LnurlInv, LnurlTypeOK, Steps,
       ComposedWhileOpen, Open, OnlyMade, NoneHangs, CanGoOn, LnurlCanGoOn
  <1>2. CallerInit => OnlyMade
    BY DEF CallerInit, Init, LnurlInit, OnlyMade
  <1>3. IInv /\ LnurlInv /\ OnlyMade /\ [CallerNext]_callerVars => OnlyMade'
    BY OnlyMadeStep DEF IInv, LnurlInv
  <1> QED BY <1>1, <1>2, <1>3, CallerInvariant, PTL DEF CallerSpec

LEMMA RequestLeftNat ==
  ASSUME TypeOK, NEW r \in Requests
  PROVE  /\ RequestLeft(r) \in Nat
         /\ pc[r] # "idle" => RequestLeft(r) < 16 * MaxRetries + 18
  <1>1. pc[r] \in Phases /\ attempt[r] \in 0..MaxRetries
    BY DEF TypeOK
  <1> QED BY <1>1 DEF Phases, RequestLeft

LEMMA RequestStepDown ==
  ASSUME TypeOK, TypeOK', NEW r \in Requests, CallStep(r)
  PROVE  RequestLeft(r)' < RequestLeft(r)
  <1>1. /\ pc \in [Requests -> Phases] /\ pc'[r] \in Phases
        /\ attempt \in [Requests -> 0..MaxRetries] /\ attempt[r] \in 0..MaxRetries
        /\ attempt'[r] \in 0..MaxRetries
    BY DEF TypeOK
  <1>2. CASE pc'[r] \in {"done", "failed"} /\ pc[r] \notin {"done", "failed"}
    BY <1>1, <1>2 DEF RequestLeft, Phases
  <1>3. CASE Request(r) /\ pc'[r] \notin {"done", "failed"}
    BY <1>1, <1>3, RequestLeftNat DEF Request, Attempt, Throw, Goto, RequestLeft
  <1>4. CASE Resume(r) /\ pc'[r] \notin {"done", "failed"}
    BY <1>1, <1>4 DEF Resume, Attempt, Throw, Goto, RequestLeft
  <1>5. CASE TimeoutFires(r)
    BY <1>1, <1>5 DEF TimeoutFires, RequestLeft
  <1>6. CASE Backoff(r) /\ pc[r] \in {"fetching", "reading"} /\ UNCHANGED callback
    <2>1. pc'[r] = "backoff" /\ attempt'[r] = attempt[r] + 1 /\ r \notin signalled'
      BY <1>1, <1>6 DEF Backoff, Goto
    <2> QED BY <1>1, <1>6, <2>1 DEF RequestLeft
  <1>7. CASE FetchAnswered(r)
    BY <1>1, <1>7 DEF FetchAnswered, Goto, RequestLeft
  <1>8. CASE /\ pc[r] = "reading" /\ r \in Resolves \ callback /\ pc' = [pc EXCEPT ![r] = "next"]
             /\ callback' = callback \cup {r} /\ attempt' = [attempt EXCEPT ![r] = 0]
             /\ UNCHANGED signalled
    BY <1>1, <1>8 DEF RequestLeft
  <1>9. CASE BackoffFires(r)
    BY <1>1, <1>9 DEF BackoffFires, Goto, RequestLeft
  <1>10. pc[r] \notin {"done", "failed"}
    BY <1>1 DEF CallStep, Request, Resume, TimeoutFires, FetchFails, FetchRedirected,
       FetchAnswered, ReadFails, ReadDone, BackoffFires, BackoffInterrupted
  <1>11. CASE FetchFails(r)
    BY <1>1, <1>2, <1>6, <1>10, <1>11 DEF FetchFails, Throw, Goto
  <1>12. CASE ReadDone(r)
    BY <1>1, <1>2, <1>6, <1>8, <1>10, <1>12 DEF ReadDone, Parse, RepeatOrRefuse, Throw, Goto
  <1>13. CASE FetchRedirected(r) \/ ReadFails(r) \/ BackoffInterrupted(r)
    BY <1>1, <1>2, <1>10, <1>13 DEF FetchRedirected, ReadFails, BackoffInterrupted, Throw, Goto
  <1> QED BY <1>2, <1>3, <1>4, <1>5, <1>7, <1>9, <1>10, <1>11, <1>12, <1>13 DEF CallStep

LEMMA RequestsDown ==
  ASSUME IInv, IInv', [CallerNext]_callerVars, NEW r \in Requests
  PROVE  /\ RequestLeft(r) \in Nat /\ RequestLeft(r)' <= RequestLeft(r)
         /\ CallStep(r) => RequestLeft(r)' < RequestLeft(r)
  <1>1. TypeOK /\ TypeOK' /\ RequestLeft(r) \in Nat /\ RequestLeft(r)' \in Nat
    BY RequestLeftNat DEF IInv, TypeOK, Phases, RequestLeft
  <1>2. CallStep(r) => RequestLeft(r)' < RequestLeft(r)
    BY <1>1, RequestStepDown
  <1>3. ASSUME NEW q \in Requests \ {r}, CallStep(q) PROVE RequestLeft(r)' = RequestLeft(r)
    BY <1>1, <1>3, CallsApart DEF RequestLeft
  <1>4. ASSUME Abort PROVE RequestLeft(r)' <= RequestLeft(r)
    <2>1. /\ pc'[r] = pc[r] /\ attempt'[r] = attempt[r] /\ callback' = callback
          /\ signalled \subseteq signalled' /\ attempt[r] \in 0..MaxRetries
          /\ pc[r] \in Phases
      BY <1>1, <1>4 DEF Abort, TypeOK
    <2> QED BY <2>1 DEF RequestLeft, Phases
  <1>5. ASSUME UNCHANGED vars PROVE RequestLeft(r)' <= RequestLeft(r)
    <2>1. RequestLeft(r)' = RequestLeft(r)
      BY <1>5 DEF vars, RequestLeft
    <2> QED BY <1>1, <2>1
  <1>6. Abort \/ UNCHANGED vars \/ \E q \in Requests : CallStep(q)
    BY DEF CallerNext, RequestSteps, LnurlSteps, AbortAll, callerVars
  <1> QED BY <1>1, <1>2, <1>3, <1>4, <1>5, <1>6

LEMMA LnurlLeftNat ==
  ASSUME LnurlInv, NEW c \in LnurlCalls
  PROVE  /\ LnurlLeft(c) \in Nat
         /\ step[c] # "idle" => LnurlLeft(c) <= 2 * MaxBytes + 15
  <1>1. step[c] \in Steps /\ buffered[c] \in Nat /\ (step[c] = "reading" => buffered[c] <= MaxBytes)
    BY DEF LnurlInv, LnurlTypeOK, BoundedAt
  <1> QED BY <1>1 DEF Steps, LnurlLeft

LEMMA LnurlStepDown ==
  ASSUME LnurlInv, LnurlInv', NEW c \in LnurlCalls, LnurlStep(c)
  PROVE  LnurlLeft(c)' < LnurlLeft(c)
  <1>1. /\ step \in [LnurlCalls -> Steps] /\ step'[c] \in Steps
        /\ buffered \in [LnurlCalls -> 0..(MaxBytes + MaxChunk)]
        /\ document \in [LnurlCalls -> Documents \cup {NoDocument}]
        /\ buffered[c] \in Nat /\ (step[c] = "reading" => buffered[c] <= MaxBytes)
        /\ c \in composed <=> step[c] \in Open
        /\ step[c] = "discovered" => document[c] # NoDocument
    BY DEF LnurlInv, LnurlTypeOK, ComposedWhileOpen, BoundedAt, VisitsAt
  <1>2. step[c] \notin {"done", "failed"}
    BY <1>1 DEF LnurlStep, Discover, Callback, FetchRejects, Arrives, Chunk, Cancelled,
       Text, ReadRejects, Body, TimeoutCuts, Open
  <1>3. CASE step'[c] \in {"done", "failed"}
    <2>1. LnurlLeft(c)' = 0
      BY <1>3 DEF LnurlLeft
    <2>2. LnurlLeft(c) > 0
      BY <1>1, <1>2 DEF LnurlLeft, Steps
    <2> QED BY <2>1, <2>2
  <1>4. ASSUME NEW url, FetchUrl(c, url), step[c] \in {"idle", "discovered"}, UNCHANGED document,
               step'[c] \notin {"done", "failed"}
        PROVE  LnurlLeft(c)' < LnurlLeft(c)
    <2>1. step'[c] = "fetching" /\ c \in composed' /\ c \notin cut' /\ document'[c] = document[c]
      BY <1>1, <1>4 DEF FetchUrl, Refuse, Settle, Enter
    <2> QED BY <1>1, <1>4, <2>1 DEF LnurlLeft
  <1>5. CASE (Discover(c) \/ Callback(c)) /\ step'[c] \notin {"done", "failed"}
    BY <1>1, <1>4, <1>5 DEF Discover, Callback, Refuse, Settle, Enter
  <1>6. CASE Arrives(c) /\ step'[c] \notin {"done", "failed"}
    <2>1. /\ step[c] = "fetching" /\ step'[c] \in {"reading", "gathering"} /\ composed' = composed
          /\ UNCHANGED <<document, buffered, cut>>
      BY <1>1, <1>6 DEF Arrives, Refuse, Settle, Enter
    <2> QED BY <1>1, <2>1 DEF LnurlLeft
  <1>7. CASE Chunk(c)
    <2>1. PICK n \in 1..MaxChunk :
            /\ buffered' = [buffered EXCEPT ![c] = @ + n]
            /\ IF buffered[c] + n > MaxBytes THEN Enter(c, "cancelling") ELSE UNCHANGED step
      BY <1>7 DEF Chunk
    <2>2. /\ step[c] = "reading" /\ UNCHANGED <<document, composed, cut>>
          /\ buffered'[c] = buffered[c] + n /\ n > 0 /\ n \in Nat
          /\ \/ step'[c] = "cancelling"
             \/ step'[c] = "reading" /\ buffered'[c] <= MaxBytes
      BY <1>1, <1>7, <2>1 DEF Chunk, Enter
    <2> QED BY <1>1, <2>2 DEF LnurlLeft
  <1>8. CASE Body(c) /\ step'[c] \notin {"done", "failed"}
    <2>1. step[c] \in {"reading", "read"} /\ document[c] = NoDocument /\ step'[c] = "discovered"
      BY <1>1, <1>8 DEF Body, Refuse, Settle, Enter
    <2> QED BY <1>1, <2>1 DEF LnurlLeft
  <1>9. CASE TimeoutCuts(c)
    <2>1. /\ c \in composed \ cut /\ c \in cut' /\ step[c] \in Open
          /\ UNCHANGED <<step, document, buffered, composed>>
      BY <1>1, <1>9 DEF TimeoutCuts
    <2> QED BY <1>1, <2>1 DEF LnurlLeft, Open
  <1>10. CASE FetchRejects(c) \/ Cancelled(c) \/ ReadRejects(c)
    <2>1. step'[c] = "failed"
      BY <1>1, <1>10 DEF FetchRejects, Cancelled, ReadRejects, Refuse, Settle, Enter
    <2> QED BY <1>3, <2>1
  <1>11. CASE Text(c) /\ step'[c] \notin {"done", "failed"}
    <2>1. /\ step[c] = "gathering" /\ step'[c] = "read" /\ UNCHANGED <<document, composed, cut>>
      BY <1>1, <1>11 DEF Text, Refuse, Settle, Enter
    <2> QED BY <1>1, <2>1 DEF LnurlLeft
  <1> QED BY <1>3, <1>5, <1>6, <1>7, <1>8, <1>9, <1>10, <1>11 DEF LnurlStep

LEMMA LnurlsDown ==
  ASSUME LnurlInv, LnurlInv', [CallerNext]_callerVars, NEW c \in LnurlCalls
  PROVE  /\ LnurlLeft(c) \in Nat /\ LnurlLeft(c)' <= LnurlLeft(c)
         /\ LnurlStep(c) => LnurlLeft(c)' < LnurlLeft(c)
  <1>1. LnurlTypeOK /\ LnurlLeft(c) \in Nat
    BY LnurlLeftNat DEF LnurlInv
  <1>2. ASSUME LnurlStep(c) PROVE LnurlLeft(c)' < LnurlLeft(c)
    BY <1>2, LnurlStepDown
  <1>3. ASSUME NEW e \in LnurlCalls \ {c}, LnurlStep(e) PROVE LnurlLeft(c)' = LnurlLeft(c)
    BY <1>1, <1>3, LnurlCallsApart DEF LnurlLeft
  <1>4. ASSUME AbortAll PROVE LnurlLeft(c)' <= LnurlLeft(c)
    <2>1. step' = step /\ document' = document /\ buffered' = buffered /\ composed' = composed
          /\ cut \subseteq cut'
      BY <1>4 DEF AbortAll
    <2>2. /\ step[c] \in Steps /\ buffered[c] \in Nat
          /\ (step[c] = "reading" => buffered[c] <= MaxBytes)
      BY DEF LnurlInv, LnurlTypeOK, BoundedAt
    <2> QED BY <2>1, <2>2 DEF LnurlLeft, Steps
  <1>5. ASSUME UNCHANGED lnurlVars PROVE LnurlLeft(c)' <= LnurlLeft(c)
    <2>1. LnurlLeft(c)' = LnurlLeft(c)
      BY <1>5 DEF lnurlVars, LnurlLeft
    <2> QED BY <1>1, <2>1
  <1>6. LnurlLeft(c)' < LnurlLeft(c) => LnurlLeft(c)' <= LnurlLeft(c)
    <2>1. LnurlLeft(c)' \in Nat
      <3>1. step'[c] \in Steps /\ buffered'[c] \in Nat /\ (step'[c] = "reading" => buffered'[c] <= MaxBytes)
        BY DEF LnurlInv, LnurlTypeOK, BoundedAt
      <3> QED BY <3>1 DEF Steps, LnurlLeft
    <2> QED BY <1>1, <2>1
  <1>7. AbortAll \/ UNCHANGED lnurlVars \/ \E e \in LnurlCalls : LnurlStep(e)
    BY DEF CallerNext, RequestSteps, LnurlSteps, callerVars
  <1> QED BY <1>1, <1>2, <1>3, <1>4, <1>5, <1>6, <1>7

\* A call of either client takes at most a fixed number of steps, whatever the
\* servers and the other calls do; by CallerNoneHangs it takes them, and settles.
THEOREM CallerRunsDown == CallerSpec => CallersRunDown
  <1>1. IInv /\ LnurlInv /\ (IInv /\ LnurlInv)' /\ [CallerNext]_callerVars
        => [/\ \A r \in Requests :
                 /\ RequestLeft(r) \in Nat /\ RequestLeft(r)' <= RequestLeft(r)
                 /\ CallStep(r) => RequestLeft(r)' < RequestLeft(r)
            /\ \A c \in LnurlCalls :
                 /\ LnurlLeft(c) \in Nat /\ LnurlLeft(c)' <= LnurlLeft(c)
                 /\ LnurlStep(c) => LnurlLeft(c)' < LnurlLeft(c)]_callerVars
    BY RequestsDown, LnurlsDown
  <1> QED BY <1>1, CallerStep, CallerInvariant, PTL DEF CallerSpec, CallersRunDown
=============================================================================
