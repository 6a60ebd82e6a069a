----------------------------- MODULE LspRequest -----------------------------
(***************************************************************************)
(* The request loop of LspClient (src/src/lsp-client.js, _req): attempts,  *)
(* exponential backoff, a timeout per attempt and one AbortSignal of the   *)
(* caller that any number of requests share.  An action is one synchronous *)
(* segment of that loop.  The network and the LSP server are external: an  *)
(* attempt may fail, hang, or be answered at any time.  A call without a   *)
(* signal behaves like one whose signal is never aborted.                  *)
(***************************************************************************)
EXTENDS Naturals

CONSTANTS
  Reads,      \* calls of one GET that may be repeated: getInfo(), ...
  Posts,      \* onchainSend(), lightningReceive(), lightningSend()
  Resolves,   \* resolveAddress(): a discovery, then the LNURL callback
  MaxRetries  \* this._maxRetries

Requests == Reads \cup Posts \cup Resolves

ASSUME RequestAssumption ==
  /\ MaxRetries \in Nat
  /\ Reads \cap Posts = {} /\ Reads \cap Resolves = {} /\ Posts \cap Resolves = {}

VARIABLES
  pc,         \* where each call is
  callback,   \* the resolves that are at their second request, the callback
  attempt,    \* the attempt of the loop
  status,     \* the class of the HTTP status received last
  listening,  \* the calls with abort listeners, on the caller's signal too
  signalled,  \* the calls whose attempt signal or backoff was aborted
  aborted,    \* has the caller aborted its signal?
  sent,       \* history: how often the current request went out
  outcome     \* what the call returned or threw

vars == <<pc, callback, attempt, status, listening, signalled, aborted, sent, outcome>>

Statuses == {"none", "ok", "retry", "refused"}  \* retry: 502, 503, 504, 429
Init ==
  /\ pc = [r \in Requests |-> "idle"]
  /\ callback = {} /\ attempt = [r \in Requests |-> 0]
  /\ status = [r \in Requests |-> "none"]
  /\ listening = {} /\ signalled = {} /\ aborted = FALSE
  /\ sent = [r \in Requests |-> 0]
  /\ outcome = [r \in Requests |-> "none"]
-----------------------------------------------------------------------------
Goto(r, phase) == pc' = [pc EXCEPT ![r] = phase]

\* What r throws: an LspError, or the abort reason or stream error itself.
Throw(r, error) == Goto(r, "failed") /\ outcome' = [outcome EXCEPT ![r] = error]

\* Mutant: every GET is taken for repeatable.
RepeatableGet(r) == r \in Reads \cup Resolves
\* A POST is not idempotent; the LNURL callback mints an invoice (retry: false).
Repeatable(r) == r \in Reads \/ (r \in Resolves /\ r \notin callback)

CanRetry(r) == Repeatable(r) /\ attempt[r] < MaxRetries

\* The top of the loop.
Attempt(r) ==
  IF aborted
    THEN Throw(r, "LspError") /\ UNCHANGED <<listening, signalled, sent>>
    ELSE /\ Goto(r, "fetching")
         /\ listening' = listening \cup {r} /\ signalled' = signalled \ {r}
         /\ sent' = [sent EXCEPT ![r] = @ + 1]
         /\ UNCHANGED outcome

Request(r) ==
  /\ pc[r] = "idle"
  /\ Attempt(r)
  /\ UNCHANGED <<callback, attempt, status, aborted>>

Resume(r) ==
  /\ pc[r] = "next"
  /\ Attempt(r)
  /\ UNCHANGED <<callback, attempt, status, aborted>>
-----------------------------------------------------------------------------
\* requestSignal.cleanup()
Cleanup(r) == listening' = listening \ {r}

\* wait(backoffMs(attempt), signal): the backoff listens to the caller too.
Backoff(r) ==
  /\ attempt' = [attempt EXCEPT ![r] = @ + 1]
  /\ Goto(r, "backoff")
  /\ listening' = listening \cup {r} /\ signalled' = signalled \ {r}
  /\ UNCHANGED outcome

\* Mutant: the timeout covers the headers and not the body.
TimeoutFiresFetching(r) ==
  /\ pc[r] = "fetching" /\ r \in listening \ signalled
  /\ signalled' = signalled \cup {r}
  /\ UNCHANGED <<pc, callback, attempt, status, listening, aborted, sent, outcome>>
\* The timeout of the attempt aborts its signal; a hung fetch or read ends.
TimeoutFires(r) ==
  /\ pc[r] \in {"fetching", "reading"} /\ r \in listening \ signalled
  /\ signalled' = signalled \cup {r}
  /\ UNCHANGED <<pc, callback, attempt, status, listening, aborted, sent, outcome>>

\* fetch() rejects: the transport failed or the attempt's signal was aborted.
FetchFails(r) ==
  /\ pc[r] = "fetching"
  /\ IF CanRetry(r) /\ ~aborted
       THEN Backoff(r)
       ELSE Throw(r, "LspError") /\ Cleanup(r) /\ UNCHANGED <<attempt, signalled>>
  /\ UNCHANGED <<callback, status, aborted, sent>>

\* Mutant: the error of a redirect skips the cleanup.
FetchRedirectedKeeps(r) ==
  /\ pc[r] = "fetching"
  /\ Throw(r, "LspError") /\ UNCHANGED listening
  /\ UNCHANGED <<callback, attempt, status, signalled, aborted, sent>>
\* assertNoRedirect: a redirected response is refused and never repeated.
FetchRedirected(r) ==
  /\ pc[r] = "fetching"
  /\ Throw(r, "LspError") /\ Cleanup(r)
  /\ UNCHANGED <<callback, attempt, status, signalled, aborted, sent>>

\* The headers arrive; the attempt's signal keeps covering the body.
FetchAnswered(r) ==
  /\ pc[r] = "fetching"
  /\ Goto(r, "reading")
  /\ \E s \in Statuses \ {"none"} : status' = [status EXCEPT ![r] = s]
  /\ UNCHANGED <<callback, attempt, listening, signalled, aborted, sent, outcome>>

\* readResponseText rejects with the error of the stream or of the signal, or
\* refuses a Content-Length or a size with an LspError; neither is repeated.
ReadFails(r) ==
  /\ pc[r] = "reading"
  /\ \E error \in {"LspError", "raw"} : Throw(r, error)
  /\ Cleanup(r)
  /\ UNCHANGED <<callback, attempt, status, signalled, aborted, sent>>

\* A complete body is parsed.  The discovery of a resolve names the callback,
\* which is fetched next, with the same options.
Parse(r) ==
  /\ \/ /\ r \in Resolves \ callback
        /\ Goto(r, "next") /\ callback' = callback \cup {r}
        /\ attempt' = [attempt EXCEPT ![r] = 0] /\ sent' = [sent EXCEPT ![r] = 0]
        /\ UNCHANGED outcome
     \/ /\ r \notin Resolves \ callback
        /\ Goto(r, "done") /\ outcome' = [outcome EXCEPT ![r] = "result"]
        /\ UNCHANGED <<callback, attempt, sent>>
     \/ Throw(r, "LspError") /\ UNCHANGED <<callback, attempt, sent>>
  /\ Cleanup(r) /\ UNCHANGED signalled

\* 502, 503, 504 and 429 are repeated after a backoff, which rejects at once
\* when the caller has aborted meanwhile.
RepeatOrRefuse(r) ==
  IF status[r] = "retry" /\ CanRetry(r)
    THEN IF aborted
           THEN Throw(r, "raw") /\ Cleanup(r) /\ UNCHANGED <<attempt, signalled>>
           ELSE Backoff(r)
    ELSE Throw(r, "LspError") /\ Cleanup(r) /\ UNCHANGED <<attempt, signalled>>

ReadDone(r) ==
  /\ pc[r] = "reading"
  /\ \/ status[r] = "ok" /\ Parse(r)
     \/ status[r] # "ok" /\ RepeatOrRefuse(r) /\ UNCHANGED <<callback, sent>>
  /\ UNCHANGED <<status, aborted>>
-----------------------------------------------------------------------------
\* The backoff timer fires and removes its listener.
BackoffFires(r) ==
  /\ pc[r] = "backoff" /\ r \notin signalled
  /\ Goto(r, "next") /\ Cleanup(r)
  /\ UNCHANGED <<callback, attempt, status, signalled, aborted, sent, outcome>>

\* The abort listener of the backoff rejects with the caller's reason.
BackoffInterrupted(r) ==
  /\ pc[r] = "backoff" /\ r \in signalled
  /\ Throw(r, "raw") /\ Cleanup(r)
  /\ UNCHANGED <<callback, attempt, status, signalled, aborted, sent>>

\* The caller aborts: every listener on its signal runs at once.
Abort ==
  /\ ~aborted /\ aborted' = TRUE
  /\ signalled' = signalled \cup listening
  /\ UNCHANGED <<pc, callback, attempt, status, listening, sent, outcome>>
-----------------------------------------------------------------------------
CallStep(r) ==
  \/ Request(r) \/ Resume(r) \/ TimeoutFires(r)
  \/ FetchFails(r) \/ FetchRedirected(r) \/ FetchAnswered(r)
  \/ ReadFails(r) \/ ReadDone(r) \/ BackoffFires(r) \/ BackoffInterrupted(r)

Next == (\E r \in Requests : CallStep(r)) \/ Abort

Spec == Init /\ [][Next]_vars

(* Timers fire, continuations run, and a fetch or a read whose signal is    *)
(* aborted rejects.  Nothing is assumed of the network or of the server.   *)
Forced(r) ==
  \/ TimeoutFires(r) \/ BackoffFires(r) \/ BackoffInterrupted(r)
  \/ Resume(r)
  \/ r \in signalled /\ (FetchFails(r) \/ ReadFails(r))
FairSpec == Spec /\ \A r \in Requests : WF_vars(Forced(r))
-----------------------------------------------------------------------------
Phases == {"idle", "fetching", "reading", "backoff", "next",
           "done", "failed"}

\* The variables hold values of the program's types; the loop never exceeds
\* its retry budget.
TypeOK ==
  /\ pc \in [Requests -> Phases]
  /\ callback \subseteq Resolves
  /\ attempt \in [Requests -> 0..MaxRetries]
  /\ status \in [Requests -> Statuses]
  /\ listening \subseteq Requests /\ signalled \subseteq Requests
  /\ aborted \in BOOLEAN
  /\ sent \in [Requests -> 0..(MaxRetries + 1)]
  /\ outcome \in [Requests -> {"none", "result", "LspError", "raw"}]

\* "Idempotent-safe to retry" (lsp-client.js:102): a request that changes the
\* state of the LSP goes out once, whatever fails and however often.
SentOnce == \A r \in Posts \cup callback : sent[r] <= 1

\* An abort of the caller reaches every attempt and backoff under way, also
\* while a body is read: none is left that only the server can end.
AbortReaches ==
  aborted => \A r \in Requests : pc[r] \in {"fetching", "reading", "backoff"} => r \in signalled

\* The caller's signal, which may outlive thousands of requests, keeps no
\* listener of one that has settled.
ListenersReleased == \A r \in Requests : pc[r] \in {"done", "failed"} => r \notin listening

\* Once the caller has aborted its signal nothing is sent with it any more, not
\* even the repetition a backoff was waiting for or the callback of a resolve.
NoSendAfterAbort ==
  [][aborted => \A r \in Requests : sent'[r] <= sent[r]]_vars

\* Every call settles, although the server may never answer.
EveryRequestSettles ==
  \A r \in Requests : pc[r] # "idle" ~> pc[r] \in {"done", "failed"}

\* "Failures throw `LspError`" (README.md:488).
FailuresAreLspErrors == \A r \in Requests : outcome[r] # "raw"
=============================================================================
