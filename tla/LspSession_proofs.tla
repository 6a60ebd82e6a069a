------------------------- MODULE LspSession_proofs -------------------------
(***************************************************************************)
(* Proofs about LspSession, for any number of calls, payments, assets,     *)
(* channels, invoices and answers of the LSP.                              *)
(***************************************************************************)
EXTENDS LspSession, FiniteSetTheorems, TLAPS

-----------------------------------------------------------------------------
(* A relay: what is paid was compared with the target, and a HODL payment   *)
(* is claimed only after the target was paid.                              *)
RelayInv ==
  /\ stage \in {"quoting", "paying", "claimed"} =>
       /\ wish.target \in Targets
       /\ wish.policy \in [maxFee : MaxFees, lsp : Keys \cup {None}]
  /\ stage \in {"paying", "claimed"} =>
       /\ answer \in Answers
       /\ SameRelay(wish.target, answer.hodl) /\ LegsHold(wish.target, answer.hodl, answer.quote)
       /\ PolicyHolds(answer.hodl, answer.quote, wish.policy)
  /\ stage = "claimed" => delivered

LEMMA WishTypes ==
  ASSUME NEW w \in Wishes, w.flow = "relay"
  PROVE  /\ w.target \in Targets
         /\ w.policy \in [maxFee : MaxFees, lsp : Keys \cup {None}]
  BY DEF Wishes

LEMMA RelayStep ==
  ASSUME RelayInv, [RelayNext]_relayVars
  PROVE  RelayInv'
  <1> USE DEF RelayInv
  <1>1. CASE PickAsset
    BY <1>1 DEF PickAsset, Choose
  <1>2. CASE SelectAsset
    BY <1>2 DEF SelectAsset, Choose
  <1>3. CASE FundRelay
    BY <1>3 DEF FundRelay, Choose
  <1>4. CASE AskRelay
    <2>1. wish' \in Wishes /\ wish'.flow = "relay" /\ stage' = "quoting"
      BY <1>4 DEF AskRelay, Wish
    <2> QED BY <2>1, WishTypes
  <1>5. CASE QuoteAnswers
    <2>1. stage = "quoting" /\ UNCHANGED <<wish, delivered>>
      BY <1>5 DEF QuoteAnswers
    <2>2. PICK a \in Answers, now \in 1..MaxTime :
            \/ stage' = "refused"
            \/ /\ RelayQuoteHolds(wish.target, a.hodl, a.quote, wish.policy, now)
               /\ answer' = a /\ stage' \in {"paying", "refused"}
      BY <1>5 DEF QuoteAnswers
    <2> QED BY <2>1, <2>2 DEF RelayQuoteHolds
  <1>6. CASE LspDelivers
    BY <1>6 DEF LspDelivers
  <1>7. CASE HodlEnds
    <2>1. stage = "paying" /\ UNCHANGED <<wish, answer, delivered>>
      BY <1>7 DEF HodlEnds
    <2>2. CASE answer.hodl.hash \in Preimages /\ stage' = "claimed"
      <3>1. answer.hodl.hash = wish.target.hash /\ wish.target.hash \notin LspHashes
        BY <2>1, RelayAssumption DEF SameRelay
      <3>2. delivered
        BY <2>2, <3>1 DEF Preimages
      <3> QED BY <2>1, <2>2, <3>2
    <2>3. CASE stage' = "refunded"
      BY <2>1, <2>3
    <2> QED BY <1>7, <2>2, <2>3 DEF HodlEnds
  <1>8. CASE RelayFails
    BY <1>8 DEF RelayFails
  <1>9. CASE UNCHANGED relayVars
    BY <1>9 DEF relayVars
  <1> QED BY <1>1, <1>2, <1>3, <1>4, <1>5, <1>6, <1>7, <1>8, <1>9 DEF RelayNext

LEMMA RelayAtomic == RelayInv => AtomicRelay
  <1> SUFFICES ASSUME RelayInv, stage = "claimed"
               PROVE  /\ delivered
                      /\ answer.hodl.terms.units = wish.target.terms.units
                      /\ answer.hodl.network = wish.target.network
                      /\ answer.hodl.terms.msat <= wish.target.terms.msat + wish.policy.maxFee
                      /\ wish.policy.lsp # None => answer.hodl.payee = wish.policy.lsp
    BY DEF AtomicRelay
  <1>1. delivered /\ SameRelay(wish.target, answer.hodl)
    BY DEF RelayInv
  <1>2. /\ LegsHold(wish.target, answer.hodl, answer.quote)
        /\ PolicyHolds(answer.hodl, answer.quote, wish.policy)
    BY DEF RelayInv
  <1>3. answer.hodl.terms.msat \in Nat /\ wish.target.terms.msat \in Nat
    <2>1. answer.hodl \in Invoices /\ wish.target \in Invoices
      BY RelayAssumption DEF RelayInv
    <2> QED BY <2>1, AssetsAssumption DEF Invoices, Terms, Msats
  <1>4. answer.quote.fee \in Nat /\ wish.policy.maxFee \in Nat
    <2>1. answer.quote \in Quotes /\ wish.policy.maxFee \in MaxFees
      BY RelayAssumption DEF RelayInv
    <2>2. answer.quote.fee \in 0..MaxMsat
      BY <2>1 DEF Quotes
    <2>3. MaxMsat \in Nat /\ MaxFees \subseteq Nat
      BY AssetsAssumption, RelayAssumption
    <2>4. answer.quote.fee \in Nat
      BY <2>2, <2>3
    <2> QED BY <2>1, <2>3, <2>4
  <1>5. answer.hodl.terms.msat - wish.target.terms.msat = answer.quote.fee
    BY <1>2 DEF LegsHold
  <1> QED BY <1>1, <1>2, <1>3, <1>4, <1>5 DEF SameRelay, PolicyHolds

\* AtomicRelay: a relayed payment the LSP claimed paid its target, same asset amount and network,
\* within the fee and payee policy; for any answers of the LSP, decoded invoices and policy.
THEOREM SessionRelaysAtomically == SessionSpec => []AtomicRelay
  <1>1. SessionInit => RelayInv
    BY DEF SessionInit, RelayInit, RelayInv
  <1>2. RelayInv /\ [SessionNext]_sessionVars => RelayInv'
    BY RelayStep DEF SessionNext, sessionVars, Prepare, Relay
  <1> QED BY <1>1, <1>2, RelayAtomic, PTL DEF SessionSpec
-----------------------------------------------------------------------------
(* The flows: what a call asks for never changes, and where it awaits tells *)
(* which flow it is and what it has registered.                            *)
Types ==
  /\ pc \in [Calls -> States] /\ order \in [Calls -> Orders]
  /\ found \in [Calls -> SUBSET {"address", "key", "peer"}]
  /\ registered \in [Calls -> Seq({"plain", "attested"})]

\* The batch a call may register, and what it must have learned before.
Entitled(c, batch) ==
  /\ Kind(c) \in {"address", "bootstrap"}
  /\ Kind(c) = "address" => /\ found[c] = {"address", "key"}
                            /\ batch = IF order[c].attested THEN "attested" ELSE "plain"
  /\ Kind(c) = "bootstrap" => order[c].host /\ found[c] = {"peer"}

Enlisted(c) ==
  /\ pc[c] \in {"node", "lookup", "info"} => Kind(c) = "address"
  /\ pc[c] \in {"connecting", "peers"} => Kind(c) = "bootstrap"
  /\ pc[c] = "resting" => Kind(c) \in {"address", "bootstrap"}
  /\ pc[c] \in {"idle", "node", "lookup", "resting", "connecting", "peers"} => found[c] = {}
  /\ pc[c] = "info" => found[c] = {"address"}
  /\ pc[c] \notin {"registering", "done", "failed"} => registered[c] = <<>>
  /\ registered[c] # <<>> =>
       \E batch \in {"plain", "attested"} : registered[c] = <<batch>> /\ Entitled(c, batch)

EnlistInv == Types /\ \A c \in Calls : Enlisted(c)

\* A step at c that registers and learns nothing and enters no state of a
\* registration.
Quiet(c) ==
  /\ UNCHANGED <<order, found, registered>>
  /\ pc[c] \notin {"node", "lookup", "info", "connecting", "peers", "resting"} \cup
                 {"registering", "done", "failed"}
  /\ \E s \in States \ {"idle", "node", "lookup", "info", "connecting", "peers", "resting",
                        "registering"} : pc' = [pc EXCEPT ![c] = s]

LEMMA QuietSteps ==
  ASSUME EnlistInv, NEW c \in Calls,
         \/ HookReturns(c) \/ Synced(c) \/ ChannelsListed(c) \/ StatusRead(c) \/ Wakes(c)
         \/ InvoiceCreated(c) \/ Bridged(c) \/ PaymentsListed(c)
         \/ ClaimAccepted(c) \/ ClaimFails(c)
  PROVE  Quiet(c)
  <1> USE DEF Quiet, States, Goto, enlisted, inputs
  <1>1. CASE HookReturns(c) \/ Synced(c)
    BY <1>1 DEF HookReturns, Synced
  <1>2. CASE ChannelsListed(c) \/ StatusRead(c)
    BY <1>2 DEF ChannelsListed, StatusRead
  <1>3. CASE Wakes(c)
    BY <1>3 DEF Wakes, Round
  <1>4. CASE InvoiceCreated(c) \/ Bridged(c)
    BY <1>4 DEF InvoiceCreated, Bridged
  <1>5. CASE PaymentsListed(c)
    BY <1>5 DEF PaymentsListed
  <1>6. CASE ClaimAccepted(c) \/ ClaimFails(c)
    BY <1>6 DEF ClaimAccepted, ClaimFails, Report
  <1> QED BY <1>1, <1>2, <1>3, <1>4, <1>5, <1>6

LEMMA QuietInv ==
  ASSUME EnlistInv, NEW c \in Calls, Quiet(c)
  PROVE  EnlistInv'
  <1> USE DEF EnlistInv, Types, Quiet
  <1>1. PICK s \in States \ {"idle", "node", "lookup", "info", "connecting", "peers", "resting",
                           "registering"} : pc' = [pc EXCEPT ![c] = s]
    OBVIOUS
  <1>2. Types'
    BY <1>1
  <1>3. ASSUME NEW d \in Calls PROVE Enlisted(d)'
    <2>1. CASE d = c
      BY <2>1, <1>1 DEF Enlisted, Entitled, Kind
    <2>2. CASE d # c
      BY <2>2, <1>1 DEF Enlisted, Entitled, Kind
    <2> QED BY <2>1, <2>2
  <1> QED BY <1>2, <1>3

\* A step at c with what it makes of the state of c.
EnlistStep(c, state, facts, batches) ==
  /\ UNCHANGED order
  /\ pc' = [pc EXCEPT ![c] = state]
  /\ found' = [found EXCEPT ![c] = facts]
  /\ registered' = [registered EXCEPT ![c] = batches]

LEMMA EnlistFrame ==
  ASSUME EnlistInv, NEW c \in Calls, NEW state \in States,
         NEW facts \in SUBSET {"address", "key", "peer"},
         NEW batches \in Seq({"plain", "attested"}), EnlistStep(c, state, facts, batches),
         Enlisted(c)'
  PROVE  EnlistInv'
  <1> USE DEF EnlistInv, Types, EnlistStep
  <1>1. Types'
    OBVIOUS
  <1>2. ASSUME NEW d \in Calls, d # c PROVE Enlisted(d)'
    BY <1>2 DEF Enlisted, Entitled, Kind
  <1> QED BY <1>1, <1>2

LEMMA EnlistEmpty ==
  ASSUME EnlistInv, NEW c \in Calls, NEW state \in States,
         NEW facts \in SUBSET {"address", "key", "peer"}, EnlistStep(c, state, facts, <<>>),
         Enlisted(c)'
  PROVE  EnlistInv'
  <1>1. <<>> \in Seq({"plain", "attested"})
    OBVIOUS
  <1> QED BY <1>1, EnlistFrame

LEMMA EnlistStutter ==
  ASSUME EnlistInv, UNCHANGED <<pc, order, found, registered>>
  PROVE  EnlistInv'
  BY DEF EnlistInv, Types, Enlisted, Entitled, Kind

LEMMA CallInv ==
  ASSUME EnlistInv, NEW c \in Calls, Call(c)
  PROVE  EnlistInv'
  <1> USE DEF EnlistInv, Types
  <1>1. PICK state \in States :
          /\ pc' = [pc EXCEPT ![c] = state]
          /\ \/ state \in {"timeout", "aborted", "hook", "syncing", "creating", "listing"}
             \/ state = "node" /\ Kind(c) = "address"
             \/ state = "connecting" /\ Kind(c) = "bootstrap"
    <2>1. Kind(c) \in Polls \cup {"receive", "address", "bootstrap", "claim"}
      BY DEF Call, Kind, Orders
    <2>2. CASE Kind(c) \in Polls
      BY <2>2 DEF Call, Round, Goto, States
    <2>3. CASE Kind(c) \notin Polls
      BY <2>1, <2>3 DEF Call, Goto, States, Polls
    <2> QED BY <2>2, <2>3
  <1>2. pc[c] = "idle" /\ UNCHANGED <<order, found, registered>>
    BY DEF Call, inputs, enlisted
  <1>3. EnlistStep(c, state, {}, <<>>) /\ Enlisted(c)'
    <2>1. found[c] = {} /\ registered[c] = <<>>
      BY <1>2 DEF Enlisted
    <2>2. EnlistStep(c, state, {}, <<>>)
      BY <1>1, <1>2, <2>1 DEF EnlistStep
    <2> QED BY <1>1, <1>2, <2>1, <2>2 DEF Enlisted, Kind
  <1> QED BY <1>3, EnlistEmpty

\* A step that leaves the batches of c empty, or keeps those it has.
LEMMA LearnInv ==
  ASSUME EnlistInv, NEW c \in Calls,
         NodeAnswers(c) \/ AddressAnswers(c) \/ LookupAgain(c)
  PROVE  EnlistInv'
  <1> USE DEF EnlistInv, Types
  <1>1. CASE NodeAnswers(c) \/ LookupAgain(c)
    <2>1. EnlistStep(c, "lookup", {}, <<>>) /\ Kind(c) = "address"
      BY <1>1 DEF NodeAnswers, LookupAgain, EnlistStep, Goto, inputs, Enlisted
    <2>2. Enlisted(c)'
      BY <2>1 DEF EnlistStep, Enlisted, Kind
    <2>3. "lookup" \in States
      BY DEF States
    <2> QED BY <2>1, <2>2, <2>3, EnlistEmpty
  <1>2. CASE AddressAnswers(c)
    <2>1. Kind(c) = "address" /\ found[c] = {} /\ registered[c] = <<>>
      BY <1>2 DEF AddressAnswers, Enlisted
    <2>2. PICK state \in {"info", "resting", "failed"} :
            EnlistStep(c, state, IF state = "info" THEN {"address"} ELSE {}, <<>>)
      BY <1>2, <2>1 DEF AddressAnswers, EnlistStep, Goto, Learn, inputs
    <2>3. Enlisted(c)'
      BY <2>1, <2>2 DEF EnlistStep, Enlisted, Kind
    <2>4. /\ state \in States
          /\ (IF state = "info" THEN {"address"} ELSE {}) \in SUBSET {"address", "key", "peer"}
      BY DEF States
    <2> QED BY <2>2, <2>3, <2>4, EnlistEmpty
  <1> QED BY <1>1, <1>2

LEMMA AppendFirst ==
  ASSUME NEW batch \in {"plain", "attested"}
  PROVE  Append(<<>>, batch) = <<batch>> /\ <<batch>> \in Seq({"plain", "attested"})
  OBVIOUS

LEMMA RegisterInv ==
  ASSUME EnlistInv, NEW c \in Calls, NEW batch \in {"plain", "attested"},
         NEW facts \in SUBSET {"address", "key", "peer"},
         registered[c] = <<>>, Register(c, batch), UNCHANGED order,
         found' = [found EXCEPT ![c] = facts], Entitled(c, batch)'
  PROVE  EnlistInv'
  <1>1. EnlistStep(c, "registering", facts, <<batch>>)
    BY AppendFirst DEF EnlistInv, Types, EnlistStep, Register, Goto
  <1>2. pc'[c] = "registering" /\ registered'[c] = <<batch>>
    BY <1>1 DEF EnlistInv, Types, EnlistStep
  <1>3. Enlisted(c)'
    BY <1>2 DEF Enlisted
  <1> QED BY <1>1, <1>3, AppendFirst, EnlistFrame DEF States

\* A step that fails or ends without a registration.
LEMMA EndInv ==
  ASSUME EnlistInv, NEW c \in Calls, NEW state \in {"done", "failed"},
         NEW facts \in SUBSET {"address", "key", "peer"},
         registered[c] = <<>> \/ facts = found[c],
         Goto(c, state), UNCHANGED <<order, registered>>,
         found' = [found EXCEPT ![c] = facts]
  PROVE  EnlistInv'
  <1> USE DEF EnlistInv, Types
  <1>1. EnlistStep(c, state, facts, registered[c]) /\ registered[c] \in Seq({"plain", "attested"})
    BY DEF EnlistStep, Goto
  <1>2. pc'[c] = state /\ registered'[c] = registered[c] /\ found'[c] = facts /\ Kind(c)' = Kind(c)
    BY <1>1 DEF EnlistStep, Kind
  <1>3. Enlisted(c)'
    BY <1>2 DEF Enlisted, Entitled
  <1> QED BY <1>1, <1>3, EnlistFrame DEF States

LEMMA InfoInv ==
  ASSUME EnlistInv, NEW c \in Calls, InfoAnswers(c)
  PROVE  EnlistInv'
  <1>1. /\ Kind(c) = "address" /\ found[c] = {"address"} /\ registered[c] = <<>>
        /\ UNCHANGED order
    BY DEF InfoAnswers, EnlistInv, Enlisted, inputs
  <1>2. found' = [found EXCEPT ![c] = {"address", "key"}] /\ found'[c] = {"address", "key"}
    BY <1>1 DEF InfoAnswers, Learn, EnlistInv, Types
  <1>3. CASE Register(c, IF order[c].attested THEN "attested" ELSE "plain")
    <2> DEFINE batch == IF order[c].attested THEN "attested" ELSE "plain"
    <2>1. Entitled(c, batch)'
      BY <1>1, <1>2 DEF Entitled, Kind
    <2> QED BY <1>1, <1>2, <1>3, <2>1, RegisterInv
  <1>4. CASE Goto(c, "failed") /\ UNCHANGED registered
    BY <1>1, <1>2, <1>4, EndInv
  <1> QED BY <1>3, <1>4 DEF InfoAnswers

LEMMA BootstrappedInv ==
  ASSUME EnlistInv, NEW c \in Calls, NEW visible \in BOOLEAN, Bootstrapped(c, visible),
         NEW facts \in SUBSET {"address", "key", "peer"},
         registered[c] = <<>>, Kind(c) = "bootstrap", UNCHANGED order,
         found' = [found EXCEPT ![c] = facts], visible => facts = {"peer"}
  PROVE  EnlistInv'
  <1>1. CASE Goto(c, "done") /\ UNCHANGED registered
    BY <1>1, EndInv
  <1>2. CASE Goto(c, "failed") /\ UNCHANGED registered
    BY <1>2, EndInv
  <1>3. CASE order[c].host /\ visible /\ Register(c, "plain")
    <2>1. Entitled(c, "plain")'
      BY <1>3 DEF Entitled, Kind, EnlistInv, Types
    <2> QED BY <1>3, <2>1, RegisterInv
  <1> QED BY <1>1, <1>2, <1>3 DEF Bootstrapped

LEMMA PeerInv ==
  ASSUME EnlistInv, NEW c \in Calls, NextPeerRound(c) \/ PeersListed(c)
  PROVE  EnlistInv'
  <1>1. /\ Kind(c) = "bootstrap" /\ found[c] = {} /\ registered[c] = <<>> /\ UNCHANGED order
    BY DEF NextPeerRound, PeersListed, EnlistInv, Enlisted, inputs
  <1>2. CASE UNCHANGED found /\ Bootstrapped(c, FALSE)
    <2>1. found' = [found EXCEPT ![c] = {}]
      BY <1>1, <1>2 DEF EnlistInv, Types
    <2> QED BY <1>1, <1>2, <2>1, BootstrappedInv
  <1>3. CASE Learn(c, "peer") /\ Bootstrapped(c, TRUE)
    <2>1. found' = [found EXCEPT ![c] = {"peer"}]
      BY <1>1, <1>3 DEF Learn, EnlistInv, Types
    <2> QED BY <1>1, <1>3, <2>1, BootstrappedInv
  <1>4. CASE UNCHANGED <<found, registered>> /\ (Goto(c, "peers") \/ Goto(c, "resting"))
    <2>1. PICK state \in {"peers", "resting"} : EnlistStep(c, state, {}, <<>>)
      BY <1>1, <1>4 DEF EnlistStep, Goto, EnlistInv, Types
    <2>2. Enlisted(c)'
      BY <1>1, <2>1 DEF EnlistStep, Enlisted, Kind, EnlistInv, Types
    <2>3. state \in States
      BY DEF States
    <2> QED BY <2>1, <2>2, <2>3, EnlistEmpty
  <1> QED BY <1>2, <1>3, <1>4 DEF NextPeerRound, PeerRound, PeersListed

LEMMA OverInv ==
  ASSUME EnlistInv, NEW c \in Calls, Registered(c) \/ AwaitFails(c)
  PROVE  EnlistInv'
  <1>1. /\ Goto(c, "done") \/ Goto(c, "failed")
        /\ UNCHANGED <<order, found, registered>>
    BY DEF Registered, AwaitFails, inputs, enlisted
  <1>2. found' = [found EXCEPT ![c] = found[c]] /\ found[c] \in SUBSET {"address", "key", "peer"}
    BY <1>1 DEF EnlistInv, Types
  <1> QED BY <1>1, <1>2, EndInv

LEMMA EnlistNext == EnlistInv /\ [Next]_vars => EnlistInv'
  <1> SUFFICES ASSUME EnlistInv, [Next]_vars PROVE EnlistInv'
    OBVIOUS
  <1>1. ASSUME NEW c \in Calls, Progress(c) PROVE EnlistInv'
    BY <1>1, QuietSteps, QuietInv, LearnInv, InfoInv, PeerInv, OverInv DEF Progress
  <1>2. ASSUME NEW c \in Calls, Abort(c) PROVE EnlistInv'
    <2>1. CASE pc[c] = "sleeping"
      <3>1. Quiet(c)
        BY <1>2, <2>1 DEF Abort, Quiet, Goto, States, enlisted
      <3> QED BY <3>1, QuietInv
    <2>2. CASE pc[c] # "sleeping"
      BY <1>2, <2>2, EnlistStutter DEF Abort, enlisted
    <2> QED BY <2>1, <2>2
  <1>3. ASSUME NEW c \in Calls, Expire(c) PROVE EnlistInv'
    BY <1>3, EnlistStutter DEF Expire, enlisted
  <1>4. ASSUME NEW p \in Payments, PaymentMoves(p) PROVE EnlistInv'
    BY <1>4, EnlistStutter DEF PaymentMoves, enlisted
  <1>5. CASE UNCHANGED vars
    BY <1>5, EnlistStutter DEF vars
  <1> QED BY <1>1, <1>2, <1>3, <1>4, <1>5, CallInv DEF Next

LEMMA EnlistStart == Init => EnlistInv
  <1> SUFFICES ASSUME Init PROVE EnlistInv
    OBVIOUS
  <1>1. Types
    BY ReadinessAssumption DEF Init, Types, States
  <1>2. ASSUME NEW c \in Calls PROVE Enlisted(c)
    BY DEF Init, Enlisted
  <1> QED BY <1>1, <1>2 DEF EnlistInv

LEMMA EnlistOnce == EnlistInv => RegistersOnce
  <1> SUFFICES ASSUME EnlistInv, NEW c \in Calls, registered[c] # <<>>
               PROVE  /\ Len(registered[c]) = 1
                      /\ Kind(c) = "address" =>
                           /\ found[c] = {"address", "key"}
                           /\ registered[c] = <<IF order[c].attested THEN "attested" ELSE "plain">>
                      /\ Kind(c) = "bootstrap" => order[c].host /\ found[c] = {"peer"}
    BY DEF RegistersOnce
  <1>1. PICK batch \in {"plain", "attested"} : registered[c] = <<batch>> /\ Entitled(c, batch)
    BY DEF EnlistInv, Enlisted
  <1> QED BY <1>1 DEF Entitled

\* RegistersOnce: a call registers with the LSP at most once, and only after
\* the lookups it needs; an address in the batch that was ordered; for any number of calls
\* and of attempts.
THEOREM SessionRegistersOnce == SessionSpec => []RegistersOnce
  <1>1. SessionInit => EnlistInv
    BY EnlistStart DEF SessionInit
  <1>2. EnlistInv /\ [SessionNext]_sessionVars => EnlistInv'
    BY EnlistNext DEF SessionNext, sessionVars, Prepare, Relay
  <1> QED BY <1>1, <1>2, EnlistOnce, PTL DEF SessionSpec
-----------------------------------------------------------------------------
(* Every action but the claims moves one call at most, and reports nothing. *)
Claims(c) == PaymentsListed(c) \/ ClaimAccepted(c) \/ ClaimFails(c)

Moved(c) == \E s \in States \ {"claiming"} : pc' = [pc EXCEPT ![c] = s]

LEMMA OtherSteps ==
  ASSUME EnlistInv, NEW c \in Calls, Progress(c), ~Claims(c)
  PROVE  /\ Moved(c) /\ pc[c] \notin {"idle", "claiming", "done"}
         /\ pc[c] = "sleeping" => Wakes(c)
         /\ UNCHANGED <<order, aborted, listed, reports, payment>>
  <1> USE DEF Moved, States, Goto, claims, inputs
  <1>1. CASE HookReturns(c) \/ Synced(c)
    BY <1>1 DEF HookReturns, Synced
  <1>2. CASE ChannelsListed(c) \/ StatusRead(c)
    BY <1>2 DEF ChannelsListed, StatusRead
  <1>3. CASE Wakes(c)
    BY <1>3 DEF Wakes, Round
  <1>4. CASE NodeAnswers(c) \/ AddressAnswers(c) \/ LookupAgain(c)
    BY <1>4 DEF NodeAnswers, AddressAnswers, LookupAgain
  <1>5. CASE InfoAnswers(c)
    BY <1>5 DEF InfoAnswers, Register
  <1>6. CASE NextPeerRound(c) \/ PeersListed(c)
    BY <1>6 DEF NextPeerRound, PeerRound, PeersListed, Bootstrapped, Register
  <1>7. CASE Registered(c) \/ AwaitFails(c)
    BY <1>7 DEF Registered, AwaitFails
  <1>8. CASE InvoiceCreated(c) \/ Bridged(c)
    BY <1>8 DEF InvoiceCreated, Bridged
  <1> QED BY <1>1, <1>2, <1>3, <1>4, <1>5, <1>6, <1>7, <1>8 DEF Progress, Claims

LEMMA ClaimMoves ==
  ASSUME EnlistInv, NEW c \in Calls, Claims(c)
  PROVE  /\ pc[c] \in {"listing", "claiming"} /\ UNCHANGED <<order, aborted>>
         /\ \E s \in {"claiming", "done"} : pc' = [pc EXCEPT ![c] = s]
  BY DEF Claims, PaymentsListed, ClaimAccepted, ClaimFails, Report, Goto, inputs
-----------------------------------------------------------------------------
(* Only a wait is aborted, and it reads its signal before every round.      *)
AbortInv == \A c \in aborted : c \in Calls /\ Kind(c) \in Polls

LEMMA AbortNext == EnlistInv /\ AbortInv /\ [Next]_vars => AbortInv'
  <1> SUFFICES ASSUME EnlistInv, AbortInv, [Next]_vars PROVE AbortInv'
    OBVIOUS
  <1>1. ASSUME NEW c \in Calls, Progress(c) PROVE UNCHANGED <<order, aborted>>
    BY <1>1, OtherSteps, ClaimMoves
  <1>2. ASSUME NEW c \in Calls, Abort(c) PROVE AbortInv'
    BY <1>2 DEF Abort, AbortInv, Kind
  <1>3. ASSUME NEW c \in Calls, Call(c) \/ Expire(c) PROVE UNCHANGED <<order, aborted>>
    BY <1>3 DEF Call, Expire, inputs
  <1>4. ASSUME NEW p \in Payments, PaymentMoves(p) PROVE UNCHANGED <<order, aborted>>
    BY <1>4 DEF PaymentMoves
  <1>5. UNCHANGED <<order, aborted>> => AbortInv'
    BY DEF AbortInv, Kind
  <1> QED BY <1>1, <1>2, <1>3, <1>4, <1>5 DEF Next, vars

LEMMA AbortStops ==
  ASSUME EnlistInv, AbortInv, Next, NEW d \in aborted,
         pc[d] \in {"idle", "sleeping"}, pc'[d] # pc[d]
  PROVE  pc'[d] \in {"aborted", "timeout"}
  <1>0. d \in Calls /\ Kind(d) \in Polls /\ pc \in [Calls -> States]
    BY DEF AbortInv, EnlistInv, Types
  <1>1. ASSUME Round(d) PROVE pc'[d] \in {"aborted", "timeout"}
    BY <1>0, <1>1 DEF Round, Goto
  <1>2. ASSUME NEW c \in Calls, Progress(c) PROVE pc'[d] \in {"aborted", "timeout"}
    <2>1. CASE c = d
      BY <1>1, <1>2, <2>1, OtherSteps, ClaimMoves DEF Wakes
    <2>2. CASE c # d
      BY <1>0, <1>2, <2>2, OtherSteps, ClaimMoves DEF Moved
    <2> QED BY <2>1, <2>2
  <1>3. ASSUME NEW c \in Calls, Call(c) PROVE pc'[d] \in {"aborted", "timeout"}
    <2>1. CASE c = d
      BY <1>0, <1>1, <1>3, <2>1 DEF Call, Polls
    <2>2. CASE c # d
      <3>1. \E s : pc' = [pc EXCEPT ![c] = s]
        BY <1>3 DEF Call, Round, Goto, Kind, Orders, EnlistInv, Types
      <3> QED BY <1>0, <2>2, <3>1
    <2> QED BY <2>1, <2>2
  <1>4. ASSUME NEW c \in Calls, Abort(c) PROVE pc'[d] \in {"aborted", "timeout"}
    BY <1>0, <1>4 DEF Abort, Goto
  <1>5. ASSUME NEW c \in Calls, Expire(c) PROVE FALSE
    BY <1>5 DEF Expire
  <1>6. ASSUME NEW p \in Payments, PaymentMoves(p) PROVE FALSE
    BY <1>6 DEF PaymentMoves
  <1> QED BY <1>2, <1>3, <1>4, <1>5, <1>6 DEF Next

\* NoRoundAfterAbort: a wait whose signal is aborted starts no round from its sleep: it ends as
\* aborted or timed out; for any number of calls.
THEOREM SessionStopsAfterAbort == SessionSpec => NoRoundAfterAbort
  <1> DEFINE Stops == \A c \in Calls : c \in aborted /\ pc[c] \in {"idle", "sleeping"} /\ pc'[c] # pc[c]
                        => pc'[c] \in {"aborted", "timeout"}
  <1>1. SessionInit => EnlistInv /\ AbortInv
    BY EnlistStart DEF SessionInit, Init, AbortInv
  <1>2. EnlistInv /\ AbortInv /\ [SessionNext]_sessionVars => EnlistInv' /\ AbortInv'
    BY EnlistNext, AbortNext DEF SessionNext, sessionVars, Prepare, Relay
  <1>3. EnlistInv /\ AbortInv /\ [SessionNext]_sessionVars => [Stops]_vars
    BY AbortStops DEF SessionNext, sessionVars, Prepare, Relay
  <1> QED BY <1>1, <1>2, <1>3, PTL DEF SessionSpec, NoRoundAfterAbort
-----------------------------------------------------------------------------
(* The lifetime that is asked for.                                          *)
LifetimeInv ==
  /\ lifetime \in [Calls -> [asked : Int, left : Int] \cup {None}]
  /\ LifetimeFits

LEMMA MaxOfTwo ==
  ASSUME NEW a \in Int, NEW b \in Int
  PROVE  Max({a, b}) \in {a, b}
  <1>1. \E x \in {a, b} : \A y \in {a, b} : x >= y
    OBVIOUS
  <1> QED BY <1>1 DEF Max

LEMMA RemainingFits ==
  ASSUME NEW took \in Nat, NEW stamp \in Nat
  PROVE  /\ Remaining(took) \in Int
         /\ Remaining(took) = 1 \/ 4 * Remaining(took) <= 4 * Expiry - (took - stamp) + 2
  <1> DEFINE seconds == (took + 2) \div 4
  <1>1. seconds \in Int /\ 4 * seconds >= took - 1 /\ Expiry \in Int
    BY ReadinessAssumption
  <1> HIDE DEF seconds
  <1>2. Remaining(took) \in {1, Expiry - seconds}
    BY <1>1, MaxOfTwo DEF Remaining, seconds
  <1> QED BY <1>1, <1>2

LEMMA LifetimeNext == LifetimeInv /\ [Next]_vars => LifetimeInv'
  <1> SUFFICES ASSUME LifetimeInv, [Next]_vars PROVE LifetimeInv'
    OBVIOUS
  <1>1. ASSUME NEW c \in Calls, InvoiceCreated(c) PROVE LifetimeInv'
    <2>1. PICK took \in 0..MaxTicks : \E stamp \in 0..took :
            lifetime' = [lifetime EXCEPT ![c] =
                           [asked |-> Remaining(took), left |-> 4 * Expiry - (took - stamp)]]
      BY <1>1 DEF InvoiceCreated
    <2>2. PICK stamp \in 0..took :
            lifetime' = [lifetime EXCEPT ![c] =
                           [asked |-> Remaining(took), left |-> 4 * Expiry - (took - stamp)]]
      BY <2>1
    <2>3. took \in Nat /\ stamp \in Nat /\ Expiry \in Nat
      BY ReadinessAssumption
    <2>4. /\ Remaining(took) \in Int
          /\ Remaining(took) = 1 \/ 4 * Remaining(took) <= 4 * Expiry - (took - stamp) + 2
      BY <2>3, RemainingFits
    <2>5. lifetime' \in [Calls -> [asked : Int, left : Int] \cup {None}]
      BY <2>2, <2>3, <2>4 DEF LifetimeInv
    <2>6. ASSUME NEW d \in Calls, lifetime'[d] # None
          PROVE  lifetime'[d].asked = 1 \/ 4 * lifetime'[d].asked <= lifetime'[d].left + 2
      <3>1. CASE d = c
        BY <2>2, <2>3, <2>4, <3>1 DEF LifetimeInv
      <3>2. CASE d # c
        BY <2>2, <2>6, <3>2 DEF LifetimeInv, LifetimeFits
      <3> QED BY <3>1, <3>2
    <2> QED BY <2>5, <2>6 DEF LifetimeInv, LifetimeFits
  <1>2. ASSUME NEW c \in Calls, Progress(c), ~InvoiceCreated(c) PROVE UNCHANGED lifetime
    BY <1>2 DEF Progress, HookReturns, Synced, ChannelsListed, StatusRead, Wakes, NodeAnswers,
       AddressAnswers, LookupAgain, InfoAnswers, NextPeerRound, PeersListed, Registered, Bridged,
       PaymentsListed, ClaimAccepted, ClaimFails, AwaitFails
  <1>3. ASSUME NEW c \in Calls, Call(c) \/ Abort(c) \/ Expire(c) PROVE UNCHANGED lifetime
    BY <1>3 DEF Call, Abort, Expire
  <1>4. ASSUME NEW p \in Payments, PaymentMoves(p) PROVE UNCHANGED lifetime
    BY <1>4 DEF PaymentMoves
  <1>5. UNCHANGED lifetime => LifetimeInv'
    BY DEF LifetimeInv, LifetimeFits
  <1> QED BY <1>1, <1>2, <1>3, <1>4, <1>5 DEF Next, vars

\* LifetimeFits: the lifetime asked of the LSP fits into what is left of the invoice, but for the
\* rounding to seconds and the least of one second; for any lifetime and however long the creation takes.
THEOREM SessionLifetimeFits == SessionSpec => []LifetimeFits
  <1>1. SessionInit => LifetimeInv
    BY DEF SessionInit, Init, LifetimeInv, LifetimeFits
  <1>2. LifetimeInv /\ [SessionNext]_sessionVars => LifetimeInv'
    BY LifetimeNext DEF SessionNext, sessionVars, Prepare, Relay
  <1>3. LifetimeInv => LifetimeFits
    BY DEF LifetimeInv
  <1> QED BY <1>1, <1>2, <1>3, PTL DEF SessionSpec
-----------------------------------------------------------------------------
(* Claims: what a call reported is a set of the payments it listed, each    *)
(* reported once; a payment that was taken stays taken.                    *)
Taken == {"CLAIMING", "SUCCEEDED"}

ClaimTypes ==
  /\ payment \in [Payments -> Held \cup Refusals \cup {"PENDING", "SUCCEEDED"}]
  /\ listed \in [Calls -> SUBSET Payments]
  /\ reports \in [Calls -> Seq([payment : Payments, claimed : BOOLEAN])]

Claimed(c) ==
  /\ IsFiniteSet(Reported(c)) /\ Len(reports[c]) = Cardinality(Reported(c))
  /\ Reported(c) \subseteq listed[c]
  /\ pc[c] \notin {"claiming", "done"} => reports[c] = <<>> /\ listed[c] = {}
  /\ pc[c] = "done" => Reported(c) = listed[c]
  /\ \A i \in DOMAIN reports[c] :
       reports[c][i].claimed => payment[reports[c][i].payment] \in Taken

ClaimInv == ClaimTypes /\ \A c \in Calls : Claimed(c)

\* A payment that was taken stays taken.
Keeps ==
  /\ payment' \in [Payments -> Held \cup Refusals \cup {"PENDING", "SUCCEEDED"}]
  /\ \A p \in Payments : payment[p] \in Taken => payment'[p] \in Taken

LEMMA AcceptsKeeps ==
  ASSUME ClaimTypes, NEW p \in Payments, Accepts(p)
  PROVE  Keeps /\ payment'[p] \in Taken
  BY DEF ClaimTypes, Accepts, Keeps, Taken, Held

LEMMA MovesKeep ==
  ASSUME ClaimTypes, NEW p \in Payments, PaymentMoves(p)
  PROVE  Keeps
  <1>1. PICK s \in Moves[payment[p]] : payment' = [payment EXCEPT ![p] = s]
    BY DEF PaymentMoves
  <1>2. payment[p] \in {"PENDING", "CLAIMABLE", "CLAIMING"}
    BY DEF PaymentMoves, Moves
  <1>3. s \in {"CLAIMABLE", "SUCCEEDED"} \cup Refusals
    BY <1>1, <1>2 DEF Moves
  <1>4. payment[p] = "CLAIMING" => s = "SUCCEEDED"
    BY <1>1 DEF Moves
  <1> QED BY <1>1, <1>2, <1>3, <1>4 DEF ClaimTypes, Keeps, Taken, Held

LEMMA RowOf ==
  ASSUME NEW R, NEW rows \in Seq(R), NEW i \in DOMAIN rows
  PROVE  rows[i] \in R
  OBVIOUS

LEMMA RowAppended ==
  ASSUME NEW R, NEW rows \in Seq(R), NEW row \in R
  PROVE  /\ Append(rows, row) \in Seq(R) /\ Len(rows) \in Nat
         /\ Len(Append(rows, row)) = Len(rows) + 1
         /\ DOMAIN rows = 1..Len(rows) /\ DOMAIN Append(rows, row) = 1..(Len(rows) + 1)
         /\ \A i \in 1..Len(rows) : Append(rows, row)[i] = rows[i]
         /\ Append(rows, row)[Len(rows) + 1] = row
  OBVIOUS

\* What holds of a call that the step does not report for.
LEMMA ClaimFrame ==
  ASSUME ClaimInv, Keeps, NEW d \in Calls, reports'[d] = reports[d], listed'[d] = listed[d],
         \/ pc'[d] = pc[d]
         \/ pc[d] \notin {"claiming", "done"} /\ pc'[d] # "claiming"
  PROVE  Claimed(d)'
  <1>1. Reported(d)' = Reported(d)
    BY DEF Reported
  <1>2. ASSUME NEW i \in DOMAIN reports[d], reports[d][i].claimed
        PROVE  payment'[reports[d][i].payment] \in Taken
    <2>1. reports[d][i].payment \in Payments
      <3>1. reports[d] \in Seq([payment : Payments, claimed : BOOLEAN])
        BY DEF ClaimInv, ClaimTypes
      <3>2. reports[d][i] \in [payment : Payments, claimed : BOOLEAN]
        BY <3>1, RowOf
      <3> QED BY <3>2
    <2> QED BY <1>2, <2>1 DEF ClaimInv, Claimed, Keeps
  <1>3. Claimed(d)
    BY DEF ClaimInv
  <1>4. pc'[d] = "done" => Reported(d) = listed[d]
    BY <1>3 DEF Claimed, Reported
  <1> QED BY <1>1, <1>2, <1>3, <1>4 DEF Claimed

LEMMA ListedInv ==
  ASSUME EnlistInv, ClaimInv, NEW c \in Calls, PaymentsListed(c)
  PROVE  Claimed(c)' /\ ClaimTypes' /\ Keeps
  <1>1. PICK held \in {{}, {p \in Payments : payment[p] \in Held}} :
          /\ listed' = [listed EXCEPT ![c] = held]
          /\ Goto(c, IF held = {} THEN "done" ELSE "claiming")
    BY DEF PaymentsListed
  <1>2. pc[c] = "listing" /\ UNCHANGED <<reports, payment>>
    BY DEF PaymentsListed
  <1>3. reports[c] = <<>> /\ listed'[c] = held /\ Claimed(c)
    BY <1>1, <1>2 DEF ClaimInv, Claimed, ClaimTypes
  <1>4. Reported(c) = {} /\ Reported(c)' = {}
    BY <1>2, <1>3 DEF Reported
  <1>5. pc'[c] \in {"claiming", "done"} /\ (pc'[c] = "done" => held = {})
    BY <1>1, <1>2 DEF Goto, EnlistInv, Types
  <1>6. ClaimTypes' /\ Keeps
    BY <1>1, <1>2 DEF ClaimInv, ClaimTypes, Keeps
  <1>7. Claimed(c)'
    BY <1>2, <1>3, <1>4, <1>5 DEF Claimed
  <1> QED BY <1>6, <1>7

LEMMA ReportInv ==
  ASSUME EnlistInv, ClaimInv, Keeps, NEW c \in Calls, NEW p \in Unclaimed(c), NEW success \in BOOLEAN,
         pc[c] = "claiming", Report(c, p, success), UNCHANGED listed,
         success => payment'[p] \in Taken
  PROVE  Claimed(c)' /\ ClaimTypes'
  <1> DEFINE Rows == [payment : Payments, claimed : BOOLEAN]
             row == [payment |-> p, claimed |-> success]
  <1>1. /\ reports[c] \in Seq(Rows) /\ row \in Rows /\ p \in listed[c] /\ p \notin Reported(c)
        /\ Claimed(c)
    BY DEF ClaimInv, ClaimTypes, Unclaimed
  <1>2. reports' \in [Calls -> Seq(Rows)] /\ reports'[c] = Append(reports[c], row)
    <2>1. Append(reports[c], row) \in Seq(Rows)
      BY <1>1, RowAppended
    <2>2. reports \in [Calls -> Seq(Rows)]
      BY DEF ClaimInv, ClaimTypes
    <2>3. reports' = [reports EXCEPT ![c] = Append(reports[c], row)]
      BY DEF Report
    <2> HIDE DEF Rows, row
    <2> QED BY <2>1, <2>2, <2>3
  <1>3. ClaimTypes'
    BY <1>2 DEF ClaimInv, ClaimTypes, Keeps
  <1> DEFINE n == Len(reports[c])
  <1>4. /\ n \in Nat /\ Len(reports'[c]) = n + 1 /\ reports'[c][n + 1] = row
        /\ \A i \in 1..n : reports'[c][i] = reports[c][i]
        /\ DOMAIN reports'[c] = 1..(n + 1) /\ DOMAIN reports[c] = 1..n
    <2> HIDE DEF Rows, row
    <2> QED BY <1>1, <1>2, RowAppended
  <1> HIDE DEF n, row
  <1>5. row.payment = p /\ row.claimed = success
    BY DEF row
  <1>6. Reported(c)' = Reported(c) \cup {p}
    BY <1>4, <1>5 DEF Reported
  <1>7. IsFiniteSet(Reported(c)') /\ Cardinality(Reported(c)') = Cardinality(Reported(c)) + 1
    BY <1>1, <1>6, FS_AddElement DEF Claimed
  <1>8. ASSUME NEW i \in DOMAIN reports'[c], reports'[c][i].claimed
        PROVE  payment'[reports'[c][i].payment] \in Taken
    <2>1. CASE i = n + 1
      BY <1>4, <1>5, <1>8, <2>1
    <2>2. CASE i \in 1..n
      <3>1. reports[c][i] \in Rows /\ reports[c][i].claimed
        BY <1>1, <1>4, <1>8, <2>2, RowOf
      <3>2. payment[reports[c][i].payment] \in Taken
        BY <1>1, <1>4, <2>2, <3>1 DEF Claimed
      <3> QED BY <1>4, <2>2, <3>1, <3>2 DEF Keeps
    <2> QED BY <1>4, <2>1, <2>2
  <1>9. pc'[c] \in {"claiming", "done"} /\ (pc'[c] = "done" => listed[c] = Reported(c) \cup {p})
    <2>1. Goto(c, IF Unclaimed(c) = {p} THEN "done" ELSE "claiming")
      BY DEF Report
    <2>2. Unclaimed(c) = {p} => listed[c] = Reported(c) \cup {p}
      BY <1>1 DEF Unclaimed, Claimed
    <2> QED BY <2>1, <2>2 DEF Goto, EnlistInv, Types
  <1>10. Reported(c)' \subseteq listed'[c]
    BY <1>1, <1>6 DEF Claimed
  <1>11. Len(reports'[c]) = Cardinality(Reported(c)')
    BY <1>1, <1>4, <1>7 DEF Claimed, n
  <1> QED BY <1>3, <1>6, <1>7, <1>8, <1>9, <1>10, <1>11 DEF Claimed

LEMMA ClaimsInv ==
  ASSUME EnlistInv, ClaimInv, NEW c \in Calls, Claims(c)
  PROVE  /\ Claimed(c)' /\ ClaimTypes' /\ Keeps
         /\ \A d \in Calls \ {c} : reports'[d] = reports[d] /\ listed'[d] = listed[d]
  <1>1. CASE PaymentsListed(c)
    BY <1>1, ListedInv DEF PaymentsListed, ClaimInv, ClaimTypes
  <1>2. CASE ClaimFails(c)
    <2>1. PICK p \in Unclaimed(c) : Report(c, p, FALSE) /\ (Accepts(p) \/ UNCHANGED payment)
      BY <1>2 DEF ClaimFails
    <2>2. pc[c] = "claiming" /\ UNCHANGED listed /\ p \in Payments
      BY <1>2, <2>1 DEF ClaimFails, ClaimInv, ClaimTypes, Unclaimed
    <2>3. Keeps
      BY <2>1, <2>2, AcceptsKeeps DEF ClaimInv, ClaimTypes, Keeps
    <2>4. Claimed(c)' /\ ClaimTypes'
      BY <2>1, <2>2, <2>3, ReportInv
    <2> QED BY <2>1, <2>2, <2>3, <2>4 DEF Report, ClaimInv, ClaimTypes
  <1>3. CASE ClaimAccepted(c)
    <2>1. PICK p \in Unclaimed(c) : Report(c, p, TRUE) /\ Accepts(p)
      BY <1>3 DEF ClaimAccepted
    <2>2. pc[c] = "claiming" /\ UNCHANGED listed /\ p \in Payments
      BY <1>3, <2>1 DEF ClaimAccepted, ClaimInv, ClaimTypes, Unclaimed
    <2>3. Keeps /\ payment'[p] \in Taken
      BY <2>1, <2>2, AcceptsKeeps DEF ClaimInv
    <2>4. Claimed(c)' /\ ClaimTypes'
      BY <2>1, <2>2, <2>3, ReportInv
    <2> QED BY <2>1, <2>2, <2>3, <2>4 DEF Report, ClaimInv, ClaimTypes
  <1> QED BY <1>1, <1>2, <1>3 DEF Claims

\* A step that reports nothing and moves c.
LEMMA UnclaimedInv ==
  ASSUME ClaimInv, EnlistInv, Keeps, UNCHANGED <<listed, reports>>, NEW c \in Calls,
         UNCHANGED pc \/ (Moved(c) /\ pc[c] \notin {"claiming", "done"})
  PROVE  ClaimInv'
  <1>1. ClaimTypes'
    BY DEF ClaimInv, ClaimTypes, Keeps
  <1>2. ASSUME NEW d \in Calls PROVE Claimed(d)'
    <2>1. \/ pc'[d] = pc[d]
          \/ pc[d] \notin {"claiming", "done"} /\ pc'[d] # "claiming"
      BY DEF Moved, EnlistInv, Types
    <2> QED BY <2>1, ClaimFrame
  <1> QED BY <1>1, <1>2 DEF ClaimInv

LEMMA ClaimNext == EnlistInv /\ ClaimInv /\ [Next]_vars => ClaimInv'
  <1> SUFFICES ASSUME EnlistInv, ClaimInv, [Next]_vars PROVE ClaimInv'
    OBVIOUS
  <1>1. ASSUME NEW c \in Calls, Claims(c) PROVE ClaimInv'
    <2>1. ASSUME NEW d \in Calls, d # c PROVE Claimed(d)'
      <3>1. pc'[d] = pc[d]
        BY <1>1, <2>1, ClaimMoves DEF EnlistInv, Types
      <3> QED BY <1>1, <2>1, <3>1, ClaimsInv, ClaimFrame
    <2> QED BY <1>1, <2>1, ClaimsInv DEF ClaimInv
  <1>2. UNCHANGED payment => Keeps
    BY DEF ClaimInv, ClaimTypes, Keeps
  <1>3. ASSUME NEW c \in Calls, Progress(c), ~Claims(c) PROVE ClaimInv'
    BY <1>2, <1>3, OtherSteps, UnclaimedInv
  <1>4. ASSUME NEW c \in Calls, Call(c) PROVE ClaimInv'
    <2>1. pc[c] = "idle" /\ UNCHANGED <<listed, reports, payment>>
      BY <1>4 DEF Call, claims
    <2>2. Moved(c)
      <3>1. Kind(c) \in Polls \cup {"receive", "address", "bootstrap", "claim"}
        BY <1>4 DEF Call, Kind, Orders, EnlistInv, Types
      <3>2. CASE Kind(c) \in Polls
        BY <1>4, <3>2 DEF Call, Round, Goto, States, Moved, Polls
      <3>3. CASE Kind(c) \notin Polls
        BY <1>4, <3>1, <3>3 DEF Call, Goto, States, Polls, Moved
      <3> QED BY <3>2, <3>3
    <2> QED BY <1>2, <2>1, <2>2, UnclaimedInv
  <1>5. ASSUME NEW c \in Calls, Abort(c) PROVE ClaimInv'
    <2>1. UNCHANGED <<listed, reports, payment>>
      BY <1>5 DEF Abort, claims
    <2>2. UNCHANGED pc \/ (Moved(c) /\ pc[c] \notin {"claiming", "done"})
      BY <1>5 DEF Abort, Goto, States, Moved
    <2> QED BY <1>2, <2>1, <2>2, UnclaimedInv
  <1>6. ASSUME NEW c \in Calls, Expire(c) PROVE ClaimInv'
    BY <1>2, <1>6, UnclaimedInv DEF Expire, claims
  <1>7. ASSUME NEW p \in Payments, PaymentMoves(p) PROVE ClaimInv'
    <2>1. UNCHANGED <<pc, listed, reports>> /\ Keeps /\ \E c \in Calls : TRUE
      BY <1>7, MovesKeep DEF PaymentMoves, claims, ClaimInv
    <2> QED BY <2>1, UnclaimedInv
  <1>8. CASE UNCHANGED vars
    <2>1. ASSUME NEW d \in Calls PROVE Claimed(d)'
      BY <1>2, <1>8, ClaimFrame DEF vars
    <2> QED BY <1>8, <2>1 DEF vars, ClaimInv, ClaimTypes
  <1> QED BY <1>1, <1>3, <1>4, <1>5, <1>6, <1>7, <1>8 DEF Next

LEMMA ClaimStart == Init => ClaimInv
  <1> SUFFICES ASSUME Init PROVE ClaimInv
    OBVIOUS
  <1>1. ClaimTypes
    BY DEF Init, ClaimTypes
  <1>2. ASSUME NEW c \in Calls PROVE Claimed(c)
    <2>1. reports[c] = <<>> /\ listed[c] = {} /\ pc[c] = "idle"
      BY DEF Init
    <2>2. Reported(c) = {}
      BY <2>1 DEF Reported
    <2> QED BY <2>1, <2>2, FS_EmptySet DEF Claimed
  <1> QED BY <1>1, <1>2 DEF ClaimInv

\* ClaimsReported: a claim reports each payment it listed once, and as claimed only if
\* the node has taken its preimage; for any number of payments and concurrent claims.
THEOREM SessionClaimsReported == SessionSpec => []ClaimsReported
  <1>1. SessionInit => EnlistInv /\ ClaimInv
    BY EnlistStart, ClaimStart DEF SessionInit
  <1>2. EnlistInv /\ ClaimInv /\ [SessionNext]_sessionVars => EnlistInv' /\ ClaimInv'
    BY EnlistNext, ClaimNext DEF SessionNext, sessionVars, Prepare, Relay
  <1>3. ClaimInv => ClaimsReported
    BY DEF ClaimInv, Claimed, ClaimsReported, Taken
  <1> QED BY <1>1, <1>2, <1>3, PTL DEF SessionSpec
-----------------------------------------------------------------------------
(* A nonempty set of naturals below a bound has a largest and a smallest    *)
(* member: else n + 1 maps those that are not above it into themselves, but *)
(* not onto 0.                                                             *)
LEMMA LargestExists ==
  ASSUME NEW n \in Nat, NEW S \in SUBSET (0..n), S # {}
  PROVE  \E m \in S : \A x \in S : m >= x
  <1> SUFFICES ASSUME \A m \in S : \E x \in S : x > m PROVE FALSE
    OBVIOUS
  <1> DEFINE U == {u \in 0..n : \E x \in S : x >= u}
             next == [u \in U |-> u + 1]
  <1>1. IsFiniteSet(U) /\ 0 \in U
    <2>1. IsFiniteSet(0..n)
      BY FS_Interval
    <2>2. IsFiniteSet(U)
      BY <2>1, FS_Subset
    <2>3. PICK x \in S : x \in 0..n
      OBVIOUS
    <2>4. x >= 0 /\ 0 \in 0..n
      BY <2>3
    <2> QED BY <2>2, <2>3, <2>4
  <1>2. next \in [U -> U \ {0}]
    <2> SUFFICES ASSUME NEW u \in U PROVE u + 1 \in U \ {0}
      OBVIOUS
    <2>1. PICK x \in S : x >= u
      OBVIOUS
    <2>2. PICK y \in S : y > x
      OBVIOUS
    <2> QED BY <2>1, <2>2
  <1>3. IsFiniteSet(U \ {0}) /\ Cardinality(U \ {0}) < Cardinality(U)
    <2> HIDE DEF U, next
    <2>1. Cardinality(U) \in Nat
      BY <1>1, FS_CardinalityType
    <2>2. IsFiniteSet(U \ {0}) /\ Cardinality(U \ {0}) = Cardinality(U) - 1
      BY <1>1, FS_RemoveElement
    <2> QED BY <2>1, <2>2
  <1>4. \A u \in U : u \in Int /\ next[u] = u + 1
    OBVIOUS
  <1> HIDE DEF U, next
  <1>5. PICK u \in U, v \in U : u # v /\ next[u] = next[v]
    BY <1>1, <1>2, <1>3, FS_PigeonHole
  <1>6. u + 1 = v + 1 /\ u \in Int /\ v \in Int
    BY <1>4, <1>5
  <1> QED BY <1>5, <1>6

LEMMA SmallestExists ==
  ASSUME NEW n \in Nat, NEW S \in SUBSET (0..n), S # {}
  PROVE  \E m \in S : \A x \in S : m <= x
  <1> DEFINE T == {n - x : x \in S}
  <1>1. T \in SUBSET (0..n) /\ T # {}
    <2>1. \A x \in S : x \in 0..n /\ n - x \in 0..n
      OBVIOUS
    <2> QED BY <2>1
  <1>2. PICK t \in T : \A x \in T : t >= x
    BY <1>1, LargestExists
  <1>3. PICK m \in S : t = n - m
    OBVIOUS
  <1>4. ASSUME NEW x \in S PROVE m <= x
    <2>1. n - x \in T /\ x \in 0..n /\ m \in 0..n
      OBVIOUS
    <2>2. n - m >= n - x
      BY <1>2, <1>3, <2>1
    <2> QED BY <2>1, <2>2
  <1>5. \A x \in S : m <= x
    BY <1>4
  <1> QED BY <1>5

LEMMA MaxOf ==
  ASSUME NEW n \in Nat, NEW S \in SUBSET (0..n), S # {}
  PROVE  Max(S) \in S /\ \A x \in S : Max(S) >= x
  BY LargestExists DEF Max

LEMMA MinOf ==
  ASSUME NEW n \in Nat, NEW S \in SUBSET (0..n), S # {}
  PROVE  Min(S) \in S
  BY SmallestExists DEF Min
-----------------------------------------------------------------------------
(* The choices: the largest balance is that of one channel, and a lone      *)
(* member of a menu is the one that is taken.                              *)
LEMMA LiquidCarries ==
  ASSUME NEW l \in SUBSET Channels, NEW asset, NEW units \in Units, NEW msat \in Msats
  PROVE  Liquid(l, asset, units, msat) <=> \E c \in l : Carries(c, asset, units, msat)
  <1> DEFINE fit == {d \in l : d.usable /\ d.asset = asset /\ CarriesMsat(d, msat)}
             balances == {0} \cup {c.units : c \in fit}
  <1>1. MaxUnits \in Nat /\ MaxMsat \in Nat /\ None \notin Nat
    BY AssetsAssumption
  <1>2. units \in Nat \ {0} /\ msat \in Nat \ {0} /\ msat <= MaxMsat
    BY <1>1 DEF Units, Msats
  <1>3. \A c \in l : c.units \in 0..MaxUnits
    BY DEF Channels
  <1>4. \A c \in l : Carries(c, asset, units, msat) <=> c \in fit /\ c.units >= units
    <2> SUFFICES ASSUME NEW c \in l
                 PROVE  Carries(c, asset, units, msat) <=> c \in fit /\ c.units >= units
      OBVIOUS
    <2>1. /\ c.outbound \in 0..MaxMsat \cup {None}
          /\ c.least \in 0..MaxMsat \cup {None} /\ c.most \in 0..MaxMsat \cup {None}
      BY DEF Channels
    <2>2. CarriesMsat(c, msat) <=>
            /\ c.outbound \in msat..MaxMsat
            /\ c.least \in (0..msat) \cup {None} /\ c.most \in (msat..MaxMsat) \cup {None}
      BY <1>1, <1>2, <2>1 DEF CarriesMsat
    <2> QED BY <2>2 DEF Carries
  <1>5. balances \in SUBSET (0..MaxUnits) /\ balances # {}
    BY <1>1, <1>3
  <1>6. /\ Max(balances) \in balances /\ \A x \in balances : Max(balances) >= x
        /\ Max(balances) \in Int /\ \A x \in balances : x \in Int
    <2> HIDE DEF balances
    <2>1. Max(balances) \in balances /\ \A x \in balances : Max(balances) >= x
      BY <1>1, <1>5, MaxOf
    <2>2. \A x \in balances : x \in Int
      BY <1>1, <1>5
    <2> QED BY <2>1, <2>2
  <1>7. Liquid(l, asset, units, msat) <=> Max(balances) >= units
    BY DEF Liquid, LargestBalance
  <1>8. ASSUME Max(balances) >= units PROVE \E c \in fit : c.units >= units
    BY <1>2, <1>6, <1>8
  <1>9. ASSUME NEW c \in fit, c.units >= units PROVE Max(balances) >= units
    <2>1. c.units \in balances
      OBVIOUS
    <2>2. Max(balances) >= c.units /\ c.units \in Int /\ Max(balances) \in Int
      BY <1>6, <2>1
    <2> QED BY <1>2, <1>9, <2>2
  <1> QED BY <1>4, <1>7, <1>8, <1>9

LEMMA OneMember ==
  ASSUME NEW S, IsFiniteSet(S), TheOne(S) # None
  PROVE  S = {TheOne(S)}
  <1>1. Cardinality(S) = 1 /\ TheOne(S) = CHOOSE e \in S : TRUE
    BY DEF TheOne
  <1>2. PICK x : S = {x}
    BY <1>1, FS_Singleton
  <1> QED BY <1>1, <1>2

LEMMA MenuFinite ==
  ASSUME NEW list \in Seq(Entries)
  PROVE  IsFiniteSet(MenuOf(list)) /\ MenuOf(list) \in SUBSET Entries
  <1> DEFINE f == [i \in 1..Len(list) |-> list[i]]
  <1>1. DOMAIN list = 1..Len(list) /\ Len(list) \in Nat
    OBVIOUS
  <1>2. MenuOf(list) \in SUBSET Entries
    BY <1>1 DEF MenuOf
  <1>3. f \in [1..Len(list) -> MenuOf(list)]
    BY <1>1 DEF MenuOf
  <1>4. \A e \in MenuOf(list) : \E i \in 1..Len(list) : f[i] = e
    BY <1>1 DEF MenuOf
  <1>5. f \in Surjection(1..Len(list), MenuOf(list))
    BY <1>3, <1>4 DEF Surjection
  <1>6. IsFiniteSet(1..Len(list))
    BY <1>1, FS_Interval
  <1>7. IsFiniteSet(MenuOf(list))
    BY <1>5, <1>6, FS_Surjection
  <1> QED BY <1>2, <1>7
LEMMA InvoiceTerms ==
  ASSUME NEW i \in Invoices
  PROVE  /\ i.terms.msat \in Msats
         /\ i.terms.units # None => i.terms.units \in Units
         /\ i.terms.asset = None <=> i.terms.units = None
  <1>1. i.terms \in Terms
    BY DEF Invoices
  <1> QED BY <1>1 DEF Terms

LEMMA MenusOf ==
  ASSUME NEW d \in Discoveries
  PROVE  /\ d.payout \in Entries \cup {None}
         /\ d.accepted # None => d.accepted \in Seq(Entries) /\ d.accepted \in Menus
         /\ d.payout # None /\ d.accepted # None => d.payout \in MenuOf(d.accepted)
         /\ IsFiniteSet(Accepted(d))
  <1>1. /\ d.payout \in Entries \cup {None}
        /\ d.accepted # None => d.accepted \in Seq(Entries) /\ d.accepted \in Menus
        /\ d.payout # None /\ d.accepted # None => d.payout \in MenuOf(d.accepted)
    BY RelayAssumption DEF Discoveries
  <1>2. CASE d.accepted # None
    BY <1>1, <1>2, MenuFinite DEF Accepted
  <1>3. CASE d.accepted = None
    <2>1. IsFiniteSet({d.payout})
      BY FS_Singleton
    <2>2. Accepted(d) \in SUBSET {d.payout}
      BY <1>3 DEF Accepted
    <2> QED BY <1>1, <2>1, <2>2, FS_Subset
  <1> QED BY <1>1, <1>2, <1>3

\* What is selected is liquid and on the menu, and replaces only a payout asset
\* that is not.
LEMMA Selected ==
  ASSUME NEW d \in Discoveries, NEW l, NEW units, NEW msat,
         SelectLiquid(d, l, units, msat) # None
  PROVE  /\ Liquid(l, SelectLiquid(d, l, units, msat).asset, units, msat)
         /\ SelectLiquid(d, l, units, msat) \in Accepted(d)
         /\ d.payout \notin {None, SelectLiquid(d, l, units, msat)} =>
              ~Liquid(l, d.payout.asset, units, msat)
  <1> DEFINE list == IF d.accepted = None THEN <<>> ELSE d.accepted
             ready == {i \in DOMAIN list : Liquid(l, list[i].asset, units, msat)}
  <1>1. CASE d.payout # None /\ Liquid(l, d.payout.asset, units, msat)
    <2>1. SelectLiquid(d, l, units, msat) = d.payout
      BY <1>1 DEF SelectLiquid
    <2>2. d.payout \in Accepted(d)
      BY <1>1, MenusOf DEF Accepted
    <2> QED BY <1>1, <2>1, <2>2
  <1>2. CASE ~(d.payout # None /\ Liquid(l, d.payout.asset, units, msat))
    <2>1. ready # {} /\ SelectLiquid(d, l, units, msat) = list[Min(ready)]
      BY <1>2 DEF SelectLiquid
    <2>2. list \in Seq(Entries) /\ DOMAIN list = 1..Len(list) /\ Len(list) \in Nat
      BY MenusOf
    <2>3. Min(ready) \in ready
      <3>1. ready \in SUBSET (0..Len(list))
        BY <2>2
      <3> HIDE DEF ready, list
      <3> QED BY <2>1, <2>2, <3>1, MinOf
    <2>4. d.accepted # None /\ list = d.accepted
      BY <2>3
    <2>5. list[Min(ready)] \in MenuOf(d.accepted)
      BY <2>3, <2>4 DEF MenuOf
    <2> QED BY <1>2, <2>1, <2>3, <2>4, <2>5 DEF Accepted
  <1> QED BY <1>1, <1>2

\* What a relay is funded with, if it is not left to the LSP.
LEMMA Funded ==
  ASSUME NEW m \in Menus, NEW t, NEW l, NEW requested,
         FundingAsset(t, l, requested, MenuOf(m)) # None
  PROVE  LET entry == FundingAsset(t, l, requested, MenuOf(m))
         IN  /\ requested # None => Named(MenuOf(m), requested) = {entry}
             /\ requested = None => /\ entry \in MenuOf(m) /\ entry.asset = t.terms.asset
                                    /\ t.terms.units # None
                                    /\ Liquid(l, t.terms.asset, t.terms.units, t.terms.msat)
  <1> DEFINE own == {e \in MenuOf(m) : e.asset = t.terms.asset}
  <1>1. IsFiniteSet(MenuOf(m))
    BY MenuFinite, RelayAssumption
  <1>2. CASE requested # None
    <2>1. IsFiniteSet(Named(MenuOf(m), requested))
      BY <1>1, FS_Subset DEF Named
    <2>2. FundingAsset(t, l, requested, MenuOf(m)) = TheOne(Named(MenuOf(m), requested))
      BY <1>2 DEF FundingAsset
    <2> QED BY <1>2, <2>1, <2>2, OneMember
  <1>3. CASE requested = None
    <2>1. /\ t.terms.units # None /\ Liquid(l, t.terms.asset, t.terms.units, t.terms.msat)
          /\ FundingAsset(t, l, requested, MenuOf(m)) = TheOne(own)
      BY <1>3 DEF FundingAsset
    <2>2. IsFiniteSet(own)
      BY <1>1, FS_Subset
    <2>3. own = {TheOne(own)}
      BY <2>1, <2>2, OneMember
    <2> QED BY <1>3, <2>1, <2>3
  <1> QED BY <1>2, <1>3

LEMMA WishTarget ==
  ASSUME NEW w \in Wishes
  PROVE  /\ w.flow # "pick" => w.target \in Targets /\ w.target \in Invoices
         /\ w.flow = "select" => w.target.terms.units # None /\ w.asset = None
         /\ w.flow = "pick" => w.preference \in {"payout", "convertible"}
  BY RelayAssumption DEF Wishes

LEMMA CarriedStep == CarriedByOne /\ [RelayNext]_relayVars => CarriedByOne'
  <1> SUFFICES ASSUME CarriedByOne, [RelayNext]_relayVars PROVE CarriedByOne'
    OBVIOUS
  <1>1. CASE PickAsset
    BY <1>1 DEF PickAsset, Wish, Choose, CarriedByOne
  <1>2. CASE SelectAsset
    <2>1. PICK d \in Discoveries, l \in Listings :
            /\ channels' = l
            /\ Choose(SelectLiquid(d, l, wish'.target.terms.units, wish'.target.terms.msat))
      BY <1>2 DEF SelectAsset
    <2> DEFINE t == wish'.target.terms
    <2>2. wish' \in Wishes /\ wish'.flow = "select" /\ l \in SUBSET Channels
      BY <1>2, AssetsAssumption DEF SelectAsset, Wish
    <2>3. t.units \in Units /\ t.msat \in Msats
      BY <2>2, WishTarget, InvoiceTerms
    <2>4. stage' \in {"chosen", "refused"} /\ chosen' = SelectLiquid(d, l, t.units, t.msat)
      BY <2>1 DEF Choose
    <2>5. ASSUME chosen' # None PROVE \E c \in l : Carries(c, chosen'.asset, t.units, t.msat)
      <3>1. Liquid(l, chosen'.asset, t.units, t.msat)
        BY <2>4, <2>5, Selected
      <3> QED BY <2>2, <2>3, <3>1, LiquidCarries
    <2> QED BY <2>1, <2>4, <2>5 DEF CarriedByOne
  <1>3. CASE FundRelay
    <2>1. PICK m \in Menus, l \in Listings :
            /\ channels' = l
            /\ IF FundingRefused(wish'.asset, MenuOf(m))
                 THEN Choose(None)
                 ELSE /\ chosen' = FundingAsset(wish'.target, l, wish'.asset, MenuOf(m))
                      /\ stage' = "chosen"
      BY <1>3 DEF FundRelay
    <2> DEFINE t == wish'.target.terms
    <2>2. wish' \in Wishes /\ wish'.flow = "fund" /\ l \in SUBSET Channels
      BY <1>3, AssetsAssumption DEF FundRelay, Wish
    <2>3. t.msat \in Msats /\ (t.units # None => t.units \in Units)
      BY <2>2, WishTarget, InvoiceTerms
    <2>4. stage' \in {"chosen", "refused"}
      BY <2>1 DEF Choose
    <2>5. ASSUME wish'.asset = None, chosen' # None
          PROVE  \E c \in l : Carries(c, chosen'.asset, t.units, t.msat)
      <3>1. chosen' = FundingAsset(wish'.target, l, None, MenuOf(m))
        BY <2>1, <2>5 DEF FundingRefused, Choose
      <3>2. chosen'.asset = t.asset /\ t.units # None /\ Liquid(l, t.asset, t.units, t.msat)
        BY <2>5, <3>1, Funded
      <3> QED BY <2>2, <2>3, <3>2, LiquidCarries
    <2> QED BY <2>1, <2>4, <2>5 DEF CarriedByOne
  <1>4. CASE AskRelay
    BY <1>4 DEF AskRelay, CarriedByOne
  <1>5. CASE QuoteAnswers
    <2>1. CASE stage' = "refused"
      BY <2>1 DEF CarriedByOne
    <2>2. CASE stage' # "refused"
      <3>1. PICK a \in Answers, l \in Listings :
              /\ a.hodl.terms.asset # None /\ answer' = a /\ channels' = l
              /\ Liquid(l, a.hodl.terms.asset, a.hodl.terms.units, a.hodl.terms.msat)
              /\ stage' = "paying"
        BY <1>5, <2>2 DEF QuoteAnswers
      <3>2. a.hodl \in Invoices /\ l \in SUBSET Channels
        BY RelayAssumption, AssetsAssumption
      <3>3. a.hodl.terms.units \in Units /\ a.hodl.terms.msat \in Msats
        BY <3>1, <3>2, InvoiceTerms
      <3>4. \E c \in l : Carries(c, a.hodl.terms.asset, a.hodl.terms.units, a.hodl.terms.msat)
        BY <3>1, <3>2, <3>3, LiquidCarries
      <3> QED BY <3>1, <3>4 DEF CarriedByOne
    <2> QED BY <2>1, <2>2
  <1>6. CASE LspDelivers \/ RelayFails
    BY <1>6 DEF LspDelivers, RelayFails, CarriedByOne
  <1>7. CASE HodlEnds
    BY <1>7 DEF HodlEnds, CarriedByOne
  <1>8. CASE UNCHANGED relayVars
    BY <1>8 DEF relayVars, CarriedByOne
  <1> QED BY <1>1, <1>2, <1>3, <1>4, <1>5, <1>6, <1>7, <1>8 DEF RelayNext

\* CarriedByOne: what is chosen by liquidity or paid fits into one channel, whatever channels
\* the node lists, menus the LSP names and answers it gives.
THEOREM SessionCarriedByOne == SessionSpec => []CarriedByOne
  <1>1. SessionInit => CarriedByOne
    BY DEF SessionInit, RelayInit, CarriedByOne
  <1>2. CarriedByOne /\ [SessionNext]_sessionVars => CarriedByOne'
    <2>1. CarriedByOne /\ UNCHANGED relayVars => CarriedByOne'
      BY CarriedStep
    <2> QED BY <2>1, CarriedStep DEF SessionNext, sessionVars, Prepare, Relay
  <1> QED BY <1>1, <1>2, PTL DEF SessionSpec
-----------------------------------------------------------------------------
(* A choice is forced: it is the lone member of what was asked for.         *)
Menu(d) == IF d.accepted = None THEN {d.payout} ELSE MenuOf(d.accepted)

LEMMA MenuAccepted ==
  ASSUME NEW d \in Discoveries, Accepted(d) # {}
  PROVE  Menu(d) = Accepted(d)
  BY DEF Menu, Accepted

\* A request that is not refused names one member, by its id or its ticker.
LEMMA NamedOne ==
  ASSUME NEW menus, NEW requested, NEW entry, Named(menus, requested) = {entry}
  PROVE  /\ entry \in menus
         /\ \/ entry.asset = requested
            \/ {e \in menus : requested \in {e.asset, e.ticker}} = {entry}
  BY DEF Named

LEMMA Picked ==
  ASSUME NEW d \in Discoveries, NEW requested, NEW preference \in {"payout", "convertible"},
         Accepted(d) # {}, PickPayableAsset(d, requested, preference) # None
  PROVE  LET entry == PickPayableAsset(d, requested, preference)
         IN  /\ requested # None => Named(Accepted(d), requested) = {entry}
             /\ requested = None =>
                  /\ entry \in Accepted(d)
                  /\ \/ Accepted(d) = {entry}
                     \/ entry = d.payout /\ (preference = "payout" \/ Convertible(d) = {})
                     \/ preference = "convertible" /\ Convertible(d) = {entry}
  <1> DEFINE entry == PickPayableAsset(d, requested, preference)
  <1>1. /\ IsFiniteSet(Accepted(d)) /\ IsFiniteSet(Named(Accepted(d), requested))
        /\ IsFiniteSet(Convertible(d))
    BY MenusOf, FS_Subset DEF Named, Convertible
  <1>2. CASE requested # None
    BY <1>1, <1>2, OneMember DEF PickPayableAsset
  <1>3. CASE requested = None /\ Cardinality(Accepted(d)) = 1
    <2>1. entry = TheOne(Accepted(d))
      BY <1>3 DEF PickPayableAsset
    <2>2. Accepted(d) = {entry}
      BY <1>1, <2>1, OneMember
    <2> QED BY <1>3, <2>2
  <1>4. CASE requested = None /\ Cardinality(Accepted(d)) # 1
              /\ (preference = "payout" \/ Convertible(d) = {})
    <2>1. entry = d.payout /\ d.payout # None
      BY <1>4 DEF PickPayableAsset
    <2>2. d.payout \in Accepted(d)
      BY <2>1, MenusOf DEF Accepted
    <2> QED BY <1>4, <2>1, <2>2
  <1>5. CASE requested = None /\ Cardinality(Accepted(d)) # 1
              /\ preference = "convertible" /\ Convertible(d) # {}
    <2>1. entry = TheOne(Convertible(d))
      BY <1>5 DEF PickPayableAsset
    <2>2. Convertible(d) = {entry}
      BY <1>1, <2>1, OneMember
    <2>3. entry \in Accepted(d)
      BY <2>2 DEF Convertible
    <2> QED BY <1>5, <2>2, <2>3
  <1> QED BY <1>2, <1>3, <1>4, <1>5

LEMMA ForcedPick ==
  ASSUME PickAsset
  PROVE  ForcedChoice'
  <1>1. PICK d \in Discoveries :
          /\ menu' = d
          /\ Choose(IF Accepted(d) = {} THEN None
                                        ELSE PickPayableAsset(d, wish'.asset, wish'.preference))
    BY DEF PickAsset
  <1>2. wish' \in Wishes /\ wish'.flow = "pick"
    BY DEF PickAsset, Wish
  <1> SUFFICES ASSUME stage' = "chosen", chosen' # None PROVE ForcedChoice'
    BY DEF ForcedChoice
  <1>3. /\ Accepted(d) # {} /\ chosen' = PickPayableAsset(d, wish'.asset, wish'.preference)
        /\ wish'.preference \in {"payout", "convertible"}
    BY <1>1, <1>2, WishTarget DEF Choose
  <1>4. Menu(d) = Accepted(d)
    BY <1>3, MenuAccepted
  <1>5. CASE wish'.asset # None
    <2>1. Named(Accepted(d), wish'.asset) = {chosen'}
      BY <1>3, <1>5, Picked
    <2>2. /\ chosen' \in Menu(menu')
          /\ \/ chosen'.asset = wish'.asset
             \/ {e \in Menu(menu') : wish'.asset \in {e.asset, e.ticker}} = {chosen'}
      BY <1>1, <1>4, <2>1, NamedOne
    <2> QED BY <1>2, <1>5, <2>2 DEF ForcedChoice, Menu
  <1>6. CASE wish'.asset = None
    <2>1. /\ chosen' \in Accepted(d)
          /\ \/ Accepted(d) = {chosen'}
             \/ chosen' = d.payout /\ (wish'.preference = "payout" \/ Convertible(d) = {})
             \/ wish'.preference = "convertible" /\ Convertible(d) = {chosen'}
      BY <1>3, <1>6, Picked
    <2>2. Convertible(d) = {e \in Menu(d) : d.payout # None /\ e.asset # d.payout.asset}
      BY <1>4 DEF Convertible
    <2> QED BY <1>1, <1>2, <1>4, <1>6, <2>1, <2>2 DEF ForcedChoice, Menu
  <1> QED BY <1>5, <1>6

LEMMA ForcedSelect ==
  ASSUME SelectAsset
  PROVE  ForcedChoice'
  <1> DEFINE t == wish'.target.terms
  <1>1. PICK d \in Discoveries, l \in Listings :
          menu' = d /\ channels' = l /\ Choose(SelectLiquid(d, l, t.units, t.msat))
    BY DEF SelectAsset
  <1>2. wish' \in Wishes /\ wish'.flow = "select" /\ wish'.asset = None /\ l \in SUBSET Channels
    BY AssetsAssumption, WishTarget DEF SelectAsset, Wish
  <1>3. t.units \in Units /\ t.msat \in Msats
    BY <1>2, WishTarget, InvoiceTerms
  <1> SUFFICES ASSUME stage' = "chosen", chosen' # None PROVE ForcedChoice'
    BY DEF ForcedChoice
  <1>4. chosen' = SelectLiquid(d, l, t.units, t.msat)
    BY <1>1 DEF Choose
  <1>5. /\ chosen' \in Accepted(d)
        /\ d.payout \notin {None, chosen'} => ~Liquid(l, d.payout.asset, t.units, t.msat)
    BY <1>4, Selected
  <1>6. chosen' \in Menu(d)
    BY <1>5, MenuAccepted
  <1>7. d.payout \notin {None, chosen'} =>
          ~\E c \in l : Carries(c, d.payout.asset, t.units, t.msat)
    BY <1>2, <1>3, <1>5, LiquidCarries
  <1> QED BY <1>1, <1>2, <1>6, <1>7 DEF ForcedChoice, Menu

LEMMA ForcedFunding ==
  ASSUME FundRelay
  PROVE  ForcedChoice'
  <1>1. PICK m \in Menus, l \in Listings :
          /\ menu' = [payout |-> None, accepted |-> m]
          /\ IF FundingRefused(wish'.asset, MenuOf(m))
               THEN Choose(None)
               ELSE /\ chosen' = FundingAsset(wish'.target, l, wish'.asset, MenuOf(m))
                    /\ stage' = "chosen"
    BY DEF FundRelay
  <1>2. wish' \in Wishes /\ wish'.flow = "fund"
    BY DEF FundRelay, Wish
  <1> SUFFICES ASSUME stage' = "chosen", chosen' # None PROVE ForcedChoice'
    BY DEF ForcedChoice
  <1>3. chosen' = FundingAsset(wish'.target, l, wish'.asset, MenuOf(m))
    BY <1>1 DEF Choose
  <1>4. Menu(menu') = MenuOf(m)
    <2>1. m # None
      BY RelayAssumption
    <2> QED BY <1>1, <2>1 DEF Menu
  <1>5. CASE wish'.asset # None
    <2>1. Named(MenuOf(m), wish'.asset) = {chosen'}
      BY <1>3, <1>5, Funded
    <2>2. /\ chosen' \in Menu(menu')
          /\ \/ chosen'.asset = wish'.asset
             \/ {e \in Menu(menu') : wish'.asset \in {e.asset, e.ticker}} = {chosen'}
      BY <1>4, <2>1, NamedOne
    <2> QED BY <1>2, <1>5, <2>2 DEF ForcedChoice, Menu
  <1>6. CASE wish'.asset = None
    <2>1. chosen' \in MenuOf(m) /\ chosen'.asset = wish'.target.terms.asset
      BY <1>3, <1>6, Funded
    <2> QED BY <1>2, <1>4, <1>6, <2>1 DEF ForcedChoice, Menu
  <1> QED BY <1>5, <1>6

LEMMA ForcedStep == ForcedChoice /\ [RelayNext]_relayVars => ForcedChoice'
  <1> SUFFICES ASSUME ForcedChoice, [RelayNext]_relayVars PROVE ForcedChoice'
    OBVIOUS
  <1>1. CASE AskRelay \/ QuoteAnswers \/ LspDelivers \/ HodlEnds \/ RelayFails
    <2>1. stage' # "chosen"
      BY <1>1 DEF AskRelay, QuoteAnswers, LspDelivers, HodlEnds, RelayFails
    <2> QED BY <2>1 DEF ForcedChoice
  <1>2. CASE UNCHANGED relayVars
    BY <1>2 DEF relayVars, ForcedChoice
  <1> QED BY <1>1, <1>2, ForcedPick, ForcedSelect, ForcedFunding DEF RelayNext

\* ForcedChoice: whatever menu, ticker, preference and channels there are, an asset is chosen
\* only when nothing else on the menu was meant; an ambiguous choice is refused.
THEOREM SessionForcedChoice == SessionSpec => []ForcedChoice
  <1>1. SessionInit => ForcedChoice
    BY DEF SessionInit, RelayInit, ForcedChoice
  <1>2. ForcedChoice /\ [SessionNext]_sessionVars => ForcedChoice'
    <2>1. ForcedChoice /\ UNCHANGED relayVars => ForcedChoice'
      BY ForcedStep
    <2> QED BY <2>1, ForcedStep DEF SessionNext, sessionVars, Prepare, Relay
  <1> QED BY <1>1, <1>2, PTL DEF SessionSpec
-----------------------------------------------------------------------------
(* Waits: a call that is not ready has not seen what it waits for, and a    *)
(* payment that ended stays as it is.                                      *)
LEMMA LiquidityOfOne ==
  ASSUME NEW l \in SUBSET Channels
  PROVE  Liquidity(l) >= MinMsat <=>
           \/ MinMsat = 0
           \/ \E d \in l : /\ d.usable /\ d.peer = LspKey
                           /\ d.outbound # None /\ d.outbound >= MinMsat
  <1> DEFINE mine == {d \in l : d.usable /\ d.peer = LspKey}
             amounts == {0} \cup {Outbound(c) : c \in mine}
  <1>1. MinMsat \in Nat /\ MaxMsat \in Nat /\ None \notin Nat
    BY AssetsAssumption, ReadinessAssumption
  <1>2. \A d \in l : /\ d.outbound \in 0..MaxMsat \cup {None}
                     /\ Outbound(d) = IF d.outbound = None THEN 0 ELSE d.outbound
    BY DEF Channels, Outbound
  <1>3. \A d \in l : Outbound(d) \in 0..MaxMsat
    BY <1>1, <1>2
  <1>4. amounts \in SUBSET (0..MaxMsat) /\ amounts # {}
    BY <1>1, <1>3
  <1>5. /\ Max(amounts) \in amounts /\ \A x \in amounts : Max(amounts) >= x
        /\ Max(amounts) \in Int /\ \A x \in amounts : x \in Int
    <2> HIDE DEF amounts
    <2>1. Max(amounts) \in amounts /\ \A x \in amounts : Max(amounts) >= x
      BY <1>1, <1>4, MaxOf
    <2>2. \A x \in amounts : x \in Int
      BY <1>1, <1>4
    <2> QED BY <2>1, <2>2
  <1>6. Liquidity(l) = Max(amounts)
    BY DEF Liquidity
  <1>7. ASSUME Max(amounts) >= MinMsat, MinMsat # 0
        PROVE  \E d \in mine : d.outbound # None /\ d.outbound >= MinMsat
    <2>1. Max(amounts) # 0
      BY <1>1, <1>5, <1>7
    <2>2. PICK d \in mine : Max(amounts) = Outbound(d)
      BY <1>5, <2>1
    <2> QED BY <1>2, <1>7, <2>1, <2>2
  <1>8. ASSUME NEW d \in mine, d.outbound # None, d.outbound >= MinMsat
        PROVE  Max(amounts) >= MinMsat
    <2>1. Outbound(d) \in amounts /\ Outbound(d) >= MinMsat
      BY <1>2, <1>8
    <2>2. Max(amounts) >= Outbound(d) /\ Outbound(d) \in Int /\ Max(amounts) \in Int
      BY <1>5, <2>1
    <2> QED BY <1>1, <2>1, <2>2
  <1>9. MinMsat = 0 => Max(amounts) >= MinMsat
    BY <1>5
  <1> QED BY <1>6, <1>7, <1>8, <1>9

WatchTypes ==
  /\ listing \in [Calls -> SUBSET Channels]
  /\ status \in [Calls -> {"Pending", "Succeeded", "Refused"}]
  /\ payment \in [Payments -> Held \cup Refusals \cup {"PENDING", "SUCCEEDED"}]

Reached == {"ready", "refused"}

Watched(c) ==
  /\ status[c] # "Pending" => pc[c] \in Reached
  /\ listing[c] # {} => Kind(c) \in {"channel", "liquidity"}
  /\ pc[c] = "ready" => Kind(c) \in Polls
  /\ pc[c] = "ready" /\ Kind(c) = "settlement" => payment[order[c].payment] = "SUCCEEDED"
  /\ pc[c] = "refused" => Kind(c) = "settlement" /\ payment[order[c].payment] \in Refusals
  /\ Kind(c) = "channel" => (pc[c] = "ready" <=> \E d \in listing[c] : UsableRgb(d))
  /\ Kind(c) = "liquidity" /\ pc[c] = "ready" => Liquidity(listing[c]) >= MinMsat
  /\ Kind(c) = "liquidity" /\ pc[c] # "ready" /\ listing[c] # {} =>
       ~(Liquidity(listing[c]) >= MinMsat)

WatchInv == WatchTypes /\ \A c \in Calls : Watched(c)

KeepsEnds ==
  /\ payment' \in [Payments -> Held \cup Refusals \cup {"PENDING", "SUCCEEDED"}]
  /\ \A p \in Payments : payment[p] \in Refusals \cup {"SUCCEEDED"} => payment'[p] = payment[p]

LEMMA PaymentOf ==
  ASSUME EnlistInv, NEW c \in Calls, Kind(c) = "settlement"
  PROVE  order[c].payment \in Payments
  BY DEF EnlistInv, Types, Orders, Kind

\* What holds of a call that looks at nothing in the step.
LEMMA WatchFrame ==
  ASSUME EnlistInv, NEW d \in Calls, Watched(d), KeepsEnds, order' = order,
         listing'[d] = listing[d], status'[d] = status[d],
         pc'[d] = pc[d] \/ {pc[d], pc'[d]} \cap Reached = {}
  PROVE  Watched(d)'
  <1>1. Kind(d)' = Kind(d) /\ Liquidity(listing[d])' = Liquidity(listing[d])
    BY DEF Kind, Liquidity, Outbound
  <1>2. Kind(d) = "settlement" /\ payment[order[d].payment] \in Refusals \cup {"SUCCEEDED"} =>
          payment'[order'[d].payment] = payment[order[d].payment]
    BY PaymentOf DEF KeepsEnds
  <1> QED BY <1>1, <1>2 DEF Watched, Reached, UsableRgb

LEMMA WatchOthers ==
  ASSUME EnlistInv, WatchInv, NEW c \in Calls, KeepsEnds, order' = order, UNCHANGED waited,
         \/ UNCHANGED pc
         \/ pc[c] \notin Reached /\ \E s \in States \ Reached : pc' = [pc EXCEPT ![c] = s]
  PROVE  WatchInv'
  <1>1. ASSUME NEW d \in Calls PROVE Watched(d)'
    <2>1. pc'[d] = pc[d] \/ {pc[d], pc'[d]} \cap Reached = {}
      BY DEF EnlistInv, Types
    <2> QED BY <2>1, WatchFrame DEF WatchInv, waited
  <1> QED BY <1>1 DEF WatchInv, WatchTypes, KeepsEnds, waited

LEMMA ClaimsEnd ==
  ASSUME WatchTypes, NEW p \in Payments, Accepts(p)
  PROVE  KeepsEnds
  BY DEF WatchTypes, Accepts, KeepsEnds, Held, Refusals

LEMMA MovesEnd ==
  ASSUME WatchTypes, NEW p \in Payments, PaymentMoves(p)
  PROVE  KeepsEnds
  <1>1. PICK s \in Moves[payment[p]] : payment' = [payment EXCEPT ![p] = s]
    BY DEF PaymentMoves
  <1>2. payment[p] \in {"PENDING", "CLAIMABLE", "CLAIMING"}
    BY DEF PaymentMoves, Moves
  <1>3. s \in {"CLAIMABLE", "SUCCEEDED"} \cup Refusals
    BY <1>1, <1>2 DEF Moves
  <1> QED BY <1>1, <1>2, <1>3 DEF WatchTypes, KeepsEnds, Held, Refusals

\* The two looks of a wait.
LEMMA LookInv ==
  ASSUME EnlistInv, WatchInv, NEW c \in Calls, ChannelsListed(c) \/ StatusRead(c)
  PROVE  WatchInv'
  <1>0. /\ pc \in [Calls -> States] /\ order' = order /\ payment' = payment /\ KeepsEnds
        /\ pc[c] = "looking" /\ Watched(c)
    BY DEF EnlistInv, Types, ChannelsListed, StatusRead, inputs, WatchInv, WatchTypes, KeepsEnds
  <1>1. WatchTypes'
    BY <1>0, AssetsAssumption DEF WatchInv, WatchTypes, ChannelsListed, StatusRead, Normalized
  <1>2. ASSUME NEW d \in Calls, d # c PROVE Watched(d)'
    <2>1. pc'[d] = pc[d] /\ listing'[d] = listing[d] /\ status'[d] = status[d]
      BY <1>0, <1>2 DEF WatchInv, WatchTypes, ChannelsListed, StatusRead, Goto
    <2> QED BY <1>0, <2>1, WatchFrame DEF WatchInv
  <1>3. CASE ChannelsListed(c)
    <2>1. PICK seen \in Listings :
            /\ listing'[c] = seen /\ status' = status
            /\ pc'[c] = IF \/ Kind(c) = "channel" /\ \E d \in seen : UsableRgb(d)
                           \/ Kind(c) = "liquidity" /\ Liquidity(seen) >= MinMsat
                          THEN "ready" ELSE "sleeping"
      BY <1>0, <1>3 DEF ChannelsListed, Goto, WatchInv, WatchTypes
    <2>2. Kind(c)' = Kind(c) /\ Kind(c) \in {"channel", "liquidity"} /\ status[c] = "Pending"
      BY <1>0, <1>3 DEF ChannelsListed, Kind, Watched, Reached
    <2>3. Watched(c)'
      BY <2>1, <2>2 DEF Watched, Reached, Polls
    <2> QED BY <1>1, <1>2, <2>3 DEF WatchInv
  <1>4. CASE StatusRead(c)
    <2> DEFINE read == payment[order[c].payment]
    <2>1. /\ listing' = listing /\ status'[c] = Normalized(read)
          /\ pc'[c] = CASE Normalized(read) = "Succeeded" -> "ready"
                        [] Normalized(read) = "Refused" -> "refused"
                        [] OTHER -> "sleeping"
      BY <1>0, <1>4 DEF StatusRead, Goto, WatchInv, WatchTypes
    <2>2. Kind(c)' = Kind(c) /\ Kind(c) = "settlement" /\ payment'[order'[c].payment] = read
      BY <1>0, <1>4 DEF StatusRead, Kind
    <2>3. /\ Normalized(read) = "Succeeded" <=> read = "SUCCEEDED"
          /\ Normalized(read) = "Refused" <=> read \in Refusals
          /\ Normalized(read) \in {"Succeeded", "Refused", "Pending"}
      BY DEF Normalized, Refusals
    <2>4. listing[c] = {}
      BY <1>0, <2>2 DEF Watched
    <2>5. Watched(c)'
      BY <2>1, <2>2, <2>3, <2>4 DEF Watched, Reached, Polls
    <2> QED BY <1>1, <1>2, <2>5 DEF WatchInv
  <1> QED BY <1>3, <1>4

LEMMA WatchNext == EnlistInv /\ ClaimTypes /\ WatchInv /\ [Next]_vars => WatchInv'
  <1> SUFFICES ASSUME EnlistInv, ClaimTypes, WatchInv, [Next]_vars PROVE WatchInv'
    OBVIOUS
  <1>1. UNCHANGED payment => KeepsEnds
    BY DEF WatchInv, WatchTypes, KeepsEnds
  <1>2. ASSUME NEW c \in Calls, Claims(c) PROVE WatchInv'
    <2>1. order' = order /\ UNCHANGED waited
      BY <1>2 DEF Claims, PaymentsListed, ClaimAccepted, ClaimFails, inputs
    <2>2. KeepsEnds
      <3>1. \A p \in Unclaimed(c) : p \in Payments
        BY DEF ClaimTypes, Unclaimed
      <3>2. UNCHANGED payment \/ \E p \in Unclaimed(c) : Accepts(p)
        BY <1>2 DEF Claims, PaymentsListed, ClaimAccepted, ClaimFails
      <3> QED BY <1>1, <3>1, <3>2, ClaimsEnd DEF WatchInv
    <2>3. pc[c] \notin Reached /\ \E s \in States \ Reached : pc' = [pc EXCEPT ![c] = s]
      BY <1>2, ClaimMoves DEF Reached, States
    <2> QED BY <2>1, <2>2, <2>3, WatchOthers
  <1>3. ASSUME NEW c \in Calls, Progress(c), ~Claims(c), ~ChannelsListed(c), ~StatusRead(c)
        PROVE  WatchInv'
    <2> USE DEF Goto, States, Reached, inputs
    <2>1. order' = order /\ UNCHANGED <<waited, payment>>
      BY <1>3 DEF Progress, Claims, HookReturns, Synced, Wakes, NodeAnswers, AddressAnswers,
         LookupAgain, InfoAnswers, NextPeerRound, PeersListed, Registered, InvoiceCreated, Bridged,
         AwaitFails
    <2>2. pc[c] \notin Reached
      BY <1>3 DEF Progress, Claims, HookReturns, Synced, Wakes, NodeAnswers, AddressAnswers,
         LookupAgain, InfoAnswers, NextPeerRound, PeersListed, Registered, InvoiceCreated, Bridged,
         AwaitFails
    <2>3. \E s \in States \ Reached : pc' = [pc EXCEPT ![c] = s]
      <3>1. CASE HookReturns(c) \/ Synced(c) \/ Wakes(c) \/ Registered(c) \/ AwaitFails(c)
        BY <3>1 DEF HookReturns, Synced, Wakes, Round, Registered, AwaitFails
      <3>2. CASE NodeAnswers(c) \/ AddressAnswers(c) \/ LookupAgain(c) \/ InfoAnswers(c)
        BY <3>2 DEF NodeAnswers, AddressAnswers, LookupAgain, InfoAnswers, Register
      <3>3. CASE NextPeerRound(c) \/ PeersListed(c)
        BY <3>3 DEF NextPeerRound, PeerRound, PeersListed, Bootstrapped, Register
      <3>4. CASE InvoiceCreated(c) \/ Bridged(c)
        BY <3>4 DEF InvoiceCreated, Bridged
      <3> QED BY <1>3, <3>1, <3>2, <3>3, <3>4 DEF Progress, Claims
    <2> QED BY <1>1, <2>1, <2>2, <2>3, WatchOthers
  <1>4. ASSUME NEW c \in Calls, Call(c) PROVE WatchInv'
    <2>1. /\ pc[c] \notin Reached
          /\ order' = order /\ UNCHANGED <<waited, payment>>
      BY <1>4 DEF Call, inputs, Reached
    <2>2. \E s \in States \ Reached : pc' = [pc EXCEPT ![c] = s]
      <3>1. Kind(c) \in Polls \cup {"receive", "address", "bootstrap", "claim"}
        BY <1>4 DEF Call, Kind, Orders, EnlistInv, Types
      <3>2. CASE Kind(c) \in Polls
        BY <1>4, <3>2 DEF Call, Round, Goto, States, Reached, Polls
      <3>3. CASE Kind(c) \notin Polls
        BY <1>4, <3>1, <3>3 DEF Call, Goto, States, Polls, Reached
      <3> QED BY <3>2, <3>3
    <2> QED BY <1>1, <2>1, <2>2, WatchOthers
  <1>5. ASSUME NEW c \in Calls, Abort(c) \/ Expire(c) PROVE WatchInv'
    <2>1. /\ order' = order /\ UNCHANGED <<waited, payment>>
          /\ \/ UNCHANGED pc
             \/ pc[c] \notin Reached /\ \E s \in States \ Reached : pc' = [pc EXCEPT ![c] = s]
      BY <1>5 DEF Abort, Expire, Goto, States, Reached
    <2> QED BY <1>1, <2>1, WatchOthers
  <1>6. ASSUME NEW p \in Payments, PaymentMoves(p) PROVE WatchInv'
    <2>1. PICK c \in Calls : Kind(c) = "claim" \/ order[c].payment = p
      BY <1>6 DEF PaymentMoves
    <2>2. order' = order /\ UNCHANGED <<waited, pc>> /\ KeepsEnds
      BY <1>6, MovesEnd DEF PaymentMoves, WatchInv
    <2> QED BY <2>1, <2>2, WatchOthers
  <1>7. CASE UNCHANGED vars
    <2>1. order' = order /\ UNCHANGED <<waited, pc>> /\ KeepsEnds
      BY <1>1, <1>7 DEF vars, waited
    <2>2. ASSUME NEW d \in Calls PROVE Watched(d)'
      BY <2>1, WatchFrame DEF WatchInv, waited
    <2> QED BY <1>7, <2>2 DEF WatchInv, WatchTypes, vars
  <1> QED BY <1>2, <1>3, <1>4, <1>5, <1>6, <1>7, LookInv DEF Next

LEMMA WatchStart == Init => WatchInv
  BY DEF Init, WatchInv, WatchTypes, Watched, Reached, Kind

LEMMA WatchEnds == WatchInv => EndsTruly
  <1> SUFFICES ASSUME WatchInv PROVE EndsTruly
    OBVIOUS
  <1>1. \A c \in Calls : Watched(c) /\ listing[c] \in SUBSET Channels
    BY DEF WatchInv, WatchTypes
  <1> QED BY <1>1, LiquidityOfOne DEF EndsTruly, Watched, Reached, Polls, UsableRgb

\* EndsTruly: every wait that ends reports what is true of the channels it saw and of the payment,
\* and a timeout is no answer that was missed; for any listings, payments and deadlines.
THEOREM SessionEndsTruly == SessionSpec => []EndsTruly
  <1> DEFINE Inv == EnlistInv /\ ClaimInv /\ WatchInv
  <1>1. SessionInit => Inv
    BY EnlistStart, ClaimStart, WatchStart DEF SessionInit
  <1>2. Inv /\ [SessionNext]_sessionVars => Inv'
    BY EnlistNext, ClaimNext, WatchNext DEF ClaimInv, SessionNext, sessionVars, Prepare, Relay
  <1> QED BY <1>1, <1>2, WatchEnds, PTL DEF SessionSpec
-----------------------------------------------------------------------------
(* Every call comes to its end.  What a call under way can do without any   *)
(* of its awaits being rejected: the guards of Progress but AwaitFails.    *)
CanProgress(c) ==
  \/ pc[c] \in {"hook", "syncing", "sleeping", "creating", "bridging", "node", "lookup", "info",
                "connecting", "peers", "registering", "listing"}
  \/ pc[c] = "looking" /\ Kind(c) \in Polls
  \/ pc[c] = "resting" /\ Kind(c) \in {"address", "bootstrap"}
  \/ pc[c] = "claiming" /\ Unclaimed(c) # {}

\* No call waits for what another one does or for a payment that is gone.
NoneStuck == \A c \in Calls : pc[c] # "idle" /\ ~Ended(c) => CanProgress(c)

(* The most steps a call has left, if it has no deadline or has passed it.  *)
Left(c) ==
  CASE pc[c] = "idle" -> 2 * MaxLookups + Cardinality(Payments) + 6
    [] pc[c] = "node" -> 2 * MaxLookups + 4
    [] pc[c] = "lookup" -> 2 * (MaxLookups - lookups[c]) + 4
    [] pc[c] = "resting" /\ Kind(c) = "address" -> 2 * (MaxLookups - lookups[c]) + 3
    [] pc[c] = "listing" -> Cardinality(Payments) + 1
    [] pc[c] = "claiming" -> Cardinality(Unclaimed(c))
    [] pc[c] \in {"hook", "connecting"} -> 4
    [] pc[c] \in {"syncing", "peers"} -> 3
    [] pc[c] = "resting" /\ Kind(c) # "address" -> 2
    [] pc[c] \in {"looking", "creating", "info"} -> 2
    [] pc[c] \in {"sleeping", "bridging", "registering"} -> 1
    [] OTHER -> 0

Overdue(c) == c \in late \/ Kind(c) \notin Polls \cup {"bootstrap"}

\* A call that has no deadline, or has passed it, comes nearer to its end with
\* each of its steps, and nothing that other calls, the node or the LSP do
\* takes it further away: lookups and claims are bounded, and a poll whose
\* deadline has passed begins no round.
FlowsRunDown ==
  [][\A c \in Calls : Overdue(c) =>
       /\ Overdue(c)' /\ Left(c) \in Nat /\ Left(c)' <= Left(c)
       /\ Call(c) \/ Progress(c) => Left(c)' < Left(c)]_vars
(* The inductive invariant: the kind of a call that polls, the lookups it   *)
(* has left, and a claim that has something to claim.                      *)
FlowAt(c) ==
  /\ pc[c] \in {"hook", "syncing", "looking", "sleeping"} => Kind(c) \in Polls
  /\ pc[c] = "resting" /\ Kind(c) = "address" => lookups[c] < MaxLookups
  /\ pc[c] = "claiming" => Unclaimed(c) # {}
FlowInv == lookups \in [Calls -> 0..MaxLookups] /\ \A c \in Calls : FlowAt(c)

Ends == {"ready", "timeout", "aborted", "refused", "done", "failed"}

\* The transitions of a call that keeps its lookups and claims nothing.
Passes(c) ==
  /\ UNCHANGED lookups
  /\ pc[c] \notin {"idle", "listing", "claiming"} \cup Ends
  /\ \/ pc'[c] \in Ends
     \/ pc[c] = "hook" /\ pc'[c] = "syncing"
     \/ pc[c] = "syncing" /\ pc'[c] = "looking"
     \/ pc[c] = "looking" /\ pc'[c] = "sleeping" /\ Kind(c) \in Polls
     \/ pc[c] = "sleeping" /\ pc'[c] \in {"hook", "syncing"} /\ c \notin late
     \/ pc[c] = "creating" /\ pc'[c] = "bridging"
     \/ pc[c] = "lookup" /\ pc'[c] = "info"
     \/ pc[c] = "lookup" /\ pc'[c] = "resting" /\ lookups[c] < MaxLookups
     \/ pc[c] \in {"info", "peers"} /\ pc'[c] = "registering"
     \/ /\ pc[c] \in {"connecting", "resting"} /\ Kind(c) = "bootstrap"
        /\ pc'[c] = "peers" /\ c \notin late
     \/ pc[c] = "peers" /\ pc'[c] = "resting" /\ Kind(c) # "address"

\* A lookup of the address, the first one or the next.
LooksUp(c) ==
  /\ pc'[c] = "lookup"
  /\ \/ pc[c] = "node" /\ lookups' = [lookups EXCEPT ![c] = 1]
     \/ pc[c] = "resting" /\ Kind(c) = "address" /\ lookups' = [lookups EXCEPT ![c] = @ + 1]

LEMMA FlowMoves ==
  ASSUME EnlistInv, FlowInv, NEW c \in Calls, Progress(c), ~Claims(c)
  PROVE  Passes(c) \/ LooksUp(c) \/ (pc[c] = "listing" /\ pc'[c] = "failed" /\ UNCHANGED lookups)
  <1>1. pc \in [Calls -> States] /\ Enlisted(c)
    BY DEF EnlistInv, Types
  <1> USE DEF Goto, Ends, enlisted
  <1>2. CASE HookReturns(c) \/ Synced(c)
    BY <1>1, <1>2 DEF HookReturns, Synced, Passes
  <1>3. CASE ChannelsListed(c) \/ StatusRead(c)
    BY <1>1, <1>3 DEF ChannelsListed, StatusRead, Passes, Polls
  <1>4. CASE Wakes(c)
    BY <1>1, <1>4 DEF Wakes, Round, Passes
  <1>5. CASE NodeAnswers(c) \/ LookupAgain(c)
    BY <1>1, <1>5 DEF NodeAnswers, LookupAgain, LooksUp
  <1>6. CASE AddressAnswers(c)
    BY <1>1, <1>6 DEF AddressAnswers, Passes
  <1>7. CASE InfoAnswers(c)
    BY <1>1, <1>7 DEF InfoAnswers, Register, Passes
  <1>8. CASE NextPeerRound(c)
    BY <1>1, <1>8 DEF NextPeerRound, PeerRound, Bootstrapped, Passes, Enlisted
  <1>9. CASE PeersListed(c)
    BY <1>1, <1>9 DEF PeersListed, Bootstrapped, Register, Passes, Enlisted
  <1>10. CASE Registered(c)
    BY <1>1, <1>10 DEF Registered, Passes
  <1>11. CASE InvoiceCreated(c) \/ Bridged(c)
    BY <1>1, <1>11 DEF InvoiceCreated, Bridged, Passes
  <1>12. CASE AwaitFails(c)
    BY <1>1, <1>12 DEF AwaitFails, Passes
  <1> QED BY <1>2, <1>3, <1>4, <1>5, <1>6, <1>7, <1>8, <1>9, <1>10, <1>11, <1>12
          DEF Progress, Claims

\* A claim begins with something to claim, and each report is of one payment.
LEMMA ClaimAdvances ==
  ASSUME EnlistInv, ClaimInv, NEW c \in Calls, Claims(c)
  PROVE  /\ UNCHANGED <<order, lookups>>
         /\ \/ pc[c] = "listing" /\ pc'[c] = "done"
            \/ pc[c] = "listing" /\ pc'[c] = "claiming" /\ Unclaimed(c)' # {}
            \/ /\ pc[c] = "claiming"
               /\ \E p \in Unclaimed(c) :
                    /\ Unclaimed(c)' = Unclaimed(c) \ {p}
                    /\ \/ pc'[c] = "done"
                       \/ pc'[c] = "claiming" /\ Unclaimed(c)' # {}
  <1>1. UNCHANGED <<order, lookups>> /\ pc \in [Calls -> States] /\ Claimed(c)
    BY DEF Claims, PaymentsListed, ClaimAccepted, ClaimFails, inputs, enlisted, EnlistInv, Types,
       ClaimInv
  <1>2. CASE PaymentsListed(c)
    <2>1. PICK held \in {{}, {p \in Payments : payment[p] \in Held}} :
            /\ listed' = [listed EXCEPT ![c] = held]
            /\ Goto(c, IF held = {} THEN "done" ELSE "claiming")
      BY <1>2 DEF PaymentsListed
    <2>2. pc[c] = "listing" /\ reports' = reports /\ reports[c] = <<>>
      BY <1>1, <1>2 DEF PaymentsListed, Claimed
    <2>3. Reported(c)' = {} /\ listed'[c] = held
      BY <2>1, <2>2 DEF Reported, ClaimInv, ClaimTypes
    <2>4. Unclaimed(c)' = held
      BY <2>3 DEF Unclaimed
    <2> QED BY <1>1, <2>1, <2>2, <2>4 DEF Goto
  <1>3. CASE ClaimAccepted(c) \/ ClaimFails(c)
    <2>1. PICK p \in Unclaimed(c), success \in BOOLEAN : Report(c, p, success)
      BY <1>3 DEF ClaimAccepted, ClaimFails
    <2>2. pc[c] = "claiming" /\ listed' = listed
      BY <1>3 DEF ClaimAccepted, ClaimFails
    <2>3. Reported(c)' = Reported(c) \cup {p}
      <3> DEFINE Rows == [payment : Payments, claimed : BOOLEAN]
                 row == [payment |-> p, claimed |-> success]
                 n == Len(reports[c])
      <3>1. reports \in [Calls -> Seq(Rows)] /\ p \in Payments
        BY DEF ClaimInv, ClaimTypes, Unclaimed
      <3>2. row \in Rows /\ row.payment = p /\ reports' = [reports EXCEPT ![c] = Append(@, row)]
        BY <2>1, <3>1 DEF Report
      <3> HIDE DEF Rows, row
      <3>3. /\ n \in Nat /\ reports'[c] = Append(reports[c], row)
            /\ \A i \in 1..n : Append(reports[c], row)[i] = reports[c][i]
            /\ DOMAIN Append(reports[c], row) = 1..(n + 1) /\ DOMAIN reports[c] = 1..n
            /\ Append(reports[c], row)[n + 1] = row
        BY <3>1, <3>2, RowAppended
      <3> HIDE DEF n
      <3> QED BY <3>2, <3>3 DEF Reported
    <2>4. Unclaimed(c)' = Unclaimed(c) \ {p}
      BY <2>2, <2>3 DEF Unclaimed
    <2>5. pc'[c] = IF Unclaimed(c) = {p} THEN "done" ELSE "claiming"
      BY <1>1, <2>1 DEF Report, Goto
    <2> QED BY <1>1, <2>2, <2>4, <2>5
  <1> QED BY <1>1, <1>2, <1>3 DEF Claims

\* What a call does leaves every other one where it is.
LEMMA FlowApart ==
  ASSUME EnlistInv, ClaimInv, FlowInv, NEW c \in Calls, NEW d \in Calls \ {c},
         Call(c) \/ Progress(c) \/ Abort(c) \/ Expire(c)
  PROVE  /\ pc'[d] = pc[d] /\ lookups'[d] = lookups[d] /\ Unclaimed(d)' = Unclaimed(d)
         /\ order' = order
  <1>1. pc \in [Calls -> States] /\ lookups \in [Calls -> 0..MaxLookups]
    BY DEF EnlistInv, Types, FlowInv
  <1>2. CASE Claims(c)
    BY <1>1, <1>2, ClaimMoves, ClaimsInv, ClaimAdvances DEF Unclaimed, Reported
  <1>3. CASE Progress(c) /\ ~Claims(c)
    <2>1. pc'[d] = pc[d] /\ order' = order /\ UNCHANGED <<listed, reports>>
      BY <1>1, <1>3, OtherSteps DEF Moved
    <2>2. lookups'[d] = lookups[d]
      BY <1>1, <1>3, FlowMoves DEF Passes, LooksUp
    <2> QED BY <2>1, <2>2 DEF Unclaimed, Reported
  <1>4. CASE Call(c)
    <2>1. pc'[d] = pc[d]
      <3>1. Kind(c) \in Polls \cup {"receive", "address", "bootstrap", "claim"}
        BY <1>4 DEF Call, Kind, Orders, EnlistInv, Types
      <3> QED BY <1>1, <1>4, <3>1 DEF Call, Round, Goto, Polls
    <2> QED BY <1>4, <2>1 DEF Call, inputs, enlisted, claims, Unclaimed, Reported
  <1>5. CASE Abort(c) \/ Expire(c)
    BY <1>1, <1>5 DEF Abort, Expire, Goto, enlisted, claims, Unclaimed, Reported
  <1> QED BY <1>2, <1>3, <1>4, <1>5

\* A call begins with the first state of its flow.
LEMMA CallBegins ==
  ASSUME EnlistInv, NEW c \in Calls, Call(c)
  PROVE  /\ pc[c] = "idle" /\ UNCHANGED <<order, lookups>>
         /\ \/ pc'[c] \in {"hook", "syncing"} /\ Kind(c) \in Polls
            \/ pc'[c] \in {"timeout", "aborted", "creating", "node", "connecting", "listing"}
  <1>1. Kind(c) \in Polls \cup {"receive", "address", "bootstrap", "claim"}
    BY DEF Call, Kind, Orders, EnlistInv, Types
  <1>2. pc \in [Calls -> States]
    BY DEF EnlistInv, Types
  <1>3. CASE Kind(c) \in Polls
    BY <1>2, <1>3 DEF Call, Round, Goto, inputs, enlisted
  <1>4. CASE Kind(c) \notin Polls
    BY <1>1, <1>2, <1>4 DEF Call, Goto, Polls, inputs, enlisted
  <1> QED BY <1>3, <1>4

LEMMA FlowStart == Init => FlowInv
  <1> SUFFICES ASSUME Init PROVE FlowInv
    OBVIOUS
  <1>1. 0 \in 0..MaxLookups
    BY ReadinessAssumption
  <1>2. ASSUME NEW c \in Calls PROVE FlowAt(c)
    BY DEF Init, FlowAt
  <1> QED BY <1>1, <1>2 DEF Init, FlowInv

LEMMA FlowNext == EnlistInv /\ ClaimInv /\ FlowInv /\ [Next]_vars => FlowInv'
  <1> SUFFICES ASSUME EnlistInv, ClaimInv, FlowInv, [Next]_vars PROVE FlowInv'
    OBVIOUS
  <1>1. /\ pc \in [Calls -> States] /\ lookups \in [Calls -> 0..MaxLookups]
        /\ MaxLookups \in Nat \ {0} /\ \A c \in Calls : FlowAt(c) /\ Enlisted(c)
    BY ReadinessAssumption DEF EnlistInv, Types, FlowInv
  <1>2. ASSUME UNCHANGED <<pc, order, lookups, listed, reports>> PROVE FlowInv'
    BY <1>2 DEF FlowInv, FlowAt, Kind, Unclaimed, Reported
  <1>3. ASSUME NEW c \in Calls, Call(c) \/ Progress(c) \/ Abort(c) \/ Expire(c),
               lookups' \in [Calls -> 0..MaxLookups], FlowAt(c)'
        PROVE  FlowInv'
    <2>1. ASSUME NEW d \in Calls, d # c PROVE FlowAt(d)'
      <3>1. /\ pc'[d] = pc[d] /\ lookups'[d] = lookups[d] /\ Unclaimed(d)' = Unclaimed(d)
            /\ order' = order
        BY <1>3, <2>1, FlowApart
      <3> QED BY <1>1, <3>1 DEF FlowAt, Kind
    <2> QED BY <1>3, <2>1 DEF FlowInv
  <1>4. ASSUME NEW c \in Calls, Call(c) PROVE FlowInv'
    <2>1. FlowAt(c)'
      BY <1>4, CallBegins DEF FlowAt, Kind
    <2>2. lookups' \in [Calls -> 0..MaxLookups]
      BY <1>1, <1>4, CallBegins
    <2> QED BY <1>3, <1>4, <2>1, <2>2
  <1>5. ASSUME NEW c \in Calls, Claims(c) PROVE FlowInv'
    <2>1. FlowAt(c)'
      BY <1>5, ClaimAdvances DEF FlowAt
    <2>2. lookups' \in [Calls -> 0..MaxLookups]
      BY <1>1, <1>5, ClaimAdvances
    <2> QED BY <1>3, <1>5, <2>1, <2>2 DEF Progress, Claims
  <1>6. ASSUME NEW c \in Calls, Progress(c), ~Claims(c) PROVE FlowInv'
    <2>1. order' = order /\ Kind(c)' = Kind(c)
      BY <1>6, OtherSteps DEF Kind
    <2>2. CASE Passes(c) \/ (pc[c] = "listing" /\ pc'[c] = "failed" /\ UNCHANGED lookups)
      <3>1. FlowAt(c)'
        BY <1>1, <2>1, <2>2 DEF Passes, FlowAt, Ends
      <3>2. lookups' \in [Calls -> 0..MaxLookups]
        BY <1>1, <2>2 DEF Passes
      <3> QED BY <1>3, <1>6, <3>1, <3>2
    <2>3. CASE LooksUp(c)
      <3>1. FlowAt(c)'
        BY <2>3 DEF LooksUp, FlowAt
      <3>2. lookups' \in [Calls -> 0..MaxLookups]
        BY <1>1, <2>3 DEF LooksUp, FlowAt
      <3> QED BY <1>3, <1>6, <3>1, <3>2
    <2> QED BY <1>6, <2>2, <2>3, FlowMoves
  <1>7. ASSUME NEW c \in Calls, Abort(c) PROVE FlowInv'
    <2>1. UNCHANGED <<order, lookups, listed, reports>>
      BY <1>7 DEF Abort, enlisted, claims
    <2>2. pc'[c] = pc[c] \/ pc'[c] = "aborted"
      BY <1>1, <1>7 DEF Abort, Goto
    <2>3. FlowAt(c)'
      BY <1>1, <2>1, <2>2 DEF FlowAt, Kind, Unclaimed, Reported
    <2> QED BY <1>1, <1>3, <1>7, <2>1, <2>3
  <1>8. ASSUME NEW c \in Calls, Expire(c) PROVE FlowInv'
    BY <1>2, <1>8 DEF Expire, enlisted, claims
  <1>9. ASSUME NEW p \in Payments, PaymentMoves(p) PROVE FlowInv'
    BY <1>2, <1>9 DEF PaymentMoves, enlisted, claims
  <1>10. CASE UNCHANGED vars
    BY <1>2, <1>10 DEF vars
  <1> QED BY <1>4, <1>5, <1>6, <1>7, <1>8, <1>9, <1>10 DEF Next

LEMMA FlowInvariant == SessionSpec => [](EnlistInv /\ ClaimInv /\ FlowInv)
  <1>1. SessionInit => EnlistInv /\ ClaimInv /\ FlowInv
    BY EnlistStart, ClaimStart, FlowStart DEF SessionInit
  <1>2. EnlistInv /\ ClaimInv /\ FlowInv /\ [SessionNext]_sessionVars
        => (EnlistInv /\ ClaimInv /\ FlowInv)'
    BY EnlistNext, ClaimNext, FlowNext DEF SessionNext, sessionVars, Prepare, Relay
  <1> QED BY <1>1, <1>2, PTL DEF SessionSpec

\* A call that was made and has not ended can always take a step of its own.
THEOREM SessionNoneStuck == SessionSpec => []NoneStuck
  <1>1. EnlistInv /\ FlowInv => NoneStuck
    <2> SUFFICES ASSUME EnlistInv, FlowInv, NEW c \in Calls, pc[c] # "idle", ~Ended(c)
                 PROVE  CanProgress(c)
      BY DEF NoneStuck
    <2>1. pc[c] \in States /\ Enlisted(c) /\ FlowAt(c)
      BY DEF EnlistInv, Types, FlowInv
    <2> QED BY <2>1 DEF States, Ended, Enlisted, FlowAt, CanProgress
  <1> QED BY <1>1, FlowInvariant, PTL

\* What a call has listed and not reported is finite.
LEMMA UnclaimedFinite ==
  ASSUME ClaimTypes, NEW c \in Calls
  PROVE  /\ IsFiniteSet(Unclaimed(c)) /\ Cardinality(Unclaimed(c)) \in Nat
         /\ Cardinality(Unclaimed(c)) <= Cardinality(Payments) /\ Cardinality(Payments) \in Nat
         /\ Unclaimed(c) # {} => Cardinality(Unclaimed(c)) > 0
         /\ \A p \in Unclaimed(c) :
              Cardinality(Unclaimed(c) \ {p}) = Cardinality(Unclaimed(c)) - 1
  <1>1. Unclaimed(c) \subseteq Payments /\ IsFiniteSet(Payments)
    BY ReadinessAssumption DEF ClaimTypes, Unclaimed
  <1>2. IsFiniteSet(Unclaimed(c)) /\ Cardinality(Unclaimed(c)) <= Cardinality(Payments)
    BY <1>1, FS_Subset
  <1>3. Cardinality(Unclaimed(c)) \in Nat /\ Cardinality(Payments) \in Nat
    BY <1>1, <1>2, FS_CardinalityType
  <1>4. Unclaimed(c) # {} => Cardinality(Unclaimed(c)) # 0
    BY <1>2, FS_EmptySet
  <1>5. \A p \in Unclaimed(c) : Cardinality(Unclaimed(c) \ {p}) = Cardinality(Unclaimed(c)) - 1
    BY <1>2, FS_RemoveElement
  <1> QED BY <1>2, <1>3, <1>4, <1>5

UnclaimedFits == \A c \in Calls : Cardinality(Unclaimed(c)) \in 0..Cardinality(Payments)

LEMMA UnclaimedBounded == ClaimInv => UnclaimedFits
  BY UnclaimedFinite DEF ClaimInv, UnclaimedFits

LEMMA UnclaimedBoundedNext == ClaimInv' => UnclaimedFits'
  BY UnclaimedBounded, PTL

\* The steps left are a natural number, the largest before the call begins.
LeftFits(c) ==
  /\ Left(c) \in Nat
  /\ Left(c) = 0 <=> pc[c] \in Ends
  /\ pc[c] # "idle" => Left(c) < 2 * MaxLookups + Cardinality(Payments) + 6
AllLeftFits == \A c \in Calls : LeftFits(c)

LEMMA LeftNat == EnlistInv /\ ClaimInv /\ FlowInv => AllLeftFits
  <1> SUFFICES ASSUME EnlistInv, ClaimInv, FlowInv, NEW c \in Calls
               PROVE  LeftFits(c)
    BY DEF AllLeftFits
  <1>1. /\ pc[c] \in States /\ lookups[c] \in 0..MaxLookups /\ FlowAt(c)
        /\ MaxLookups \in Nat \ {0}
    BY ReadinessAssumption DEF EnlistInv, Types, FlowInv
  <1> DEFINE m == Cardinality(Payments)
             n == Cardinality(Unclaimed(c))
  <1>2. m \in Nat /\ n \in Nat /\ n <= m /\ (pc[c] = "claiming" => n > 0)
    BY <1>1, UnclaimedFinite DEF ClaimInv, FlowAt
  <1> HIDE DEF m, n
  <1>3. Left(c) = CASE pc[c] = "idle" -> 2 * MaxLookups + m + 6
                    [] pc[c] = "node" -> 2 * MaxLookups + 4
                    [] pc[c] = "lookup" -> 2 * (MaxLookups - lookups[c]) + 4
                    [] pc[c] = "resting" /\ Kind(c) = "address" -> 2 * (MaxLookups - lookups[c]) + 3
                    [] pc[c] = "listing" -> m + 1
                    [] pc[c] = "claiming" -> n
                    [] pc[c] \in {"hook", "connecting"} -> 4
                    [] pc[c] \in {"syncing", "peers"} -> 3
                    [] pc[c] = "resting" /\ Kind(c) # "address" -> 2
                    [] pc[c] \in {"looking", "creating", "info"} -> 2
                    [] pc[c] \in {"sleeping", "bridging", "registering"} -> 1
                    [] OTHER -> 0
    BY DEF Left, m, n
  <1>4. 2 * MaxLookups + Cardinality(Payments) + 6 = 2 * MaxLookups + m + 6
    BY DEF m
  <1> QED BY <1>1, <1>2, <1>3, <1>4 DEF States, Ends, LeftFits

LEMMA LeftNatNext == (EnlistInv /\ ClaimInv /\ FlowInv)' => AllLeftFits'
  BY LeftNat, PTL

\* The steps of an overdue call bring it nearer to its end.
LEMMA FlowDown ==
  ASSUME EnlistInv, ClaimInv, FlowInv, EnlistInv', ClaimInv', FlowInv',
         NEW c \in Calls, Overdue(c), Call(c) \/ Progress(c)
  PROVE  Left(c)' < Left(c)
  <1>1. /\ pc[c] \in States /\ pc'[c] \in States /\ lookups \in [Calls -> 0..MaxLookups]
        /\ MaxLookups \in Nat \ {0} /\ Enlisted(c) /\ FlowAt(c)
        /\ lookups[c] \in 0..MaxLookups /\ lookups'[c] \in 0..MaxLookups
    BY ReadinessAssumption DEF EnlistInv, Types, FlowInv
  <1>2. /\ Left(c) \in Nat /\ Left(c)' \in Nat
        /\ (Left(c) = 0 <=> pc[c] \in Ends) /\ (Left(c)' = 0 <=> pc'[c] \in Ends)
        /\ pc'[c] # "idle" => Left(c)' < 2 * MaxLookups + Cardinality(Payments) + 6
    <2>1. LeftFits(c) /\ LeftFits(c)'
      BY LeftNat, LeftNatNext DEF AllLeftFits
    <2> QED BY <2>1 DEF LeftFits
  <1>3. CASE Call(c)
    <2>1. pc[c] = "idle" /\ pc'[c] # "idle"
      BY <1>3, CallBegins
    <2>2. Left(c) = 2 * MaxLookups + Cardinality(Payments) + 6
      BY <2>1 DEF Left
    <2> QED BY <1>2, <2>1, <2>2
  <1>4. CASE pc'[c] \in Ends /\ pc[c] \notin Ends
    BY <1>2, <1>4
  <1>5. CASE Claims(c)
    <2>1. CASE pc[c] = "listing" /\ pc'[c] = "claiming"
      <3>1. Left(c) = Cardinality(Payments) + 1 /\ Left(c)' = Cardinality(Unclaimed(c)')
        BY <2>1 DEF Left
      <3>2. /\ Cardinality(Unclaimed(c)') <= Cardinality(Payments)
            /\ Cardinality(Unclaimed(c)') \in Nat /\ Cardinality(Payments) \in Nat
        <4>1. Cardinality(Unclaimed(c)') \in 0..Cardinality(Payments)
          BY UnclaimedBoundedNext DEF UnclaimedFits
        <4>2. Cardinality(Payments) \in Nat
          BY ReadinessAssumption, FS_CardinalityType
        <4> QED BY <4>1, <4>2
      <3> QED BY <3>1, <3>2
    <2>2. CASE pc[c] = "claiming" /\ pc'[c] = "claiming"
      <3>1. PICK p \in Unclaimed(c) : Unclaimed(c)' = Unclaimed(c) \ {p}
        BY <1>5, <2>2, ClaimAdvances
      <3>2. Left(c) = Cardinality(Unclaimed(c)) /\ Left(c)' = Cardinality(Unclaimed(c)')
        BY <2>2 DEF Left
      <3>3. Cardinality(Unclaimed(c)') = Cardinality(Unclaimed(c)) - 1
            /\ Cardinality(Unclaimed(c)) \in Nat
        BY <3>1, UnclaimedFinite DEF ClaimInv
      <3> QED BY <3>2, <3>3
    <2> QED BY <1>4, <1>5, <2>1, <2>2, ClaimAdvances DEF Ends
  <1>6. CASE LooksUp(c)
    <2>1. CASE pc[c] = "node" /\ lookups'[c] = 1 /\ pc'[c] = "lookup"
      <3>1. Left(c) = 2 * MaxLookups + 4 /\ Left(c)' = 2 * (MaxLookups - lookups'[c]) + 4
        BY <2>1 DEF Left
      <3> QED BY <1>1, <2>1, <3>1
    <2>2. CASE /\ pc[c] = "resting" /\ Kind(c) = "address" /\ lookups'[c] = lookups[c] + 1
               /\ pc'[c] = "lookup"
      <3>1. /\ Left(c) = 2 * (MaxLookups - lookups[c]) + 3
            /\ Left(c)' = 2 * (MaxLookups - lookups'[c]) + 4
        BY <2>2 DEF Left
      <3> QED BY <1>1, <2>2, <3>1
    <2> QED BY <1>1, <1>6, <2>1, <2>2 DEF LooksUp
  <1>7. CASE Passes(c) /\ order' = order
    <2>1. Kind(c)' = Kind(c) /\ lookups' = lookups
      BY <1>7 DEF Kind, Passes
    <2>2. CASE pc[c] \in {"hook", "syncing", "looking", "sleeping", "creating", "peers", "info"}
               /\ pc'[c] \notin Ends
      <3>1. c \in late \/ pc[c] # "sleeping"
        BY <1>1 DEF Overdue, FlowAt
      <3> QED BY <1>7, <2>1, <2>2, <3>1 DEF Passes, Left
    <2>3. CASE pc[c] = "lookup" /\ pc'[c] \notin Ends
      <3>1. Left(c) = 2 * (MaxLookups - lookups[c]) + 4
        BY <2>3 DEF Left
      <3>2. Left(c)' \in {2, 2 * (MaxLookups - lookups[c]) + 3}
        BY <1>7, <2>1, <2>3 DEF Passes, Left
      <3> QED BY <1>1, <3>1, <3>2
    <2>4. CASE pc[c] \in {"connecting", "resting"} /\ pc'[c] \notin Ends
      <3>1. Kind(c) = "bootstrap" /\ c \notin late
        BY <1>7, <2>4 DEF Passes
      <3> QED BY <3>1 DEF Overdue
    <2> QED BY <1>4, <1>7, <2>2, <2>3, <2>4 DEF Passes
  <1>8. CASE Progress(c) /\ ~Claims(c)
    <2>1. order' = order
      BY <1>8, OtherSteps
    <2>2. "failed" \in Ends /\ "listing" \notin Ends
      BY DEF Ends
    <2> QED BY <1>4, <1>6, <1>7, <1>8, <2>1, <2>2, FlowMoves
  <1> QED BY <1>3, <1>5, <1>8

LEMMA FlowsDown ==
  ASSUME EnlistInv, ClaimInv, FlowInv, EnlistInv', ClaimInv', FlowInv', [Next]_vars,
         NEW c \in Calls, Overdue(c)
  PROVE  /\ Overdue(c)' /\ Left(c) \in Nat /\ Left(c)' <= Left(c)
         /\ Call(c) \/ Progress(c) => Left(c)' < Left(c)
  <1>1. Left(c) \in Nat /\ Left(c)' \in Nat
    BY LeftNat, LeftNatNext DEF AllLeftFits, LeftFits
  <1>2. Call(c) \/ Progress(c) => Left(c)' < Left(c)
    BY FlowDown
  <1>3. ASSUME pc'[c] = pc[c], lookups'[c] = lookups[c], Unclaimed(c)' = Unclaimed(c),
               order' = order
        PROVE  Left(c)' = Left(c)
    BY <1>3 DEF Left, Kind
  <1>4. ASSUME NEW d \in Calls, d # c, Call(d) \/ Progress(d) \/ Abort(d) \/ Expire(d)
        PROVE  Left(c)' = Left(c)
    BY <1>3, <1>4, FlowApart
  <1>5. ASSUME Abort(c) PROVE Left(c)' <= Left(c)
    <2>1. UNCHANGED <<order, lookups, listed, reports>> /\ pc \in [Calls -> States]
      BY <1>5 DEF Abort, enlisted, claims, EnlistInv, Types
    <2>2. pc'[c] = pc[c] \/ pc'[c] = "aborted"
      BY <1>5, <2>1 DEF Abort, Goto
    <2>3. CASE pc'[c] = pc[c]
      BY <1>1, <1>3, <2>1, <2>3 DEF Unclaimed, Reported
    <2>4. CASE pc'[c] = "aborted"
      <3>1. Left(c)' = 0
        BY <2>4 DEF Left
      <3> QED BY <1>1, <3>1
    <2> QED BY <2>2, <2>3, <2>4
  <1>6. ASSUME Expire(c) \/ (\E p \in Payments : PaymentMoves(p)) \/ UNCHANGED vars
        PROVE  Left(c)' = Left(c)
    <2>1. UNCHANGED <<pc, order, lookups, listed, reports>>
      BY <1>6 DEF Expire, PaymentMoves, vars, inputs, enlisted, claims
    <2> QED BY <1>3, <2>1 DEF Unclaimed, Reported
  <1>7. Left(c)' <= Left(c)
    BY <1>1, <1>2, <1>4, <1>5, <1>6 DEF Next
  <1>8. Overdue(c)'
    <2>1. order' = order /\ late \subseteq late'
      <3>1. ASSUME NEW d \in Calls, Progress(d) PROVE order' = order /\ late' = late
        BY <3>1 DEF Progress, HookReturns, Synced, ChannelsListed, StatusRead, Wakes, NodeAnswers,
           AddressAnswers, LookupAgain, InfoAnswers, NextPeerRound, PeersListed, Registered,
           InvoiceCreated, Bridged, PaymentsListed, ClaimAccepted, ClaimFails, AwaitFails, inputs
      <3>2. ASSUME NEW d \in Calls, Call(d) \/ Abort(d) \/ Expire(d)
            PROVE  order' = order /\ late \subseteq late'
        BY <3>2 DEF Call, Abort, Expire, inputs
      <3>3. ASSUME (\E p \in Payments : PaymentMoves(p)) \/ UNCHANGED vars
            PROVE  order' = order /\ late' = late
        BY <3>3 DEF PaymentMoves, vars
      <3> QED BY <3>1, <3>2, <3>3 DEF Next
    <2> QED BY <2>1 DEF Overdue, Kind
  <1> QED BY <1>1, <1>2, <1>7, <1>8

\* Every call takes a bounded number of steps once it has no deadline before
\* it; by SessionNoneStuck it takes them, and ends.
THEOREM SessionRunsDown == SessionSpec => FlowsRunDown
  <1>1. /\ EnlistInv /\ ClaimInv /\ FlowInv /\ (EnlistInv /\ ClaimInv /\ FlowInv)'
        /\ [Next]_vars
        => [\A c \in Calls : Overdue(c) =>
              /\ Overdue(c)' /\ Left(c) \in Nat /\ Left(c)' <= Left(c)
              /\ Call(c) \/ Progress(c) => Left(c)' < Left(c)]_vars
    BY FlowsDown
  <1>2. [SessionNext]_sessionVars => [Next]_vars
    BY DEF SessionNext, sessionVars, Prepare, Relay
  <1> QED BY <1>1, <1>2, FlowInvariant, PTL DEF SessionSpec, FlowsRunDown
=============================================================================
