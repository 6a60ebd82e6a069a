------------------------- MODULE LspPayment_proofs -------------------------
(***************************************************************************)
(* Proofs about LspPayment, for any number of calls and any data.          *)
(***************************************************************************)
EXTENDS LspPayment, WellFoundedInduction, TLAPS

-----------------------------------------------------------------------------
(* Induction over a set of naturals: the least number outside it is missing. *)
LEMMA Least ==
  ASSUME NEW S \in SUBSET Nat, S # {}
  PROVE  \E m \in S : \A x \in S : m <= x
  <1> DEFINE R == OpToRel(<, Nat)
  <1>1. PICK m \in S : \A x \in S : <<x, m>> \notin R
    <2>1. IsWellFoundedOn(R, Nat)
      BY NatLessThanWellFounded
    <2> HIDE DEF R
    <2> QED BY <2>1, WFMin
  <1>2. \A x \in S : ~(x < m)
    BY <1>1 DEF OpToRel
  <1> QED BY <1>2

LEMMA InductionOn ==
  ASSUME NEW T, 0 \in T, \A n \in Nat : n \in T => n + 1 \in T
  PROVE  Nat \subseteq T
  <1> DEFINE S == Nat \ T
  <1> SUFFICES ASSUME S # {} PROVE FALSE
    OBVIOUS
  <1>1. PICK m \in S : \A x \in S : m <= x
    BY Least
  <1>2. m - 1 \in Nat /\ m - 1 \notin S
    BY <1>1
  <1> QED BY <1>2

\* The digests on the way up are what the loop over the path computes.
Above(step, digest) ==
  IF step.side = "left" THEN Node(step.sibling, digest) ELSE Node(digest, step.sibling)

LEMMA ClimbSteps ==
  ASSUME NEW leaf, NEW path, Len(path) \in Nat
  PROVE  /\ Climb(leaf, path)[0] = leaf
         /\ \A k \in 1..Len(path) :
              Climb(leaf, path)[k] = Above(path[k], Climb(leaf, path)[k - 1])
  <1> DEFINE Climbs(n, g) ==
               g = [k \in 0..n |-> IF k = 0 THEN leaf ELSE Above(path[k], g[k - 1])]
             T == {n \in Nat : \E g : Climbs(n, g)}
  <1>1. 0 \in T
    <2>1. Climbs(0, [k \in 0..0 |-> leaf])
      OBVIOUS
    <2> QED BY <2>1
  <1>2. ASSUME NEW n \in Nat, n \in T PROVE n + 1 \in T
    <2>1. PICK g : Climbs(n, g)
      BY <1>2
    <2> DEFINE h == [k \in 0..(n + 1) |-> IF k <= n THEN g[k] ELSE Above(path[k], g[n])]
    <2>2. \A k \in 0..(n + 1) : h[k] = IF k = 0 THEN leaf ELSE Above(path[k], h[k - 1])
      <3> SUFFICES ASSUME NEW k \in 0..(n + 1)
                   PROVE  h[k] = IF k = 0 THEN leaf ELSE Above(path[k], h[k - 1])
        OBVIOUS
      <3>1. CASE k = 0
        BY <2>1, <3>1
      <3>2. CASE k \in 1..n
        <4>1. h[k] = g[k] /\ h[k - 1] = g[k - 1] /\ k \in 0..n /\ k # 0
          BY <3>2
        <4>2. g[k] = Above(path[k], g[k - 1])
          BY <2>1, <4>1
        <4> HIDE DEF h
        <4> QED BY <4>1, <4>2
      <3>3. CASE k = n + 1
        BY <3>3
      <3> QED BY <3>1, <3>2, <3>3
    <2>3. Climbs(n + 1, h)
      BY <2>2
    <2> HIDE DEF h
    <2> QED BY <2>3
  <1>3. \E g : Climbs(Len(path), g)
    <2> HIDE DEF T
    <2>1. Len(path) \in T
      BY <1>1, <1>2, InductionOn
    <2> QED BY <2>1 DEF T
  <1> DEFINE d == Climb(leaf, path)
  <1>4. d = CHOOSE g : Climbs(Len(path), g)
    BY DEF Climb, Above
  <1>5. Climbs(Len(path), d)
    BY <1>3, <1>4
  <1> HIDE DEF d
  <1>6. d[0] = leaf /\ \A k \in 1..Len(path) : d[k] = Above(path[k], d[k - 1])
    BY <1>5
  <1> QED BY <1>6 DEF d

\* The levels of a tree are what its recursion says.
BottomLevel(b) ==
  [j \in Nat |-> IF j < Len(b.hashes) THEN Leaf(b.recipient, b.id, j, b.hashes[j + 1])
                                       ELSE Padding]
LevelAbove(level) == [j \in Nat |-> Node(level[2 * j], level[2 * j + 1])]

LEMMA TreeLevels ==
  ASSUME NEW b, NEW n \in Nat, n = Depth(Len(b.hashes))
  PROVE  /\ Tree(b)[0] = BottomLevel(b)
         /\ \A k \in 1..n : Tree(b)[k] = LevelAbove(Tree(b)[k - 1])
  <1> DEFINE Levels(m, g) ==
               g = [k \in 0..m |-> IF k = 0 THEN BottomLevel(b) ELSE LevelAbove(g[k - 1])]
             T == {m \in Nat : \E g : Levels(m, g)}
  <1>1. 0 \in T
    <2>1. Levels(0, [k \in 0..0 |-> BottomLevel(b)])
      OBVIOUS
    <2> QED BY <2>1
  <1>2. ASSUME NEW m \in Nat, m \in T PROVE m + 1 \in T
    <2>1. PICK g : Levels(m, g)
      BY <1>2
    <2> DEFINE h == [k \in 0..(m + 1) |-> IF k <= m THEN g[k] ELSE LevelAbove(g[m])]
    <2>2. \A k \in 0..(m + 1) : h[k] = IF k = 0 THEN BottomLevel(b) ELSE LevelAbove(h[k - 1])
      <3> SUFFICES ASSUME NEW k \in 0..(m + 1)
                   PROVE  h[k] = IF k = 0 THEN BottomLevel(b) ELSE LevelAbove(h[k - 1])
        OBVIOUS
      <3>1. CASE k = 0
        BY <2>1, <3>1
      <3>2. CASE k \in 1..m
        <4>1. h[k] = g[k] /\ h[k - 1] = g[k - 1] /\ k \in 0..m /\ k # 0
          BY <3>2
        <4>2. g[k] = LevelAbove(g[k - 1])
          BY <2>1, <4>1
        <4> HIDE DEF h
        <4> QED BY <4>1, <4>2
      <3>3. CASE k = m + 1
        BY <3>3
      <3> QED BY <3>1, <3>2, <3>3
    <2>3. Levels(m + 1, h)
      BY <2>2
    <2> HIDE DEF h
    <2> QED BY <2>3
  <1>3. \E g : Levels(n, g)
    <2> HIDE DEF T
    <2>1. n \in T
      BY <1>1, <1>2, InductionOn
    <2> QED BY <2>1 DEF T
  <1> DEFINE t == Tree(b)
  <1>4. t = CHOOSE g : Levels(n, g)
    BY DEF Tree, BottomLevel, LevelAbove
  <1>5. Levels(n, t)
    BY <1>3, <1>4
  <1> HIDE DEF t
  <1>6. t[0] = BottomLevel(b) /\ \A k \in 1..n : t[k] = LevelAbove(t[k - 1])
    BY <1>5
  <1> QED BY <1>6 DEF t

LEMMA AboveInjective ==
  ASSUME NEW step, NEW digest, NEW left, NEW right, Above(step, digest) = Node(left, right)
  PROVE  digest = left \/ digest = right
  BY DEF Above, Node

\* From the signed root down: each digest of the path is one of the tree.
LEMMA PathInTree ==
  ASSUME NEW b, NEW leaf, NEW path, NEW n \in Nat, n = Depth(Len(b.hashes)), n = Len(path),
         Climb(leaf, path)[n] = Root(b)
  PROVE  \E j \in Nat : leaf = Tree(b)[0][j]
  <1> DEFINE d == Climb(leaf, path)
             t == Tree(b)
             T == {i \in Nat : i <= n => \E j \in Nat : d[n - i] = t[n - i][j]}
  <1>1. d[0] = leaf /\ \A k \in 1..n : d[k] = Above(path[k], d[k - 1])
    BY ClimbSteps
  <1>2. \A k \in 1..n : t[k] = LevelAbove(t[k - 1])
    BY TreeLevels
  <1>3. d[n] = t[n][0]
    BY DEF Root
  <1> HIDE DEF d, t
  <1>4. 0 \in T
    BY <1>3
  <1>5. ASSUME NEW i \in Nat, i \in T PROVE i + 1 \in T
    <2> SUFFICES ASSUME i + 1 <= n PROVE \E j \in Nat : d[n - (i + 1)] = t[n - (i + 1)][j]
      OBVIOUS
    <2>1. n - i \in 1..n /\ (n - i) - 1 = n - (i + 1)
      OBVIOUS
    <2>2. PICK j \in Nat : d[n - i] = t[n - i][j]
      BY <1>5
    <2>3. d[n - i] = Above(path[n - i], d[n - (i + 1)])
      BY <1>1, <2>1
    <2>4. t[n - i] = LevelAbove(t[n - (i + 1)])
      BY <1>2, <2>1
    <2>5. t[n - i][j] = Node(t[n - (i + 1)][2 * j], t[n - (i + 1)][2 * j + 1])
      BY <2>4 DEF LevelAbove
    <2>6. \/ d[n - (i + 1)] = t[n - (i + 1)][2 * j]
          \/ d[n - (i + 1)] = t[n - (i + 1)][2 * j + 1]
      BY <2>2, <2>3, <2>5, AboveInjective
    <2>7. 2 * j \in Nat /\ 2 * j + 1 \in Nat
      OBVIOUS
    <2> QED BY <2>6, <2>7
  <1>6. n \in T
    <2> HIDE DEF T
    <2> QED BY <1>4, <1>5, InductionOn
  <1>7. \E j \in Nat : d[0] = t[0][j]
    BY <1>6
  <1> QED BY <1>1, <1>7 DEF t

\* A proof that verifies names a hash of a batch which its recipient signed for
\* its host, at the index it claims: no path, root or signature a host makes up
\* puts another payment hash into a batch, whatever the size of the batch.
THEOREM ApayProofBinds ==
  ASSUME NEW p \in Proofs, NEW hash, NEW recipient, NEW host,
         ApayProofHolds(p, hash, recipient, host)
  PROVE  NamesSignedHash(p)
  <1> DEFINE b == p.sig
             leaf == Leaf(p.recipient, p.id, p.index, p.hash)
  <1>1. /\ b \in Batches /\ Len(p.path) \in Nat /\ p.index \in Nat
        /\ Len(p.path) = Depth(p.size) /\ p.open
    BY ProofAssumption DEF ApayProofHolds, ParsedProofs, ProofType
  <1>2. /\ b.recipient = p.recipient /\ b.host = p.host /\ b.id = p.id
        /\ Root(b) = RootOf(p) /\ Len(b.hashes) = p.size /\ b.open = p.open
    BY DEF ApayProofHolds, Signed, Commitment
  <1>3. PICK j \in Nat : leaf = Tree(b)[0][j]
    <2>1. Climb(leaf, p.path)[Len(p.path)] = Root(b) /\ Len(p.path) = Depth(Len(b.hashes))
      BY <1>1, <1>2 DEF RootOf
    <2> HIDE DEF leaf, b
    <2> QED BY <1>1, <2>1, PathInTree
  <1>4. Tree(b)[0] = BottomLevel(b) /\ Len(b.hashes) \in Nat
    BY <1>1, <1>2, TreeLevels, ProofAssumption
  <1>5. leaf = IF j < Len(b.hashes) THEN Leaf(b.recipient, b.id, j, b.hashes[j + 1]) ELSE Padding
    BY <1>3, <1>4 DEF BottomLevel
  <1>6. j < Len(b.hashes) /\ p.index = j /\ p.hash = b.hashes[j + 1]
    BY <1>5 DEF Leaf, Padding
  <1> QED BY <1>1, <1>2, <1>6 DEF NamesSignedHash
-----------------------------------------------------------------------------
USE QuoteAssumption

Types ==
  /\ pc \in [Calls -> States]
  /\ order \in [Calls -> Orders]
  /\ network \in [Calls -> Networks \cup {None}]
  /\ discovery \in [Calls -> Discoveries \cup {None}]
  /\ invoice \in [Calls -> Invoices \cup {None}]
  /\ proof \in [Calls -> Proofs \cup {None}]
  /\ lapsed \subseteq Calls /\ aborted \subseteq Calls
  /\ asked \in [Calls -> Nat]
  /\ paid \in [Calls -> Invoices \cup {None}]

PayAddress == {"hosted", "external"}

(* Where a call awaits tells what it has done: an invoice is asked for      *)
(* once, and nothing is paid before the last check.                        *)
Staged(c) ==
  /\ pc[c] \in {"idle", "info", "discovery"} => asked[c] = 0
  /\ asked[c] <= 1
  /\ pc[c] \notin {"paying", "done", "failed"} => paid[c] = None
  /\ pc[c] = "info" => order[c].route \in PayAddress
  /\ pc[c] \in {"discovery", "callback"} => ToAddress(c)
  /\ pc[c] = "issue" => ~ToAddress(c)
  /\ pc[c] = "beforePay" => order[c].route = "resolver"

(* The evidence a call has gathered by then.                                *)
Informed(c) ==
  /\ pc[c] # "idle" /\ order[c].network # None => network[c] = order[c].network
  /\ pc[c] \in Discovered \cup {"discovery"} /\ order[c].route \in PayAddress => network[c] # None
  /\ pc[c] \in Discovered /\ ToAddress(c) =>
       discovery[c] \in Discoveries /\ order[c].terms \in discovery[c].advertised
  /\ ~ToAddress(c) => discovery[c] = None
  /\ order[c].route \notin PayAddress => proof[c] = None
  /\ pc[c] \in Discovered \ {"callback"} =>
       /\ invoice[c] \in Invoices
       /\ order[c].route \in PayAddress => EvidenceComplete(c, proof[c])
  /\ pc[c] = "beforePay" => AddressQuoteMatches(invoice[c], Expected(c))

(* What was paid passed every check, and the evidence is kept.              *)
Settled(c) ==
  paid[c] # None =>
    /\ paid[c] = invoice[c] /\ invoice[c] \in Invoices
    /\ AddressQuoteMatches(invoice[c], Expected(c))
    /\ order[c].network # None => network[c] = order[c].network
    /\ order[c].route \in PayAddress =>
         network[c] # None /\ EvidenceComplete(c, proof[c]) /\ ProofMatches(c)
    /\ ToAddress(c) => discovery[c] \in Discoveries /\ order[c].terms \in discovery[c].advertised

IInv == Types /\ \A c \in Calls : Staged(c) /\ Informed(c) /\ Settled(c)

LEMMA PaymentInit == Init => IInv
  <1> SUFFICES ASSUME Init PROVE IInv
    OBVIOUS
  <1>1. Types
    BY DEF Init, Types, States
  <1>2. ASSUME NEW c \in Calls PROVE Staged(c) /\ Informed(c) /\ Settled(c)
    <2>1. /\ pc[c] = "idle" /\ asked[c] = 0 /\ paid[c] = None
          /\ discovery[c] = None /\ proof[c] = None
      BY DEF Init
    <2> QED BY <2>1 DEF Staged, Informed, Settled, Discovered
  <1> QED BY <1>1, <1>2 DEF IInv

\* A step of one call leaves what it does not touch to the others.
LEMMA Frame ==
  ASSUME NEW d \in Calls, Staged(d) /\ Informed(d) /\ Settled(d),
         pc'[d] = pc[d], order'[d] = order[d], network'[d] = network[d],
         discovery'[d] = discovery[d], invoice'[d] = invoice[d], proof'[d] = proof[d],
         asked'[d] = asked[d], paid'[d] = paid[d]
  PROVE  Staged(d)' /\ Informed(d)' /\ Settled(d)'
  <1>1. Staged(d)'
    BY DEF Staged, ToAddress, PayAddress
  <1>2. Expected(d)' = Expected(d)
    BY DEF Expected
  <1>3. EvidenceComplete(d, proof[d])' = EvidenceComplete(d, proof[d]) /\ ProofMatches(d)' = ProofMatches(d)
    BY DEF EvidenceComplete, ProofMatches, AttestationHolds, ApayProofHolds
  <1>4. Informed(d)'
    BY <1>2, <1>3 DEF Informed, ToAddress, PayAddress, Discovered
  <1>5. Settled(d)'
    BY <1>2, <1>3 DEF Settled, ToAddress, PayAddress
  <1> QED BY <1>1, <1>4, <1>5

\* It is enough to look at the call that steps.
LEMMA OneSteps ==
  ASSUME IInv, Types', NEW c \in Calls, UNCHANGED order,
         Staged(c)' /\ Informed(c)' /\ Settled(c)',
         \A d \in Calls \ {c} :
           /\ pc'[d] = pc[d] /\ network'[d] = network[d] /\ discovery'[d] = discovery[d]
           /\ invoice'[d] = invoice[d] /\ proof'[d] = proof[d]
           /\ asked'[d] = asked[d] /\ paid'[d] = paid[d]
  PROVE  IInv'
  <1>1. ASSUME NEW d \in Calls, d # c PROVE Staged(d)' /\ Informed(d)' /\ Settled(d)'
    BY <1>1, Frame DEF IInv
  <1> QED BY <1>1 DEF IInv

LEMMA BeginTypes ==
  ASSUME Types, NEW c \in Calls, NEW request \in {"info", "discovery", "callback", "issue"},
         Begin(c, request)
  PROVE  /\ pc' \in [Calls -> States] /\ asked' \in [Calls -> Nat]
         /\ \/ pc'[c] = "failed" /\ asked'[c] = asked[c]
            \/ /\ pc'[c] = request
               /\ asked'[c] = asked[c] + (IF request \in {"callback", "issue"} THEN 1 ELSE 0)
         /\ \A d \in Calls \ {c} : pc'[d] = pc[d] /\ asked'[d] = asked[d]
  <1>1. CASE Stopped(c)
    BY <1>1 DEF Begin, Fail, Types, States
  <1>2. CASE ~Stopped(c)
    BY <1>2 DEF Begin, Types, States, Invoicing
  <1> QED BY <1>1, <1>2

LEMMA PayInv ==
  ASSUME IInv, NEW c \in Calls, Pay(c)
  PROVE  IInv'
  <1>0. order[c] \in Orders /\ pc[c] = "idle" /\ Types
    BY DEF IInv, Types, Pay
  <1>1. PICK request \in {"info", "discovery", "issue"} :
          /\ Begin(c, request)
          /\ request = "issue" <=> ~ToAddress(c)
          /\ request = "info" => order[c].route \in PayAddress
          /\ request = "discovery" /\ order[c].route \in PayAddress => order[c].network # None
    BY <1>0 DEF Pay, Orders, Routes, ToAddress, PayAddress
  <1>2. /\ network' = [network EXCEPT ![c] = order[c].network]
        /\ UNCHANGED <<order, discovery, invoice, proof, lapsed, aborted, paid>>
    BY DEF Pay
  <1>3. order[c].network \in Networks \cup {None}
    BY <1>0 DEF Orders
  <1>4. /\ pc' \in [Calls -> States] /\ asked' \in [Calls -> Nat]
        /\ \/ pc'[c] = "failed" /\ asked'[c] = asked[c]
           \/ /\ pc'[c] = request
              /\ asked'[c] = asked[c] + (IF request \in {"callback", "issue"} THEN 1 ELSE 0)
        /\ \A d \in Calls \ {c} : pc'[d] = pc[d] /\ asked'[d] = asked[d]
    BY <1>0, <1>1, BeginTypes
  <1>5. Types'
    BY <1>0, <1>2, <1>3, <1>4 DEF Types
  <1>6. Staged(c) /\ Informed(c) /\ paid[c] = None /\ asked[c] = 0 /\ network'[c] = order[c].network
    BY <1>0, <1>2 DEF IInv, Staged, Types
  <1>7. Staged(c)'
    BY <1>0, <1>1, <1>2, <1>4, <1>6 DEF Staged, ToAddress, PayAddress
  <1>8. Informed(c)'
    BY <1>0, <1>1, <1>2, <1>4, <1>6 DEF Informed, ToAddress, PayAddress, Discovered
  <1>9. Settled(c)'
    BY <1>2, <1>6 DEF Settled
  <1> QED BY <1>2, <1>4, <1>5, <1>7, <1>8, <1>9, OneSteps DEF Types, IInv

LEMMA InfoInv ==
  ASSUME IInv, NEW c \in Calls, InfoAnswers(c)
  PROVE  IInv'
  <1>0. pc[c] = "info" /\ Types /\ Staged(c) /\ Informed(c) /\ order[c].route \in PayAddress
    BY DEF IInv, InfoAnswers, Staged
  <1>1. UNCHANGED <<order, discovery, invoice, proof, lapsed, aborted, paid>>
    BY DEF InfoAnswers
  <1>2. CASE Fail(c) /\ UNCHANGED network
    <2>1. Types' /\ pc'[c] = "failed" /\ UNCHANGED asked /\ \A d \in Calls \ {c} : pc'[d] = pc[d]
      BY <1>0, <1>1, <1>2 DEF Fail, Types, States
    <2>2. Staged(c)' /\ Informed(c)' /\ Settled(c)'
      BY <1>0, <1>1, <1>2, <2>1 DEF Staged, Informed, Settled, ToAddress, PayAddress, Discovered
    <2> QED BY <1>1, <1>2, <2>1, <2>2, OneSteps
  <1>3. ASSUME NEW n \in Networks, order[c].network \in {None, n},
               network' = [network EXCEPT ![c] = n], Begin(c, "discovery")
        PROVE  IInv'
    <2>1. /\ pc' \in [Calls -> States] /\ asked' \in [Calls -> Nat]
          /\ pc'[c] \in {"failed", "discovery"} /\ asked'[c] = asked[c]
          /\ \A d \in Calls \ {c} : pc'[d] = pc[d] /\ asked'[d] = asked[d]
      BY <1>0, <1>3, BeginTypes DEF Types
    <2>2. Types' /\ network'[c] = n /\ n # None
      BY <1>0, <1>1, <1>3, <2>1 DEF Types
    <2>3. Staged(c)'
      BY <1>0, <1>1, <2>1 DEF Staged, ToAddress, PayAddress
    <2>4. Informed(c)' /\ Settled(c)'
      BY <1>0, <1>1, <1>3, <2>1, <2>2 DEF Staged, Informed, Settled, ToAddress, PayAddress, Discovered
    <2> QED BY <1>0, <1>1, <1>3, <2>1, <2>2, <2>3, <2>4, OneSteps DEF Types
  <1> QED BY <1>2, <1>3 DEF InfoAnswers
\* A call that fails before it pays keeps what it knew.
LEMMA FailInv ==
  ASSUME IInv, NEW c \in Calls, Fail(c), pc[c] \notin {"idle", "done", "failed"},
         UNCHANGED <<order, network, discovery, invoice, proof, lapsed, aborted, paid>>
  PROVE  IInv'
  <1>0. Types /\ Staged(c) /\ Informed(c) /\ Settled(c)
    BY DEF IInv
  <1>1. Types' /\ pc'[c] = "failed" /\ UNCHANGED asked /\ \A d \in Calls \ {c} : pc'[d] = pc[d]
    BY <1>0 DEF Fail, Types, States
  <1>2. Expected(c)' = Expected(c) /\ ProofMatches(c)' = ProofMatches(c)
        /\ EvidenceComplete(c, proof[c])' = EvidenceComplete(c, proof[c])
    BY DEF Expected, ProofMatches, EvidenceComplete, AttestationHolds, ApayProofHolds
  <1>3. Staged(c)'
    BY <1>0, <1>1 DEF Staged, ToAddress, PayAddress
  <1>4. Informed(c)'
    BY <1>0, <1>1 DEF Informed, ToAddress, PayAddress, Discovered
  <1>5. Settled(c)'
    BY <1>0, <1>2 DEF Settled, ToAddress, PayAddress
  <1> QED BY <1>1, <1>3, <1>4, <1>5, OneSteps

LEMMA DiscoveryInv ==
  ASSUME IInv, NEW c \in Calls, DiscoveryAnswers(c)
  PROVE  IInv'
  <1>0. pc[c] = "discovery" /\ Types /\ Staged(c) /\ Informed(c)
    BY DEF IInv, DiscoveryAnswers
  <1>1. UNCHANGED <<order, network, invoice, proof, lapsed, aborted, paid>>
    BY DEF DiscoveryAnswers
  <1>2. CASE Fail(c) /\ UNCHANGED discovery
    BY <1>0, <1>1, <1>2, FailInv
  <1>3. ASSUME NEW d \in Discoveries, order[c].terms \in d.advertised,
               discovery' = [discovery EXCEPT ![c] = d], Begin(c, "callback")
        PROVE  IInv'
    <2>1. /\ pc' \in [Calls -> States] /\ asked' \in [Calls -> Nat]
          /\ \/ pc'[c] = "failed" /\ asked'[c] = asked[c]
             \/ pc'[c] = "callback" /\ asked'[c] = asked[c] + 1
          /\ \A e \in Calls \ {c} : pc'[e] = pc[e] /\ asked'[e] = asked[e]
      BY <1>0, <1>3, BeginTypes
    <2>2. Types' /\ discovery'[c] = d
      BY <1>0, <1>1, <1>3, <2>1 DEF Types
    <2>3. Staged(c)'
      BY <1>0, <1>1, <2>1 DEF Staged, ToAddress, PayAddress
    <2>4. Informed(c)'
      BY <1>0, <1>1, <1>3, <2>1, <2>2 DEF Staged, Informed, ToAddress, PayAddress, Discovered
    <2>5. Settled(c)'
      BY <1>0, <1>1 DEF Staged, Settled
    <2> QED BY <1>0, <1>1, <1>3, <2>1, <2>2, <2>3, <2>4, <2>5, OneSteps DEF Types
  <1> QED BY <1>2, <1>3 DEF DiscoveryAnswers, AddressRequestAllowed

LEMMA CallbackInv ==
  ASSUME IInv, NEW c \in Calls, CallbackAnswers(c)
  PROVE  IInv'
  <1>0. pc[c] = "callback" /\ Types /\ Staged(c) /\ Informed(c) /\ ToAddress(c)
    BY DEF IInv, CallbackAnswers, Staged
  <1>1. UNCHANGED <<order, network, discovery, aborted, paid>>
    BY DEF CallbackAnswers
  <1>2. CASE Fail(c) /\ UNCHANGED <<invoice, proof, lapsed>>
    BY <1>0, <1>1, <1>2, FailInv
  <1>3. ASSUME NEW i \in Invoices, NEW p \in Proofs \cup {None},
               order[c].route = "resolver" \/ EvidenceComplete(c, p),
               pc' = [pc EXCEPT ![c] = "decoding"],
               invoice' = [invoice EXCEPT ![c] = i],
               proof' = [proof EXCEPT ![c] = IF order[c].route = "resolver" THEN None ELSE p],
               lapsed' \subseteq Calls, UNCHANGED asked
        PROVE  IInv'
    <2>1. Types' /\ pc'[c] = "decoding" /\ invoice'[c] = i
          /\ proof'[c] = IF order[c].route = "resolver" THEN None ELSE p
      BY <1>0, <1>1, <1>3 DEF Types, States
    <2>2. order[c].route \in PayAddress => EvidenceComplete(c, proof[c])'
      BY <1>1, <1>3, <2>1 DEF EvidenceComplete, AttestationHolds, PayAddress
    <2>3. Staged(c)' /\ Settled(c)'
      BY <1>0, <1>1, <1>3, <2>1 DEF Staged, Settled, ToAddress, PayAddress
    <2>4. Informed(c)'
      BY <1>0, <1>1, <2>1, <2>2 DEF Informed, ToAddress, PayAddress, Discovered
    <2> QED BY <1>0, <1>1, <1>3, <2>1, <2>3, <2>4, OneSteps DEF Types
  <1> QED BY <1>0, <1>2, <1>3 DEF CallbackAnswers, Types

LEMMA IssueInv ==
  ASSUME IInv, NEW c \in Calls, IssueAnswers(c)
  PROVE  IInv'
  <1>0. pc[c] = "issue" /\ Types /\ Staged(c) /\ Informed(c) /\ ~ToAddress(c)
    BY DEF IInv, IssueAnswers, Staged
  <1>1. PICK i \in Invoices :
          /\ pc' = [pc EXCEPT ![c] = "decoding"] /\ invoice' = [invoice EXCEPT ![c] = i]
          /\ lapsed' \subseteq Calls
          /\ UNCHANGED <<order, network, discovery, proof, aborted, asked, paid>>
    BY <1>0 DEF IssueAnswers, Types
  <1>2. Types' /\ pc'[c] = "decoding" /\ invoice'[c] = i
    BY <1>0, <1>1 DEF Types, States
  <1>3. Staged(c)' /\ Settled(c)'
    BY <1>0, <1>1, <1>2 DEF Staged, Settled, ToAddress, PayAddress
  <1>4. Informed(c)'
    BY <1>0, <1>1, <1>2 DEF Informed, ToAddress, PayAddress, Discovered
  <1> QED BY <1>0, <1>1, <1>2, <1>3, <1>4, OneSteps DEF Types

\* The invoice that was verified, with the evidence at hand, is paid.
LEMMA HandOverInv ==
  ASSUME IInv, NEW c \in Calls, HandOver(c), pc[c] \in {"decoding", "beforePay"},
         AddressQuoteMatches(invoice[c], Expected(c)),
         order[c].route \in PayAddress => ProofMatches(c),
         UNCHANGED <<order, network, discovery, invoice, proof, lapsed, aborted, asked>>
  PROVE  IInv'
  <1>0. Types /\ Staged(c) /\ Informed(c)
    BY DEF IInv
  <1>1. Types' /\ pc'[c] = "paying" /\ paid'[c] = invoice[c]
        /\ \A d \in Calls \ {c} : pc'[d] = pc[d] /\ paid'[d] = paid[d]
    BY <1>0 DEF HandOver, Types, States
  <1>2. Expected(c)' = Expected(c) /\ ProofMatches(c)' = ProofMatches(c)
        /\ EvidenceComplete(c, proof[c])' = EvidenceComplete(c, proof[c])
    BY DEF Expected, ProofMatches, EvidenceComplete, AttestationHolds, ApayProofHolds
  <1>3. Staged(c)'
    BY <1>0, <1>1 DEF Staged, ToAddress, PayAddress
  <1>4. Informed(c)'
    BY <1>0, <1>1, <1>2 DEF Informed, ToAddress, PayAddress, Discovered
  <1>5. Settled(c)'
    BY <1>0, <1>1, <1>2 DEF Settled, Informed, ToAddress, PayAddress, Discovered
  <1> QED BY <1>1, <1>3, <1>4, <1>5, OneSteps

LEMMA DecodedInv ==
  ASSUME IInv, NEW c \in Calls, Decoded(c) \/ HookReturns(c)
  PROVE  IInv'
  <1>0. Types /\ Staged(c) /\ Informed(c) /\ pc[c] \in {"decoding", "beforePay"}
        /\ UNCHANGED <<order, network, discovery, invoice, proof, lapsed, aborted>>
    BY DEF IInv, Decoded, HookReturns
  <1>1. CASE Fail(c) /\ UNCHANGED paid
    BY <1>0, <1>1, FailInv
  <1>2. CASE HandOver(c) /\ UNCHANGED asked /\ Verified(c)
    BY <1>0, <1>2, HandOverInv DEF Verified
  <1>3. CASE HandOver(c) /\ UNCHANGED asked /\ pc[c] = "beforePay"
    BY <1>0, <1>3, HandOverInv DEF Informed, Staged, PayAddress
  <1>4. CASE /\ Verified(c) /\ order[c].route = "resolver" /\ pc[c] = "decoding"
             /\ pc' = [pc EXCEPT ![c] = "beforePay"] /\ UNCHANGED <<asked, paid>>
    <2>1. Types' /\ pc'[c] = "beforePay" /\ \A d \in Calls \ {c} : pc'[d] = pc[d]
      BY <1>0, <1>4 DEF Types, States
    <2>2. Expected(c)' = Expected(c)
      BY <1>0 DEF Expected
    <2>3. Staged(c)' /\ Settled(c)'
      BY <1>0, <1>4, <2>1 DEF Staged, Settled, ToAddress, PayAddress
    <2>4. Informed(c)'
      BY <1>0, <1>4, <2>1, <2>2 DEF Verified, Informed, ToAddress, PayAddress, Discovered
    <2> QED BY <1>0, <1>4, <2>1, <2>3, <2>4, OneSteps
  <1> QED BY <1>1, <1>2, <1>3, <1>4 DEF Decoded, HookReturns

LEMMA AcceptedInv ==
  ASSUME IInv, NEW c \in Calls, PaymentAccepted(c)
  PROVE  IInv'
  <1>0. Types /\ Staged(c) /\ Informed(c) /\ Settled(c) /\ pc[c] = "paying"
        /\ UNCHANGED <<order, network, discovery, invoice, proof, lapsed, aborted, asked, paid>>
    BY DEF IInv, PaymentAccepted
  <1>1. Types' /\ pc'[c] = "done" /\ \A d \in Calls \ {c} : pc'[d] = pc[d]
    BY <1>0 DEF PaymentAccepted, Types, States
  <1>2. Expected(c)' = Expected(c) /\ ProofMatches(c)' = ProofMatches(c)
        /\ EvidenceComplete(c, proof[c])' = EvidenceComplete(c, proof[c])
    BY <1>0 DEF Expected, ProofMatches, EvidenceComplete, AttestationHolds, ApayProofHolds
  <1>3. Staged(c)'
    BY <1>0, <1>1 DEF Staged, ToAddress, PayAddress
  <1>4. Informed(c)'
    BY <1>0, <1>1, <1>2 DEF Informed, ToAddress, PayAddress, Discovered
  <1>5. Settled(c)'
    BY <1>0, <1>2 DEF Settled, ToAddress, PayAddress
  <1> QED BY <1>0, <1>1, <1>3, <1>4, <1>5, OneSteps
LEMMA StutterInv ==
  ASSUME IInv, lapsed' \subseteq Calls, aborted' \subseteq Calls,
         UNCHANGED <<pc, order, network, discovery, invoice, proof, asked, paid>>
  PROVE  IInv'
  <1>1. Types'
    BY DEF IInv, Types
  <1>2. ASSUME NEW d \in Calls PROVE Staged(d)' /\ Informed(d)' /\ Settled(d)'
    BY Frame DEF IInv
  <1> QED BY <1>1, <1>2 DEF IInv

LEMMA PaymentStep == IInv /\ [Next]_vars => IInv'
  <1> SUFFICES ASSUME IInv, [Next]_vars PROVE IInv'
    OBVIOUS
  <1>1. CASE UNCHANGED vars
    BY <1>1, StutterInv DEF vars, IInv, Types
  <1>2. ASSUME NEW c \in Calls, Pay(c) PROVE IInv'
    BY <1>2, PayInv
  <1>3. ASSUME NEW c \in Calls, Answer(c) PROVE IInv'
    <2>1. CASE AwaitFails(c)
      BY <2>1, FailInv DEF AwaitFails
    <2> QED BY <1>3, <2>1, InfoInv, DiscoveryInv, CallbackInv, IssueInv, DecodedInv, AcceptedInv
        DEF Answer
  <1>4. ASSUME NEW c \in Calls, Abort(c) \/ Lapse(c) PROVE IInv'
    BY <1>4, StutterInv DEF Abort, Lapse, IInv, Types
  <1> QED BY <1>1, <1>2, <1>3, <1>4 DEF Next

LEMMA PaymentInvariant == Spec => []IInv
  BY PaymentInit, PaymentStep, PTL DEF Spec
-----------------------------------------------------------------------------
\* The variables keep their types and no evidence is missing where it is read.
THEOREM TypeCorrect == Spec => []TypeOK
  <1>1. IInv => TypeOK
    BY DEF IInv, Types, TypeOK, Informed, Staged, Discovered
  <1> QED BY <1>1, PaymentInvariant, PTL

\* Whatever is answered, what is paid is what was ordered.
THEOREM PaysOnlyAsOrdered == Spec => []PaidAsOrdered
  <1>1. ASSUME IInv, NEW c \in Calls, paid[c] # None
        PROVE  /\ paid[c].terms = order[c].terms
               /\ order[c].route \in {"hosted", "bridge"} => paid[c].payee = LspKey
               /\ order[c].network # None => paid[c].network = order[c].network
               /\ order[c].route \in {"hosted", "external"} => paid[c].network = network[c]
               /\ order[c].hash # None => paid[c].hash = order[c].hash
               /\ ToAddress(c) => /\ paid[c].terms \in discovery[c].advertised
                                  /\ paid[c].anchor = discovery[c].metadata
    <2>1. Settled(c) /\ Informed(c) /\ order[c] \in Orders
          /\ paid[c] = invoice[c] /\ AddressQuoteMatches(paid[c], Expected(c))
      BY <1>1 DEF IInv, Types, Settled
    <2>2. paid[c].terms = order[c].terms
      BY <2>1 DEF AddressQuoteMatches, Expected
    <2>3. order[c].route \in {"hosted", "bridge"} => paid[c].payee = LspKey
      BY <2>1 DEF AddressQuoteMatches, Expected
    <2>4. /\ order[c].network # None => paid[c].network = order[c].network
          /\ order[c].route \in {"hosted", "external"} => paid[c].network = network[c]
      BY <1>1, <2>1 DEF AddressQuoteMatches, Expected, Settled, PayAddress
    <2>5. order[c].hash # None => paid[c].hash = order[c].hash
      BY <2>1 DEF AddressQuoteMatches, Expected, Informed, Orders, PayAddress
    <2>6. ToAddress(c) => /\ paid[c].terms \in discovery[c].advertised
                          /\ paid[c].anchor = discovery[c].metadata
      <3>1. ToAddress(c) => discovery[c] # None /\ discovery[c].metadata \in Documents
        BY <1>1, <2>1 DEF Settled, Discoveries
      <3> QED BY <1>1, <2>1, <3>1 DEF AddressQuoteMatches, Expected, Settled
    <2> QED BY <2>2, <2>3, <2>4, <2>5, <2>6
  <1>2. IInv => PaidAsOrdered
    BY <1>1 DEF PaidAsOrdered
  <1> QED BY <1>2, PaymentInvariant, PTL

\* The invoice payAddress pays is bound to the recipient of the address.
THEOREM PaysOnlyTheRecipient == Spec => []RecipientBound
  <1>1. ASSUME IInv, NEW c \in Calls, paid[c] # None, order[c].route \in {"hosted", "external"}
        PROVE  /\ order[c].requireProof => proof[c] # None
               /\ proof[c] # None => /\ NamesSignedHash(proof[c]) /\ proof[c].hash = paid[c].hash
                                     /\ proof[c].recipient = discovery[c].recipient
                                     /\ proof[c].host = paid[c].payee
               /\ order[c].route = "hosted" /\ order[c].requireProof =>
                    /\ discovery[c].addressSig = "valid"
                    /\ proof[c].recipient = discovery[c].recipient
    <2>1. /\ paid[c] = invoice[c] /\ AddressQuoteMatches(paid[c], Expected(c))
          /\ EvidenceComplete(c, proof[c]) /\ ProofMatches(c)
      BY <1>1 DEF IInv, Settled, PayAddress
    <2>2. order[c].route = "hosted" => paid[c].payee = LspKey
      BY <2>1 DEF AddressQuoteMatches, Expected
    <2>3. proof[c] # None => /\ NamesSignedHash(proof[c]) /\ proof[c].hash = paid[c].hash
                             /\ proof[c].recipient = discovery[c].recipient
                             /\ proof[c].host = paid[c].payee
      <3>1. proof[c] # None => proof[c] \in Proofs
        BY <1>1 DEF IInv, Types
      <3>2. proof[c] # None => NamesSignedHash(proof[c])
        BY <2>1, <3>1, ApayProofBinds DEF ProofMatches
      <3> QED BY <2>1, <2>2, <3>2 DEF ProofMatches, ApayProofHolds
    <2> QED BY <1>1, <2>1, <2>3 DEF EvidenceComplete, AttestationHolds
  <1>2. IInv => RecipientBound
    BY <1>1 DEF RecipientBound
  <1> QED BY <1>2, PaymentInvariant, PTL

\* No failure makes a call ask for a second invoice.
THEOREM AsksOnce == Spec => []OneInvoice
  <1>1. IInv => OneInvoice
    BY DEF IInv, Staged, OneInvoice
  <1> QED BY <1>1, PaymentInvariant, PTL

\* An aborted call asks for no invoice and pays none, from any state.
THEOREM AbortStopsPayment == Spec => NoPayAfterAbort
  <1>1. ASSUME IInv, [Next]_vars, NEW c \in Calls, Stopped(c)
        PROVE  paid'[c] = paid[c] /\ asked'[c] = asked[c]
    <2>1. ASSUME NEW d \in Calls, Pay(d) \/ Answer(d) \/ Abort(d) \/ Lapse(d)
          PROVE  paid'[c] = paid[c] /\ asked'[c] = asked[c]
      <3>1. CASE d = c
        <4>1. UNCHANGED asked \/ (\E request \in {"info", "discovery", "callback", "issue"} : Begin(c, request))
          BY <2>1, <3>1 DEF Pay, Answer, Abort, Lapse, InfoAnswers, DiscoveryAnswers,
             CallbackAnswers, IssueAnswers, Decoded, HookReturns, AwaitFails, PaymentAccepted, Fail
        <4>2. UNCHANGED asked
          BY <1>1, <4>1 DEF Begin, Fail
        <4>3. CASE Decoded(c) \/ HookReturns(c)
          BY <1>1, <4>2, <4>3 DEF Decoded, HookReturns
        <4>4. CASE ~(Decoded(c) \/ HookReturns(c))
          BY <2>1, <3>1, <4>2, <4>4 DEF Pay, Answer, Abort, Lapse, InfoAnswers, DiscoveryAnswers,
             CallbackAnswers, IssueAnswers, AwaitFails, PaymentAccepted
        <4> QED BY <4>3, <4>4
      <3>2. CASE d # c
        BY <1>1, <2>1, <3>2 DEF IInv, Types, Pay, Answer, Abort, Lapse, InfoAnswers, DiscoveryAnswers,
           CallbackAnswers, IssueAnswers, Decoded, HookReturns, AwaitFails, PaymentAccepted,
           Begin, Fail, HandOver
      <3> QED BY <3>1, <3>2
    <2>2. CASE UNCHANGED vars
      BY <2>2 DEF vars
    <2> QED BY <1>1, <2>1, <2>2 DEF Next
  <1>2. IInv /\ [Next]_vars =>
          [\A c \in Calls : Stopped(c) => paid'[c] = paid[c] /\ asked'[c] = asked[c]]_vars
    BY <1>1
  <1> QED BY <1>2, PaymentInvariant, PTL DEF Spec, NoPayAfterAbort
=============================================================================
