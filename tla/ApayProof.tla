------------------------------ MODULE ApayProof ------------------------------
(***************************************************************************)
(* Asynchronous payments (APay): the recipient's node signs a batch of     *)
(* payment hashes for a host, and the host proves to the payer that the    *)
(* invoice it issued is one of them (verifyApayInvoiceProof of             *)
(* lsp-linked-assets.js).  A digest is the value that was hashed: SHA-256  *)
(* is taken to be injective, and a signature to exist only for a batch     *)
(* that its key signed.  How a recipient builds a batch is not in src/.    *)
(***************************************************************************)
EXTENDS Naturals, Sequences

CONSTANTS
  Keys,      \* node public keys
  Hashes,    \* payment hashes
  BatchIds,  \* batch ids
  Batches,   \* the batches that recipients signed
  Digests,   \* digests a host may put into a proof
  Proofs,    \* the proofs a host may send
  None       \* an absent value

\* The domain tags keep a leaf from being read as an inner node.
Leaf(recipient, id, index, hash) == <<0, recipient, id, index, hash>>
Node(left, right) == <<1, left, right>>
Padding == <<2>>

MaxBatchSize == 200
MaxDepth == 8       \* of a tree over MaxBatchSize hashes

\* Math.ceil(Math.log2(size))
Depth(size) ==
  CHOOSE d \in 0..MaxDepth : size <= 2^d /\ \A e \in 0..MaxDepth : size <= 2^e => d <= e

\* open: the batch was created and has not expired; its two times are signed
\* with the rest.
BatchType ==
  [recipient : Keys, host : Keys, id : BatchIds, hashes : Seq(Hashes), open : BOOLEAN]

\* What validatedApayProof lets through.  sig is the batch whose commitment the
\* signature is for.
ProofType ==
  [hash : Hashes, recipient : Keys, host : Keys, id : BatchIds, index : Nat,
   size : 1..MaxBatchSize, root : Digests, open : BOOLEAN, sig : Batches \cup {None},
   path : Seq([side : {"left", "right"}, sibling : Digests])]

\* What parseApayProof lets through.
ParsedProofs == {proof \in ProofType : Len(proof.path) = Depth(proof.size)}

ASSUME ProofAssumption ==
  /\ Batches \subseteq BatchType
  /\ \A b \in Batches : Len(b.hashes) \in 1..MaxBatchSize
  /\ Proofs \subseteq ParsedProofs
  /\ None \notin Batches \cup Proofs
-----------------------------------------------------------------------------
\* The digests of the tree over a batch by their height: its leaves at height
\* 0, where the j-th is that of the hash with index j, and its root at the top.
Tree(b) ==
  LET level[k \in 0..Depth(Len(b.hashes))] ==
        IF k = 0
          THEN [j \in Nat |-> IF j < Len(b.hashes)
                                THEN Leaf(b.recipient, b.id, j, b.hashes[j + 1])
                                ELSE Padding]
          ELSE [j \in Nat |-> Node(level[k - 1][2 * j], level[k - 1][2 * j + 1])]
  IN level
Root(b) == Tree(b)[Depth(Len(b.hashes))][0]

\* What the recipient signs for a batch.
Commitment(recipient, host, id, root, size, open) ==
  <<recipient, host, id, root, size, open>>
Signed(b) == Commitment(b.recipient, b.host, b.id, Root(b), Len(b.hashes), b.open)

\* The digests on the way from a leaf up a Merkle path.
Climb(leaf, path) ==
  LET digest[k \in 0..Len(path)] ==
        IF k = 0 THEN leaf
        ELSE IF path[k].side = "left" THEN Node(path[k].sibling, digest[k - 1])
                                      ELSE Node(digest[k - 1], path[k].sibling)
  IN digest
RootOf(proof) ==
  Climb(Leaf(proof.recipient, proof.id, proof.index, proof.hash), proof.path)[Len(proof.path)]

\* Mutant: the signature is checked for the root of the proof, which the path
\* is not compared with.
ApayProofHoldsAnyPath(proof, hash, recipient, host) ==
  /\ proof.open
  /\ proof.hash = hash /\ proof.recipient = recipient /\ proof.host = host
  /\ Len(proof.path) = Depth(proof.size)
  /\ proof.sig # None
  /\ Signed(proof.sig) = Commitment(proof.recipient, proof.host, proof.id, proof.root,
                                    proof.size, proof.open)
\* verifyApayInvoiceProof
ApayProofHolds(proof, hash, recipient, host) ==
  /\ proof.open
  /\ proof.hash = hash /\ proof.recipient = recipient /\ proof.host = host
  /\ Len(proof.path) = Depth(proof.size)
  /\ RootOf(proof) = proof.root
  /\ proof.sig # None
  /\ Signed(proof.sig) = Commitment(proof.recipient, proof.host, proof.id, RootOf(proof),
                                    proof.size, proof.open)

\* The proof names one hash of a batch its recipient signed for its host.
NamesSignedHash(proof) ==
  LET b == proof.sig IN
    /\ b \in Batches /\ b.recipient = proof.recipient /\ b.host = proof.host /\ b.open
    /\ proof.index < Len(b.hashes) /\ proof.hash = b.hashes[proof.index + 1]
=============================================================================
