---------------------------- MODULE MCLspPayment ----------------------------
(***************************************************************************)
(* Model checking instance of LspPayment; the cfg gives every kind of data *)
(* a small set of model values.  The batches have one hash, or three in a  *)
(* tree with a padded leaf; a host sends an honest proof or a forged one.  *)
(***************************************************************************)
EXTENDS LspPayment, TLC
CONSTANT Other   \* the recipient that is not the LSP

Batch(recipient, host, hashes, open) ==
  [recipient |-> recipient, host |-> host, id |-> "batch", hashes |-> hashes, open |-> open]
Singles == {Batch(r, h, <<x>>, TRUE) : r \in Keys, h \in Keys, x \in Hashes}
Expired == {Batch(Other, LspKey, <<x>>, FALSE) : x \in Hashes}
Triples == {Batch(Other, LspKey, <<x, y, x>>, TRUE) : x, y \in Hashes}
MCBatches == Singles \cup Expired \cup Triples

\* The proof an honest host gives for the hash with index i.
PathOf(b, i) ==
  [k \in 1..Depth(Len(b.hashes)) |->
     LET at == i \div 2^(k - 1) IN
       IF at % 2 = 0 THEN [side |-> "right", sibling |-> Tree(b)[k - 1][at + 1]]
                     ELSE [side |-> "left", sibling |-> Tree(b)[k - 1][at - 1]]]
Honest(b, i) ==
  [hash |-> b.hashes[i + 1], recipient |-> b.recipient, host |-> b.host, id |-> b.id,
   index |-> i, size |-> Len(b.hashes), root |-> Root(b), open |-> b.open, sig |-> b,
   path |-> PathOf(b, i)]
Foreign(p) == CHOOSE x \in Hashes : x # p.hash

\* Another hash under the signed root, a root of its own, no signature, the
\* signature of another recipient, a window that is not the signed one.
Forged(p) ==
  LET q == [p EXCEPT !.hash = Foreign(p)] IN
  {q, [q EXCEPT !.root = RootOf(q)], [p EXCEPT !.sig = None],
   [p EXCEPT !.sig = Batch(LspKey, p.host, <<p.hash>>, TRUE)], [p EXCEPT !.open = FALSE]}
MCProofs ==
  {Honest(b, 0) : b \in Singles} \cup {Honest(b, i) : b \in Triples, i \in 1..2}
    \cup UNION {Forged(Honest(Batch(Other, LspKey, <<x>>, TRUE), 0)) : x \in Hashes}
    \cup {[Honest(b, 0) EXCEPT !.open = TRUE] : b \in Expired}
MCDigests == {p.root : p \in MCProofs} \cup
  UNION {{p.path[k].sibling : k \in 1..Len(p.path)} : p \in MCProofs}

\* A recipient's own proofs are accepted, in trees of up to five hashes.
ASSUME HonestAccepted ==
  \A n \in 1..5, i \in 0..4 : i < n =>
    LET p == Honest(Batch(Other, LspKey, [k \in 1..n |-> k], TRUE), i)
    IN ApayProofHolds(p, p.hash, p.recipient, p.host) /\ RootOf(p) = p.root

DataSymmetry == Permutations(Terms) \cup Permutations(Hashes) \cup Permutations(Documents)
=============================================================================
