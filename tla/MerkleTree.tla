----------------------------- MODULE MerkleTree -----------------------------
(***************************************************************************)
(* The tree over the leaves of a checkpoint, and the proof that one event  *)
(* is in it: a range grows, it is sealed, an inclusion proof is made for    *)
(* one of its places, and what is sent to the auditor is changed on its way. *)
(*                                                                         *)
(*   crates/ancre-canon/src/hash.rs         the tree and its proofs         *)
(*   crates/ancre-chain/src/checkpoint.rs   the signed range, inclusion     *)
(*                                                                         *)
(* A hash is the value it was computed from, with the tag of its domain.    *)
(* Indexes count from 0, as in the code.                                    *)
(***************************************************************************)
EXTENDS Naturals, Sequences, SequencesExt

CONSTANTS
  Hashes,     \* event hashes
  Froms,      \* where a range may begin: numbers
  MaxLeaves,  \* bound: leaves of a range
  MaxAlter    \* bound: changes to what is sent

ASSUME TreeParameters == Froms \subseteq Nat /\ MaxLeaves \in Nat /\ MaxAlter \in Nat

VARIABLES
  leaves,     \* the hashes of the range
  checkpoint, \* as it is sent, or None
  proof,      \* the InclusionProof, as it is sent, or None
  altered     \* how often they were changed

treeVars == <<leaves, checkpoint, proof, altered>>
None == <<>>

-----------------------------------------------------------------------------
(* ancre-canon: the tree *)

hash_empty == <<"empty">>
hash_leaf(leaf) == <<"leaf", leaf>>
hash_node(left, right) == <<"node", left, right>>

Pow2[i \in Nat] == IF i = 0 THEN 1 ELSE 2 * Pow2[i - 1]

(* The middle.                                                              *)
half_of(n) == n \div 2

\* The highest bit of n - 1.
largest_pow2_below(n) == CHOOSE k \in {Pow2[i] : i \in 0 .. n} : k <= n - 1 /\ n - 1 < 2 * k

\* The parts of a range, by the place before them and the number of their leaves,
\* and the two that a part is split into.
Parts(size) == {p \in (0 .. size) \X (0 .. size) : p[1] + p[2] <= size}
Left(p) == <<p[1], largest_pow2_below(p[2])>>
Right(p) == <<p[1] + largest_pow2_below(p[2]), p[2] - largest_pow2_below(p[2])>>

\* The root over each part.
tree_roots(s) ==
  LET root[p \in Parts(Len(s))] ==
        IF p[2] = 0 THEN hash_empty
        ELSE IF p[2] = 1 THEN hash_leaf(s[p[1] + 1])
        ELSE hash_node(root[Left(p)], root[Right(p)])
  IN root
tree_root(s) == tree_roots(s)[<<0, Len(s)>>]

(* The siblings, from the root down.                                        *)
build_proof_from_root(s, index) ==
  LET path[p \in Parts(Len(s))] ==
        IF p[2] <= 1 THEN <<>>
        ELSE IF index < Right(p)[1] THEN <<tree_roots(s)[Right(p)]>> \o path[Left(p)]
        ELSE <<tree_roots(s)[Left(p)]>> \o path[Right(p)]
  IN path[<<0, Len(s)>>]

\* The siblings on the way from the leaf to the root.
build_proof(s, index) ==
  LET path[p \in Parts(Len(s))] ==
        IF p[2] <= 1 THEN <<>>
        ELSE IF index < Right(p)[1] THEN Append(path[Left(p)], tree_roots(s)[Right(p)])
        ELSE Append(path[Right(p)], tree_roots(s)[Left(p)])
  IN path[<<0, Len(s)>>]

\* Whether the leaf falls to the left, as the descent from the root has it when it
\* is read backwards.
Side_is_left(index, size) ==
  LET sides[p \in Parts(size)] ==
        IF p[2] <= 1 THEN <<>>
        ELSE IF index < Right(p)[1] THEN Append(sides[Left(p)], TRUE)
        ELSE Append(sides[Right(p)], FALSE)
  IN sides[<<0, size>>]

Combined(leaf, sides, path) ==
  LET acc[i \in 0 .. Len(sides)] ==
        IF i = 0 THEN hash_leaf(leaf)
        ELSE IF sides[i] THEN hash_node(acc[i - 1], path[i]) ELSE hash_node(path[i], acc[i - 1])
  IN acc[Len(sides)]

(* Steps past the length that is needed are ignored.                        *)
root_from_proof_lax(leaf, index, size, path) ==
  IF index >= size \/ Len(Side_is_left(index, size)) > Len(path) THEN None
  ELSE Combined(leaf, Side_is_left(index, size), path)

root_from_proof(leaf, index, size, path) ==
  IF index >= size \/ Len(Side_is_left(index, size)) # Len(path) THEN None
  ELSE Combined(leaf, Side_is_left(index, size), path)

-----------------------------------------------------------------------------
(* ancre-chain: the signed range *)

Signature(key, body) == <<key, body>>
Signed(key, body) == [body |-> body, signature |-> Signature(key, body)]

tree_size(body) == body.to - body.from + 1
Covers(body, seq) == body.from <= seq /\ seq <= body.to
index_of(body, seq) == seq - body.from

verify_checkpoint(cp, key) == cp.signature = Signature(key, cp.body)

\* Leaves that are not those of the checkpoint are refused.
prove_inclusion(cp, s, seq) ==
  IF ~Covers(cp.body, seq) \/ Len(s) # tree_size(cp.body) \/ tree_root(s) # cp.body.root THEN None
  ELSE [seq |-> seq, event_hash |-> s[index_of(cp.body, seq) + 1],
        path |-> build_proof(s, index_of(cp.body, seq))]

PathHolds(cp, p) ==
  /\ Covers(cp.body, p.seq)
  /\ root_from_proof(p.event_hash, index_of(cp.body, p.seq), tree_size(cp.body), p.path)
       = cp.body.root

verify_inclusion(cp, p, key) == verify_checkpoint(cp, key) /\ PathHolds(cp, p)

-----------------------------------------------------------------------------
(* A range and what is sent of it *)

Grow ==
  /\ checkpoint = None /\ Len(leaves) < MaxLeaves
  /\ \E hash \in Hashes : leaves' = Append(leaves, hash)
  /\ UNCHANGED <<checkpoint, proof, altered>>

Seal ==
  /\ checkpoint = None /\ leaves # <<>>
  /\ \E from \in Froms :
       checkpoint' = Signed("ours", [from |-> from, to |-> from + Len(leaves) - 1,
                                     root |-> tree_root(leaves)])
  /\ UNCHANGED <<leaves, proof, altered>>

Prove ==
  /\ checkpoint # None /\ proof = None
  /\ \E seq \in checkpoint.body.from .. checkpoint.body.to :
       proof' = prove_inclusion(checkpoint, leaves, seq)
  /\ UNCHANGED <<leaves, checkpoint, altered>>

\* Whatever hashes there are: those of the events, and those of the trees over
\* any part of the range.
Known == Hashes \union {tree_roots(leaves)[p] : p \in {q \in Parts(Len(leaves)) : q[2] > 0}}

OtherPaths(path) ==
  {[path EXCEPT ![i] = hash] : i \in DOMAIN path, hash \in Known}
  \union {Append(path, hash) : hash \in Known}
  \union {RemoveAt(path, i) : i \in DOMAIN path} \union {Reverse(path)}

Alter ==
  /\ proof # None /\ altered < MaxAlter
  /\ \/ \E seq \in checkpoint.body.from .. checkpoint.body.to :
          proof' = [proof EXCEPT !.seq = seq] /\ UNCHANGED checkpoint
     \/ \E hash \in Known : proof' = [proof EXCEPT !.event_hash = hash] /\ UNCHANGED checkpoint
     \/ \E path \in OtherPaths(proof.path) :
          proof' = [proof EXCEPT !.path = path] /\ UNCHANGED checkpoint
     \* The signed body, or all of it, with a key that is not ours.
     \/ \E body \in [from : Froms, to : {checkpoint.body.to, checkpoint.body.to + 1}, root : Known \ Hashes] :
          /\ body.from <= body.to
          /\ checkpoint' \in {[checkpoint EXCEPT !.body = body], Signed("theirs", body)}
          /\ UNCHANGED proof
  /\ altered' = altered + 1 /\ UNCHANGED leaves

TreeInit == leaves = <<>> /\ checkpoint = None /\ proof = None /\ altered = 0
TreeNext == Grow \/ Seal \/ Prove \/ Alter
TreeSpec == TreeInit /\ [][TreeNext]_treeVars

-----------------------------------------------------------------------------
(* Properties *)

\* Every place of a sealed range has a proof, which verifies and is no longer
\* than the tree is high (prove_inclusion and verify_inclusion agree on the way
\* down and on the order of the siblings, whatever the size).
EveryPlaceIsProved ==
  checkpoint # None /\ altered = 0 =>
    \A seq \in checkpoint.body.from .. checkpoint.body.to :
      LET p == prove_inclusion(checkpoint, leaves, seq)
      IN /\ verify_inclusion(checkpoint, p, "ours")
         /\ p.path # <<>> => Pow2[Len(p.path) - 1] < Len(leaves)

\* What verifies under our key is the event that was at this place of the range
\* we sealed, by the one path there is, however the proof and the checkpoint
\* were changed on their way: no event elsewhere, no inner node, no junk.
InclusionBinds ==
  proof # None /\ verify_inclusion(checkpoint, proof, "ours") =>
    /\ checkpoint.body.root = tree_root(leaves)
    /\ LET index == index_of(checkpoint.body, proof.seq)
       IN /\ proof.event_hash = leaves[index + 1]
          /\ proof.path = build_proof(leaves, index)
=============================================================================
