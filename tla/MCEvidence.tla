----------------------------- MODULE MCEvidence -----------------------------
(***************************************************************************)
(* Small instances of Evidence.                                            *)
(***************************************************************************)
EXTENDS Evidence, TLC

\* What the properties of a pack that is done depend on.
EvView == IF pack.stage = "done" THEN <<pack, rows, checkpoints>> ELSE evVars
OneChain == <<"a">>
CONSTANTS r1, r2, k1, k2
Alike == Permutations({r1, r2}) \union Permutations({k1, k2})

\* Two faults, and a row that is stored twice, are explored with one replica.
Lone == \E r \in Replicas : \A s \in Replicas \ {r} : replica[s] = Down
Doubled == \E x, y \in rows["a"] : x # y /\ x.seq = y.seq
Bounded == faults > 1 \/ Doubled => Lone
=============================================================================
