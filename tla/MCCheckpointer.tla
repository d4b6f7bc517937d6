--------------------------- MODULE MCCheckpointer ---------------------------
(***************************************************************************)
(* Small instances of Checkpointer.                                        *)
(***************************************************************************)
EXTENDS Checkpointer, TLC

OneChain == <<"a">>
TwoChains == <<"a", "b">>
CONSTANTS r1, r2, k1, k2, k3
Alike == Permutations({r1, r2}) \union Permutations({k1, k2, k3})
=============================================================================
