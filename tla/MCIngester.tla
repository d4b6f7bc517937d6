----------------------------- MODULE MCIngester -----------------------------
(* Small instances of Ingester for TLC. *)
EXTENDS IngesterProperties, TLC

CONSTANTS a, b,          \* two chains
          m1, m2, m3,    \* three messages
          x              \* a message that does not decode

\* Two messages of chain a and one of chain b.
MCChainOf == (m1 :> a) @@ (m2 :> a) @@ (m3 :> b)
MCChainOfBad == (m1 :> a) @@ (m2 :> a) @@ (x :> b)
MCChainOfTwo == (m1 :> a) @@ (m3 :> b)
MCSymmetry == Permutations({m1, m2})
MCChainOfPoison == (m1 :> a) @@ (x :> b)
MCChainOfOne == (m1 :> a) @@ (m2 :> a)
=============================================================================
