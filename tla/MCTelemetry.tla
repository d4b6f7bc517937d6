---------------------------- MODULE MCTelemetry ----------------------------
(* Small instances of Telemetry for TLC. *)
EXTENDS Telemetry, TLC

CONSTANTS a, b, c,             \* chains
          e1, e2, e3, e4   \* events

MCOneChain == [e \in {e1, e2, e3} |-> a]
MCTwoAndOne == (e1 :> a) @@ (e2 :> a) @@ (e3 :> b)
MCTwoChains == (e1 :> a) @@ (e2 :> a) @@ (e3 :> b) @@ (e4 :> b)
MCThreeChains == (e1 :> a) @@ (e2 :> b) @@ (e3 :> c) @@ (e4 :> a)
MCSymmetry == Permutations({e1, e2}) \cup Permutations({e3, e4})
=============================================================================
