------------------------ MODULE MCSnapshotPublisher ------------------------
(* Small instances of SnapshotPublisher for TLC. *)
EXTENDS SnapshotPublisher

MCRegistry0 == <<"s1", "k1">>

\* A key of k2 is bound to a system that only s2 has.
MCValid == {<<"s1", "k1">>, <<"s2", "k1">>, <<"s2", "k2">>}
=============================================================================
