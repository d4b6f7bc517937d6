------------------------------ MODULE MCReadApi ------------------------------
(***************************************************************************)
(* What the hashes of the system stand for, and what is read back: a small *)
(* instance of ReadApi, one of MerkleTree, and a document that is received *)
(* in some writing.  Three machines, of which one moves in a behaviour.    *)
(***************************************************************************)
EXTENDS ReadApi, Canon, MerkleTree

VARIABLE received

-----------------------------------------------------------------------------
(* Documents: every writing of small values. *)

Nothing == <<>>
Forms == {"short", "long"}
Texts == {<<1>>, <<2>>, <<1, 1>>}
Scalars == {<<"int", n, f>> : n \in {0, 1}, f \in Forms} \union {<<"float", 0, "short">>}
Inner == Scalars
  \union {<<"map", <<<<<<"text", t, "short">>, v>>>>, "short">> : t \in {<<1>>}, v \in Scalars}
  \union {<<"array", <<v>>, f>> : v \in Scalars, f \in Forms}
Entries == {<<<<"text", t, f>>, v>> : t \in Texts, f \in {"short"}, v \in Inner}
Documents == Inner
  \union {<<"map", <<a, b>>, f>> : a \in Entries, b \in Entries, f \in Forms}

Receive ==
  /\ received = Nothing
  /\ \E w \in Documents : received' = w

\* What is accepted is the encoding of its value, which is accepted, and no
\* other writing of a value that means the same is.
Accepted == {w \in Documents : ~Failed(decode(w))}
OneWriting ==
  received # Nothing =>
    LET v == Parsed(received)
    IN /\ received \in Accepted =>
            /\ encode(v) = received /\ ~HasFloat(v)
            /\ \A w \in Accepted : Meaning(Parsed(w)) = Meaning(v) => w = received
       /\ ~Failed(encode(v)) => /\ ~Failed(decode(encode(v)))
                                /\ Meaning(decode(encode(v))) = Meaning(v)

-----------------------------------------------------------------------------
Resolved == [n \in PinNames |-> Said(n)]
Event(type, at, pins) ==
  [tenant_id |-> "", system_id |-> "s", seq |-> 0, prev_hash |-> Genesis, event_hash |-> "",
   canon_version |-> "ancre-canon/1", occurred_at |-> at, ingested_at |-> at,
   event_type |-> type, outcome |-> "Ok", numbers |-> 0, pins |-> pins]
\* A request whose caller pinned a prompt, a hole, and what a later build calls
\* a tool call, with a model whose alias was not resolved.
MCNewEvents ==
  {Event("LlmRequest", 2,
         [config_generation |-> 2, system_id |-> "s", risk_class |-> "High",
          names |-> [Resolved EXCEPT !["prompt_version"] = Unresolved("mine")],
          resolved_stale |-> TRUE, risk_flags |-> <<"StaleConfig", "PinOverridden">>]),
   Event("TelemetryDropped", 1, Gap("s", "TelemetryDropped"))}
MCNewerRows ==
  {[event_type |-> "tool.call",
    names |-> [Resolved EXCEPT !["model_version"] = Unresolved("gpt")]]}
MCEnvs == {<<"blank">>, <<"blank", "a", "=", "b">>, <<"a", "blank", "semicolon", "b">>}
MCTyped == {<<"a", "=", "b", "blank">>, <<"a">>, <<"a", "blank", "semicolon", "b">>}

MCInit == ApiInit /\ TreeInit /\ received = Nothing
MCNext ==
  \/ TreeInit /\ received = Nothing /\ ApiNext /\ UNCHANGED <<treeVars, received>>
  \/ ApiInit /\ received = Nothing /\ TreeNext /\ UNCHANGED <<apiVars, received>>
  \/ ApiInit /\ TreeInit /\ Receive /\ UNCHANGED <<apiVars, treeVars>>
MCSpec == MCInit /\ [][MCNext]_<<apiVars, treeVars, received>>

Sym == Permutations(Chains) \union Permutations(Hashes)

-----------------------------------------------------------------------------
\* Another way to the root: the perfect trees that the binary digits of the
\* length name, in order, joined from the right.  It looks at no split point.
RECURSIVE Perfect(_)
Perfect(row) ==
  IF Len(row) = 1 THEN row[1]
  ELSE Perfect([i \in 1 .. Len(row) \div 2 |-> hash_node(row[2 * i - 1], row[2 * i])])
RECURSIVE Peaks(_)
Peaks(row) ==
  IF row = <<>> THEN <<>>
  ELSE LET size == CHOOSE k \in {2 ^ i : i \in 0 .. Len(row)} : k <= Len(row) /\ Len(row) < 2 * k
       IN <<Perfect(SubSeq(row, 1, size))>> \o Peaks(SubSeq(row, size + 1, Len(row)))
Joined(peaks) == FoldRight(hash_node, Front(peaks), Last(peaks))
\* The root of a range, of any length, is that of its peaks (tree_root).
RootIsOfItsPeaks ==
  leaves # <<>> => tree_root(leaves) = Joined(Peaks([i \in DOMAIN leaves |-> hash_leaf(leaves[i])]))
=============================================================================
