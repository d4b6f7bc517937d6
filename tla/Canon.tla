-------------------------------- MODULE Canon --------------------------------
(***************************************************************************)
(* ancre-canon: the one encoding a value may have.                         *)
(*                                                                         *)
(*   crates/ancre-canon/src/lib.rs    encode, decode, canonicalize          *)
(*                                                                         *)
(* A value is <<kind, content>>: the content of a map is the sequence of   *)
(* its entries in the order in which they were serialized or read, that of *)
(* a text the sequence of its characters.  What is written of a value is   *)
(* <<kind, content, form>>: a "short" integer has its least width, a       *)
(* "short" string, array or map a definite length.                         *)
(***************************************************************************)
EXTENDS Naturals, Sequences, SequencesExt, FiniteSets

FloatNotAllowed == <<"FloatNotAllowed">>
DuplicateMapKey == <<"DuplicateMapKey">>
NotCanonical == <<"NotCanonical">>
Failed(result) == Len(result) = 1

\* The order of the keys of a map: the shorter first, then by characters.
KeyBefore(x, y) ==
  LET s == x[1][2] t == y[1][2]
  IN \/ Len(s) < Len(t)
     \/ /\ Len(s) = Len(t)
        /\ \E i \in DOMAIN s : s[i] < t[i] /\ \A j \in 1 .. i - 1 : s[j] = t[j]

Failures(results) == SelectSeq(results, Failed)

(* The entries stay in the order they came in.                              *)
RECURSIVE canonicalizeUnsorted(_)
canonicalizeUnsorted(v) ==
  CASE v[1] = "float" -> FloatNotAllowed
    [] v[1] = "map" ->
         LET values == [i \in DOMAIN v[2] |-> canonicalizeUnsorted(v[2][i][2])]
         IN IF Failures(values) # <<>> THEN Head(Failures(values))
            ELSE IF \E i, j \in DOMAIN v[2] : i # j /\ v[2][i][1] = v[2][j][1] THEN DuplicateMapKey
            ELSE <<"map", [i \in DOMAIN v[2] |-> <<v[2][i][1], values[i]>>]>>
    [] v[1] = "array" ->
         LET items == [i \in DOMAIN v[2] |-> canonicalizeUnsorted(v[2][i])]
         IN IF Failures(items) # <<>> THEN Head(Failures(items)) ELSE <<"array", items>>
    [] OTHER -> v

\* The single permitted form of a value, or the first reason there is none.
RECURSIVE canonicalize(_)
canonicalize(v) ==
  CASE v[1] = "float" -> FloatNotAllowed
    [] v[1] = "map" ->
         LET values == [i \in DOMAIN v[2] |-> canonicalize(v[2][i][2])]
             sorted == SortSeq([i \in DOMAIN v[2] |-> <<v[2][i][1], values[i]>>], KeyBefore)
         IN IF Failures(values) # <<>> THEN Head(Failures(values))
            ELSE IF \E i \in 1 .. Len(sorted) - 1 : sorted[i][1] = sorted[i + 1][1] THEN DuplicateMapKey
            ELSE <<"map", sorted>>
    [] v[1] = "array" ->
         LET items == [i \in DOMAIN v[2] |-> canonicalize(v[2][i])]
         IN IF Failures(items) # <<>> THEN Head(Failures(items)) ELSE <<"array", items>>
    [] OTHER -> v

\* The shortest writing, in the order of the value.
RECURSIVE write_canonical(_)
write_canonical(v) ==
  <<v[1],
    CASE v[1] = "map" -> [i \in DOMAIN v[2] |-> <<write_canonical(v[2][i][1]), write_canonical(v[2][i][2])>>]
      [] v[1] = "array" -> [i \in DOMAIN v[2] |-> write_canonical(v[2][i])]
      [] OTHER -> v[2],
    "short">>

\* The value that was written, whatever its forms.
RECURSIVE Parsed(_)
Parsed(w) ==
  <<w[1],
    CASE w[1] = "map" -> [i \in DOMAIN w[2] |-> <<Parsed(w[2][i][1]), Parsed(w[2][i][2])>>]
      [] w[1] = "array" -> [i \in DOMAIN w[2] |-> Parsed(w[2][i])]
      [] OTHER -> w[2]>>

encode(v) == IF Failed(canonicalize(v)) THEN canonicalize(v) ELSE write_canonical(canonicalize(v))

(* What parses is decoded.                                                  *)
decode_lax(w) == canonicalize(Parsed(w))

\* What decodes to a value but is not the way to write it is refused.
decode(w) ==
  LET v == canonicalize(Parsed(w))
  IN IF Failed(v) THEN v ELSE IF write_canonical(v) # w THEN NotCanonical ELSE v

-----------------------------------------------------------------------------
(* Two values mean the same if they are equal up to the order of entries.   *)

RECURSIVE Meaning(_)
Meaning(v) ==
  CASE v[1] = "map" -> <<"map", {<<v[2][i][1], Meaning(v[2][i][2])>> : i \in DOMAIN v[2]}, Len(v[2])>>
    [] v[1] = "array" -> <<"array", [i \in DOMAIN v[2] |-> Meaning(v[2][i])]>>
    [] OTHER -> v

RECURSIVE HasFloat(_)
HasFloat(v) ==
  CASE v[1] = "map" -> \E i \in DOMAIN v[2] : HasFloat(v[2][i][2])
    [] v[1] = "array" -> \E i \in DOMAIN v[2] : HasFloat(v[2][i])
    [] OTHER -> v[1] = "float"
=============================================================================
