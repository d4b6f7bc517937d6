------------------------------- MODULE Stream -------------------------------
(***************************************************************************)
(* What the gateway reads off a response: the SSE scanner that splits the  *)
(* bytes into frames (sse.rs), what a provider's adapter finds in a        *)
(* document (openai.rs, anthropic.rs), and the fold over the frames        *)
(* (StreamPins).                                                           *)
(*                                                                         *)
(* A byte is LF, CR, the name of a field, "{", or the name of a document:  *)
(* "{" and a document after it parse, either alone does not.  A document   *)
(* has the model and the token counts that it names, and those of the      *)
(* message nested in it.  A model version says how it is known, and of     *)
(* which model: pinned, unresolved, unknown, or empty.                     *)
(***************************************************************************)
EXTENDS Integers, Sequences

CONSTANTS
  MaxFrame,   \* MAX_FRAME_BYTES
  Document,   \* what each document says
  DatedIds    \* the model ids that looks_pinned accepts, of each provider

ASSUME MaxFrame \in Nat

NoModel == "no model"
NoVersion == <<"none", NoModel>>
LF == "LF"
CR == "CR"

-----------------------------------------------------------------------------
(* FrameScanner                                                            *)

\* The length of the separator that begins at a place; 0 when none does.
SeparatorAt(buf, i) ==
  CASE i + 1 \in DOMAIN buf /\ SubSeq(buf, i, i + 1) = <<LF, LF>> -> 2
    [] i + 3 \in DOMAIN buf /\ SubSeq(buf, i, i + 3) = <<CR, LF, CR, LF>> -> 4
    [] OTHER -> 0

\* The bodies of the complete frames in a buffer and the bytes after the last:
\* the loop over find_separator that both paths of `feed' run.
Split(buf) ==
  LET from[i \in 1 .. Len(buf) + 1] ==
        LET ends == {j \in i .. Len(buf) : SeparatorAt(buf, j) > 0} IN
        IF ends = {} THEN [frames |-> <<>>, rest |-> SubSeq(buf, i, Len(buf))]
        ELSE LET at == CHOOSE j \in ends : \A k \in ends : j <= k
                 after == from[at + SeparatorAt(buf, at)]
             IN  [after EXCEPT !.frames = <<SubSeq(buf, i, at - 1)>> \o @]
  IN  from[1]

\* The value of the first data line of a frame, none for a frame without one.
Data(body) ==
  LET begins == {i \in DOMAIN body : body[i] = "data" /\ (i = 1 \/ body[i - 1] = LF)} IN
  IF begins = {} THEN <<>>
  ELSE LET first == CHOOSE i \in begins : \A j \in begins : i <= j
           ends == {j \in first .. Len(body) : body[j] = LF}
           line == SubSeq(body, first + 1,
                     IF ends = {} THEN Len(body) ELSE (CHOOSE j \in ends : \A k \in ends : j <= k) - 1)
       IN  IF line # <<>> /\ line[Len(line)] = CR THEN SubSeq(line, 1, Len(line) - 1) ELSE line

\* A frame without end is given up, whatever of it was carried.
Carried(rest) == IF Len(rest) > MaxFrame THEN <<>> ELSE rest

(* Only the new chunk is searched for separators. *)
FeedChunkOnly(carry, chunk) ==
  LET split == Split(chunk) IN
  IF split.frames = <<>> THEN [frames |-> <<>>, carry |-> Carried(carry \o split.rest)]
  ELSE [frames |-> <<carry \o split.frames[1]>> \o Tail(split.frames), carry |-> Carried(split.rest)]

\* `feed': a carried tail and the chunk are scanned as one buffer.
Feed(carry, chunk) == LET split == Split(carry \o chunk)
                      IN  [frames |-> split.frames, carry |-> Carried(split.rest)]

-----------------------------------------------------------------------------
(* The adapters                                                            *)

Parses(data) == Len(data) = 2 /\ data[1] = "{" /\ data[2] \in DOMAIN Document

Larger(m, n) == IF m >= n THEN m ELSE n

\* What `served_by' and `served_by_streaming' make of a model and of counts.
Served(kind, model, in, out) ==
  [model_version |-> <<IF model \in DatedIds[kind] THEN "pinned" ELSE "unresolved", model>>,
   flag |-> model \notin DatedIds[kind], in |-> in, out |-> out]

UnknownServed == [model_version |-> <<"unknown", NoModel>>, flag |-> TRUE, in |-> 0, out |-> 0]

\* The whole document of a response that is not streamed.
served_by(kind, body) ==
  IF Parses(body) /\ Document[body[2]].model # NoModel
    THEN LET doc == Document[body[2]] IN Served(kind, doc.model, doc.in, doc.out)
    ELSE UnknownServed

\* What a frame says, as a sequence of at most one: nothing for a frame that
\* does not parse, and counts without a model for one that has only those.
served_by_streaming(kind, data) ==
  IF ~ Parses(data) THEN <<>>
  ELSE LET doc    == Document[data[2]]
           nested == kind = "anthropic" /\ doc.message # <<>>
           model  == CASE kind = "openai" -> doc.model
                       [] nested -> doc.message[1].model
                       [] OTHER -> NoModel
           in     == IF nested THEN Larger(doc.in, doc.message[1].in) ELSE doc.in
           out    == IF nested THEN Larger(doc.out, doc.message[1].out) ELSE doc.out
       IN  CASE model # NoModel -> <<Served(kind, model, in, out)>>
             [] model = NoModel /\ in + out > 0 ->
                  <<[model_version |-> <<"empty", NoModel>>, flag |-> FALSE, in |-> in, out |-> out]>>
             [] OTHER -> <<>>

-----------------------------------------------------------------------------
(* StreamPins                                                              *)

NoPins == [model_version |-> NoVersion, flag |-> FALSE, in |-> 0, out |-> 0]

Absorb(pins, s) ==
  [model_version |-> IF pins.model_version = NoVersion THEN s.model_version ELSE pins.model_version,
   flag |-> IF pins.model_version = NoVersion THEN s.flag ELSE pins.flag,
   in   |-> IF s.in > 0 THEN s.in ELSE pins.in,
   out  |-> IF s.out > 0 THEN s.out ELSE pins.out]

\* The frames of a chunk, or the tail of the stream, folded in order.
AbsorbFrames(pins, kind, frames) ==
  LET upTo[i \in 0 .. Len(frames)] ==
        IF i = 0 THEN pins
        ELSE LET s == served_by_streaming(kind, Data(frames[i]))
             IN  IF s = <<>> THEN upTo[i - 1] ELSE Absorb(upTo[i - 1], s[1])
  IN  upTo[Len(frames)]

FinishPins(pins) == IF pins.model_version = NoVersion THEN UnknownServed ELSE pins
=============================================================================
