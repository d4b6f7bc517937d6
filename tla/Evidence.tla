------------------------------ MODULE Evidence ------------------------------
(***************************************************************************)
(* What an auditor makes of a chain: the read API exports its rows page by *)
(* page, then its checkpoints, then the public keys, while the chain grows *)
(* and replicas seal it; the files may be damaged on their way; and        *)
(* ancre-verify judges them with nothing but the files.                    *)
(*                                                                         *)
(*   crates/ancre-control/src/api.rs, export.rs, clickhouse.rs   the export *)
(*   deploy/compose/quickstart.sh, ui/src/lib/api.ts             the pack   *)
(*   crates/ancre-chain/src/verify.rs, checkpoint.rs             the walk   *)
(*   crates/ancre-verify/src/pack.rs, main.rs                    the verdict *)
(*                                                                         *)
(* A hash is what it was computed from, as in Checkpointer; that roots may *)
(* be taken so is what MerkleTree shows.                                   *)
(***************************************************************************)
EXTENDS Checkpointer

CONSTANTS
  Page,       \* PAGE: rows in one query of the export
  Damages,    \* of "lost", "twice", "swapped", "edited", "resealed", "relinked", "rules",
              \* "signature", "unreadable"
  MaxDamage   \* bound: damages to one pack

ASSUME EvidenceParameters == Walk # <<>> /\ Page \in Nat \ {0} /\ MaxDamage \in Nat

VARIABLE pack   \* the export under way, and then the files of the pack

evVars == <<cpVars, pack>>

Chain == Walk[1]
NoHash == <<>>
NoPack == [stage |-> "head", browser |-> FALSE, fetched |-> {},
           from |-> 1, to |-> 0, next |-> 1, explicit |-> Genesis,
           manifest |-> [from |-> 0, to |-> 0, prev |-> NoHash],
           events |-> <<>>, checkpoints |-> {}, keys |-> {}, damage |-> <<>>]

\* A row as it is exported: the hash it carries, and the one its contents have
\* under the rule set it names, which the verifier knows or does not.
AsEvent(row) ==
  [seq |-> row.seq, hash |-> row.hash, prev |-> row.prev, computed |-> row.hash, known |-> TRUE]

-----------------------------------------------------------------------------
(* The export *)

\* The head is read once; the dashboard asks for no more than it had seen before.
\* A range that begins later is anchored at the hash of the row before it: the
\* manifest says it, or the auditor has it from an earlier pack (--from).
ExportHead ==
  /\ pack.stage = "head" /\ rows[Chain] # {}
  /\ \E from \in IF pack.browser THEN {1} ELSE 1 .. Head_seq(Chain) :
     \E to \in IF pack.browser THEN 1 .. Head_seq(Chain) ELSE {Head_seq(Chain)} :
     \E anchor \in IF from = 1 THEN {<<NoHash, Genesis>>}
                   ELSE UNION {{<<row.hash, Genesis>>, <<NoHash, row.hash>>} :
                                 row \in Between(Chain, from - 1, from - 1)} :
       pack' = [pack EXCEPT !.stage = "page", !.from = from, !.next = from, !.to = to,
                            !.manifest.prev = anchor[1], !.explicit = anchor[2]]
  /\ UNCHANGED cpVars

Upto(last) == IF last < pack.to THEN last ELSE pack.to

\* An empty page ends the export early.
ExportPage ==
  /\ pack.stage = "page" /\ pack.next <= pack.to
  /\ \E s \in InOrder(Between(Chain, pack.next, Upto(pack.next + Page - 1))) :
       pack' = IF s = <<>> THEN [pack EXCEPT !.stage = "ended"]
               ELSE [pack EXCEPT !.events = @ \o [i \in 1 .. Len(s) |-> AsEvent(s[i])],
                                 !.next = Upto(pack.next + Page - 1) + 1]
  /\ UNCHANGED cpVars

\* A page that fails cuts the body off, and the script makes the pack of what
\* there is.
ExportCut ==
  /\ Fault("cut") /\ ~pack.browser
  /\ pack.stage = "page" /\ pack.next <= pack.to
  /\ pack' = [pack EXCEPT !.stage = "ended"]
  /\ UNCHANGED <<rows, checkpoints, signingKeys, file, now, replica>>

Sealed(k) == [from |-> k.from, to |-> k.to, leaves |-> k.leaves, key |-> k.key, intact |-> TRUE]

LastSeq == IF pack.events = <<>> THEN 0 ELSE Last(pack.events).seq

\* After its last page, early, or cut off.
Ended == pack.stage = "ended" \/ (pack.stage = "page" /\ pack.next > pack.to)

\* The script fetches one file after the other; the dashboard all at once, and
\* the queries behind them run in any order.
FetchCheckpoints ==
  /\ pack.stage # "done" /\ "checkpoints" \notin pack.fetched
  /\ pack.browser \/ Ended
  /\ pack' = [pack EXCEPT !.fetched = @ \union {"checkpoints"},
                          !.checkpoints = {Sealed(k) : k \in CheckpointsOf(Chain)}]
  /\ UNCHANGED cpVars

(* Only the key that is active.                                             *)
FetchActiveKey ==
  /\ pack.stage # "done" /\ "keys" \notin pack.fetched
  /\ pack.browser \/ "checkpoints" \in pack.fetched
  /\ pack' = [pack EXCEPT !.fetched = @ \union {"keys"}, !.keys = {k.key : k \in OpenKeys}]
  /\ UNCHANGED cpVars

\* Every key there is, the retired ones included.
FetchKeys ==
  /\ pack.stage # "done" /\ "keys" \notin pack.fetched
  /\ pack.browser \/ "checkpoints" \in pack.fetched
  /\ pack' = [pack EXCEPT !.fetched = @ \union {"keys"}, !.keys = {k.key : k \in signingKeys}]
  /\ UNCHANGED cpVars

AllFetched == pack.stage = "done" \/ (Ended /\ pack.fetched = {"checkpoints", "keys"})

\* The manifest of the dashboard tells of the first and the last row.
Assemble ==
  /\ AllFetched /\ pack.stage # "done"
  /\ LET ends == IF pack.browser /\ pack.events # <<>>
                   THEN <<Head(pack.events).seq, LastSeq>> ELSE <<0, 0>>
     IN pack' = [pack EXCEPT !.stage = "done", !.manifest.from = ends[1], !.manifest.to = ends[2]]
  /\ UNCHANGED cpVars

\* The anchor the manifest declares is a default; a --from of GENESIS is no --from.
Anchored_from_manifest == pack.explicit = Genesis /\ pack.manifest.prev # NoHash
Anchor == IF Anchored_from_manifest THEN pack.manifest.prev ELSE pack.explicit

-----------------------------------------------------------------------------
(* What may happen to the rows, in the store or on the way, and to the files *)

Other(hash) == <<hash[1], 3>>

\* The events from i on, written anew: each at the next place, linked to the one
\* before it, and hashed.
Relinked(s, i) ==
  LET before == IF i = 1 THEN Anchor ELSE s[i - 1].hash
      place(j) == before[1] + 1 + j - i
      link(j) == IF j = i THEN before ELSE <<place(j) - 1, 3>>
  IN [j \in DOMAIN s |->
        IF j < i THEN s[j]
        ELSE [seq |-> place(j), hash |-> <<place(j), 3>>, prev |-> link(j),
              computed |-> <<place(j), 3>>, known |-> TRUE]]

Swapped(s, i) == [s EXCEPT ![i] = s[i + 1], ![i + 1] = s[i]]

Damaged(kind) ==
  LET s == pack.events
  IN CASE kind = "lost" -> {[pack EXCEPT !.events = RemoveAt(s, i)] : i \in DOMAIN s}
       [] kind = "twice" -> {[pack EXCEPT !.events = InsertAt(s, i, s[i])] : i \in DOMAIN s}
       [] kind = "swapped" -> {[pack EXCEPT !.events = Swapped(s, i)] : i \in 1 .. Len(s) - 1}
       \* The contents change, and the hash that is carried does or does not.
       [] kind = "edited" -> {[pack EXCEPT !.events[i].computed = Other(s[i].hash)] : i \in DOMAIN s}
       [] kind = "resealed" ->
            {[pack EXCEPT !.events[i].computed = Other(s[i].hash),
                          !.events[i].hash = Other(s[i].hash)] : i \in DOMAIN s}
       \* A party that owns the store writes it anew from one row on.
       [] kind = "relinked" -> {[pack EXCEPT !.events = Relinked(s, i)] : i \in DOMAIN s}
       \* Sealed under rules that came later: this build's hash is another one.
       [] kind = "rules" ->
            {[pack EXCEPT !.events = [j \in DOMAIN s |-> IF j < i THEN s[j] ELSE
                [s[j] EXCEPT !.known = FALSE, !.computed = Other(s[j].hash)]]] : i \in DOMAIN s}
       \* A checkpoint of which anything was changed.
       [] kind = "signature" ->
            {[pack EXCEPT !.checkpoints = (@ \ {k}) \union {[k EXCEPT !.intact = FALSE]}] :
               k \in pack.checkpoints}
       [] OTHER -> {pack}

\* The kinds of damage there were, in their order.
Suffered(kind) == kind \in Range(pack.damage)

Damage ==
  /\ pack.stage = "done" /\ Len(pack.damage) < MaxDamage
  /\ \E kind \in Damages : \E p \in Damaged(kind) :
       pack' = [p EXCEPT !.damage = Append(@, kind)]
  /\ UNCHANGED cpVars

\* Some of the replicas have booted, each with the key there was: all but one of
\* the keys have been retired by the replicas that came later.  The others are
\* about to, after a rotation: the key of the file was taken away.
EvInit ==
  /\ \E up \in SUBSET Replicas \ {{}} : \E keyOf \in [up -> Keys] : \E active \in Range(keyOf) :
       /\ replica = [r \in Replicas |->
            IF r \in up THEN [Down EXCEPT !.pc = "idle", !.key = keyOf[r]] ELSE Down]
       /\ signingKeys = {[key |-> k, from |-> 0, to |-> IF k = active THEN Open ELSE 0] :
                           k \in Range(keyOf)}
       /\ file = IF up = Replicas THEN active ELSE NoKey
  /\ rows = [c \in Chains |-> {}]
  /\ checkpoints = {}
  /\ now = 0 /\ faults = 0
  /\ pack \in {[NoPack EXCEPT !.browser = browser] : browser \in BOOLEAN}
\* What the system does once the files are there does not reach them.
EvNext ==
  \/ ~AllFetched /\ CpNext /\ UNCHANGED pack
  \/ ExportHead \/ ExportPage \/ ExportCut
  \/ FetchCheckpoints \/ FetchKeys \/ Assemble
  \/ Damage
EvSpec == EvInit /\ [][EvNext]_evVars

-----------------------------------------------------------------------------
(* verify_range *)

(* The walk goes on from the hash it computed.                              *)
ExpectedComputed(anchor, i) == IF i = 1 THEN anchor ELSE pack.events[i - 1].computed

\* What the event at i has to point back to: the walk re-anchors on the hash
\* each event carries.
Expected(anchor, i) == IF i = 1 THEN anchor ELSE pack.events[i - 1].hash

(* Positions, and no links.                                                 *)
ViolationsOfPlace(anchor) ==
  LET s == pack.events
      step(i) == s[i].seq - s[i - 1].seq
  IN {<<i, "Fork">> : i \in {j \in 2 .. Len(s) : step(j) = 0}}
     \union {<<i, "Gap">> : i \in {j \in 2 .. Len(s) : step(j) > 1}}
     \union {<<i, "HashMismatch">> :
               i \in {j \in DOMAIN s : s[j].known /\ s[j].computed # s[j].hash}}
     \union {<<i, "UnknownCanonVersion">> : i \in {j \in DOMAIN s : ~s[j].known}}

\* The findings, each with the index of the event it names.
Violations(anchor) ==
  LET s == pack.events
      step(i) == s[i].seq - s[i - 1].seq
  IN {<<i, "Fork">> : i \in {j \in 2 .. Len(s) : step(j) = 0}}
     \union {<<i, "Gap">> : i \in {j \in 2 .. Len(s) : step(j) > 1}}
     \union {<<i, "BrokenLink">> : i \in {j \in DOMAIN s : s[j].prev # Expected(anchor, j)}}
     \union {<<i, "HashMismatch">> :
               i \in {j \in DOMAIN s : s[j].known /\ s[j].computed # s[j].hash}}
     \union {<<i, "UnknownCanonVersion">> : i \in {j \in DOMAIN s : ~s[j].known}}

Is_clean(anchor) == Violations(anchor) = {}
Is_inconclusive(anchor) ==
  ~Is_clean(anchor) /\ \A v \in Violations(anchor) : v[2] = "UnknownCanonVersion"

-----------------------------------------------------------------------------
(* attest *)

(* The hash each event carries.                                             *)
By_seqCarried == [q \in {pack.events[i].seq : i \in DOMAIN pack.events} |->
                    (CHOOSE e \in Range(pack.events) : e.seq = q).hash]

\* The recomputed hash of the last event at each place.
By_seq == [q \in {pack.events[i].seq : i \in DOMAIN pack.events} |->
             LET last == CHOOSE i \in DOMAIN pack.events :
                           /\ pack.events[i].seq = q
                           /\ \A j \in DOMAIN pack.events : pack.events[j].seq = q => j <= i
             IN pack.events[last].computed]

Attest(k, trusted) ==
  IF k.key \notin trusted \/ ~k.intact THEN "Violation"
  ELSE IF ~(k.from .. k.to \subseteq DOMAIN By_seq) THEN "NotCoveredByPack"
  ELSE IF [i \in 1 .. k.to - k.from + 1 |-> By_seq[k.from + i - 1]] # k.leaves THEN "Violation"
  ELSE "Verified"

VerifiedRanges(trusted) ==
  {<<k.from, k.to>> : k \in {j \in pack.checkpoints : Attest(j, trusted) = "Verified"}}

\* Sorted, and each merged into the run before it if it abuts or overlaps.
Before(x, y) == x[1] < y[1] \/ (x[1] = y[1] /\ x[2] <= y[2])
Sorted(S) == CHOOSE s \in SetToSeqs(S) : \A i, j \in DOMAIN s : i < j => Before(s[i], s[j])

(* Ranges that overlap, and not those that abut.                            *)
MergedOverlap(runs, range) ==
  IF runs # <<>> /\ range[1] <= Last(runs)[2]
  THEN [runs EXCEPT ![Len(runs)][2] = IF @ < range[2] THEN range[2] ELSE @]
  ELSE Append(runs, range)

Merged(runs, range) ==
  IF runs # <<>> /\ range[1] <= Last(runs)[2] + 1
  THEN [runs EXCEPT ![Len(runs)][2] = IF @ < range[2] THEN range[2] ELSE @]
  ELSE Append(runs, range)

Attested_runs(trusted) ==
  LET ranges == Sorted(VerifiedRanges(trusted))
      runs[i \in 0 .. Len(ranges)] ==
        IF i = 0 THEN <<>> ELSE Merged(runs[i - 1], ranges[i])
  IN runs[Len(ranges)]

-----------------------------------------------------------------------------
(* run_pack, and run_chain, which has nothing but the events *)

Clean == 0
Violated == 1
CannotVerify == 2

SignatureViolations(trusted) == \E k \in pack.checkpoints : Attest(k, trusted) = "Violation"

\* A file is missing, is not the JSON it should be, or of another version.
Unreadable == Suffered("unreadable")

Run_pack(trusted) ==
  IF Unreadable \/ Is_inconclusive(Anchor) THEN CannotVerify
  ELSE IF ~Is_clean(Anchor) \/ SignatureViolations(trusted) THEN Violated
  ELSE Clean

Run_chain ==
  IF Unreadable THEN CannotVerify
  ELSE IF Is_clean(pack.explicit) THEN Clean
  ELSE IF Is_inconclusive(pack.explicit) THEN CannotVerify ELSE Violated

\* What the report says beside the verdict: how the pack is anchored, that the
\* manifest tells of another range, that there is nothing to check, and what the
\* checkpoints vouch for.
Print_pack_header ==
  (IF Anchored_from_manifest THEN {"anchored from the manifest"} ELSE {})
    \union (IF pack.events # <<>> /\ pack.manifest.from # 0
               /\ <<pack.manifest.from, pack.manifest.to>> # <<Head(pack.events).seq, LastSeq>>
             THEN {"another range"} ELSE {})
Print_report == IF pack.events = <<>> THEN {"no events"} ELSE {}
Print_attestation(trusted) ==
  IF pack.checkpoints = {} THEN {"not attested"}
  ELSE IF VerifiedRanges(trusted) = {} THEN {"attested range: none"} ELSE {}

\* The keys of the pack, or one that was pinned with --key.
TrustSets == {pack.keys} \union {{k} : k \in Keys}

-----------------------------------------------------------------------------
(* Properties *)

Done == pack.stage = "done"

\* A row more for each that was doubled before the rest was written anew.
Places == 1 .. MaxSeq + MaxDamage
Events == [seq : Places, hash : Places \X {1, 2, 3}, prev : (Places \union {0}) \X {1, 2, 3},
           computed : Places \X {1, 2, 3}, known : BOOLEAN]

\* The files hold what files of their kind can hold.
EvTypeOK ==
  /\ pack.stage \in {"head", "page", "ended", "done"}
  /\ pack.browser \in BOOLEAN /\ pack.fetched \subseteq {"checkpoints", "keys"}
  /\ pack.from \in 1 .. MaxSeq /\ pack.to \in 0 .. MaxSeq /\ pack.next \in 1 .. MaxSeq + 1
  /\ pack.explicit \in Hashes /\ pack.manifest.prev \in Hashes \union {NoHash} /\ Range(pack.events) \subseteq Events
  /\ pack.keys \subseteq Keys /\ pack.damage \in Seq(Damages)

\* A pack of a whole chain that nothing happened to verifies, whatever was
\* appended, sealed and rotated while it was exported, and every checkpoint
\* within its rows is verified, if the keys that sealed its checkpoints are all
\* in it; that they are is what the order of the script is for (all keys,
\* fetched last).  The chain verifies without its checkpoints, too, if the auditor
\* knows where it is anchored, and what was sealed is not reported as unattested.
SoundPackVerifies ==
  Done /\ pack.damage = <<>> /\ Whole(Chain) =>
    LET keysThere == \A k \in pack.checkpoints : k.key \in pack.keys
    IN /\ Run_chain = Clean \/ Anchored_from_manifest
       /\ ~pack.browser => keysThere
       /\ keysThere => Run_pack(pack.keys) = Clean
       /\ \A k \in pack.checkpoints :
            k.key \in pack.keys /\ pack.from <= k.from /\ k.to <= LastSeq
              => Attest(k, pack.keys) = "Verified" /\ Print_attestation(pack.keys) = {}

Attested == UNION {range[1] .. range[2] : range \in VerifiedRanges(pack.keys)}

\* Up to the last place that a checkpoint vouches for, a pack that is clean holds
\* the rows of the chain from where it starts, each at its place, once and as it was
\* stored, whatever was lost, doubled, swapped, edited, hashed again or written
\* anew with all that follows it: the checkpoint vouches for the places of its
\* range, and the links for those before it.  What comes after is consistent and
\* no more ("the signature is what closes that").  If the dashboard's pack of a
\* whole chain has lost a row, none was doubled and nothing was written anew, the report says so where the
\* verdict does not ("the cheapest possible signal that a pack was truncated").
CleanMeansUnchanged ==
  Done /\ Run_pack(pack.keys) = Clean =>
    /\ \A q \in Attested : \A i \in 1 .. q - pack.from + 1 :
         \E row \in rows[Chain] : /\ row.seq = pack.from + i - 1
                                 /\ i \in DOMAIN pack.events /\ pack.events[i] = AsEvent(row)
    /\ pack.browser /\ Whole(Chain) /\ Suffered("lost")
         /\ ~Suffered("twice") /\ ~Suffered("relinked")
         => (Print_pack_header \union Print_report) \intersect {"another range", "no events"} # {}

\* Of a place that is said to be attested the pack holds what a replica read
\* there when it sealed it, with a key that is trusted (attest, attested_runs).
AttestedMeansSealed ==
  Done => \A trusted \in TrustSets :
    \A run \in Range(Attested_runs(trusted)) : \A q \in run[1] .. run[2] :
      \E k \in CheckpointsOf(Chain) :
        /\ k.key \in trusted /\ q \in k.from .. k.to
        /\ \E e \in Range(pack.events) : e.seq = q /\ e.computed = k.leaves[q - k.from + 1]

\* The runs are what is verified, no place more and none less, and between two
\* of them there is a place that is not.
RunsAreExact ==
  Done => \A trusted \in TrustSets :
    LET runs == Attested_runs(trusted)
        places(ranges) == UNION {x[1] .. x[2] : x \in ranges}
    IN /\ places(Range(runs)) = places(VerifiedRanges(trusted))
       /\ \A i \in 1 .. Len(runs) - 1 : runs[i][2] + 1 < runs[i + 1][1]

\* "One tampered event produces one finding instead of cascading."
OneEditOneFinding ==
  Done /\ Whole(Chain) /\ pack.damage = <<"edited">> => Cardinality(Violations(Anchor)) = 1

(* What does not hold; the runs that show it are in the README. *)

\* "Nobody edited event 41 207 without breaking the link to 41 208": without a
\* checkpoint a clean pack may have been written anew from any row on.
CleanMeansTheChain ==
  Done /\ Run_pack(pack.keys) = Clean =>
    \A i \in DOMAIN pack.events : \E row \in rows[Chain] : pack.events[i] = AsEvent(row)

\* "Assembling it here from the same three endpoints `quickstart.sh` curls": the
\* pack of the dashboard is as good as the pack of the script.
DashboardPackVerifies ==
  Done /\ pack.damage = <<>> /\ Whole(Chain) /\ pack.browser => Run_pack(pack.keys) = Clean

\* "1 violations found": a signature that does not verify gives exit code 1.
BadSignatureIsAViolation ==
  Done /\ ~Suffered("unreadable") /\ (\E k \in pack.checkpoints : ~k.intact)
    => Run_pack(pack.keys) = Violated

\* "A short export reads as a short export and not as a clean chain."
ShortExportIsNotClean ==
  Done /\ Run_pack(pack.keys) = Clean => LastSeq = pack.to

\* Events of a rule set this build predates leave a checkpoint "uncheckable
\* rather than wrong".
NewRulesAreUncheckable ==
  Done /\ Whole(Chain) /\ Range(pack.damage) \subseteq {"rules"}
    => ~SignatureViolations(pack.keys)
=============================================================================
