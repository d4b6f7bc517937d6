------------------------------- MODULE ReadApi -------------------------------
(***************************************************************************)
(* The control plane's read API as a browser and a runbook see it: the     *)
(* session of an operator, the list of the chains, the summary of a chain, *)
(* which is put together from several queries, and the events of a range,  *)
(* while the ingester goes on writing and the control plane restarts.      *)
(*                                                                         *)
(*   crates/ancre-control/src/auth.rs, api.rs            sessions, routes   *)
(*   crates/ancre-control/src/overview.rs, clickhouse.rs the queries        *)
(*                                                                         *)
(* Checkpoints, keys and the paging of an export are in Evidence; the      *)
(* snapshot is in ConfigFeed.  A text is the sequence of its characters,  *)
(* of which the blank and the semicolon are named.                         *)
(***************************************************************************)
EXTENDS EventRows, TLC

CONSTANTS
  Chains,       \* chains
  NewEvents,    \* what the ingester is handed: events without place or hash
  NewerRows,    \* what a later build changes in the row of an event
  Envs,         \* what ANCRE_ADMIN_TOKEN may be
  Typed,        \* what an operator may type to log in
  MaxRows,      \* bound: rows stored of a chain
  MaxRestarts,  \* bound: restarts of the control plane
  MaxFaults     \* bound: rows stored twice, left out, or written by a later build

NoCookie == <<"no_cookie">>
NoToken == <<"no_token">>

ASSUME ReadApiParameters ==
  /\ MaxRows \in Nat /\ MaxRestarts \in Nat /\ MaxFaults \in Nat
  /\ \A t \in Envs \union Typed :
       t \in Seq(STRING) /\ \A i \in DOMAIN t : t[i] \notin {NoCookie[1], NoToken[1]}

\* Of an event a flag is raised once (resolver, tap).  A later build names a type of
\* event that this one does not know.
ASSUME WhatIsWritten ==
  /\ \A e \in NewEvents :
       /\ DOMAIN e = {"tenant_id", "system_id", "seq", "prev_hash", "event_hash", "canon_version",
                      "occurred_at", "ingested_at", "event_type", "outcome", "pins", "numbers"}
       /\ e.event_type \in DOMAIN EventType /\ e.outcome \in DOMAIN Outcome
       /\ e.pins.names = [n \in PinNames |-> e.pins.names[n]]
       /\ e.pins.risk_class \in DOMAIN RiskClass /\ e.pins.resolved_stale \in BOOLEAN
       /\ e.pins.risk_flags \in Seq(DOMAIN RiskFlag)
       /\ \A i, j \in DOMAIN e.pins.risk_flags :
            i # j => e.pins.risk_flags[i] # e.pins.risk_flags[j]
  /\ \A newer \in NewerRows :
       /\ "event_type" \in DOMAIN newer /\ newer.event_type \notin Range(EventType)
       /\ DOMAIN newer \subseteq {"event_type", "outcome", "names", "numbers"}

VARIABLES
  rows,      \* audit_events: by chain, in the order of their insertion
  faults,    \* bound
  env,       \* ANCRE_ADMIN_TOKEN of the deployment
  boots,     \* how often the control plane was started
  cookie,    \* the browser's session cookie, as it is kept, or NoCookie
  granted,   \* history: the browser holds a session that was granted and has not ended
  summary    \* the summary that is put together, or was, or NoSummary

store == <<rows, faults>>
session == <<env, boots, cookie, granted>>
apiVars == <<store, session, summary>>

NoSummary == [stage |-> "none"]

-----------------------------------------------------------------------------
(* The ingester, which Ingester models, and a store that double faults may *)
(* leave with a place taken twice or left out.                             *)

SeqsOf(c) == {rows[c][i].seq : i \in DOMAIN rows[c]}
Head_of(c) == CHOOSE q \in SeqsOf(c) \union {0} : \A p \in SeqsOf(c) : p <= q
Genesis == "genesis"

Placed(c, event, seq) ==
  Seal_event([event EXCEPT !.tenant_id = c, !.seq = seq,
                           !.prev_hash = IF seq = 1 THEN Genesis ELSE <<c, seq - 1>>])

Insert(c, event) ==
  /\ Len(rows[c]) < MaxRows
  /\ rows' = [rows EXCEPT ![c] = Append(@, Row_from(Placed(c, event, Head_of(c) + 1)))]
  /\ UNCHANGED <<faults, session, summary>>

\* Rows at a place that is taken, or past one that is not.
InsertOffPlace(c, event) ==
  /\ Len(rows[c]) < MaxRows /\ faults < MaxFaults
  /\ \E seq \in {Head_of(c), Head_of(c) + 2} \ {0} :
       rows' = [rows EXCEPT ![c] = Append(@, Row_from(Placed(c, event, seq)))]
  /\ faults' = faults + 1
  /\ UNCHANGED <<session, summary>>

\* An ingester of a later build names things that this one does not know.
Changed(r, newer) == [f \in DOMAIN r |-> IF f \in DOMAIN newer THEN newer[f] ELSE r[f]]
InsertOfLaterBuild(c, event) ==
  /\ Len(rows[c]) < MaxRows /\ faults < MaxFaults
  /\ \E newer \in NewerRows :
       rows' = [rows EXCEPT ![c] = Append(@,
         Changed(Row_from(Placed(c, event, Head_of(c) + 1)), newer))]
  /\ faults' = faults + 1
  /\ UNCHANGED <<session, summary>>

-----------------------------------------------------------------------------
(* Admin *)

Blank(i, s) == s[i] = "blank"
Trim(s) ==
  LET solid == {i \in DOMAIN s : ~Blank(i, s)}
  IN IF solid = {} THEN <<>>
     ELSE SubSeq(s, CHOOSE i \in solid : \A j \in solid : i <= j,
                    CHOOSE i \in solid : \A j \in solid : j <= i)

\* Hex digits of the system's entropy: another token at each start.
Generated(boot) == [i \in 1 .. boot |-> "0"]

\* A token of the environment survives a restart, a generated one does not.
From_env == IF Trim(env) # <<>> THEN Trim(env) ELSE Generated(boots)

Admits_token(presented) == presented = From_env

UpTo(s, char) ==
  LET at == {i \in DOMAIN s : s[i] = char}
  IN IF at = {} THEN s ELSE SubSeq(s, 1, (CHOOSE i \in at : \A j \in at : i <= j) - 1)

\* What a browser keeps of `ancre_session=<token>; HttpOnly; ...'.
Session_cookie == Trim(UpTo(From_env, "semicolon"))

(* The value of a cookie ends at an equals sign.                            *)
Presented_tokenCut(bearer, jar) ==
  IF bearer # NoToken /\ Trim(bearer) # <<>> THEN Trim(bearer)
  ELSE IF jar # NoCookie /\ jar # <<>> THEN UpTo(jar, "=") ELSE NoToken

\* A bearer token goes before the cookie; an empty one is none.
Presented_token(bearer, jar) ==
  IF bearer # NoToken /\ Trim(bearer) # <<>> THEN Trim(bearer)
  ELSE IF jar # NoCookie /\ jar # <<>> THEN jar ELSE NoToken

\* require_admin, and what session_status tells.
Authenticated(bearer, jar) ==
  Presented_token(bearer, jar) # NoToken /\ Admits_token(Presented_token(bearer, jar))

Session_create(typed) ==
  /\ Admits_token(Trim(typed))
  /\ cookie' = Session_cookie /\ granted' = TRUE
  /\ UNCHANGED <<store, env, boots, summary>>

Session_delete ==
  /\ cookie # NoCookie
  /\ cookie' = NoCookie /\ granted' = FALSE
  /\ UNCHANGED <<store, env, boots, summary>>

\* Max-Age is over, and the browser drops the cookie.
Session_expires ==
  /\ cookie # NoCookie
  /\ cookie' = NoCookie /\ granted' = FALSE
  /\ UNCHANGED <<store, env, boots, summary>>

\* The process dies and is started again; the browser keeps its cookie.
Restart ==
  /\ boots <= MaxRestarts
  /\ boots' = boots + 1
  /\ granted' = (granted /\ Trim(env) # <<>>)
  /\ summary' = NoSummary
  /\ UNCHANGED <<store, env, cookie>>

-----------------------------------------------------------------------------
(* ChainOverview *)

Listing(c) == [tenant_id |-> c, head_seq |-> Head_of(c), event_count |-> Len(rows[c])]
Listings == {Listing(c) : c \in {d \in Chains : rows[d] # <<>>}}

NamesOfGaps == PinNames \ {"model_version"}

(* Only what is unknown.                                                    *)
GAPUnknown(r) == \E n \in PinNames : r.names[n] = Unknown

\* The condition as SQL has it: an alias counts in the version of the model.
GAP(r) ==
  \/ r.names["model_version"] = Unknown \/ r.names["model_version"][1] = "unresolved:"
  \/ \E n \in NamesOfGaps : r.names[n] = Unknown

\* GROUP BY: each name that there is, and how often it is there.
Counts(names) ==
  [n \in Range(names) |-> Cardinality({i \in DOMAIN names : names[i] = n})]
\* arrayJoin: each flag of each row.
Flags(s) ==
  [p \in UNION {{i} \X DOMAIN s[i].risk_flags : i \in DOMAIN s} |-> s[p[1]].risk_flags[p[2]]]
Times(s) == {s[i].occurred_at : i \in DOMAIN s}
Earliest(S) == IF S = {} THEN "null" ELSE CHOOSE x \in S : \A y \in S : x <= y
Latest(S) == IF S = {} THEN "null" ELSE CHOOSE x \in S : \A y \in S : x >= y

\* The request passes require_admin, and the scalars are one query ...
Chain_summary(c, bearer) ==
  /\ summary.stage = "none"
  /\ Authenticated(bearer, cookie)
  /\ LET s == rows[c]
     IN summary' =
          [stage |-> "risk_flags", chain |-> c, rows |-> Len(s),
           head_seq |-> Head_of(c), event_count |-> Len(s),
           first_event_at |-> Earliest(Times(s)),
           last_event_at |-> Latest(Times(s)),
           generations |-> Cardinality({s[i].config_generation : i \in DOMAIN s}),
           events_with_gaps |-> Cardinality({i \in DOMAIN s : GAP(s[i])}),
           risk_flags |-> <<>>, event_types |-> <<>>, outcomes |-> <<>>, model_versions |-> <<>>]
  /\ UNCHANGED <<store, session>>

\* ... and each counted dimension is another, of what is stored by then.
CountedNames(s, dimension) ==
  CASE dimension = "risk_flags" -> Flags(s)
    [] dimension = "event_types" -> [i \in DOMAIN s |-> s[i].event_type]
    [] dimension = "outcomes" -> [i \in DOMAIN s |-> s[i].outcome]
    [] dimension = "model_versions" -> [i \in DOMAIN s |-> s[i].names["model_version"]]
NextDimension == [risk_flags |-> "event_types", event_types |-> "outcomes",
                  outcomes |-> "model_versions", model_versions |-> "done"]

Counted ==
  /\ summary.stage \in DOMAIN NextDimension
  /\ summary' = [summary EXCEPT
       ![summary.stage] = Counts(CountedNames(rows[summary.chain], summary.stage)),
       !.stage = NextDimension[summary.stage]]
  /\ UNCHANGED <<store, session>>

\* A query fails: the handler answers 503; or the answer is read.
SummaryAnswered ==
  /\ summary.stage # "none"
  /\ summary' = NoSummary
  /\ UNCHANGED <<store, session>>

-----------------------------------------------------------------------------
(* ChainExport *)

InRange(c, from, to) == {i \in DOMAIN rows[c] : rows[c][i].seq \in from .. to}
\* ORDER BY seq: two rows of one place come in either order.
BySeq(c, places) ==
  {p \in SetToSeqs(places) :
     \A i, j \in DOMAIN p : i < j => rows[c][p[i]].seq <= rows[c][p[j]].seq}
Page(c, p) == [i \in DOMAIN p |-> Try_from(rows[c][p[i]])]

(* Rows that cannot be read are stepped over.                               *)
EventsSkipping(c, from, to) ==
  {Page(c, p) : p \in BySeq(c, {i \in InRange(c, from, to) : Readable(rows[c][i])})}

\* The rows of the range, in the order of their places, as events: one page, or
\* none if one of them cannot be read.
Events_of(c, from, to) ==
  IF \E i \in InRange(c, from, to) : ~Readable(rows[c][i]) THEN {}
  ELSE {Page(c, p) : p \in BySeq(c, InRange(c, from, to))}

-----------------------------------------------------------------------------
ApiInit ==
  /\ rows = [c \in Chains |-> <<>>] /\ faults = 0
  /\ env \in Envs /\ boots = 1
  /\ cookie = NoCookie /\ granted = FALSE
  /\ summary = NoSummary

ApiNext ==
  \/ \E c \in Chains, e \in NewEvents :
       Insert(c, e) \/ InsertOffPlace(c, e) \/ InsertOfLaterBuild(c, e)
  \/ \E typed \in Typed \union {Generated(b) : b \in 1 .. boots} : Session_create(typed)
  \/ Session_delete \/ Session_expires \/ Restart
  \/ \E c \in Chains, bearer \in Typed \union {NoToken} : Chain_summary(c, bearer)
  \/ Counted \/ SummaryAnswered

ApiSpec == ApiInit /\ [][ApiNext]_apiVars

-----------------------------------------------------------------------------
(* Properties *)

Total(counts) == Cardinality(UNION {{n} \X (1 .. counts[n]) : n \in DOMAIN counts})

\* What an auditor is handed hashes as what was sealed: an event goes through
\* its row without a hashed field changing, and a range is handed over with all
\* of its rows, in order, or not at all ("refused, not skipped").
ExportKeepsHashes ==
  \A c \in Chains : \A from \in 1 .. MaxRows : \A to \in from .. MaxRows :
    \A page \in Events_of(c, from, to) :
      /\ Len(page) = Cardinality({i \in DOMAIN rows[c] : rows[c][i].seq \in from .. to})
      /\ \A i \in DOMAIN page : page[i].event_hash = Event_hash(page[i])
      /\ \A i \in 2 .. Len(page) : page[i - 1].seq <= page[i].seq

\* A summary counts the gaps that has_gap sees, but for an alias elsewhere than
\* in the version of the model, and its dimensions are those of a chain that
\* only grows from one query to the next: no row that was counted before is
\* missing in a later count, and none is counted twice in one.
SummaryIsOfTheChain ==
  summary.stage # "none" =>
    LET then == SubSeq(rows[summary.chain], 1, summary.rows)
        gap(r) == Has_gap([names |-> r.names])
        elsewhere(r) == \E n \in NamesOfGaps : r.names[n][1] = "unresolved:"
        totals == <<summary.event_count, Total(summary.event_types), Total(summary.outcomes),
                    Total(summary.model_versions), Len(rows[summary.chain])>>
    IN /\ summary.events_with_gaps <= Cardinality({i \in DOMAIN then : gap(then[i])})
       /\ summary.events_with_gaps >= Cardinality({i \in DOMAIN then : gap(then[i]) /\ ~elsewhere(then[i])})
       /\ summary.stage = "done" =>
            /\ \A i \in 1 .. 4 : totals[i] <= totals[i + 1]
            /\ \A f \in DOMAIN summary.risk_flags : summary.risk_flags[f] <= totals[2]

\* A browser is let in exactly as long as the session lasts that it was granted:
\* until it is deleted, runs out, or the control plane restarts with another
\* token; whatever was typed around the token, and whatever the token contains
\* but a semicolon, which ends the value of a cookie: with such a token the login
\* succeeds and no cookie lets anyone in.
SessionLasts ==
  /\ Authenticated(NoToken, cookie) => granted
  /\ granted => (Authenticated(NoToken, cookie) <=> "semicolon" \notin Range(From_env))

\* What does not hold; the README says how to see it.

\* "It has to agree with `Pins::has_gap`."
GapsAgree ==
  summary.stage # "none" =>
    LET then == SubSeq(rows[summary.chain], 1, summary.rows)
    IN summary.events_with_gaps = Cardinality({i \in DOMAIN then : Has_gap([names |-> then[i].names])})

\* "A bearer token, or the session cookie.  Both carry the same secret."
GrantedLetsIn == granted => Authenticated(NoToken, cookie)

\* "Highest `seq` written.  Also the event count": if they agree, there is no
\* hole, and if they do not, there is one.
ListingShowsHoles ==
  \A l \in Listings :
    l.head_seq = l.event_count <=> SeqsOf(l.tenant_id) = 1 .. l.head_seq
=============================================================================
