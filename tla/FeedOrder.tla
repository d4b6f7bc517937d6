------------------------------ MODULE FeedOrder ------------------------------
(***************************************************************************)
(* ConfigFeed, and which generation each task of a gateway took up last.   *)
(*                                                                         *)
(* Nothing in `apply` compares generations, so what keeps a gateway from   *)
(* being handed old configuration are the two places it comes from: the    *)
(* read API, which answers with the generation allocated last, and the     *)
(* stream, which holds one message.                                        *)
(***************************************************************************)
EXTENDS ConfigFeed

VARIABLE
  taken   \* history: taken[g][p] is the generation the task p took up last

orderVars == <<allVars, taken>>

OrderInit == FeedInit /\ taken = [g \in Gateways |-> [p \in Tasks |-> 0]]

\* A poll takes up the answer it got, a watch the message it was delivered.
Took(g, p) == IF feed'[g][p].next = Nothing THEN taken[g][p] ELSE feed'[g][p].next.gen

OrderNext ==
  /\ FeedNext
  /\ taken' = [g \in Gateways |-> [p \in Tasks |-> Took(g, p)]]

OrderSpec == OrderInit /\ [][OrderNext]_orderVars

(* Each task of a gateway takes up the generations in their order, though   *)
(* answers are late or time out, sends fail after their generation was      *)
(* allocated, the control plane crashes and a renewed subscription is given *)
(* the last message again: bus.rs's "stream not holding one" does defend a  *)
(* watch against a replayed generation.  What it does not defend is the     *)
(* gateway, whose two tasks are not ordered against each other (NeverBack). *)
TasksInOrder == [][\A g \in Gateways, p \in Tasks : taken'[g][p] >= taken[g][p]]_orderVars

(* The budget bounds how long a fresh gateway serves what was superseded,   *)
(* as long as nothing came by the bus: polls that fail confirm nothing.     *)
(* What comes by the bus restarts the clock however old it is, which is     *)
(* why ConfigFeed's BudgetBoundsSuperseded is more than holds.              *)
BudgetBoundsPolled ==
  \A g \in Gateways :
    Fresh(g) /\ taken[g]["bus"] = 0 => lapsed[loaded[g].gen] <= Budget
=============================================================================
