----------------------------- MODULE MCRequests -----------------------------
(***************************************************************************)
(* A small instance of Requests.                                           *)
(***************************************************************************)
EXTENDS Requests

Says(model, in, out, message) == [model |-> model, in |-> in, out |-> out, message |-> message]

\* The first chunk and the last of each provider, an alias, another model.
MCDocument ==
  [start  |-> Says("gpt-2024", 0, 0, <<>>),
   other  |-> Says("gpt", 0, 1, <<>>),
   usage  |-> Says(NoModel, 1, 2, <<>>),
   astart |-> Says(NoModel, 0, 1, <<[model |-> "claude-2025", in |-> 3, out |-> 0]>>),
   adelta |-> Says(NoModel, 0, 2, <<>>)]
MCDatedIds == [openai |-> {"gpt-2024"}, anthropic |-> {"claude-2025"}]

Line(doc) == <<"data", "{", doc>>
Answer(bytes, sized) == [bytes |-> bytes, sized |-> sized, status |-> 200]
MCBodies ==
  {Answer(Line("start") \o <<LF, LF>> \o Line("other") \o <<LF, LF>> \o Line("usage"), FALSE),
   Answer(<<"note", CR, LF, CR, LF>> \o Line("astart") \o <<CR, LF, CR, LF>> \o Line("adelta")
            \o <<CR, LF, CR, LF>>, TRUE),
   Answer(Line("usage") \o <<LF, LF>> \o Line("start") \o <<LF>> \o Line("other") \o <<LF, LF>>, FALSE),
   Answer([i \in 1 .. 9 |-> "note"] \o Line("start")
            \o <<LF, LF>> \o Line("other") \o <<LF, LF>>, FALSE),
   Answer(<<"{", "other">>, TRUE),
   Answer(<<>>, TRUE)}

Route(matcher, model, prompt) ==
  [matcher |-> matcher, model_id |-> model, model_version |-> "v1", prompt_id |-> prompt, prompt_version |-> "p1"]
System(id, risk, routes, default) ==
  [system_id |-> id, system_version |-> <<1, 0>>, ifu_version |-> "i1", risk_class |-> risk,
   policy_id |-> "none", policy_version |-> "none", routes |-> routes, default_route |-> default]
Key(key, t, system) == [key |-> key, tenant_id |-> t, system_id |-> system]
Spec(systems, keys) == [generation |-> 0, gateway_version |-> "g1", systems |-> systems, keys |-> keys]

Fast == Route({"fast"}, "gpt-mini", "q1")
Main == Route({}, "gpt", "q1")
Claude == System("s2", "minimal", <<Route({}, "claude", "q1")>>, 1)
Keys == <<Key("k1", "t1", "s1"), Key("k2", "t1", "s2")>>
S1(routes, default) == System("s1", "high", routes, default)

MCSpecs ==
  {Spec(<<S1(<<Fast, Main>>, 2), Claude>>, Keys),
   Spec(<<S1(<<Fast, Route({}, "gpt-2024", "q2")>>, 2), Claude>>, Keys),
   Spec(<<S1(<<Route({"slow"}, "gpt-mini", "q1"), Main>>, 2), Claude>>, Keys),
   Spec(<<S1(<<Fast, Route({"slow"}, "gpt", "q1"), Route({}, "gpt-2024", "q1")>>, 3), Claude>>, <<Key("k1", "t2", "s1"), Key("k2", "t1", "s2")>>),
   Spec(<<S1(<<Fast, Main>>, 2)>>, <<Key("k1", "t1", "s1")>>),
   Spec(<<S1(<<Fast, Main>>, 3)>>, <<Key("k1", "t1", "s1")>>),
   Spec(<<S1(<<Main>>, 1)>>, Keys)}

Request(key, facts, fields) ==
  [bearer |-> TRUE, key |-> key, facts |-> facts, pin_model |-> None, pin_prompt |-> None, fields |-> fields]
MCInputs ==
  {Request("k1", {}, {"stream"}),
   [Request("k1", {"fast"}, {}) EXCEPT !.pin_model = "v9"],
   [Request("k1", {}, {"stream"}) EXCEPT !.bearer = FALSE],
   Request("k2", {}, {"stream", "system", "seed"}),
   Request("k2", {}, {"stream", "tools"})}
=============================================================================
