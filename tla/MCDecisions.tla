---------------------------- MODULE MCDecisions -----------------------------
EXTENDS Decisions

Objective(m, t, s) == [metric |-> m, target |-> t, slices |-> s]

\* Latency over five minutes with the default budget; latency and availability
\* over the whole period with a budget of 100 %; one metric twice, without a budget
\* and with one that the first objective may use up; a target that does not parse.
MCSloSpecs ==
  {[objectives |-> <<Objective("latency_p99", 25000, 8640)>>, budget |-> 1000],
   [objectives |-> <<Objective("latency_p99", 25000, 1), Objective("availability", 999000, 1)>>,
    budget |-> 1000000],
   [objectives |-> <<Objective("latency_p99", 25000, 1), Objective("latency_p99", 27000, 1)>>, budget |-> 0],
   [objectives |-> <<Objective("latency_p99", 1000, 1), Objective("latency_p99", 27000, 1)>>, budget |-> 1000],
   [objectives |-> <<Objective("latency_p99", Malformed, 1)>>, budget |-> 1000]}

Reading(l, a) == [latency_p99 |-> l, availability |-> a]

\* Within the targets; barely slow; slow and failing; no traffic; no answer.
MCReadings ==
  {Reading(10000, 1000000), Reading(25001, 1000000), Reading(27000, 900000), Reading(NaN, NaN),
   Reading(NoData, NoData)}

Constraint(e, h) == [expr |-> e, hard |-> h]
Weighted(n, w) == [name |-> n, weight |-> w]
PolicyOf(cs, os, dry, matching) ==
  [constraints |-> cs, objectives |-> os, dryRun |-> dry, matches |-> matching]

MCPolicySpecs ==
  [p \in Policy |->
     IF p = "p"
     THEN {PolicyOf({Constraint("atMostTwo", TRUE)}, {Weighted("slo", 1)}, FALSE, TRUE),
           PolicyOf({Constraint("slowBurn", TRUE)}, {}, FALSE, TRUE),
           PolicyOf({Constraint("invalid", TRUE)}, {Weighted("slo", 2), Weighted("cost", 1)}, TRUE, TRUE)}
     ELSE {PolicyOf({Constraint("noSpot", FALSE), Constraint("metric", FALSE)}, {}, FALSE, TRUE),
           PolicyOf({Constraint("noSpot", TRUE)}, {Weighted("other", 1)}, FALSE, TRUE),
           PolicyOf({Constraint("budgetLeft", TRUE)}, {}, FALSE, TRUE),
           PolicyOf({Constraint("atMostTwo", TRUE)}, {}, FALSE, FALSE)}]

\* The second one is of a target that is no Deployment.
Load(c, u, m, h, ml) == [current |-> c, usage |-> u, mem |-> m, history |-> h, ml |-> ml]

MCLoads ==
  {Load(Unreadable, 0, 0, NoData, {}),
   Load(Plan(1, <<0, 0>>, 0), 0, 0, <<1, 1>>, {}),
   Load(Plan(2, <<8, 5>>, 0), 40, 20, <<1, 4>>, {}),
   Load(Plan(2, <<8, 5>>, 0), 4, 0, <<0, 0>>, {}),
   Load(Plan(1, <<16, 10>>, 0), 14, 0, <<3, 2, 2>>, {[rps |-> 5, change |-> 40, spotRisk |-> 70]}),
   Load(Plan(3, <<20, 10>>, 0), 30, 30, <<1>>, {})}
=============================================================================
