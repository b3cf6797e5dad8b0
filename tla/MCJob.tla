------------------------------- MODULE MCJob -------------------------------
EXTENDS Job
CONSTANTS good, fast, risky, costly

MCProfile(rep, dispute, contracts, price, mcp) ==
  [rep |-> rep, jobs |-> 50, dispute |-> dispute, age |-> 200, risky |-> contracts,
   opaque |-> FALSE, price |-> price, mcp |-> mcp]
MCProfiles ==
  good :> MCProfile(80, 0, 0, 3, FALSE) @@ fast :> MCProfile(60, 10, 0, 4, TRUE)
  @@ risky :> MCProfile(95, 0, 1, 1, FALSE) @@ costly :> MCProfile(90, 2, 0, 9, FALSE)
MCMarket == [data |-> {fast, risky}, design |-> {good, costly}, coordination |-> {}]

MCGoals == {[fragments |-> <<"data">>, sequenced |-> FALSE, toolCall |-> TRUE]}

MCNode(key, deps, cap) == [key |-> key, deps |-> deps, cap |-> cap, hire |-> cap # "coordination"]
MCOffers ==
  {<<>>, <<MCNode(1, {}, "data"), MCNode(2, {1}, "design")>>,
   <<MCNode(1, {}, "data"), MCNode(2, {3}, "data"), MCNode(3, {2}, "coordination")>>,
   <<MCNode(1, {4}, "data")>>, <<MCNode(1, {}, "data"), MCNode(1, {}, "design")>>}
MCFact(about, confidence, age) == [about |-> about, confidence |-> confidence, age |-> age]
MCMemories == {{MCFact("data", 60, 1), MCFact("data", 90, 40)}}
MCEntries == {}
=============================================================================
