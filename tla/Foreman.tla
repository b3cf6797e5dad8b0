------------------------------ MODULE Foreman ------------------------------
(***************************************************************************)
(* What LAVARD decides before it spends: the task graph of a goal and      *)
(* whether it is one (core/foreman/decompose.py), the cheapest path for it *)
(* (core/intake/router.py), whether a node needs a hire, the Vetter's      *)
(* trust in an agent (core/vetter), the agent the Optimization Engine puts *)
(* first (core/reputation/optimizer.py) and Action Review (core/           *)
(* governance).                                                            *)
(*                                                                         *)
(* Scores and rates are whole percents, prices whole dollars.  The         *)
(* weighted score of a hireable agent follows an execution history that    *)
(* grows under other jobs: any hireable agent may come first.              *)
(***************************************************************************)
EXTENDS Integers, Sequences, FiniteSets

\* A node of a task graph: [key, deps, cap, hire]; a plan: a sequence of nodes.
Nodes(plan) == {plan[i] : i \in DOMAIN plan}
Keys(plan) == {n.key : n \in Nodes(plan)}

Resolvable(plan) ==
  /\ \A i, j \in DOMAIN plan : plan[i].key = plan[j].key => i = j
  /\ \A n \in Nodes(plan) : n.deps \subseteq Keys(plan) \ {n.key}

\* Kahn's algorithm, a layer at a time: the nodes whose prerequisites are all in.
Reached(plan) ==
  LET in[i \in 0..Len(plan)] ==
        IF i = 0 THEN {} ELSE {n.key : n \in {m \in Nodes(plan) : m.deps \subseteq in[i - 1]}}
  IN in[Len(plan)]

\* Mutation of Acyclic: one node to start from is taken for enough.
AcyclicRooted(plan) == plan = <<>> \/ \E n \in Nodes(plan) : n.deps = {}

Acyclic(plan) == Cardinality(Reached(plan)) = Len(plan)

ValidDag(plan) == Resolvable(plan) /\ Acyclic(plan)

\* The fragments of the goal, each after the one before it, and a final node of
\* LAVARD's own after all of them.
HeuristicPlan(goal) ==
  LET last == Len(goal.fragments) IN
  [i \in 1..(last + 1) |->
     IF i > last
     THEN [key |-> i, deps |-> 1..last, cap |-> "coordination", hire |-> FALSE]
     ELSE [key |-> i, deps |-> IF i = 1 THEN {} ELSE {i - 1}, cap |-> goal.fragments[i],
           hire |-> goal.fragments[i] # "coordination"]]

\* offer: the plan of the model, <<>> when it has none.
Decompose(goal, offer) ==
  IF offer # <<>> /\ ValidDag(offer) THEN offer ELSE HeuristicPlan(goal)

WorkNodes(plan) == {n \in Nodes(plan) : n.hire}

\* Mutation of ClassifyPath: several work nodes are classified like one.
ClassifyAnyWork(goal, plan) ==
  IF WorkNodes(plan) = {} \/ goal.sequenced THEN "orchestrate"
  ELSE IF goal.toolCall THEN "direct_mcp" ELSE "single_asp"

ClassifyPath(goal, plan) ==
  IF Cardinality(WorkNodes(plan)) # 1 \/ goal.sequenced THEN "orchestrate"
  ELSE IF goal.toolCall THEN "direct_mcp" ELSE "single_asp"

Needed(n) == n.cap # "coordination" /\ n.hire

\* Portable Memory, for a node: a fact near enough to it (near: about the same
\* capability), trusted enough, and not older than a month.
MemoryAnswers(facts, n) ==
  \E f \in facts : f.about = n.cap /\ f.confidence >= 70 /\ f.age <= 30

-----------------------------------------------------------------------------
\* An agent's profile: [rep, jobs, dispute, age, risky, opaque, price, mcp].
AtMost(x, y) == IF x < y THEN x ELSE y
AtLeast(x, y) == IF x > y THEN x ELSE y

Score(p) ==
  AtLeast(0, AtMost(100,
    p.rep - (IF p.jobs < 10 THEN 8 ELSE 0) - AtMost(p.dispute, 40)
          - (CASE p.age < 30 -> 10 [] p.age < 90 /\ p.age >= 30 -> 5 [] OTHER -> 0)
          - 25 * p.risky + (IF p.opaque THEN -5 ELSE 5)))

\* Mutation of Trust: the score decides alone.
TrustByScore(p) ==
  IF Score(p) < 45 THEN "low"
  ELSE IF Score(p) >= 70 /\ p.dispute < 5 /\ ~p.opaque THEN "high" ELSE "medium"

Trust(p) ==
  IF p.risky > 0 \/ Score(p) < 45 \/ p.dispute > 20 THEN "low"
  ELSE IF Score(p) >= 70 /\ p.dispute < 5 /\ ~p.opaque THEN "high" ELSE "medium"

Excluded(p) == Trust(p) = "low"
Hireable(profiles, agents) == {a \in agents : ~Excluded(profiles[a])}

\* Who may be ranked first: low trust sorts last.
Ranked(profiles, agents) ==
  IF Hireable(profiles, agents) = {} THEN agents ELSE Hireable(profiles, agents)

\* crew: the agent a blueprint names for this capability, if it names one.
Chosen(profiles, agents, crew) ==
  IF crew \in Hireable(profiles, agents) THEN {crew} ELSE Ranked(profiles, agents)

-----------------------------------------------------------------------------
\* The tier of a spend: asked once below the ceiling of the owner, else always.
TierFor(price, ceiling) == IF price > 0 /\ price <= ceiling THEN "ask-once" ELSE "always-ask"

\* The review of the spend of a hire, which the goal requires and destroys nothing.
WillExecute(price, ceiling) == TierFor(price, ceiling) \in {"always-allow", "ask-once"}
=============================================================================
