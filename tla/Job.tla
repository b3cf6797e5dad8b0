-------------------------------- MODULE Job --------------------------------
(***************************************************************************)
(* A job of LAVARD from its goal to its report: run_job (core/conductor.py)*)
(* submits it, it is processed inline or by a worker of the queue, or by   *)
(* both (core/queue.py, core/service.py), specialists are hired or called  *)
(* through TheHouse (core/foreman/hire.py, core/execution/executor.py),    *)
(* the Room runs, escrows are released, and every step appends to the      *)
(* job's audit chain (core/store.py) while a reader verifies it.           *)
(*                                                                         *)
(* A run, a worker or a call may fail between any two of its steps, or     *)
(* inside an append: it dies, or append_audit raises and nobody catches    *)
(* it.  What it has written stays, and the user may call again.            *)
(*                                                                         *)
(* TheHouse is what RequestLifecycle promises of it.  The Room is one      *)
(* step (its inside is module Room), an escrow opens and is released with  *)
(* its row (a failure in between is module Hiring), the row and its audit  *)
(* entry are two steps.  Audit entries that only narrate (crew_reused,     *)
(* optimizer_ranked, action_review, mcp_fallback, hire_skipped_memory,     *)
(* memory_distilled, conductor_signoff, the Room's) are left out.          *)
(***************************************************************************)
EXTENDS AuditChain, Foreman, SequencesExt

CONSTANTS
  Goals,     \* what may be asked: [fragments, sequenced, toolCall]
  Offers,    \* the plans the model may propose, <<>> for none
  Agents, None,
  Profiles,  \* [Agents -> profile]
  Market,    \* candidates by capability
  Ceiling,   \* auto_spend_ceiling_usd
  Fee,       \* what TheHouse charges for a call
  Memories,  \* what other jobs left in Portable Memory: sets of [about, confidence, age]
  RoomFee,   \* what the Room's coordination costs, a helper's price apart
  RoomAsks,  \* the capabilities a question in the Room may call for
  MaxKey,    \* bound: the nodes of a plan
  MaxRead,   \* bound: the entries in the log when verify_audit begins
  MaxLag,    \* bound: entries appended between the two reads of verify_audit
  MaxFailures \* bound: processes that fail

ASSUME JobAssumption == Writers = {"run", "worker", "user"} /\ None \notin Agents
ASSUME ProfilesAssumption ==
  Profiles \in [Agents -> [rep : Nat, jobs : Nat, dispute : Nat, age : Nat, risky : Nat,
                           opaque : BOOLEAN, price : Nat, mcp : BOOLEAN]]
ASSUME MoneyAssumption == Ceiling \in Nat /\ Fee \in Nat /\ RoomFee \in Nat
ASSUME PlansAssumption ==
  /\ MaxKey \in Nat /\ MaxFailures \in Nat
  /\ \A g \in Goals : Len(g.fragments) \in 0..(MaxKey - 1)
  /\ \A plan \in Offers : /\ Len(plan) \in Nat /\ plan = [i \in 1..Len(plan) |-> plan[i]]
                           /\ Keys(plan) \subseteq 1..MaxKey

VARIABLES
  goal, status, nodes, mode, \* the job row and its task_nodes
  hires,                     \* the rows of hires, in the order of their creation
  house,                     \* the status of each request to TheHouse
  proc,                      \* the three processes: run_job, a worker, the user's calls
  headline,                  \* JobRun.spend_usd
  facts                      \* what this job has left in Portable Memory

jobVars == <<goal, status, nodes, mode, hires, house, proc, headline, facts>>
vars == <<jobVars, chainVars>>

\* For a node, by the run or by a call of the user; in the Room, for a row of hires.
Requests == ({"run", "user"} \X (1..MaxKey)) \cup ({"room"} \X (1..(MaxKey + 1)))
House == INSTANCE RequestLifecycle
           WITH Requests <- Requests, log <- house, settled <- [r \in Requests |-> 0]

Fresh(pc) == [pc |-> pc, due |-> <<>>, plan |-> <<>>, todo |-> <<>>, held |-> {},
              outs |-> <<>>, mode |-> "", agent |-> None]

Init ==
  /\ ChainInit
  /\ goal = None /\ status = "" /\ nodes = <<>> /\ mode = "" /\ hires = <<>>
  /\ House!Init
  /\ proc = [p \in Writers |-> Fresh(IF p = "run" THEN "submit" ELSE "idle")]
  /\ headline = 0 /\ facts = {}

\* p is where it is, and has nothing left to append.
At(p, pc) == proc[p].pc = pc /\ proc[p].due = <<>>
Become(p, me) == proc' = [proc EXCEPT ![p] = me]
Goto(p, pc) == Become(p, [proc[p] EXCEPT !.pc = pc])
Entry(kind, key) == <<[kind |-> kind, key |-> key]>>
Failed(p) == proc[p].pc = "failed"

\* audit(): what p has to say goes into the chain before p goes on.
Lock(p) == ~Failed(p) /\ proc[p].due # <<>> /\ BeginAppend(p) /\ UNCHANGED jobVars

Say(p) ==
  /\ report = "rows" => Len(log) - Len(seen) < MaxLag
  /\ CommitAppend(p, Head(proc[p].due))
  /\ Become(p, [proc[p] EXCEPT !.due = <<>>])
  /\ UNCHANGED <<goal, status, nodes, mode, hires, house, headline, facts>>

\* p ends where it is: it dies, or the append waits 30 s for the lock and raises through
\* hire_for_job, sign_off or process_job into run_job or the endpoint.  Its memory is lost,
\* a transaction of its own is rolled back, and what was due to the log never gets there.
AtWork(p) ==
  /\ proc[p].pc \notin {"submit", "idle"}
  /\ proc[p].pc \in {"distilled", "done", "answered"} => proc[p].due # <<>>

Fail(p) ==
  /\ ~Failed(p) /\ AtWork(p) /\ Cardinality({q \in Writers : Failed(q)}) < MaxFailures
  /\ Become(p, [Fresh("failed") EXCEPT !.due = proc[p].due])
  /\ IF p \in lock THEN Rollback(p) ELSE UNCHANGED chainVars
  /\ UNCHANGED <<goal, status, nodes, mode, hires, house, headline, facts>>

-----------------------------------------------------------------------------
(* The store, as far as it is not the audit chain.                         *)

CreateJob(g) == goal' = g /\ status' = "received"
SaveIntake == status' = "verified"
SavePlan(plan) == nodes' = plan /\ status' = "decomposed"
SavePathDecision(m) == mode' = m
MarkJob(st) == status' = st
CreateHire(key, cap, a, via) ==
  hires' = Append(hires, [key |-> key, cap |-> cap, agent |-> a, via |-> via,
                          status |-> "hired"])
SetReleased(i) == hires' = [hires EXCEPT ![i].status = "released"]
ActiveNodes == {hires[i].key : i \in {j \in DOMAIN hires : hires[j].status \in {"hired", "released"}}}
Unpaid == SelectInSeq(hires, LAMBDA h : h.status = "hired")

-----------------------------------------------------------------------------
\* submit_goal: the row of the job.
Submit ==
  /\ At("run", "submit") /\ \E g \in Goals : CreateJob(g)
  /\ Become("run", [proc["run"] EXCEPT !.pc = "queue", !.due = Entry("job_created", 0)])
  /\ UNCHANGED <<nodes, mode, hires, house, headline, facts, chainVars>>

\* submit_job_processing: a worker gets the job, or it is processed here, or both
\* (the queue took the job and the answer was lost).
Enqueue ==
  /\ At("run", "queue")
  /\ \E queued, inline \in BOOLEAN :
       /\ queued \/ inline
       /\ proc' = [proc EXCEPT !["run"].pc = IF inline THEN "verify" ELSE "view",
                               !["worker"].pc = IF queued THEN "verify" ELSE "idle"]
  /\ UNCHANGED <<goal, status, nodes, mode, hires, house, headline, facts, chainVars>>

\* process_job: intake, plan, path.
Verify(p) ==
  /\ At(p, "verify") /\ SaveIntake /\ Goto(p, "plan")
  /\ UNCHANGED <<goal, nodes, mode, hires, house, headline, facts, chainVars>>

Plan(p) ==
  /\ At(p, "plan")
  /\ \E plan \in {Decompose(goal, offer) : offer \in Offers} :
       /\ SavePlan(plan)
       /\ Become(p, [proc[p] EXCEPT !.pc = "classify", !.plan = plan])
  /\ UNCHANGED <<goal, mode, hires, house, headline, facts, chainVars>>

Classify(p) ==
  /\ At(p, "classify") /\ SavePathDecision(ClassifyPath(goal, proc[p].plan))
  /\ Become(p, [proc[p] EXCEPT !.pc = IF p = "run" THEN "view" ELSE "done",
                               !.plan = <<>>, !.due = Entry("path_classified", 0)])
  /\ UNCHANGED <<goal, status, nodes, hires, house, headline, facts, chainVars>>

\* run_job again: a job without a path is processed here and now.
View ==
  /\ At("run", "view")
  /\ IF mode = "" THEN Goto("run", "verify")
     ELSE Become("run", [proc["run"] EXCEPT !.pc = "hire", !.mode = mode,
                                            !.due = Entry("conductor_start", 0)])
  /\ UNCHANGED <<goal, status, nodes, mode, hires, house, headline, facts, chainVars>>

-----------------------------------------------------------------------------
\* hire_for_job: the nodes and the hires, read once.
ReadJob(p) ==
  /\ At(p, "hire")
  /\ Become(p, [proc[p] EXCEPT !.pc = "node", !.todo = nodes, !.held = ActiveNodes])
  /\ UNCHANGED <<goal, status, nodes, mode, hires, house, headline, facts, chainVars>>

Node(p) == Head(proc[p].todo)
AtNode(p) == At(p, "node") /\ proc[p].todo # <<>>

\* memory_answer_for_node, over what this job and others left on file.
Remembers(p, others) == MemoryAnswers(others \cup facts, Node(p))

Wanted(p) ==
  /\ AtNode(p) /\ Node(p).key \notin proc[p].held /\ Needed(Node(p))
  /\ \E others \in Memories : ~Remembers(p, others)

\* The loop goes on to the next node.
Done(p, decision, amount, due) ==
  Become(p, [proc[p] EXCEPT
    !.pc = "node", !.todo = Tail(@), !.agent = None, !.due = due,
    !.outs = Append(@, [key |-> Node(p).key, decision |-> decision, amount |-> amount])])

\* Held already, needless, answered from memory, or nobody offers it.
Skip(p) ==
  /\ AtNode(p) /\ Done(p, "skipped", 0, <<>>)
  /\ Node(p).key \notin proc[p].held /\ Needed(Node(p)) =>
       \/ \E others \in Memories : Remembers(p, others)
       \/ Market[Node(p).cap] = {}
  /\ UNCHANGED <<goal, status, nodes, mode, hires, house, headline, facts, chainVars>>

\* preferred_crew_for_goal: the blueprint nearest to the goal, if there is one, may
\* name anybody for a capability.
Crew == Agents \cup {None}

Candidate(p, a) ==
  \E crew \in Crew : a \in Chosen(Profiles, Market[Node(p).cap], crew)
Approved(a) == ~Excluded(Profiles[a]) /\ WillExecute(Profiles[a].price, Ceiling)

Escalate(p) ==
  /\ Wanted(p) /\ \E a \in Agents : Candidate(p, a) /\ ~Approved(a)
  /\ Done(p, "escalated", 0, <<>>)
  /\ UNCHANGED <<goal, status, nodes, mode, hires, house, headline, facts, chainVars>>

OpenEscrow(p, a) ==
  /\ CreateHire(Node(p).key, Node(p).cap, a, "foreman")
  /\ Done(p, "hired", Profiles[a].price, Entry("hire", Node(p).key))

HireUnder(p, mcp) ==
  /\ Wanted(p)
  /\ \E a \in Agents : /\ Candidate(p, a) /\ Approved(a) /\ Profiles[a].mcp = mcp
                       /\ OpenEscrow(p, a)
  /\ UNCHANGED <<goal, status, nodes, mode, house, headline, facts, chainVars>>

\* An agent-to-agent hire.
Hire(p) == HireUnder(p, FALSE)

\* An MCP service without TheHouse: DirectExecutor pays nothing and answers
\* "unavailable", whatever rail it finds, so that it is hired under escrow too.
CallDirect(p) == HireUnder(p, TRUE)

Request(p) == house[<<p, Node(p).key>>]

\* TheHouseExecutor.call: the request is submitted, and answered from the cache or not.
\* (One that is merged waits like a queued one, and is not told apart.)
Call(p) ==
  /\ Wanted(p) /\ House!Accept(<<p, Node(p).key>>)
  /\ house'[<<p, Node(p).key>>] # "merged"
  /\ \E a \in Agents : /\ Candidate(p, a) /\ Approved(a) /\ Profiles[a].mcp
                       /\ Become(p, [proc[p] EXCEPT !.pc = "await", !.agent = a])
  /\ UNCHANGED <<goal, status, nodes, mode, hires, headline, facts, chainVars>>

\* A poll finds the answer.
Serviced(p) ==
  /\ At(p, "await") /\ Request(p) = "delivered"
  /\ Done(p, "serviced_mcp", Fee, Entry("mcp_executed", Node(p).key))
  /\ UNCHANGED <<goal, status, nodes, mode, hires, house, headline, facts, chainVars>>

\* No answer by the deadline (neither a failure nor an answer from the cache counts as
\* delivered), or the call raises, which the lookup of the listing may do after the
\* answer came.  The node is hired under escrow; TheHouse may have charged or charge yet.
GiveUp(p) ==
  /\ At(p, "await") /\ OpenEscrow(p, proc[p].agent)
  /\ UNCHANGED <<goal, status, nodes, mode, house, headline, facts, chainVars>>

Decided(p, decision) == {o \in ToSet(proc[p].outs) : o.decision = decision}

EndLoop(p) ==
  /\ At(p, "node") /\ proc[p].todo = <<>>
  /\ MarkJob(IF Decided(p, "hired") = {} THEN status ELSE "hiring_complete")
  /\ Goto(p, IF p = "run" THEN "decide" ELSE "done")
  /\ UNCHANGED <<goal, nodes, mode, hires, house, headline, facts, chainVars>>

-----------------------------------------------------------------------------
SumOf(amounts) ==
  LET sum[i \in 0..Len(amounts)] == IF i = 0 THEN 0 ELSE sum[i - 1] + amounts[i]
  IN sum[Len(amounts)]

\* The amounts of the run's outcomes of that decision.
Amounts(decision) ==
  LET outs == proc["run"].outs IN
  SumOf([i \in DOMAIN outs |-> IF outs[i].decision = decision THEN outs[i].amount ELSE 0])

Answers == proc["run"].mode = "direct_mcp" /\ Decided("run", "serviced_mcp") # {}
           /\ Decided("run", "hired") = {}

\* The answer of a paid call ends the job; hires go through the Room.
Decide ==
  /\ At("run", "decide")
  /\ IF Answers
     THEN /\ headline' = Amounts("serviced_mcp")
          /\ Become("run", [proc["run"] EXCEPT !.pc = "answered",
                                               !.due = Entry("conductor_done", 0)])
     ELSE /\ Goto("run", IF Decided("run", "hired") = {} THEN "report" ELSE "room")
          /\ UNCHANGED headline
  /\ UNCHANGED <<goal, status, nodes, mode, hires, house, facts, chainVars>>

\* run_room, which may hire on the way (one at most here): a helper for a question,
\* or the replacement of a hire that failed.  Neither is reviewed or logged.  A hire
\* whose agent is an MCP service calls TheHouse for its deliverable, if it is wired and
\* the agent gets its turn; a helper does not.  (A bound: only the calls TheHouse
\* answers, in time or from its cache, are followed.)  Whether the Room completed or
\* halted makes no difference to the steps below.
RoomHires(cap, key, tried, via) ==
  \E a \in Agents \cap Hireable(Profiles, Market[cap] \ tried) : CreateHire(key, cap, a, via)

CallsInRoom(rows) ==
  \E calls \in SUBSET {i \in DOMAIN rows : /\ rows[i].via # "helper" /\ Profiles[rows[i].agent].mcp
                                           /\ <<"room", i>> \in Requests} :
    house' = [r \in Requests |->
                IF r[1] = "room" /\ r[2] \in calls THEN "delivered" ELSE house[r]]

RunRoom ==
  /\ At("run", "room") /\ MarkJob("room_over")
  /\ \/ UNCHANGED hires
     \/ \E cap \in RoomAsks : RoomHires(cap, 0, {}, "helper")
     \/ \E i \in DOMAIN hires :
          RoomHires(hires[i].cap, hires[i].key, {hires[i].agent}, "replacement")
  /\ CallsInRoom(hires')
  /\ \E next \in {"sign", "report"} : Goto("run", next)
  /\ UNCHANGED <<goal, nodes, mode, headline, facts, chainVars>>

\* Mutation of Release: the loop does not tell the log.
ReleaseUntold(p) ==
  /\ At(p, "sign") /\ Unpaid # 0 /\ SetReleased(Unpaid) /\ Goto(p, "sign")
  /\ UNCHANGED <<goal, status, nodes, mode, house, headline, facts, chainVars>>

\* sign_off: the hires one by one, then the status.
Release(p) ==
  /\ At(p, "sign") /\ Unpaid # 0 /\ SetReleased(Unpaid)
  /\ Become(p, [proc[p] EXCEPT !.due = Entry("payment_released", hires[Unpaid].key)])
  /\ UNCHANGED <<goal, status, nodes, mode, house, headline, facts, chainVars>>

SignedOff(p) ==
  /\ At(p, "sign") /\ Unpaid = 0 /\ MarkJob("signed_off") /\ Goto(p, IF p = "run" THEN "report" ELSE "done")
  /\ UNCHANGED <<goal, nodes, mode, hires, house, headline, facts, chainVars>>

\* The escrows of the hires made in these ways.
Price(vias) ==
  SumOf([i \in DOMAIN hires |-> IF hires[i].via \in vias THEN Profiles[hires[i].agent].price ELSE 0])

\* The Room's meter: a helper's price is charged to it, a replacement's is not.
Coordination ==
  IF Decided("run", "hired") = {} THEN 0 ELSE RoomFee + Price({"helper"})

\* Mutation of Total: the escrows the Room opened are forgotten.
TotalOfHires == Amounts("serviced_mcp") + Amounts("hired") + Coordination

\* Calls, hires, coordination and the Room's own hires.
Total == TotalOfHires + Price({"helper", "replacement"})

Report ==
  /\ At("run", "report") /\ headline' = Total
  /\ Become("run", [Fresh("done") EXCEPT !.due = Entry("conductor_done", 0)])
  /\ UNCHANGED <<goal, status, nodes, mode, hires, house, facts, chainVars>>

-----------------------------------------------------------------------------
\* The user acts on what run_job returned, or when it failed (a bound: not while a
\* worker is at the job).
Returned ==
  /\ At("run", "done") \/ At("run", "answered") \/ Failed("run")
  /\ At("worker", "idle") \/ At("worker", "done") \/ Failed("worker")

\* add_fact: the deliverable of a node is on file.
AddFact(n) == [about |-> n.cap, confidence |-> 85, age |-> 0]
Specialists == {n \in Nodes(nodes) : n.hire /\ n.cap # "coordination"}

\* POST /jobs/{id}/distill: a fact for every node a specialist was wanted for, hired
\* or not.  (Its playbook names a crew: see Crew.)
UserDistills ==
  /\ Returned /\ At("user", "idle") /\ Goto("user", "distilled")
  /\ facts' = {AddFact(n) : n \in Specialists}
  /\ UNCHANGED <<goal, status, nodes, mode, hires, house, headline, chainVars>>

\* POST /jobs/{id}/hire or /signoff, one call once the run has returned.  (A sign-off
\* reads no facts: it is left out after a distillation.)
UserHires ==
  /\ Returned /\ (At("user", "idle") \/ At("user", "distilled")) /\ Goto("user", "hire")
  /\ UNCHANGED <<goal, status, nodes, mode, hires, house, headline, facts, chainVars>>

UserSigns ==
  /\ Returned /\ At("user", "idle") /\ Goto("user", "sign")
  /\ UNCHANGED <<goal, status, nodes, mode, hires, house, headline, facts, chainVars>>

\* (A bound: once a run is over, what becomes of its requests is not followed.)
Over == Failed("run") \/ proc["run"].pc \in {"done", "answered"}
HouseActs ==
  /\ \E r \in Requests : /\ Over => r[1] = "user"
                         /\ House!Deliver({r}) \/ House!Expire({r})
  /\ UNCHANGED <<goal, status, nodes, mode, hires, proc, headline, facts, chainVars>>

Audits ==
  /\ (VerifyRows /\ Len(log) <= MaxRead) \/ VerifyHead
  /\ UNCHANGED jobVars

Process(p) == Verify(p) \/ Plan(p) \/ Classify(p)
Foreman(p) == \/ ReadJob(p) \/ Skip(p) \/ Escalate(p) \/ Hire(p) \/ CallDirect(p)
              \/ Call(p) \/ Serviced(p) \/ GiveUp(p) \/ EndLoop(p)

Next ==
  \/ Submit \/ Enqueue \/ View \/ Decide \/ RunRoom \/ Report
  \/ UserDistills \/ UserHires \/ UserSigns \/ HouseActs \/ Audits
  \/ \E p \in Writers : Lock(p) \/ Say(p) \/ Fail(p)
  \/ \E p \in {"run", "worker"} : Process(p)
  \/ \E p \in {"run", "user"} : Foreman(p) \/ Release(p) \/ SignedOff(p)

Spec == Init /\ [][Next]_vars

-----------------------------------------------------------------------------
\* The entries that say it, and the processes that did it and have not said so: they
\* are about to, or failed before.
Owes(due, kind, key) == due # <<>> /\ Head(due).kind = kind /\ Head(due).key = key
Logged(kind, key) == {i \in DOMAIN log : log[i].entry.kind = kind /\ log[i].entry.key = key}
Unlogged(kind, key) == {p \in Writers : Owes(proc[p].due, kind, key)}
Said(kind, key) == Cardinality(Logged(kind, key)) + Cardinality(Unlogged(kind, key))

Escrows(key) == {i \in DOMAIN hires : hires[i].key = key /\ hires[i].via = "foreman"}
Releases(key) == {i \in DOMAIN hires : hires[i].key = key /\ hires[i].status = "released"}

\* Of the Foreman's escrows and of every release the log tells nothing twice and nothing
\* that was not done, whoever fails and whatever is called again; and what it does not
\* tell is one entry of each process that failed, or of one that is about to append it.
LogTellsTheMoney ==
  \A k \in 0..MaxKey :
    /\ Said("hire", k) = Cardinality(Escrows(k))
    /\ Said("payment_released", k) = Cardinality(Releases(k))

\* governance/audit.py:3 "the log is the single source of truth": once nobody is about to
\* append, every such escrow and release is in it.  Not so: whoever fails between the row
\* and its entry (hire.py:242 and 256, 296 and 297) leaves a row that the next call skips.
LogIsTheTruth ==
  (\A p \in Writers : Failed(p) \/ proc[p].due = <<>>) =>
    \A k \in 0..MaxKey :
      /\ Cardinality(Logged("hire", k)) = Cardinality(Escrows(k))
      /\ Cardinality(Logged("payment_released", k)) = Cardinality(Releases(k))

\* Whatever the model proposes, the saved graph has distinct keys and known
\* prerequisites, and every part of it has a node that can start.
PlanIsDag ==
  /\ Cardinality(Keys(nodes)) = Len(nodes)
  /\ \A n \in Nodes(nodes) : n.deps \subseteq Keys(nodes)
  /\ \A S \in (SUBSET Keys(nodes)) \ {{}} :
       \E n \in Nodes(nodes) : n.key \in S /\ n.deps \cap S = {}

\* No escrow is opened on its own, by blueprint, fallback or retry, for an agent with
\* risky contracts or many disputes, or above the owner's ceiling.
SafeHire ==
  \A i \in DOMAIN hires : LET p == Profiles[hires[i].agent] IN
    /\ p.risky = 0 /\ p.dispute <= 20
    /\ hires[i].via = "foreman" => p.price <= Ceiling

\* What the job cost: every escrow, every call TheHouse charged for (delivered, in time
\* or late, or answered from its cache), the coordination.
Called(caller) == {k \in 1..(MaxKey + 1) : /\ <<caller, k>> \in Requests
                                          /\ house[<<caller, k>>] \in {"delivered", "cached"}}
Cost == Price({"foreman", "helper", "replacement"})
        + Fee * (Cardinality(Called("run")) + Cardinality(Called("room")))
        + (IF hires = <<>> THEN 0 ELSE RoomFee)

\* The nodes hired under escrow whose call TheHouse charged all the same.
PaidTwice == {k \in Called("run") : Escrows(k) # {}}

\* How far the headline of a run that returns is from its cost: a helper's price is in it
\* twice, as its escrow and in the coordination; a late or a cached answer, whose node
\* is hired, and what the hires call TheHouse for in the Room are not in it; all else
\* is, once.
HeadlineAccount ==
  [][proc["run"].pc # proc'["run"].pc /\ proc'["run"].pc \in {"done", "answered"} =>
       headline' + Fee * (Cardinality(PaidTwice) + Cardinality(Called("room")))
         = Cost + Price({"helper"})]_vars

\* conductor.py:39 "the headline must not understate real cost".  Not so: see above.
HeadlineCoversCost ==
  [][proc["run"].pc # proc'["run"].pc /\ proc'["run"].pc \in {"done", "answered"} =>
       headline' >= Cost]_vars

\* A direct answer is the whole job: no other node was bought or is waiting for the
\* owner's approval, unless the job was processed twice (or a worker failed over it) and
\* the graph that was hired for is not the one that was classified.
DirectAnswersAll ==
  proc["run"].pc = "answered" =>
    \/ Cardinality({o \in ToSet(proc["run"].outs) : o.decision # "skipped"}) = 1
    \/ Said("path_classified", 0) + (IF proc["worker"].pc \in {"classify", "failed"} THEN 1 ELSE 0) > 1
=============================================================================
