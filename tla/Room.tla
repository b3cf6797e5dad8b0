-------------------------------- MODULE Room --------------------------------
(***************************************************************************)
(* The Room of one LAVARD job (core/room/controller.py): run_room takes    *)
(* the hired specialists through the job's nodes under the Referee         *)
(* (core/room/referee.py: kill-switch, turn limits, money meter), helps or *)
(* replaces them mid-room, checkpoints after every node and can be resumed *)
(* after a halt or a crash.  The API runs each call in a thread: a call is *)
(* a process, and a step is what it does between two accesses to the store *)
(* or to an agent.  Agents' texts, ranking and memory contents are         *)
(* abstracted to their outcome; money is counted in units.                 *)
(***************************************************************************)
EXTENDS Naturals

CONSTANTS
  Calls,             \* calls of run_room for the job
  NodeCount,         \* nodes with a hired specialist, one hire each
  Topics,            \* topics a specialist can ask about
  Budget,            \* job_budget_usd
  RoomTurnLimit, AgentTurnLimit,
  WorkCosts,         \* what a step the router pays for may cost, by its tier
  HelperPrice,       \* price of a specialist hired to answer a question
  ReplacementPrice,  \* price of a specialist hired in place of a failed one
  Overspent          \* history counters stop counting here

ASSUME RoomAssumption ==
  /\ NodeCount \in Nat \ {0}
  /\ Budget \in Nat /\ RoomTurnLimit \in Nat /\ AgentTurnLimit \in Nat
  /\ WorkCosts \subseteq Nat /\ HelperPrice \in Nat /\ ReplacementPrice \in Nat
  /\ Overspent \in Nat

\* The nodes, in the order their hires were created: the order they are run in.
Nodes == 1..NodeCount

VARIABLES
  frozen,      \* job_control.frozen
  job,         \* jobs.status, as far as the Room is concerned
  checkpoint,  \* room_checkpoint; no row reads as nothing done, nothing spent
  run,         \* each call's local state: the Referee's meter and the loop's
  handled,     \* history: nodes some run has taken to an end
  clean,       \* history: the chain of runs had no overlap and no death
  chain,       \* history: money the chain has charged, until it is not clean
  paid         \* history: deliverables the chain has met the cost of, per node, likewise

store == <<frozen, job, checkpoint>>
history == <<handled, clean, chain, paid>>
vars == <<store, run, history>>

Halts == {"frozen", "turn_limit", "budget_exceeded"}
Agents == {"hired", "replacement"}
Running == {"load", "reload", "loop", "turn", "event", "save", "halt", "mark"}

Checkpoint == [nodes : SUBSET Nodes, spend : Nat]
NoCheckpoint == [nodes |-> {}, spend |-> 0]

Run == [pc : {"idle", "returned", "dead"} \cup Running,
        live : BOOLEAN,                       \* the call has an executor
        done : SUBSET Nodes,                  \* done_nodes
        spend : Nat,                          \* referee.spend
        turns : 0..RoomTurnLimit,             \* referee.room_turns
        agentTurns : [Agents -> 0..AgentTurnLimit],
        asked : SUBSET Topics,                \* _seen_questions of the node's agent
        node : 0..NodeCount,                  \* the node being run
        agent : Agents,                       \* who runs it
        outcome : {"completed"} \cup Halts,   \* the transcript's status
        midRoom : 0..Overspent]               \* history: money in mid-room escrows

\* The local state of a call that is not running.
NoRun(pc) == [pc |-> pc, live |-> FALSE, done |-> {}, spend |-> 0, turns |-> 0,
              agentTurns |-> [a \in Agents |-> 0], asked |-> {}, node |-> 0,
              agent |-> "hired", outcome |-> "completed", midRoom |-> 0]

NothingPaid == [n \in Nodes |-> 0]

TypeOK ==
  /\ frozen \in BOOLEAN
  /\ job \in {"staffed", "completed", "signed_off"} \cup Halts
  /\ checkpoint \in Checkpoint
  /\ run \in [Calls -> Run]
  /\ handled \subseteq Nodes
  /\ clean \in BOOLEAN
  /\ chain \in 0..Overspent
  /\ paid \in [Nodes -> 0..2]

Init ==
  /\ frozen = FALSE /\ job = "staffed" /\ checkpoint = NoCheckpoint
  /\ run = [c \in Calls |-> NoRun("idle")]
  /\ handled = {} /\ clean = TRUE /\ chain = 0 /\ paid = NothingPaid

At(c, l) == run[c].pc = l
Become(c, r) == run' = [run EXCEPT ![c] = r]
Goto(c, l) == Become(c, [run[c] EXCEPT !.pc = l])

\* RefereeStop: the run ends with this status.
Stopped(r, reason) == [r EXCEPT !.pc = "halt", !.outcome = reason]

NewChain == chain' = 0 /\ paid' = NothingPaid

Saturated(x) == IF x > Overspent THEN Overspent ELSE x

-----------------------------------------------------------------------------
(* Entering and leaving the Room.                                          *)

\* The call clears the kill-switch unless told not to (clear_frozen).  A call that
\* does not resume starts a chain of runs; one that does continues it.
Begin(c) ==
  /\ At(c, "idle")
  /\ frozen' \in {FALSE, frozen}
  /\ LET alone == \A d \in Calls : run[d].pc \notin Running
     IN \E live \in BOOLEAN :
          \/ /\ Become(c, [NoRun("load") EXCEPT !.live = live])
             /\ clean' = alone /\ NewChain
          \/ /\ Become(c, [NoRun("reload") EXCEPT !.live = live])
             /\ clean' = (clean /\ alone)
             /\ \/ alone /\ UNCHANGED <<chain, paid>>
                \/ ~alone /\ NewChain
  /\ UNCHANGED <<job, checkpoint, handled>>

\* Not a resume: a completed room is not run again; the checkpoint is not read.
Load(c) ==
  /\ At(c, "load")
  /\ \/ job = "completed" /\ Become(c, NoRun("returned"))
     \/ job # "completed" /\ Goto(c, "loop")
  /\ UNCHANGED <<store, history>>

\* Mutation of Reload: the money meter starts afresh.
ReloadNodesOnly(c) ==
  /\ At(c, "reload")
  /\ Become(c, [run[c] EXCEPT !.pc = "loop", !.done = checkpoint.nodes])
  /\ UNCHANGED <<store, history>>

\* A resume takes the finished nodes and the money meter over (not the turns).
Reload(c) ==
  /\ At(c, "reload")
  /\ Become(c, [run[c] EXCEPT !.pc = "loop", !.done = checkpoint.nodes,
                              !.spend = checkpoint.spend])
  /\ UNCHANGED <<store, history>>

\* check_budget before the next node that is not done.
NextNode(c) ==
  /\ At(c, "loop")
  /\ \E n \in Nodes \ run[c].done :
       /\ \A m \in Nodes \ run[c].done : n <= m
       /\ \/ /\ run[c].spend >= Budget
             /\ Become(c, Stopped(run[c], "budget_exceeded"))
          \/ /\ run[c].spend < Budget
             /\ Become(c, [run[c] EXCEPT !.pc = "turn", !.node = n, !.agent = "hired",
                                         !.agentTurns = [@ EXCEPT !["hired"] = 0],
                                         !.asked = {}])
  /\ UNCHANGED <<store, history>>

\* Checkpoint after every completed node.
SaveNode(c) ==
  /\ At(c, "save")
  /\ LET done == run[c].done \cup {run[c].node}
     IN /\ Become(c, [run[c] EXCEPT !.pc = "loop", !.done = done])
        /\ checkpoint' = [nodes |-> done, spend |-> run[c].spend]
  /\ UNCHANGED <<frozen, job, history>>

\* A clean finish leaves no checkpoint: the chain of runs ends here.
Complete(c) ==
  /\ At(c, "loop") /\ Nodes \subseteq run[c].done
  /\ Become(c, [run[c] EXCEPT !.pc = "mark", !.outcome = "completed"])
  /\ checkpoint' = NoCheckpoint
  /\ NewChain
  /\ UNCHANGED <<frozen, job, handled, clean>>

\* Mutation of Halt: progress is dropped.
HaltForgets(c) ==
  /\ At(c, "halt")
  /\ checkpoint' = [checkpoint EXCEPT !.nodes = {}]
  /\ Goto(c, "mark")
  /\ UNCHANGED <<frozen, job, history>>

\* Mutation of Halt: the node that was interrupted is saved as done.
HaltCurrentDone(c) ==
  /\ At(c, "halt")
  /\ checkpoint' = [nodes |-> run[c].done \cup ({run[c].node} \ {0}), spend |-> run[c].spend]
  /\ Goto(c, "mark")
  /\ UNCHANGED <<frozen, job, history>>

\* A stopped run preserves its progress.
Halt(c) ==
  /\ At(c, "halt")
  /\ checkpoint' = [nodes |-> run[c].done, spend |-> run[c].spend]
  /\ Goto(c, "mark")
  /\ UNCHANGED <<frozen, job, history>>

\* The job takes the transcript's status, and the call returns.
Mark(c) ==
  /\ At(c, "mark")
  /\ job' = run[c].outcome
  /\ Become(c, NoRun("returned"))
  /\ UNCHANGED <<frozen, checkpoint, history>>

-----------------------------------------------------------------------------
(* One node: turns, and what the agent does in them.                       *)

\* Mutation of Turn: turns are not counted.
TurnUncounted(c) ==
  /\ At(c, "turn")
  /\ \/ frozen /\ Become(c, Stopped(run[c], "frozen"))
     \/ ~frozen /\ Goto(c, "event")
  /\ UNCHANGED <<store, history>>

\* Referee.turn: kill-switch, room limit, agent limit.  (The room's turn and the
\* agent's are counted before they are compared: a run over its limit stops.)
Turn(c) ==
  /\ At(c, "turn")
  /\ LET agent == run[c].agent
         inLimits == /\ run[c].turns < RoomTurnLimit
                     /\ run[c].agentTurns[agent] < AgentTurnLimit
         counted == [run[c].agentTurns EXCEPT ![agent] = @ + 1]
     IN \/ frozen /\ Become(c, Stopped(run[c], "frozen"))
        \/ ~frozen /\ ~inLimits /\ Become(c, Stopped(run[c], "turn_limit"))
        \/ /\ ~frozen /\ inLimits
           /\ Become(c, [run[c] EXCEPT !.pc = "event", !.turns = @ + 1, !.agentTurns = counted])
  /\ UNCHANGED <<store, history>>

\* Referee.charge: over the ceiling, the run stops.
Charge(c, r, cost) ==
  /\ chain' = IF clean THEN Saturated(chain + cost) ELSE chain
  /\ LET charged == [r EXCEPT !.spend = @ + cost]
     IN \/ charged.spend > Budget /\ Become(c, Stopped(charged, "budget_exceeded"))
        \/ charged.spend <= Budget /\ Become(c, charged)

\* Affordable: would the price stay within the ceiling?
Affordable(c, price) == run[c].spend + price <= Budget

\* The node has come to an end: delivered, unresolved or blocked.
Handle(c) == handled' = handled \cup {run[c].node}

\* The shared router: a near-duplicate of a step it has paid for is free, unless the
\* step is a critical one.
Routed == WorkCosts \cup {0}

\* The agent delivers: the work is charged.
Deliver(c) ==
  /\ At(c, "event")
  /\ \E cost \in Routed : Charge(c, [run[c] EXCEPT !.pc = "save"], cost)
  /\ Handle(c)
  /\ paid' = [paid EXCEPT ![run[c].node] = IF clean /\ @ < 2 THEN @ + 1 ELSE @]
  /\ UNCHANGED <<store, clean>>

\* An agent behind the executor fails: an error, or an answer that is "failed".  One
\* that cannot be called at all counts as delivering, through its escrow.
Undelivered(c) == At(c, "event") /\ run[c].live

\* The agent failed and there is no replacement, or none affordable: the node
\* is given up (and counts as completed).
GiveUp(c) ==
  /\ Undelivered(c)
  /\ Handle(c)
  /\ Goto(c, "save")
  /\ UNCHANGED <<store, clean, chain, paid>>

\* hire_replacement: an escrow and its row, and the replacement takes the turn.
\* The id added to failed_ids is always the original hire's, so that its cap of
\* two ids never bites; the price is compared with the meter, not charged to it.
Replace(c) ==
  /\ Undelivered(c) /\ Affordable(c, ReplacementPrice)
  /\ Become(c, [run[c] EXCEPT !.pc = "turn", !.agent = "replacement",
                              !.midRoom = Saturated(@ + ReplacementPrice)])
  /\ UNCHANGED <<store, history>>

\* A question this agent has already asked: the node is given up as blocked.
Blocked(c) ==
  /\ At(c, "event") /\ ~run[c].live
  /\ run[c].asked # {}
  /\ Handle(c)
  /\ Goto(c, "save")
  /\ UNCHANGED <<store, clean, chain, paid>>

Resolve(c, cost) ==
  /\ At(c, "event") /\ ~run[c].live
  /\ \E t \in Topics \ run[c].asked :
       Charge(c, [run[c] EXCEPT !.pc = "turn", !.asked = @ \cup {t}], cost)
  /\ UNCHANGED <<store, handled, clean, paid>>

\* A new question is answered from memory or the blackboard, or by nobody: free.
Recall(c) == Resolve(c, 0)

\* A peer who knows is polled, through the router.
Poll(c) == \E cost \in Routed : Resolve(c, cost)

Answer(c) == Recall(c) \/ Poll(c)

\* A new question nobody in the room can answer: an affordable specialist is hired
\* (its escrow opened and recorded) and charged to the meter.
HireHelper(c) ==
  /\ At(c, "event") /\ ~run[c].live /\ Affordable(c, HelperPrice)
  /\ \E t \in Topics \ run[c].asked :
       Charge(c, [run[c] EXCEPT !.pc = "turn", !.asked = @ \cup {t},
                                !.midRoom = Saturated(@ + HelperPrice)], HelperPrice)
  /\ UNCHANGED <<store, handled, clean, paid>>

-----------------------------------------------------------------------------
(* The outside.                                                            *)

\* The kill endpoint.
Freeze ==
  /\ frozen' = TRUE
  /\ UNCHANGED <<job, checkpoint, run, history>>

\* The user signs off (module Hiring), whatever the Room is doing.
SignOffJob ==
  /\ job' = "signed_off"
  /\ UNCHANGED <<frozen, checkpoint, run, history>>

\* The call dies: an exception out of the store, or the process is killed.
Die(c) ==
  /\ run[c].pc \in Running
  /\ Become(c, NoRun("dead"))
  /\ clean' = FALSE /\ NewChain
  /\ UNCHANGED <<store, handled>>

-----------------------------------------------------------------------------
RunRoom(c) ==
  \/ Load(c) \/ Reload(c) \/ NextNode(c) \/ SaveNode(c) \/ Complete(c)
  \/ Halt(c) \/ Mark(c)

RunNode(c) ==
  \/ Turn(c) \/ Deliver(c) \/ GiveUp(c) \/ Replace(c) \/ Blocked(c) \/ Answer(c)
  \/ HireHelper(c)

Next ==
  \/ \E c \in Calls : Begin(c) \/ RunRoom(c) \/ RunNode(c) \/ Die(c)
  \/ Freeze \/ SignOffJob

\* A call that has begun keeps running, and its agents answer.
Fairness == \A c \in Calls : WF_vars(RunRoom(c) \/ RunNode(c))

Spec == Init /\ [][Next]_vars /\ Fairness

-----------------------------------------------------------------------------
\* Resuming never skips work: a node that a run or the checkpoint takes as done has
\* been taken to an end, and a job marked completed has had all its nodes so,
\* whatever halted, died, overlapped or was resumed on the way.
SkippedIsHandled ==
  /\ checkpoint.nodes \subseteq handled
  /\ \A c \in Calls : run[c].done \subseteq handled
  /\ job = "completed" => handled = Nodes

\* The money cap holds across halts and resumes: what a fresh run and the runs
\* that resumed it (one at a time, none of which died) have charged, mid-room
\* specialists included, exceeds the ceiling by less than one deliverable.
ChainWithinCap ==
  clean => \E cost \in Routed : chain <= Budget + cost

\* Along such a chain no deliverable is paid for twice: a resumed run does not
\* redo a node that a halted one had finished.
ChainPaysOnce == clean => \A n \in Nodes : paid[n] <= 1

\* Turn limits and duplicate detection end every run: questions, replacements and
\* resumes cannot loop for ever.
EventuallyReturns == \A c \in Calls : run[c].pc \in Running ~> run[c].pc \notin Running

\* core/room/referee.py:61 "refuse a mid-room hire BEFORE opening escrow, so the cap
\* can't be overshot by a full hire": replacements are never charged.
MidRoomWithinCap == \A c \in Calls : run[c].midRoom <= Budget
=============================================================================
