----------------------------- MODULE RoomProofs -----------------------------
(***************************************************************************)
(* Proofs about module Room, for any number of calls, nodes and topics and *)
(* any budget, prices and limits.                                          *)
(***************************************************************************)
EXTENDS Room, FiniteSetTheorems, TLAPS

\* What a call knows of its progress, given the nodes handled so far: done nodes
\* have been handled, so has the node about to be saved; only a run that has been
\* through all the nodes ends as completed.
Progress(r, h) ==
  /\ r.done \subseteq h
  /\ r.pc \in {"turn", "event", "save"} => r.node \in Nodes
  /\ r.pc = "save" => r.node \in h
  /\ r.pc = "halt" => r.outcome \in Halts
  /\ r.pc = "mark" /\ r.outcome = "completed" => Nodes \subseteq r.done

\* The inductive invariant.
IInv ==
  /\ TypeOK
  /\ checkpoint.nodes \subseteq handled
  /\ job = "completed" => handled = Nodes
  /\ \A c \in Calls : Progress(run[c], handled)

\* A call that has not begun, or has ended, claims nothing.
LEMMA NoRunIsRun ==
  ASSUME NEW h, NEW pc \in {"idle", "returned", "dead", "load", "reload"}
  PROVE NoRun(pc) \in Run /\ Progress(NoRun(pc), h)
<1>1. NoRun(pc) \in Run
  BY RoomAssumption DEF NoRun, Run, Running, Agents
<1> QED
  BY <1>1 DEF NoRun, Progress

\* A step of one call keeps the other calls' claims, as handled only grows.
LEMMA OneCallMoves ==
  ASSUME NEW c \in Calls, NEW r \in Run
  PROVE /\ IInv /\ Become(c, r) /\ Progress(r, handled') /\ handled \subseteq handled'
        => /\ run' \in [Calls -> Run]
           /\ \A d \in Calls : Progress(run'[d], handled')
<1> SUFFICES ASSUME IInv, Become(c, r), Progress(r, handled'), handled \subseteq handled'
    PROVE /\ run' \in [Calls -> Run]
          /\ \A d \in Calls : Progress(run'[d], handled')
  OBVIOUS
<1>1. run \in [Calls -> Run] /\ run' = [run EXCEPT ![c] = r]
  BY DEF IInv, TypeOK, Become
<1>2. run' \in [Calls -> Run]
  BY <1>1
<1>3. ASSUME NEW d \in Calls PROVE Progress(run'[d], handled')
  <2>1. CASE d = c
    BY <1>1, <2>1
  <2>2. CASE d # c
    <3>1. run'[d] = run[d] /\ Progress(run[d], handled)
      BY <1>1, <2>2 DEF IInv
    <3>2. Progress(run[d], handled')
      BY <3>1 DEF Progress
    <3> QED
      BY <3>1, <3>2
  <2> QED
    BY <2>1, <2>2
<1> QED
  BY <1>2, <1>3

LEMMA SaturatedType == ASSUME NEW x \in Nat PROVE Saturated(x) \in 0..Overspent
BY RoomAssumption DEF Saturated

LEMMA IInvInit == Init => IInv
<1> SUFFICES ASSUME Init PROVE IInv
  OBVIOUS
<1>1. \A c \in Calls : run[c] = NoRun("idle")
  BY DEF Init
<1>2. run \in [Calls -> Run] /\ \A c \in Calls : Progress(run[c], handled)
  BY <1>1, NoRunIsRun DEF Init
<1>3. NoCheckpoint \in Checkpoint /\ NoCheckpoint.nodes = {}
  BY DEF NoCheckpoint, Checkpoint
<1>4. NothingPaid \in [Nodes -> 0..2] /\ 0 \in 0..Overspent
  BY RoomAssumption DEF NothingPaid
<1> QED
  BY <1>2, <1>3, <1>4 DEF Init, IInv, TypeOK

\* A step in which a call only moves.
LEMMA MoveOnly ==
  ASSUME NEW c \in Calls, NEW r \in Run
  PROVE IInv /\ Become(c, r) /\ Progress(r, handled) /\ UNCHANGED <<store, history>> => IInv'
<1> SUFFICES ASSUME IInv, Become(c, r), Progress(r, handled), UNCHANGED <<store, history>>
    PROVE IInv'
  OBVIOUS
<1>1. UNCHANGED <<frozen, job, checkpoint>> /\ UNCHANGED <<handled, clean, chain, paid>>
  BY DEF store, history
<1>2. /\ run' \in [Calls -> Run]
      /\ \A d \in Calls : Progress(run'[d], handled')
  BY <1>1, OneCallMoves
<1> QED
  BY <1>1, <1>2 DEF IInv, TypeOK

LEMMA IInvBegin == ASSUME NEW c \in Calls PROVE IInv /\ Begin(c) => IInv'
<1> SUFFICES ASSUME IInv, Begin(c) PROVE IInv'
  OBVIOUS
<1>1. PICK pc \in {"load", "reload"}, live \in BOOLEAN :
        Become(c, [NoRun(pc) EXCEPT !.live = live])
  BY DEF Begin
<1>2. /\ [NoRun(pc) EXCEPT !.live = live] \in Run
      /\ Progress([NoRun(pc) EXCEPT !.live = live], handled)
  <2>1. NoRun(pc) \in Run /\ Progress(NoRun(pc), handled)
    BY NoRunIsRun
  <2> QED
    BY <2>1 DEF Run, Progress
<1>3. UNCHANGED <<job, checkpoint, handled>> /\ frozen' \in {FALSE, frozen}
  BY DEF Begin
<1>4. clean' \in BOOLEAN /\ (NewChain \/ UNCHANGED <<chain, paid>>)
  BY DEF Begin, IInv, TypeOK
<1>5. chain' \in 0..Overspent /\ paid' \in [Nodes -> 0..2]
  BY <1>4, RoomAssumption DEF NewChain, NothingPaid, IInv, TypeOK
<1>6. /\ run' \in [Calls -> Run]
      /\ \A d \in Calls : Progress(run'[d], handled')
  BY <1>1, <1>2, <1>3, OneCallMoves
<1> QED
  BY <1>3, <1>4, <1>5, <1>6 DEF IInv, TypeOK

LEMMA IInvRunRoom == ASSUME NEW c \in Calls PROVE IInv /\ RunRoom(c) => IInv'
<1> SUFFICES ASSUME IInv, RunRoom(c) PROVE IInv'
  OBVIOUS
<1>T. run[c] \in Run /\ Progress(run[c], handled)
  BY DEF IInv, TypeOK
<1>C. checkpoint \in Checkpoint /\ checkpoint.nodes \subseteq handled
  BY DEF IInv, TypeOK
<1>1. CASE Load(c)
  <2>1. CASE Become(c, NoRun("returned"))
    BY <1>1, <2>1, NoRunIsRun, MoveOnly DEF Load
  <2>2. CASE Goto(c, "loop")
    <3>1. /\ [run[c] EXCEPT !.pc = "loop"] \in Run
          /\ Progress([run[c] EXCEPT !.pc = "loop"], handled)
      BY <1>T DEF Run, Running, Progress
    <3> QED
      BY <1>1, <2>2, <3>1, MoveOnly DEF Load, Goto
  <2> QED
    BY <1>1, <2>1, <2>2 DEF Load
<1>2. CASE Reload(c)
  <2> DEFINE r == [run[c] EXCEPT !.pc = "loop", !.done = checkpoint.nodes,
                                 !.spend = checkpoint.spend]
  <2>1. r \in Run /\ Progress(r, handled)
    BY <1>T, <1>C DEF Run, Running, Progress, Checkpoint
  <2> QED
    BY <1>2, <2>1, MoveOnly DEF Reload
<1>3. CASE NextNode(c)
  <2>1. PICK n \in Nodes :
          \/ Become(c, Stopped(run[c], "budget_exceeded"))
          \/ Become(c, [run[c] EXCEPT !.pc = "turn", !.node = n, !.agent = "hired",
                                      !.agentTurns = [@ EXCEPT !["hired"] = 0],
                                      !.asked = {}])
    BY <1>3 DEF NextNode
  <2>2. /\ Stopped(run[c], "budget_exceeded") \in Run
        /\ Progress(Stopped(run[c], "budget_exceeded"), handled)
    BY <1>T DEF Stopped, Run, Running, Progress, Halts
  <2> DEFINE r == [run[c] EXCEPT !.pc = "turn", !.node = n, !.agent = "hired",
                                 !.agentTurns = [@ EXCEPT !["hired"] = 0],
                                 !.asked = {}]
  <2>3. n \in 0..NodeCount
    BY RoomAssumption DEF Nodes
  <2>4. run[c].agentTurns \in [Agents -> 0..AgentTurnLimit] /\ 0 \in 0..AgentTurnLimit
    BY <1>T, RoomAssumption DEF Run
  <2>5. [run[c].agentTurns EXCEPT !["hired"] = 0] \in [Agents -> 0..AgentTurnLimit]
    BY <2>4
  <2>6. r \in Run /\ Progress(r, handled)
    BY <1>T, <2>3, <2>5 DEF Run, Running, Progress, Agents
  <2> QED
    BY <1>3, <2>1, <2>2, <2>6, MoveOnly DEF NextNode
<1>4. CASE SaveNode(c)
  <2> DEFINE done == run[c].done \cup {run[c].node}
             r == [run[c] EXCEPT !.pc = "loop", !.done = done]
  <2>1. done \subseteq handled /\ done \subseteq Nodes /\ run[c].spend \in Nat
    BY <1>T, <1>4 DEF SaveNode, At, Progress, Run
  <2>2. r \in Run /\ Progress(r, handled)
    BY <1>T, <2>1 DEF Run, Running, Progress
  <2>3. Become(c, r) /\ checkpoint' = [nodes |-> done, spend |-> run[c].spend]
    BY <1>4 DEF SaveNode
  <2>4. UNCHANGED <<frozen, job>> /\ UNCHANGED <<handled, clean, chain, paid>>
    BY <1>4 DEF SaveNode, history
  <2>5. checkpoint' \in Checkpoint /\ checkpoint'.nodes \subseteq handled'
    BY <2>1, <2>3, <2>4 DEF Checkpoint
  <2>6. /\ run' \in [Calls -> Run]
        /\ \A d \in Calls : Progress(run'[d], handled')
    BY <2>2, <2>3, <2>4, OneCallMoves
  <2> QED
    BY <2>4, <2>5, <2>6 DEF IInv, TypeOK
<1>5. CASE Complete(c)
  <2> DEFINE r == [run[c] EXCEPT !.pc = "mark", !.outcome = "completed"]
  <2>1. r \in Run /\ Progress(r, handled)
    BY <1>T, <1>5 DEF Complete, Run, Running, Progress
  <2>2. Become(c, r) /\ UNCHANGED <<frozen, job, handled, clean>>
    BY <1>5 DEF Complete
  <2>3. checkpoint' \in Checkpoint /\ checkpoint'.nodes \subseteq handled'
    BY <1>5 DEF Complete, NoCheckpoint, Checkpoint
  <2>4. chain' \in 0..Overspent /\ paid' \in [Nodes -> 0..2]
    BY <1>5, RoomAssumption DEF Complete, NewChain, NothingPaid
  <2>5. /\ run' \in [Calls -> Run]
        /\ \A d \in Calls : Progress(run'[d], handled')
    BY <2>1, <2>2, OneCallMoves
  <2> QED
    BY <2>2, <2>3, <2>4, <2>5 DEF IInv, TypeOK
<1>6. CASE Halt(c)
  <2> DEFINE r == [run[c] EXCEPT !.pc = "mark"]
  <2>1. r \in Run /\ Progress(r, handled)
    BY <1>T, <1>6 DEF Halt, At, Run, Running, Progress, Halts
  <2>2. Become(c, r) /\ checkpoint' = [nodes |-> run[c].done, spend |-> run[c].spend]
    BY <1>6 DEF Halt, Goto
  <2>3. UNCHANGED <<frozen, job>> /\ UNCHANGED <<handled, clean, chain, paid>>
    BY <1>6 DEF Halt, history
  <2>4. checkpoint' \in Checkpoint /\ checkpoint'.nodes \subseteq handled'
    BY <1>T, <2>2, <2>3 DEF Checkpoint, Run, Progress
  <2>5. /\ run' \in [Calls -> Run]
        /\ \A d \in Calls : Progress(run'[d], handled')
    BY <2>1, <2>2, <2>3, OneCallMoves
  <2> QED
    BY <2>3, <2>4, <2>5 DEF IInv, TypeOK
<1>7. CASE Mark(c)
  <2>1. Become(c, NoRun("returned")) /\ job' = run[c].outcome
    BY <1>7 DEF Mark
  <2>2. UNCHANGED <<frozen, checkpoint>> /\ UNCHANGED <<handled, clean, chain, paid>>
    BY <1>7 DEF Mark, history
  <2>3. job' \in {"completed"} \cup Halts
    BY <1>T, <2>1 DEF Run
  <2>4. job' = "completed" => handled' = Nodes
    BY <1>T, <1>7, <2>1, <2>2 DEF Mark, At, Progress, IInv, TypeOK
  <2>5. /\ run' \in [Calls -> Run]
        /\ \A d \in Calls : Progress(run'[d], handled')
    BY <2>1, <2>2, NoRunIsRun, OneCallMoves
  <2> QED
    BY <2>2, <2>3, <2>4, <2>5 DEF IInv, TypeOK
<1> QED
  BY <1>1, <1>2, <1>3, <1>4, <1>5, <1>6, <1>7 DEF RunRoom


\* Charging leaves the meter where the run goes on, or stops it; the tally of the
\* chain stays within its bound.
LEMMA ChargeMoves ==
  ASSUME NEW c \in Calls, NEW r \in Run, NEW cost \in Nat
  PROVE Charge(c, r, cost) /\ chain \in 0..Overspent =>
        /\ chain' \in 0..Overspent
        /\ \/ Become(c, Stopped([r EXCEPT !.spend = @ + cost], "budget_exceeded"))
           \/ Become(c, [r EXCEPT !.spend = @ + cost])
<1>1. chain \in 0..Overspent => chain + cost \in Nat
  BY RoomAssumption
<1> QED
  BY <1>1, SaturatedType DEF Charge

\* Charging a call that moves on keeps what it claims.
LEMMA ChargedClaims ==
  ASSUME NEW h, NEW r \in Run, NEW cost \in Nat
  PROVE Progress(r, h) => /\ [r EXCEPT !.spend = @ + cost] \in Run
                          /\ Progress([r EXCEPT !.spend = @ + cost], h)
                          /\ Stopped([r EXCEPT !.spend = @ + cost], "budget_exceeded") \in Run
                          /\ Progress(Stopped([r EXCEPT !.spend = @ + cost], "budget_exceeded"), h)
<1> SUFFICES ASSUME Progress(r, h)
    PROVE /\ [r EXCEPT !.spend = @ + cost] \in Run
          /\ Progress([r EXCEPT !.spend = @ + cost], h)
          /\ Stopped([r EXCEPT !.spend = @ + cost], "budget_exceeded") \in Run
          /\ Progress(Stopped([r EXCEPT !.spend = @ + cost], "budget_exceeded"), h)
  OBVIOUS
<1> DEFINE s == [r EXCEPT !.spend = @ + cost]
<1>1. s \in Run /\ Progress(s, h)
  BY DEF Run, Progress
<1> HIDE DEF s
<1>2. Stopped(s, "budget_exceeded") \in Run /\ Progress(Stopped(s, "budget_exceeded"), h)
  BY <1>1, ZenonT(40) DEF Stopped, Run, Running, Halts, Progress
<1> QED
  BY <1>1, <1>2 DEF s

\* A step in which a call is charged: the store is not touched.
LEMMA ChargedMove ==
  ASSUME NEW c \in Calls, NEW r \in Run, NEW cost \in Nat
  PROVE /\ IInv /\ Charge(c, r, cost) /\ Progress(r, handled')
        /\ handled \subseteq handled' /\ handled' \subseteq Nodes
        /\ paid' \in [Nodes -> 0..2] /\ UNCHANGED <<store, clean>>
        => IInv'
<1> SUFFICES ASSUME IInv, Charge(c, r, cost), Progress(r, handled'),
                    handled \subseteq handled', handled' \subseteq Nodes,
                    paid' \in [Nodes -> 0..2], UNCHANGED <<store, clean>>
    PROVE IInv'
  OBVIOUS
<1>1. UNCHANGED <<frozen, job, checkpoint, clean>>
  BY DEF store
<1>2. chain \in 0..Overspent
  BY DEF IInv, TypeOK
<1>3. PICK s \in Run : Become(c, s) /\ Progress(s, handled') /\ chain' \in 0..Overspent
  BY <1>2, ChargeMoves, ChargedClaims
<1>4. /\ run' \in [Calls -> Run]
      /\ \A d \in Calls : Progress(run'[d], handled')
  BY <1>3, OneCallMoves
<1>5. checkpoint'.nodes \subseteq handled' /\ (job' = "completed" => handled' = Nodes)
  BY <1>1 DEF IInv
<1> QED
  BY <1>1, <1>3, <1>4, <1>5 DEF IInv, TypeOK

LEMMA IInvRunNode == ASSUME NEW c \in Calls PROVE IInv /\ RunNode(c) => IInv'
<1> SUFFICES ASSUME IInv, RunNode(c) PROVE IInv'
  OBVIOUS
<1>T. run[c] \in Run /\ Progress(run[c], handled)
  BY DEF IInv, TypeOK
<1>H. handled \subseteq Nodes /\ paid \in [Nodes -> 0..2]
  BY DEF IInv, TypeOK
<1>A. At(c, "event") => run[c].node \in Nodes
  BY <1>T DEF At, Progress
<1>1. CASE Turn(c)
  <2> DEFINE agent == run[c].agent
             turned == [run[c].agentTurns EXCEPT ![agent] = @ + 1]
             r == [run[c] EXCEPT !.pc = "event", !.turns = @ + 1, !.agentTurns = turned]
  <2>1. CASE \E reason \in Halts : Become(c, Stopped(run[c], reason))
    <3>1. PICK reason \in Halts : Become(c, Stopped(run[c], reason))
      BY <2>1
    <3>2. Stopped(run[c], reason) \in Run /\ Progress(Stopped(run[c], reason), handled)
      BY <1>T DEF Stopped, Run, Running, Progress
    <3> QED
      BY <1>1, <3>1, <3>2, MoveOnly DEF Turn
  <2>2. CASE /\ Become(c, r) /\ run[c].turns < RoomTurnLimit
             /\ run[c].agentTurns[agent] < AgentTurnLimit
    <3>1. run[c].turns + 1 \in 0..RoomTurnLimit
      BY <1>T, <2>2, RoomAssumption DEF Run
    <3>2. run[c].agentTurns \in [Agents -> 0..AgentTurnLimit] /\ agent \in Agents
      BY <1>T DEF Run
    <3>3. turned \in [Agents -> 0..AgentTurnLimit]
      BY <2>2, <3>2, RoomAssumption
    <3>4. run[c].node \in Nodes
      BY <1>T, <1>1 DEF Turn, At, Progress
    <3>5. r \in Run
      <4> HIDE DEF turned
      <4> QED
        BY <1>T, <3>1, <3>3 DEF Run, Running
    <3>6. Progress(r, handled)
      BY <1>T, <3>4 DEF Run, Progress
    <3> QED
      BY <1>1, <2>2, <3>5, <3>6, MoveOnly DEF Turn
  <2> QED
    BY <1>1, <2>1, <2>2 DEF Turn, Halts
<1>2. CASE Deliver(c)
  <2> DEFINE r == [run[c] EXCEPT !.pc = "save"]
  <2>1. PICK cost \in Routed : Charge(c, r, cost)
    BY <1>2 DEF Deliver
  <2>2. cost \in Nat
    BY RoomAssumption DEF Routed
  <2>3. handled' = handled \cup {run[c].node} /\ run[c].node \in Nodes
    BY <1>2, <1>A DEF Deliver, Handle
  <2>4. r \in Run /\ Progress(r, handled')
    BY <1>T, <2>3 DEF Run, Running, Progress
  <2>5. paid' \in [Nodes -> 0..2]
    <3>1. \/ paid' = [paid EXCEPT ![run[c].node] = @ + 1] /\ paid[run[c].node] < 2
          \/ paid' = [paid EXCEPT ![run[c].node] = @]
      BY <1>2 DEF Deliver
    <3>2. paid[run[c].node] \in 0..2
      BY <1>H, <2>3
    <3> QED
      BY <1>H, <3>1, <3>2
  <2> QED
    BY <1>2, <1>H, <2>1, <2>2, <2>3, <2>4, <2>5, ChargedMove DEF Deliver
<1>3. CASE GiveUp(c) \/ Blocked(c)
  <2> DEFINE r == [run[c] EXCEPT !.pc = "save"]
  <2>1. /\ handled' = handled \cup {run[c].node} /\ run[c].node \in Nodes
        /\ Become(c, r)
    BY <1>3, <1>A DEF GiveUp, Undelivered, Blocked, Handle, Goto
  <2>2. UNCHANGED <<frozen, job, checkpoint>> /\ UNCHANGED <<clean, chain, paid>>
    BY <1>3 DEF GiveUp, Blocked, store
  <2>3. r \in Run /\ Progress(r, handled')
    BY <1>T, <2>1 DEF Run, Running, Progress
  <2>4. /\ run' \in [Calls -> Run]
        /\ \A d \in Calls : Progress(run'[d], handled')
    BY <2>1, <2>3, OneCallMoves
  <2>5. /\ handled' \subseteq Nodes /\ checkpoint'.nodes \subseteq handled'
        /\ job' = "completed" => handled' = Nodes
    BY <1>H, <2>1, <2>2 DEF IInv
  <2> QED
    BY <2>2, <2>4, <2>5 DEF IInv, TypeOK
<1>4. CASE Replace(c)
  <2> DEFINE r == [run[c] EXCEPT !.pc = "turn", !.agent = "replacement",
                                 !.midRoom = Saturated(@ + ReplacementPrice)]
  <2>1. Saturated(run[c].midRoom + ReplacementPrice) \in 0..Overspent
    BY <1>T, RoomAssumption, SaturatedType DEF Run
  <2>2. run[c].node \in Nodes
    BY <1>4, <1>A DEF Replace, Undelivered
  <2>3. r \in Run /\ Progress(r, handled)
    BY <1>T, <2>1, <2>2 DEF Run, Running, Agents, Progress
  <2> QED
    BY <1>4, <2>3, MoveOnly DEF Replace
<1>5. CASE Answer(c)
  <2>0. PICK cost \in Routed : Resolve(c, cost)
    BY <1>5 DEF Answer, Recall, Poll, Routed
  <2>1. PICK t \in Topics :
          Charge(c, [run[c] EXCEPT !.pc = "turn", !.asked = @ \cup {t}], cost)
    BY <2>0 DEF Resolve
  <2> DEFINE r == [run[c] EXCEPT !.pc = "turn", !.asked = @ \cup {t}]
  <2>2. cost \in Nat
    BY RoomAssumption DEF Routed
  <2>3. handled' = handled /\ paid' = paid /\ run[c].node \in Nodes
    BY <2>0, <1>A DEF Resolve
  <2>4. r \in Run /\ Progress(r, handled')
    BY <1>T, <2>3 DEF Run, Running, Progress
  <2> QED
    BY <2>0, <1>H, <2>1, <2>2, <2>3, <2>4, ChargedMove DEF Resolve
<1>6. CASE HireHelper(c)
  <2>1. PICK t \in Topics :
          Charge(c, [run[c] EXCEPT !.pc = "turn", !.asked = @ \cup {t},
                                   !.midRoom = Saturated(@ + HelperPrice)], HelperPrice)
    BY <1>6 DEF HireHelper
  <2> DEFINE r == [run[c] EXCEPT !.pc = "turn", !.asked = @ \cup {t},
                                 !.midRoom = Saturated(@ + HelperPrice)]
  <2>2. HelperPrice \in Nat
    BY RoomAssumption
  <2>3. handled' = handled /\ paid' = paid /\ run[c].node \in Nodes
    BY <1>6, <1>A DEF HireHelper
  <2>4. Saturated(run[c].midRoom + HelperPrice) \in 0..Overspent
    BY <1>T, RoomAssumption, SaturatedType DEF Run
  <2>5. r \in Run /\ Progress(r, handled')
    BY <1>T, <2>3, <2>4 DEF Run, Running, Progress
  <2> QED
    BY <1>6, <1>H, <2>1, <2>2, <2>3, <2>5, ChargedMove DEF HireHelper
<1> QED
  BY <1>1, <1>2, <1>3, <1>4, <1>5, <1>6 DEF RunNode

\* The user, the kill endpoint and the death of a call.
LEMMA IInvOutside ==
  ASSUME NEW c \in Calls PROVE IInv /\ (Freeze \/ SignOffJob \/ Die(c)) => IInv'
<1> SUFFICES ASSUME IInv, Freeze \/ SignOffJob \/ Die(c) PROVE IInv'
  OBVIOUS
<1>1. CASE Freeze \/ SignOffJob
  <2>1. /\ UNCHANGED <<checkpoint, run>> /\ UNCHANGED <<handled, clean, chain, paid>>
        /\ frozen' \in {TRUE, frozen} /\ job' \in {"signed_off", job}
    BY <1>1 DEF Freeze, SignOffJob, history
  <2> QED
    BY <2>1 DEF IInv, TypeOK
<1>2. CASE Die(c)
  <2>1. UNCHANGED <<frozen, job, checkpoint>> /\ handled' = handled
    BY <1>2 DEF Die, store
  <2>2. clean' \in BOOLEAN
    BY <1>2 DEF Die
  <2>5. chain' \in 0..Overspent
    BY <1>2, RoomAssumption DEF Die, NewChain
  <2>4. paid' \in [Nodes -> 0..2]
    BY <1>2 DEF Die, NewChain, NothingPaid
  <2>3. /\ run' \in [Calls -> Run]
        /\ \A d \in Calls : Progress(run'[d], handled')
    BY <1>2, <2>1, NoRunIsRun, OneCallMoves DEF Die
  <2> QED
    BY <2>1, <2>2, <2>3, <2>4, <2>5 DEF IInv, TypeOK
<1> QED
  BY <1>1, <1>2

LEMMA IInvStep == IInv /\ [Next]_vars => IInv'
<1> SUFFICES ASSUME IInv, [Next]_vars PROVE IInv'
  OBVIOUS
<1>1. CASE \E c \in Calls : Begin(c) \/ RunRoom(c) \/ RunNode(c) \/ Die(c)
  BY <1>1, IInvBegin, IInvRunRoom, IInvRunNode, IInvOutside
<1>2. CASE Freeze \/ SignOffJob
  <2>1. /\ UNCHANGED <<checkpoint, run>> /\ UNCHANGED <<handled, clean, chain, paid>>
        /\ frozen' \in {TRUE, frozen} /\ job' \in {"signed_off", job}
    BY <1>2 DEF Freeze, SignOffJob, history
  <2> QED
    BY <2>1 DEF IInv, TypeOK
<1>3. CASE UNCHANGED vars
  <2>1. UNCHANGED <<frozen, job, checkpoint, run>> /\ UNCHANGED <<handled, clean, chain, paid>>
    BY <1>3 DEF vars, store, history
  <2> QED
    BY <2>1 DEF IInv, TypeOK
<1> QED
  BY <1>1, <1>2, <1>3 DEF Next

\* Every variable of the Room keeps its type, for any number of calls and nodes, any
\* budget, prices and limits: the meter never runs past a turn limit.
THEOREM RoomTypeCorrect == Spec => []TypeOK
<1>1. IInv => TypeOK
  BY DEF IInv
<1> QED
  BY <1>1, IInvInit, IInvStep, PTL DEF Spec

\* Resuming never skips work (run_room's done_nodes and the checkpoint), whatever
\* halts, dies, overlaps or is resumed.
THEOREM SkippedIsHandledCorrect == Spec => []SkippedIsHandled
<1>1. IInv => SkippedIsHandled
  BY DEF IInv, SkippedIsHandled, Progress
<1> QED
  BY <1>1, IInvInit, IInvStep, PTL DEF Spec

-----------------------------------------------------------------------------
(* The money of a chain of runs.                                           *)

\* The meter of a run, or of the checkpoint, has passed the ceiling by the last
\* deliverable at most.
WithinCap(x) == \E cost \in Routed : x <= Budget + cost

\* What a run can say of its own meter, and of the node it runs.
Metered(r) ==
  /\ WithinCap(r.spend)
  /\ r.pc \in {"turn", "event", "save"} => r.spend <= Budget
  /\ r.pc \in {"turn", "event"} => r.node \notin r.done

\* Between its load and its last checkpoint the meter of a run is ahead of the store's.
Metering == {"loop", "turn", "event", "save", "halt"}

\* What a meter and a set of finished nodes say of the chain: the meter covers what it
\* has charged; what it has paid for is finished, unless the price broke the ceiling.
Accounts(ch, pd, spend, nodes) ==
  /\ ch <= spend
  /\ \A n \in Nodes : pd[n] = 0 \/ (pd[n] = 1 /\ (n \in nodes \/ spend > Budget))

\* The nodes a run has finished, saved or about to be.
Finished(r) == r.done \cup (IF r.pc = "save" THEN {r.node} ELSE {})

\* The chain as one of its runs accounts for it; a fresh run starts a fresh chain.
Tally(r, ch, pd) ==
  /\ r.pc = "load" => ch = 0 /\ pd = NothingPaid
  /\ r.pc \in Metering => Accounts(ch, pd, r.spend, Finished(r))

\* The books of a clean chain: one run at a time, whose meter accounts for the chain;
\* between two runs the checkpoint does.
Books ==
  clean =>
    /\ \A c, d \in Calls : run[c].pc \in Running /\ run[d].pc \in Running => c = d
    /\ \A c \in Calls : Tally(run[c], chain, paid)
    /\ (\A c \in Calls : run[c].pc \notin Metering) =>
         Accounts(chain, paid, checkpoint.spend, checkpoint.nodes)

Meters == WithinCap(checkpoint.spend) /\ \A c \in Calls : Metered(run[c])

\* The inductive invariant about money.
ChainInv == IInv /\ Meters /\ Books

LEMMA RoutedCosts == Routed \subseteq Nat /\ 0 \in Routed
BY RoomAssumption DEF Routed

\* Nothing above the ceiling by nothing.
LEMMA BelowIsWithin == ASSUME NEW x \in Nat PROVE x <= Budget => WithinCap(x)
BY RoutedCosts, RoomAssumption DEF WithinCap

\* A new chain is accounted for by any meter.
LEMMA NewChainAccounts ==
  ASSUME NEW ch, NEW pd, NEW spend \in Nat, NEW nodes
  PROVE ch = 0 /\ pd = NothingPaid => Accounts(ch, pd, spend, nodes)
BY DEF Accounts, NothingPaid

\* A call that does not run has an empty meter and says nothing of the chain.
LEMMA NoRunIsMetered ==
  ASSUME NEW pc \in {"idle", "returned", "dead", "load", "reload"}
  PROVE Metered(NoRun(pc))
<1>1. WithinCap(0)
  BY BelowIsWithin, RoomAssumption
<1> QED
  BY <1>1 DEF Metered, NoRun

\* A step of a run that is under way: what it says of itself is enough, as no other
\* run of a clean chain is.
LEMMA ChainMoves ==
  ASSUME NEW c \in Calls, NEW r \in Run
  PROVE /\ ChainInv /\ IInv' /\ Become(c, r) /\ run[c].pc \in Running
        /\ Metered(r) /\ WithinCap(checkpoint'.spend)
        /\ clean' => clean
        /\ clean' => Tally(r, chain', paid')
        /\ clean' /\ r.pc \notin Metering =>
             Accounts(chain', paid', checkpoint'.spend, checkpoint'.nodes)
        => ChainInv'
<1> SUFFICES ASSUME ChainInv, IInv', Become(c, r), run[c].pc \in Running,
                    Metered(r), WithinCap(checkpoint'.spend),
                    clean' => clean, clean' => Tally(r, chain', paid'),
                    clean' /\ r.pc \notin Metering =>
                      Accounts(chain', paid', checkpoint'.spend, checkpoint'.nodes)
    PROVE ChainInv'
  OBVIOUS
<1>1. run \in [Calls -> Run] /\ run' = [run EXCEPT ![c] = r]
  BY DEF ChainInv, IInv, TypeOK, Become
<1>2. run'[c] = r /\ \A d \in Calls \ {c} : run'[d] = run[d]
  BY <1>1
<1>3. Meters'
  BY <1>2 DEF ChainInv, Meters
<1>4. ASSUME clean' PROVE \A d \in Calls \ {c} : run'[d].pc \notin Running
  BY <1>2, <1>4 DEF ChainInv, Books
<1>5. Books'
  <2> SUFFICES ASSUME clean'
        PROVE /\ \A b, d \in Calls : run'[b].pc \in Running /\ run'[d].pc \in Running => b = d
              /\ \A d \in Calls : Tally(run'[d], chain', paid')
              /\ (\A d \in Calls : run'[d].pc \notin Metering) =>
                   Accounts(chain', paid', checkpoint'.spend, checkpoint'.nodes)
    BY DEF Books
  <2>1. \A d \in Calls : Tally(run'[d], chain', paid')
    BY <1>2, <1>4 DEF Tally, Running, Metering
  <2> QED
    BY <1>2, <1>4, <2>1
<1> QED
  BY <1>3, <1>5 DEF ChainInv

\* A step that leaves the runs and the checkpoint alone keeps the books.
LEMMA ChainStays ==
  ChainInv /\ IInv' /\ UNCHANGED <<run, checkpoint, clean, chain, paid>> => ChainInv'
BY DEF ChainInv, Meters, Books

LEMMA ChainInit == Init => ChainInv
<1> SUFFICES ASSUME Init PROVE ChainInv
  OBVIOUS
<1>1. IInv
  BY IInvInit
<1>2. \A c \in Calls : run[c] = NoRun("idle") /\ run[c].pc = "idle"
  BY DEF Init, NoRun
<1>3. checkpoint.spend = 0 /\ checkpoint.nodes = {} /\ chain = 0 /\ paid = NothingPaid
  BY DEF Init, NoCheckpoint
<1>4. Meters
  <2>1. WithinCap(0)
    BY BelowIsWithin, RoomAssumption
  <2> QED
    BY <1>2, <1>3, <2>1, NoRunIsMetered DEF Meters
<1>5. Books
  <2>1. Accounts(chain, paid, checkpoint.spend, checkpoint.nodes)
    BY <1>3, NewChainAccounts
  <2> QED
    BY <1>2, <2>1 DEF Books, Tally, Running, Metering
<1> QED
  BY <1>1, <1>4, <1>5 DEF ChainInv

\* Entering the Room: a fresh call starts a chain, a resume goes on with one; neither is
\* clean unless the call is alone.
LEMMA ChainBegin == ASSUME NEW c \in Calls PROVE ChainInv /\ Begin(c) => ChainInv'
<1> SUFFICES ASSUME ChainInv, Begin(c) PROVE ChainInv'
  OBVIOUS
<1> DEFINE alone == \A d \in Calls : run[d].pc \notin Running
<1>1. IInv'
  BY IInvBegin DEF ChainInv
<1>2. PICK pc \in {"load", "reload"}, live \in BOOLEAN :
        /\ Become(c, [NoRun(pc) EXCEPT !.live = live])
        /\ \/ pc = "load" /\ clean' = alone /\ NewChain
           \/ /\ pc = "reload" /\ clean' = (clean /\ alone)
              /\ \/ alone /\ UNCHANGED <<chain, paid>>
                 \/ ~alone /\ NewChain
  BY DEF Begin
<1>3. UNCHANGED checkpoint
  BY DEF Begin
<1> DEFINE r == [NoRun(pc) EXCEPT !.live = live]
<1>4. r.pc = pc /\ Metered(r)
  <2>1. Metered(NoRun(pc))
    BY NoRunIsMetered
  <2> QED
    BY <2>1 DEF Metered, NoRun
<1> HIDE DEF r
<1>5. run'[c] = r /\ \A d \in Calls \ {c} : run'[d] = run[d]
  BY <1>2 DEF Become, ChainInv, IInv, TypeOK, r
<1>6. Meters'
  BY <1>3, <1>4, <1>5 DEF ChainInv, Meters
<1>7. ASSUME clean' PROVE alone
  BY <1>2, <1>7
<1>8. ASSUME clean'
      PROVE /\ Accounts(chain', paid', checkpoint'.spend, checkpoint'.nodes)
            /\ Tally(r, chain', paid')
  <2>1. CASE pc = "load"
    <3>1. chain' = 0 /\ paid' = NothingPaid
      BY <1>2, <2>1 DEF NewChain
    <3>2. checkpoint'.spend \in Nat
      BY <1>1 DEF IInv, TypeOK, Checkpoint
    <3> QED
      BY <1>4, <2>1, <3>1, <3>2, NewChainAccounts DEF Tally, Metering
  <2>2. CASE pc = "reload"
    <3>1. clean /\ UNCHANGED <<chain, paid>>
      BY <1>2, <1>7, <1>8, <2>2
    <3>2. Accounts(chain, paid, checkpoint.spend, checkpoint.nodes)
      BY <1>7, <1>8, <3>1 DEF ChainInv, Books, Running, Metering
    <3> QED
      BY <1>3, <1>4, <2>2, <3>1, <3>2 DEF Tally, Metering
  <2> QED
    BY <2>1, <2>2
<1>9. Books'
  <2> SUFFICES ASSUME clean'
        PROVE /\ \A b, d \in Calls : run'[b].pc \in Running /\ run'[d].pc \in Running => b = d
              /\ \A d \in Calls : Tally(run'[d], chain', paid')
              /\ Accounts(chain', paid', checkpoint'.spend, checkpoint'.nodes)
    BY DEF Books
  <2>1. \A d \in Calls \ {c} : run'[d].pc \notin Running
    BY <1>5, <1>7
  <2>2. \A d \in Calls : Tally(run'[d], chain', paid')
    BY <1>5, <1>8, <2>1 DEF Tally, Running, Metering
  <2> QED
    BY <1>8, <2>1, <2>2
<1> QED
  BY <1>1, <1>6, <1>9 DEF ChainInv

LEMMA ChainRunRoom == ASSUME NEW c \in Calls PROVE ChainInv /\ RunRoom(c) => ChainInv'
<1> SUFFICES ASSUME ChainInv, RunRoom(c) PROVE ChainInv'
  OBVIOUS
<1>I. IInv'
  BY IInvRunRoom DEF ChainInv
<1>T. run[c] \in Run /\ Metered(run[c]) /\ checkpoint \in Checkpoint
  BY DEF ChainInv, IInv, TypeOK, Meters
<1>W. WithinCap(checkpoint.spend)
  BY DEF ChainInv, Meters
<1>B. clean => Tally(run[c], chain, paid)
  BY DEF ChainInv, Books
<1>R. run[c].pc \in Running
  BY DEF RunRoom, Load, Reload, NextNode, SaveNode, Complete, Halt, Mark, At, Running
<1>1. CASE Load(c)
  <2>1. UNCHANGED <<checkpoint, clean, chain, paid>>
    BY <1>1 DEF Load, store, history
  <2>2. run[c].pc = "load" /\ checkpoint.spend \in Nat
    BY <1>1, <1>T DEF Load, At, Checkpoint
  <2>3. clean => chain = 0 /\ paid = NothingPaid
    BY <1>B, <2>2 DEF Tally
  <2>4. CASE Become(c, NoRun("returned"))
    <3>1. NoRun("returned") \in Run /\ Metered(NoRun("returned"))
      BY NoRunIsRun, NoRunIsMetered
    <3>2. clean => Accounts(chain, paid, checkpoint.spend, checkpoint.nodes)
      BY <2>2, <2>3, NewChainAccounts
    <3>3. Tally(NoRun("returned"), chain, paid)
      BY DEF Tally, NoRun, Metering
    <3> QED
      BY <1>I, <1>R, <1>W, <2>1, <2>4, <3>1, <3>2, <3>3, ChainMoves
  <2>5. CASE Goto(c, "loop")
    <3> DEFINE r == [run[c] EXCEPT !.pc = "loop"]
    <3>1. r \in Run /\ Metered(r) /\ r.pc = "loop"
      BY <1>T DEF Run, Running, Metered
    <3>2. clean => Tally(r, chain, paid)
      <4>1. r.spend \in Nat
        BY <3>1 DEF Run
      <4> QED
        BY <2>3, <3>1, <4>1, NewChainAccounts DEF Tally
    <3>3. r.pc \in Metering
      BY <3>1 DEF Metering
    <3> HIDE DEF r
    <3>4. Become(c, r)
      BY <2>5 DEF Goto, r
    <3> QED
      BY <1>I, <1>R, <1>W, <2>1, <3>1, <3>2, <3>3, <3>4, ChainMoves
  <2> QED
    BY <1>1, <2>4, <2>5 DEF Load
<1>2. CASE Reload(c)
  <2> DEFINE r == [run[c] EXCEPT !.pc = "loop", !.done = checkpoint.nodes,
                                 !.spend = checkpoint.spend]
  <2>1. UNCHANGED <<checkpoint, clean, chain, paid>> /\ Become(c, r)
    BY <1>2 DEF Reload, store, history
  <2>2. /\ r \in Run /\ Metered(r) /\ r.pc = "loop"
        /\ r.spend = checkpoint.spend /\ r.done = checkpoint.nodes
    BY <1>T, <1>W DEF Run, Running, Metered, Checkpoint
  <2>3. ASSUME clean PROVE Accounts(chain, paid, checkpoint.spend, checkpoint.nodes)
    <3>1. \A d \in Calls : run[d].pc \notin Metering
      BY <1>2, <1>R, <2>3 DEF ChainInv, Books, Reload, At, Running, Metering
    <3> QED
      BY <2>3, <3>1 DEF ChainInv, Books
  <2> HIDE DEF r
  <2>4. clean => Tally(r, chain, paid)
    BY <2>2, <2>3 DEF Tally, Finished
  <2> QED
    BY <1>I, <1>R, <1>W, <2>1, <2>2, <2>4, ChainMoves DEF Metering
<1>3. CASE NextNode(c)
  <2>1. PICK n \in Nodes \ run[c].done :
          \/ Become(c, Stopped(run[c], "budget_exceeded"))
          \/ /\ run[c].spend < Budget
             /\ Become(c, [run[c] EXCEPT !.pc = "turn", !.node = n, !.agent = "hired",
                                         !.agentTurns = [@ EXCEPT !["hired"] = 0],
                                         !.asked = {}])
    BY <1>3 DEF NextNode
  <2>2. UNCHANGED <<checkpoint, clean, chain, paid>> /\ run[c].pc = "loop"
    BY <1>3 DEF NextNode, At, store, history
  <2>3. PICK r \in Run : /\ Become(c, r)
                         /\ r.pc \in {"turn", "halt"} /\ r.spend = run[c].spend
                         /\ r.done = run[c].done
                         /\ r.pc = "turn" => r.spend < Budget /\ r.node \notin r.done
    <3>1. CASE Become(c, Stopped(run[c], "budget_exceeded"))
      <4> DEFINE r == Stopped(run[c], "budget_exceeded")
      <4>1. /\ r \in Run /\ r.pc = "halt"
            /\ r.spend = run[c].spend /\ r.done = run[c].done
        BY <1>T DEF Stopped, Run, Running, Halts
      <4> HIDE DEF r
      <4>2. Become(c, r)
        BY <3>1 DEF r
      <4> QED
        BY <4>1, <4>2
    <3>2. CASE /\ run[c].spend < Budget
               /\ Become(c, [run[c] EXCEPT !.pc = "turn", !.node = n, !.agent = "hired",
                                           !.agentTurns = [@ EXCEPT !["hired"] = 0],
                                           !.asked = {}])
      <4> DEFINE turns == [run[c].agentTurns EXCEPT !["hired"] = 0]
                 r == [run[c] EXCEPT !.pc = "turn", !.node = n, !.agent = "hired",
                                     !.agentTurns = turns, !.asked = {}]
      <4>1. run[c].agentTurns \in [Agents -> 0..AgentTurnLimit] /\ 0 \in 0..AgentTurnLimit
        BY <1>T, RoomAssumption DEF Run
      <4>2. turns \in [Agents -> 0..AgentTurnLimit]
        BY <4>1
      <4>3. n \in 0..NodeCount
        BY RoomAssumption DEF Nodes
      <4>4. Become(c, r)
        BY <3>2
      <4>5. r \in Run
        <5> HIDE DEF turns
        <5> QED
          BY <1>T, <4>2, <4>3 DEF Run, Running, Agents
      <4>6. r.pc = "turn" /\ r.spend = run[c].spend /\ r.done = run[c].done /\ r.node = n
        <5> HIDE DEF turns
        <5> QED
          BY <1>T DEF Run
      <4> HIDE DEF r
      <4> QED
        BY <3>2, <4>4, <4>5, <4>6
    <3> QED
      BY <2>1, <3>1, <3>2
  <2>4. Metered(r)
    BY <1>T, <2>3, RoomAssumption DEF Metered, Run
  <2>5. clean => Tally(r, chain, paid)
    BY <1>B, <2>2, <2>3 DEF Tally, Finished, Metering
  <2> QED
    BY <1>I, <1>R, <1>W, <2>2, <2>3, <2>4, <2>5, ChainMoves DEF Metering
<1>4. CASE SaveNode(c)
  <2> DEFINE done == run[c].done \cup {run[c].node}
             r == [run[c] EXCEPT !.pc = "loop", !.done = done]
  <2>1. /\ Become(c, r) /\ checkpoint'.spend = run[c].spend
        /\ UNCHANGED <<clean, chain, paid>> /\ run[c].pc = "save"
    BY <1>4 DEF SaveNode, At, history
  <2>2. done \subseteq Nodes
    BY <1>T, <2>1 DEF ChainInv, IInv, Progress, Run
  <2>3. r \in Run /\ r.pc = "loop" /\ r.spend = run[c].spend /\ r.done = done
    BY <1>T, <2>2 DEF Run, Running
  <2> HIDE DEF r
  <2>4. Metered(r) /\ WithinCap(checkpoint'.spend)
    BY <1>T, <2>1, <2>3 DEF Metered
  <2>5. clean => Tally(r, chain, paid)
    BY <1>B, <2>1, <2>3 DEF Tally, Finished, Metering
  <2> QED
    BY <1>I, <1>R, <2>1, <2>3, <2>4, <2>5, ChainMoves DEF Metering
<1>5. CASE Complete(c)
  <2> DEFINE r == [run[c] EXCEPT !.pc = "mark", !.outcome = "completed"]
  <2>1. /\ Become(c, r) /\ checkpoint'.spend = 0 /\ clean' = clean
        /\ chain' = 0 /\ paid' = NothingPaid
    BY <1>5 DEF Complete, NoCheckpoint, NewChain
  <2>2. r \in Run /\ Metered(r) /\ r.pc = "mark"
    BY <1>T DEF Run, Running, Metered
  <2> HIDE DEF r
  <2>3. WithinCap(checkpoint'.spend)
    BY <2>1, BelowIsWithin, RoomAssumption
  <2>4. Accounts(chain', paid', checkpoint'.spend, checkpoint'.nodes)
    BY <2>1, NewChainAccounts
  <2>5. Tally(r, chain', paid')
    BY <2>2 DEF Tally, Metering
  <2> QED
    BY <1>I, <1>R, <2>1, <2>2, <2>3, <2>4, <2>5, ChainMoves
<1>6. CASE Halt(c)
  <2> DEFINE r == [run[c] EXCEPT !.pc = "mark"]
  <2>1. /\ Become(c, r) /\ UNCHANGED <<clean, chain, paid>> /\ run[c].pc = "halt"
        /\ checkpoint'.spend = run[c].spend /\ checkpoint'.nodes = run[c].done
    BY <1>6 DEF Halt, At, Goto, history
  <2>2. r \in Run /\ Metered(r) /\ r.pc = "mark"
    BY <1>T DEF Run, Running, Metered
  <2> HIDE DEF r
  <2>3. WithinCap(checkpoint'.spend)
    BY <1>T, <2>1 DEF Metered
  <2>4. clean => Accounts(chain, paid, checkpoint'.spend, checkpoint'.nodes)
    BY <1>B, <2>1 DEF Tally, Finished, Metering
  <2>5. Tally(r, chain, paid)
    BY <2>2 DEF Tally, Metering
  <2> QED
    BY <1>I, <1>R, <2>1, <2>2, <2>3, <2>4, <2>5, ChainMoves
<1>7. CASE Mark(c)
  <2>1. /\ Become(c, NoRun("returned")) /\ UNCHANGED <<checkpoint, clean, chain, paid>>
        /\ run[c].pc = "mark"
    BY <1>7 DEF Mark, At, history
  <2>2. NoRun("returned") \in Run /\ Metered(NoRun("returned"))
    BY NoRunIsRun, NoRunIsMetered
  <2>3. ASSUME clean PROVE Accounts(chain, paid, checkpoint.spend, checkpoint.nodes)
    <3>1. \A d \in Calls : run[d].pc \notin Metering
      BY <1>R, <2>1, <2>3 DEF ChainInv, Books, Running, Metering
    <3> QED
      BY <2>3, <3>1 DEF ChainInv, Books
  <2>4. Tally(NoRun("returned"), chain, paid)
    BY DEF Tally, NoRun, Metering
  <2> QED
    BY <1>I, <1>R, <1>W, <2>1, <2>2, <2>3, <2>4, ChainMoves
<1> QED
  BY <1>1, <1>2, <1>3, <1>4, <1>5, <1>6, <1>7 DEF RunRoom

\* A run under way is charged: below the ceiling it goes on, above it stops, and then
\* the deliverable it has just paid for is the last.
LEMMA ChainCharged ==
  ASSUME NEW c \in Calls, NEW r \in Run, NEW cost \in Nat
  PROVE /\ ChainInv /\ IInv' /\ At(c, "event") /\ Charge(c, r, cost)
        /\ r.pc \in {"turn", "save"} /\ r.node = run[c].node
        /\ r.spend = run[c].spend /\ r.done = run[c].done
        /\ WithinCap(run[c].spend + cost)
        /\ UNCHANGED <<checkpoint, clean>>
        /\ clean => \A n \in Nodes :
             \/ paid'[n] = paid[n]
             \/ r.pc = "save" /\ n = r.node /\ paid'[n] = paid[n] + 1
        => ChainInv'
<1> SUFFICES ASSUME ChainInv, IInv', At(c, "event"), Charge(c, r, cost),
                    r.pc \in {"turn", "save"}, r.node = run[c].node,
                    r.spend = run[c].spend, r.done = run[c].done,
                    WithinCap(run[c].spend + cost),
                    UNCHANGED <<checkpoint, clean>>,
                    clean => \A n \in Nodes :
                      \/ paid'[n] = paid[n]
                      \/ r.pc = "save" /\ n = r.node /\ paid'[n] = paid[n] + 1
    PROVE ChainInv'
  OBVIOUS
<1>T. /\ run[c] \in Run /\ run[c].spend \in Nat
      /\ Metered(run[c]) /\ run[c].pc = "event" /\ run[c].node \notin run[c].done
  BY DEF ChainInv, IInv, TypeOK, Meters, At, Run, Metered
<1>B. clean => Accounts(chain, paid, run[c].spend, run[c].done)
  BY <1>T DEF ChainInv, Books, Tally, Finished, Metering
<1>W. WithinCap(checkpoint'.spend) /\ (clean' => clean)
  BY DEF ChainInv, Meters
<1> DEFINE spent == run[c].spend + cost
           s == [r EXCEPT !.spend = @ + cost]
<1>1. PICK q \in Run : /\ Become(c, q) /\ q.spend = spent /\ q.done = run[c].done
                       /\ q.node = run[c].node
                       /\ \/ q.pc = "halt" /\ spent > Budget
                          \/ q.pc = r.pc /\ spent <= Budget
  <2>1. /\ s \in Run /\ s.spend = spent /\ s.done = run[c].done /\ s.node = run[c].node
        /\ s.pc = r.pc
    BY <1>T DEF Run
  <2>2. \/ spent > Budget /\ Become(c, Stopped(s, "budget_exceeded"))
        \/ spent <= Budget /\ Become(c, s)
    BY <2>1 DEF Charge
  <2> HIDE DEF s
  <2>3. CASE spent <= Budget /\ Become(c, s)
    BY <2>1, <2>3
  <2>4. CASE spent > Budget /\ Become(c, Stopped(s, "budget_exceeded"))
    <3> DEFINE q == Stopped(s, "budget_exceeded")
    <3>1. /\ q \in Run /\ q.pc = "halt" /\ q.spend = s.spend /\ q.done = s.done
          /\ q.node = s.node
      BY <2>1 DEF Stopped, Run, Running, Halts
    <3> HIDE DEF q
    <3>2. Become(c, q)
      BY <2>4 DEF q
    <3> QED
      BY <2>1, <2>4, <3>1, <3>2
  <2> QED
    BY <2>2, <2>3, <2>4
<1>2. Metered(q)
  BY <1>T, <1>1 DEF Metered
<1>3. ASSUME clean PROVE chain' <= spent
  <2>1. chain \in Nat /\ chain <= run[c].spend /\ chain' = Saturated(chain + cost)
    BY <1>B, <1>3 DEF Accounts, Charge, ChainInv, IInv, TypeOK
  <2>2. chain + cost <= spent /\ Saturated(chain + cost) <= chain + cost
    BY <1>T, <2>1, RoomAssumption DEF Saturated
  <2>3. Saturated(chain + cost) \in Nat
    BY <2>1, RoomAssumption DEF Saturated
  <2> QED
    BY <1>T, <2>1, <2>2, <2>3
<1>4. ASSUME clean, NEW n \in Nodes
      PROVE paid'[n] = 0 \/ (paid'[n] = 1 /\ (n \in Finished(q) \/ spent > Budget))
  <2>1. paid[n] = 0 \/ (paid[n] = 1 /\ n \in run[c].done)
    BY <1>B, <1>T, <1>4, RoomAssumption DEF Accounts, Metered
  <2>2. CASE paid'[n] = paid[n]
    BY <1>1, <2>1, <2>2 DEF Finished
  <2>3. CASE r.pc = "save" /\ n = r.node /\ paid'[n] = paid[n] + 1
    <3>1. paid'[n] = 1
      BY <1>T, <2>1, <2>3
    <3> QED
      BY <1>1, <2>3, <3>1 DEF Finished
  <2> QED
    BY <1>4, <2>2, <2>3
<1>5. clean' => Tally(q, chain', paid') /\ q.pc \in Metering
  BY <1>1, <1>3, <1>4, <1>W DEF Tally, Accounts, Metering
<1> QED
  BY <1>1, <1>2, <1>5, <1>W, <1>T, ChainMoves DEF Running

LEMMA ChainRunNode == ASSUME NEW c \in Calls PROVE ChainInv /\ RunNode(c) => ChainInv'
<1> SUFFICES ASSUME ChainInv, RunNode(c) PROVE ChainInv'
  OBVIOUS
<1>I. IInv'
  BY IInvRunNode DEF ChainInv
<1>T. run[c] \in Run /\ Metered(run[c]) /\ run[c].spend \in Nat
  BY DEF ChainInv, IInv, TypeOK, Meters, Run
<1>W. WithinCap(checkpoint.spend)
  BY DEF ChainInv, Meters
<1>B. clean => Tally(run[c], chain, paid)
  BY DEF ChainInv, Books
\* A run that goes on within its node, uncharged.
<1>M. ASSUME NEW r \in Run, Become(c, r), run[c].pc \in {"turn", "event"},
             r.pc \in {"turn", "event", "save", "halt"},
             r.spend = run[c].spend, r.done = run[c].done, r.node = run[c].node,
             UNCHANGED <<checkpoint, clean, chain, paid>>
      PROVE ChainInv'
  <2>1. Metered(r)
    BY <1>M, <1>T DEF Metered
  <2>2. clean => Tally(r, chain, paid)
    BY <1>M, <1>B DEF Tally, Accounts, Finished, Metering
  <2>3. run[c].pc \in Running /\ r.pc \in Metering
    BY <1>M DEF Running, Metering
  <2> QED
    BY <1>I, <1>M, <1>W, <2>1, <2>2, <2>3, ChainMoves
<1>1. CASE Turn(c)
  <2>1. run[c].pc = "turn" /\ UNCHANGED <<checkpoint, clean, chain, paid>>
    BY <1>1 DEF Turn, At, store, history
  <2>2. CASE \E reason \in Halts : Become(c, Stopped(run[c], reason))
    <3>1. PICK reason \in Halts : Become(c, Stopped(run[c], reason))
      BY <2>2
    <3> DEFINE r == Stopped(run[c], reason)
    <3>2. /\ r \in Run /\ r.pc = "halt" /\ r.spend = run[c].spend
          /\ r.done = run[c].done /\ r.node = run[c].node
      BY <1>T DEF Stopped, Run, Running
    <3> HIDE DEF r
    <3>3. Become(c, r)
      BY <3>1 DEF r
    <3> QED
      BY <1>M, <2>1, <3>2, <3>3
  <2> DEFINE agent == run[c].agent
             turned == [run[c].agentTurns EXCEPT ![agent] = @ + 1]
             r == [run[c] EXCEPT !.pc = "event", !.turns = @ + 1, !.agentTurns = turned]
  <2>3. CASE /\ Become(c, r) /\ run[c].turns < RoomTurnLimit
             /\ run[c].agentTurns[agent] < AgentTurnLimit
    <3>1. run[c].turns + 1 \in 0..RoomTurnLimit
      BY <1>T, <2>3, RoomAssumption DEF Run
    <3>2. run[c].agentTurns \in [Agents -> 0..AgentTurnLimit] /\ agent \in Agents
      BY <1>T DEF Run
    <3>3. turned \in [Agents -> 0..AgentTurnLimit]
      BY <2>3, <3>2, RoomAssumption
    <3>4. /\ r \in Run /\ r.pc = "event" /\ r.spend = run[c].spend
          /\ r.done = run[c].done /\ r.node = run[c].node
      <4> HIDE DEF turned
      <4> QED
        BY <1>T, <3>1, <3>3 DEF Run, Running
    <3>5. Become(c, r)
      BY <2>3
    <3> HIDE DEF r
    <3> QED
      BY <1>M, <2>1, <3>4, <3>5
  <2> QED
    BY <1>1, <2>2, <2>3 DEF Turn, Halts
<1>2. CASE Deliver(c)
  <2> DEFINE r == [run[c] EXCEPT !.pc = "save"]
  <2>1. PICK cost \in Routed : Charge(c, r, cost)
    BY <1>2 DEF Deliver
  <2>2. cost \in Nat /\ At(c, "event") /\ UNCHANGED <<checkpoint, clean>>
    BY <1>2, RoutedCosts DEF Deliver, store
  <2>3. /\ r \in Run /\ r.pc = "save" /\ r.spend = run[c].spend
        /\ r.done = run[c].done /\ r.node = run[c].node
    BY <1>T DEF Run, Running
  <2>4. WithinCap(run[c].spend + cost)
    <3>1. run[c].spend <= Budget
      BY <1>T, <2>2 DEF At, Metered
    <3> QED
      BY <1>T, <2>2, <3>1, RoomAssumption DEF WithinCap
  <2>5. \A n \in Nodes : paid'[n] = paid[n] \/ (n = run[c].node /\ paid'[n] = paid[n] + 1)
    <3>1. paid \in [Nodes -> 0..2]
      BY DEF ChainInv, IInv, TypeOK
    <3>2. \/ paid' = [paid EXCEPT ![run[c].node] = @ + 1]
          \/ paid' = [paid EXCEPT ![run[c].node] = @]
      BY <1>2 DEF Deliver
    <3> QED
      BY <3>1, <3>2
  <2> HIDE DEF r
  <2> QED
    BY <1>I, <2>1, <2>2, <2>3, <2>4, <2>5, ChainCharged
<1>3. CASE GiveUp(c) \/ Blocked(c) \/ Replace(c)
  <2>1. PICK r \in Run : /\ Become(c, r) /\ r.pc \in {"turn", "save"}
                         /\ r.spend = run[c].spend /\ r.done = run[c].done
                         /\ r.node = run[c].node
    <3>1. CASE GiveUp(c) \/ Blocked(c)
      <4> DEFINE r == [run[c] EXCEPT !.pc = "save"]
      <4>1. /\ r \in Run /\ r.pc = "save" /\ r.spend = run[c].spend
            /\ r.done = run[c].done /\ r.node = run[c].node
        BY <1>T DEF Run, Running
      <4>2. Become(c, r)
        BY <3>1 DEF GiveUp, Blocked, Goto
      <4> HIDE DEF r
      <4> QED
        BY <4>1, <4>2
    <3>2. CASE Replace(c)
      <4> DEFINE r == [run[c] EXCEPT !.pc = "turn", !.agent = "replacement",
                                     !.midRoom = Saturated(@ + ReplacementPrice)]
      <4>1. Saturated(run[c].midRoom + ReplacementPrice) \in 0..Overspent
        BY <1>T, RoomAssumption, SaturatedType DEF Run
      <4>2. /\ r \in Run /\ r.pc = "turn" /\ r.spend = run[c].spend
            /\ r.done = run[c].done /\ r.node = run[c].node
        BY <1>T, <4>1 DEF Run, Running, Agents
      <4>3. Become(c, r)
        BY <3>2 DEF Replace
      <4> HIDE DEF r
      <4> QED
        BY <4>2, <4>3
    <3> QED
      BY <1>3, <3>1, <3>2
  <2>2. run[c].pc = "event" /\ UNCHANGED <<checkpoint, clean, chain, paid>>
    BY <1>3 DEF GiveUp, Blocked, Replace, Undelivered, At, store, history
  <2> QED
    BY <1>M, <2>1, <2>2
<1>5. CASE Answer(c)
  <2>0. PICK cost \in Routed : Resolve(c, cost)
    BY <1>5 DEF Answer, Recall, Poll, Routed
  <2>1. PICK t \in Topics :
          Charge(c, [run[c] EXCEPT !.pc = "turn", !.asked = @ \cup {t}], cost)
    BY <2>0 DEF Resolve
  <2> DEFINE r == [run[c] EXCEPT !.pc = "turn", !.asked = @ \cup {t}]
  <2>2. cost \in Nat /\ At(c, "event") /\ UNCHANGED <<checkpoint, clean, paid>>
    BY <2>0, RoutedCosts DEF Resolve, store
  <2>3. /\ r \in Run /\ r.pc = "turn" /\ r.spend = run[c].spend
        /\ r.done = run[c].done /\ r.node = run[c].node
    BY <1>T DEF Run, Running
  <2>4. WithinCap(run[c].spend + cost)
    <3>1. run[c].spend <= Budget
      BY <1>T, <2>2 DEF At, Metered
    <3> QED
      BY <1>T, <2>2, <3>1, RoomAssumption DEF WithinCap
  <2> HIDE DEF r
  <2>5. Charge(c, r, cost)
    BY <2>1 DEF r
  <2> QED
    BY <1>I, <2>2, <2>3, <2>4, <2>5, ChainCharged
<1>6. CASE HireHelper(c)
  <2>1. PICK t \in Topics :
          Charge(c, [run[c] EXCEPT !.pc = "turn", !.asked = @ \cup {t},
                                   !.midRoom = Saturated(@ + HelperPrice)], HelperPrice)
    BY <1>6 DEF HireHelper
  <2> DEFINE r == [run[c] EXCEPT !.pc = "turn", !.asked = @ \cup {t},
                                 !.midRoom = Saturated(@ + HelperPrice)]
  <2>2. /\ HelperPrice \in Nat /\ At(c, "event") /\ UNCHANGED <<checkpoint, clean, paid>>
        /\ run[c].spend + HelperPrice <= Budget
    BY <1>6, RoomAssumption DEF HireHelper, Affordable, store
  <2>3. Saturated(run[c].midRoom + HelperPrice) \in 0..Overspent
    BY <1>T, RoomAssumption, SaturatedType DEF Run
  <2>4. /\ r \in Run /\ r.pc = "turn" /\ r.spend = run[c].spend
        /\ r.done = run[c].done /\ r.node = run[c].node
    BY <1>T, <2>3 DEF Run, Running
  <2>5. WithinCap(run[c].spend + HelperPrice)
    BY <1>T, <2>2, BelowIsWithin
  <2> HIDE DEF r
  <2>6. Charge(c, r, HelperPrice)
    BY <2>1 DEF r
  <2> QED
    BY <1>I, <2>2, <2>4, <2>5, <2>6, ChainCharged
<1> QED
  BY <1>1, <1>2, <1>3, <1>5, <1>6 DEF RunNode

\* A death breaks the chain: its books are closed.
LEMMA ChainDie == ASSUME NEW c \in Calls PROVE ChainInv /\ Die(c) => ChainInv'
<1> SUFFICES ASSUME ChainInv, Die(c) PROVE ChainInv'
  OBVIOUS
<1>1. IInv'
  BY IInvOutside DEF ChainInv
<1>2. /\ Become(c, NoRun("dead")) /\ run[c].pc \in Running
      /\ checkpoint' = checkpoint /\ ~clean'
  BY DEF Die, store
<1>3. NoRun("dead") \in Run /\ Metered(NoRun("dead"))
  BY NoRunIsRun, NoRunIsMetered
<1> QED
  BY <1>1, <1>2, <1>3, ChainMoves DEF ChainInv, Meters

LEMMA ChainStep == ChainInv /\ [Next]_vars => ChainInv'
<1> SUFFICES ASSUME ChainInv, [Next]_vars PROVE ChainInv'
  OBVIOUS
<1>1. IInv'
  BY IInvStep DEF ChainInv
<1>2. CASE \E c \in Calls : Begin(c) \/ RunRoom(c) \/ RunNode(c) \/ Die(c)
  BY <1>2, ChainBegin, ChainRunRoom, ChainRunNode, ChainDie
<1>3. CASE Freeze \/ SignOffJob \/ UNCHANGED vars
  <2>1. UNCHANGED <<run, checkpoint, clean, chain, paid>>
    BY <1>3 DEF Freeze, SignOffJob, vars, store, history
  <2> QED
    BY <1>1, <2>1, ChainStays
<1> QED
  BY <1>2, <1>3 DEF Next

\* In a clean chain the last charge of the meter covers the chain.
LEMMA ChainIsCovered ==
  ChainInv /\ clean => \E spend \in Nat : \E nodes :
    WithinCap(spend) /\ Accounts(chain, paid, spend, nodes)
<1> SUFFICES ASSUME ChainInv, clean
    PROVE \E spend \in Nat : \E nodes :
            WithinCap(spend) /\ Accounts(chain, paid, spend, nodes)
  OBVIOUS
<1>1. CASE \E c \in Calls : run[c].pc \in Metering
  <2>1. PICK c \in Calls : run[c].pc \in Metering
    BY <1>1
  <2>2. WithinCap(run[c].spend) /\ run[c].spend \in Nat
    BY DEF ChainInv, Meters, Metered, IInv, TypeOK, Run
  <2>3. Accounts(chain, paid, run[c].spend, Finished(run[c]))
    BY <2>1 DEF ChainInv, Books, Tally
  <2> QED
    BY <2>2, <2>3
<1>2. CASE \A c \in Calls : run[c].pc \notin Metering
  <2>1. WithinCap(checkpoint.spend) /\ checkpoint.spend \in Nat
    BY DEF ChainInv, Meters, IInv, TypeOK, Checkpoint
  <2>2. Accounts(chain, paid, checkpoint.spend, checkpoint.nodes)
    BY <1>2 DEF ChainInv, Books
  <2> QED
    BY <2>1, <2>2
<1> QED
  BY <1>1, <1>2

LEMMA ChainAlways == Spec => []ChainInv
BY ChainInit, ChainStep, PTL DEF Spec

\* The money cap holds across halts and resumes (check_budget, charge and the meter in
\* the checkpoint): a fresh run and the runs that resume it charge at most one routed
\* step beyond the ceiling, whatever is hired, replaced, frozen or marked.
THEOREM ChainWithinCapCorrect == Spec => []ChainWithinCap
<1>1. ChainInv => ChainWithinCap
  <2> SUFFICES ASSUME ChainInv, clean PROVE \E cost \in Routed : chain <= Budget + cost
    BY DEF ChainWithinCap
  <2>1. PICK spend \in Nat : WithinCap(spend) /\ chain <= spend
    BY ChainIsCovered DEF Accounts
  <2>2. PICK cost \in Routed : spend <= Budget + cost
    BY <2>1 DEF WithinCap
  <2>3. chain \in Nat /\ cost \in Nat /\ Budget \in Nat
    BY RoutedCosts, RoomAssumption DEF ChainInv, IInv, TypeOK
  <2> QED
    BY <2>1, <2>2, <2>3
<1> QED
  BY <1>1, ChainAlways, PTL

\* Along a chain of runs no deliverable is paid for twice (done_nodes and the checkpoint),
\* the one whose price broke the ceiling included, although no checkpoint lists it.
THEOREM ChainPaysOnceCorrect == Spec => []ChainPaysOnce
<1>1. ChainInv => ChainPaysOnce
  <2> SUFFICES ASSUME ChainInv, clean, NEW n \in Nodes PROVE paid[n] <= 1
    BY DEF ChainPaysOnce
  <2>1. paid[n] = 0 \/ paid[n] = 1
    BY ChainIsCovered DEF Accounts
  <2> QED
    BY <2>1
<1> QED
  BY <1>1, ChainAlways, PTL

-----------------------------------------------------------------------------
(* How long a run can be, and what it can owe to the specialists it hires. *)

\* The nodes a run still has before it.
Left(done) == Cardinality(Nodes \ done)

\* An upper bound of the steps a run has before it: every turn takes two steps, the
\* turn and what the agent does in it, and so do the entry and the checkpoint of a node.
Distance(r) ==
  CASE r.pc \in {"load", "reload"} -> 2 * RoomTurnLimit + 2 * NodeCount + 5
    [] r.pc \in {"loop", "event"} -> 2 * (RoomTurnLimit - r.turns) + 2 * Left(r.done) + 4
    [] r.pc \in {"turn", "save"} -> 2 * (RoomTurnLimit - r.turns) + 2 * Left(r.done) + 3
    [] r.pc = "halt" -> 2
    [] r.pc = "mark" -> 1
    [] OTHER -> 0

\* The safety half of EventuallyReturns: whatever a call under way does, and whatever
\* the other calls, the user and the kill endpoint do, it comes nearer to its return.
RunsShorten ==
  [][\A c \in Calls : run[c].pc \in Running =>
       run'[c] = run[c] \/ Distance(run'[c]) < Distance(run[c])]_vars

\* What the code guarantees in place of MidRoomWithinCap: helpers are within the ceiling,
\* and every turn can have opened one more escrow for a replacement.
MidRoomBounded ==
  \A c \in Calls : run[c].midRoom <= Budget + RoomTurnLimit * ReplacementPrice

\* What replacements can have cost after so many turns.
Earned(turns) == turns * ReplacementPrice

\* A turn that has begun can still hire a replacement.
Pending(r) == IF r.pc = "event" THEN ReplacementPrice ELSE 0

\* What a run under way can say of its node and of its escrows.
InRun(r) ==
  /\ r.pc \in {"turn", "event", "save"} => r.node \in Nodes \ r.done
  /\ r.pc \in {"load", "reload"} => r.midRoom = 0
  /\ r.midRoom + Pending(r) <= r.spend + Earned(r.turns)
  /\ r.midRoom + Pending(r) <= Budget + Earned(r.turns)

RunInv == IInv /\ \A c \in Calls : InRun(run[c])

LEMMA LeftType == ASSUME NEW done PROVE Left(done) \in 0..NodeCount
<1>1. NodeCount \in Nat \ {0} /\ 1 \in Int /\ NodeCount \in Int
  BY RoomAssumption
<1>2. IsFiniteSet(Nodes) /\ Cardinality(Nodes) = NodeCount
  BY <1>1, FS_Interval DEF Nodes
<1>3. Nodes \ done \in SUBSET Nodes
  OBVIOUS
<1>4. IsFiniteSet(Nodes \ done) /\ Cardinality(Nodes \ done) <= NodeCount
  BY <1>2, <1>3, FS_Subset
<1>5. Cardinality(Nodes \ done) \in Nat
  BY <1>4, FS_CardinalityType
<1> QED
  BY <1>1, <1>4, <1>5 DEF Left

\* A node taken as done is one less.
LEMMA LeftShrinks ==
  ASSUME NEW done, NEW n \in Nodes \ done
  PROVE Left(done \cup {n}) = Left(done) - 1
<1>1. NodeCount \in Nat \ {0} /\ 1 \in Int /\ NodeCount \in Int
  BY RoomAssumption
<1>2. IsFiniteSet(Nodes) /\ Nodes \ done \in SUBSET Nodes
  BY <1>1, FS_Interval DEF Nodes
<1>3. IsFiniteSet(Nodes \ done)
  BY <1>2, FS_Subset
<1>4. Cardinality((Nodes \ done) \ {n}) = Cardinality(Nodes \ done) - 1
  BY <1>3, FS_RemoveElement
<1>5. Nodes \ (done \cup {n}) = (Nodes \ done) \ {n}
  OBVIOUS
<1> QED
  BY <1>4, <1>5 DEF Left

\* The bound, station by station.
LEMMA DistanceIs ==
  ASSUME NEW r \in Run
  PROVE /\ r.pc \in {"load", "reload"} =>
             Distance(r) = 2 * RoomTurnLimit + 2 * NodeCount + 5
        /\ r.pc \in {"loop", "event"} =>
             Distance(r) = 2 * (RoomTurnLimit - r.turns) + 2 * Left(r.done) + 4
        /\ r.pc \in {"turn", "save"} =>
             Distance(r) = 2 * (RoomTurnLimit - r.turns) + 2 * Left(r.done) + 3
        /\ r.pc = "halt" => Distance(r) = 2
        /\ r.pc = "mark" => Distance(r) = 1
        /\ r.pc \in {"idle", "returned", "dead"} => Distance(r) = 0
BY DEF Distance

\* The numbers of a run.
LEMMA RunNumbers ==
  ASSUME NEW r \in Run
  PROVE /\ RoomTurnLimit \in Nat /\ NodeCount \in Nat
        /\ r.turns \in Nat /\ r.turns <= RoomTurnLimit
        /\ Left(r.done) \in Nat /\ Left(r.done) <= NodeCount
        /\ r.spend \in Nat /\ r.midRoom \in Nat
        /\ Budget \in Nat /\ ReplacementPrice \in Nat /\ HelperPrice \in Nat
        /\ Earned(r.turns) \in Nat
<1>1. /\ RoomTurnLimit \in Nat /\ NodeCount \in Nat
      /\ Budget \in Nat /\ ReplacementPrice \in Nat /\ HelperPrice \in Nat
      /\ Overspent \in Nat
  BY RoomAssumption
<1>2. /\ r.turns \in Nat /\ r.turns <= RoomTurnLimit
      /\ r.spend \in Nat /\ r.midRoom \in Nat
  BY <1>1 DEF Run
<1>3. Left(r.done) \in Nat /\ Left(r.done) <= NodeCount
  BY <1>1, LeftType
<1>4. Earned(r.turns) \in Nat
  BY <1>1, <1>2 DEF Earned
<1> QED
  BY <1>1, <1>2, <1>3, <1>4

\* One turn more, one replacement more.
LEMMA EarnedGrows ==
  ASSUME NEW t \in Nat PROVE Earned(t + 1) = Earned(t) + ReplacementPrice
<1>1. ReplacementPrice \in Nat
  BY RoomAssumption
<1> QED
  BY <1>1 DEF Earned

\* As many as the limit of turns allows.
LEMMA EarnedBounded ==
  ASSUME NEW t \in Nat, t <= RoomTurnLimit
  PROVE Earned(t) <= RoomTurnLimit * ReplacementPrice
<1>1. RoomTurnLimit \in Nat /\ ReplacementPrice \in Nat
  BY RoomAssumption
<1>2. PICK k \in Nat : RoomTurnLimit = t + k
  <2>1. RoomTurnLimit - t \in Nat /\ RoomTurnLimit = t + (RoomTurnLimit - t)
    BY <1>1
  <2> QED
    BY <2>1
<1>3. (t + k) * ReplacementPrice = t * ReplacementPrice + k * ReplacementPrice
  BY <1>1
<1>4. t * ReplacementPrice \in Nat /\ k * ReplacementPrice \in Nat
  BY <1>1
<1> QED
  BY <1>2, <1>3, <1>4 DEF Earned

LEMMA NoRunInRun ==
  ASSUME NEW pc \in {"idle", "returned", "dead", "load", "reload"}, NEW live \in BOOLEAN
  PROVE InRun([NoRun(pc) EXCEPT !.live = live]) /\ InRun(NoRun(pc))
<1>1. Budget \in Nat /\ Earned(0) = 0
  BY RoomAssumption DEF Earned
<1> QED
  BY <1>1 DEF InRun, NoRun, Pending

\* A call under way that moves to x comes nearer to its return and keeps its books.
Nearer(x, r) == InRun(x) /\ Distance(x) < Distance(r)

\* A stop keeps the books, and the return is two steps away.
LEMMA StopIsNear ==
  ASSUME NEW r \in Run, NEW reason
  PROVE InRun(r) => InRun(Stopped(r, reason)) /\ Distance(Stopped(r, reason)) = 2
<1> DEFINE x == Stopped(r, reason)
<1>1. x.pc = "halt" /\ x.spend = r.spend /\ x.turns = r.turns /\ x.midRoom = r.midRoom
  BY DEF Stopped, Run
<1> HIDE DEF x
<1>2. Pending(r) \in Nat /\ Pending(x) = 0
  BY <1>1, RunNumbers DEF Pending
<1>3. InRun(r) => InRun(x)
  BY <1>1, <1>2, RunNumbers DEF InRun
<1>4. Distance(x) = 2
  BY <1>1 DEF Distance
<1> QED
  BY <1>3, <1>4 DEF x

\* A call entering the room, taking a node up, saving it, or leaving.
LEMMA RoomNearer ==
  ASSUME NEW c \in Calls
  PROVE RunInv /\ RunRoom(c) => \E x : Become(c, x) /\ Nearer(x, run[c])
<1> SUFFICES ASSUME RunInv, RunRoom(c) PROVE \E x : Become(c, x) /\ Nearer(x, run[c])
  OBVIOUS
<1> DEFINE r == run[c]
<1>T. r \in Run /\ InRun(r) /\ checkpoint \in Checkpoint
  BY DEF RunInv, IInv, TypeOK
<1>N. /\ RoomTurnLimit \in Nat /\ NodeCount \in Nat
      /\ r.turns \in Nat /\ r.turns <= RoomTurnLimit
      /\ Left(r.done) \in Nat /\ Left(r.done) <= NodeCount
      /\ r.spend \in Nat /\ r.midRoom \in Nat
      /\ Budget \in Nat /\ Earned(r.turns) \in Nat
  BY <1>T, RunNumbers
<1>R. InRun(NoRun("returned")) /\ Distance(NoRun("returned")) = 0
  BY NoRunInRun DEF Distance, NoRun
<1>1. CASE Load(c)
  <2>0. Distance(r) = 2 * RoomTurnLimit + 2 * NodeCount + 5
    BY <1>1, <1>T, DistanceIs DEF Load, At
  <2>1. CASE Become(c, NoRun("returned"))
    <3>1. Distance(r) > 0
      BY <1>N, <2>0
    <3> QED
      BY <2>1, <3>1, <1>R DEF Nearer
  <2>2. CASE Goto(c, "loop")
    <3> DEFINE x == [r EXCEPT !.pc = "loop"]
    <3>1. x.pc = "loop" /\ x.turns = r.turns /\ x.done = r.done /\ x.spend = r.spend /\ x.midRoom = r.midRoom
      BY <1>T DEF Run
    <3>2. Become(c, x)
      BY <2>2 DEF Goto
    <3> HIDE DEF x
    <3>3. Distance(x) = 2 * (RoomTurnLimit - r.turns) + 2 * Left(r.done) + 4
      BY <3>1 DEF Distance
    <3>4. InRun(x)
      BY <1>T, <1>N, <3>1, <1>1 DEF InRun, Pending, Load, At
    <3> QED
      BY <1>N, <2>0, <3>2, <3>3, <3>4 DEF Nearer
  <2> QED
    BY <1>1, <2>1, <2>2 DEF Load
<1>2. CASE Reload(c)
  <2>0. Distance(r) = 2 * RoomTurnLimit + 2 * NodeCount + 5 /\ r.midRoom = 0
    BY <1>2, <1>T, DistanceIs DEF Reload, At, InRun
  <2> DEFINE x == [r EXCEPT !.pc = "loop", !.done = checkpoint.nodes,
                            !.spend = checkpoint.spend]
  <2>1. /\ x.pc = "loop" /\ x.turns = r.turns /\ x.done = checkpoint.nodes
        /\ x.spend = checkpoint.spend /\ x.midRoom = r.midRoom
    BY <1>T DEF Run
  <2>2. Become(c, x)
    BY <1>2 DEF Reload
  <2> HIDE DEF x
  <2>3. Left(checkpoint.nodes) \in 0..NodeCount /\ checkpoint.spend \in Nat
    BY <1>T, LeftType DEF Checkpoint
  <2>4. Distance(x) = 2 * (RoomTurnLimit - r.turns) + 2 * Left(checkpoint.nodes) + 4
    BY <2>1 DEF Distance
  <2>5. InRun(x)
    BY <1>N, <2>0, <2>1, <2>3 DEF InRun, Pending
  <2> QED
    BY <1>N, <2>0, <2>2, <2>3, <2>4, <2>5 DEF Nearer
<1>3. CASE NextNode(c)
  <2>0. r.pc = "loop" /\ Distance(r) = 2 * (RoomTurnLimit - r.turns) + 2 * Left(r.done) + 4
    BY <1>3, <1>T, DistanceIs DEF NextNode, At
  <2>1. CASE Become(c, Stopped(r, "budget_exceeded"))
    <3>1. InRun(Stopped(r, "budget_exceeded")) /\ Distance(Stopped(r, "budget_exceeded")) = 2
      BY <1>T, StopIsNear
    <3>2. Distance(r) > 2
      BY <1>N, <2>0
    <3> QED
      BY <2>1, <3>1, <3>2 DEF Nearer
  <2>2. CASE \E n \in Nodes \ r.done :
               Become(c, [r EXCEPT !.pc = "turn", !.node = n, !.agent = "hired",
                                   !.agentTurns = [@ EXCEPT !["hired"] = 0],
                                   !.asked = {}])
    <3>1. PICK n \in Nodes \ r.done :
            Become(c, [r EXCEPT !.pc = "turn", !.node = n, !.agent = "hired",
                                !.agentTurns = [@ EXCEPT !["hired"] = 0],
                                !.asked = {}])
      BY <2>2
    <3> DEFINE x == [r EXCEPT !.pc = "turn", !.node = n, !.agent = "hired",
                              !.agentTurns = [@ EXCEPT !["hired"] = 0],
                              !.asked = {}]
    <3>2. /\ x.pc = "turn" /\ x.turns = r.turns /\ x.done = r.done /\ x.node = n
          /\ x.spend = r.spend /\ x.midRoom = r.midRoom
      BY <1>T DEF Run
    <3>3. Become(c, x)
      BY <3>1
    <3> HIDE DEF x
    <3>4. Distance(x) = 2 * (RoomTurnLimit - r.turns) + 2 * Left(r.done) + 3
      BY <3>2 DEF Distance
    <3>5. InRun(x)
      BY <1>T, <1>N, <2>0, <3>1, <3>2 DEF InRun, Pending
    <3> QED
      BY <1>N, <2>0, <3>3, <3>4, <3>5 DEF Nearer
  <2> QED
    BY <1>3, <2>1, <2>2 DEF NextNode
<1>4. CASE SaveNode(c)
  <2>0. /\ Distance(r) = 2 * (RoomTurnLimit - r.turns) + 2 * Left(r.done) + 3
        /\ r.pc = "save" /\ r.node \in Nodes \ r.done
    BY <1>4, <1>T, DistanceIs DEF SaveNode, At, InRun
  <2> DEFINE x == [r EXCEPT !.pc = "loop", !.done = r.done \cup {r.node}]
  <2>1. /\ x.pc = "loop" /\ x.turns = r.turns /\ x.done = r.done \cup {r.node}
        /\ x.spend = r.spend /\ x.midRoom = r.midRoom
    BY <1>T DEF Run
  <2>2. Become(c, x)
    BY <1>4 DEF SaveNode
  <2> HIDE DEF x
  <2>3. Left(x.done) = Left(r.done) - 1
    BY <2>0, <2>1, LeftShrinks
  <2>4. Distance(x) = 2 * (RoomTurnLimit - r.turns) + 2 * Left(x.done) + 4
    BY <2>1 DEF Distance
  <2>5. InRun(x)
    BY <1>T, <1>N, <2>0, <2>1 DEF InRun, Pending
  <2> QED
    BY <1>N, <2>0, <2>2, <2>3, <2>4, <2>5 DEF Nearer
<1>5. CASE Complete(c) \/ Halt(c)
  <2> DEFINE x == IF Complete(c) THEN [r EXCEPT !.pc = "mark", !.outcome = "completed"]
                                 ELSE [r EXCEPT !.pc = "mark"]
  <2>1. x.pc = "mark" /\ x.turns = r.turns /\ x.spend = r.spend /\ x.midRoom = r.midRoom
    BY <1>T DEF Run
  <2>2. Become(c, x) /\ r.pc \in {"loop", "halt"}
    BY <1>5 DEF Complete, Halt, Goto, At
  <2> HIDE DEF x
  <2>3. Distance(r) > 1
    BY <1>T, <1>N, <2>2, DistanceIs
  <2>4. Distance(x) = 1
    BY <2>1 DEF Distance
  <2>5. InRun(x)
    BY <1>T, <1>N, <2>1, <2>2 DEF InRun, Pending
  <2> QED
    BY <2>2, <2>3, <2>4, <2>5 DEF Nearer
<1>6. CASE Mark(c)
  <2>1. Become(c, NoRun("returned")) /\ Distance(r) = 1
    BY <1>6, <1>T, DistanceIs DEF Mark, At
  <2> QED
    BY <2>1, <1>R DEF Nearer
<1> QED
  BY <1>1, <1>2, <1>3, <1>4, <1>5, <1>6 DEF RunRoom

\* What an agent does in its turn leaves the run a step nearer.
LEMMA EventNearer ==
  ASSUME NEW r \in Run, NEW x \in Run
  PROVE /\ r.pc = "event" /\ x.pc \in {"turn", "save"} /\ x.turns = r.turns /\ x.done = r.done
        => Distance(x) < Distance(r) /\ Distance(r) > 2
<1> SUFFICES ASSUME r.pc = "event", x.pc \in {"turn", "save"}, x.turns = r.turns, x.done = r.done
    PROVE Distance(x) < Distance(r) /\ Distance(r) > 2
  OBVIOUS
<1>1. Distance(r) = 2 * (RoomTurnLimit - r.turns) + 2 * Left(r.done) + 4
  BY DistanceIs
<1>2. Distance(x) = 2 * (RoomTurnLimit - r.turns) + 2 * Left(r.done) + 3
  BY DistanceIs
<1>3. RoomTurnLimit - r.turns \in Nat /\ Left(r.done) \in Nat
  BY RunNumbers
<1> QED
  BY <1>1, <1>2, <1>3

\* The same when it is charged, over the ceiling or not.
LEMMA ChargeNearer ==
  ASSUME NEW c \in Calls, NEW x \in Run, NEW cost \in Nat
  PROVE /\ RunInv /\ Charge(c, x, cost) /\ InRun([x EXCEPT !.spend = @ + cost])
        /\ run[c].pc = "event" /\ x.pc \in {"turn", "save"}
        /\ x.turns = run[c].turns /\ x.done = run[c].done
        => \E y : Become(c, y) /\ Nearer(y, run[c])
<1> DEFINE s == [x EXCEPT !.spend = @ + cost]
<1> SUFFICES ASSUME RunInv, Charge(c, x, cost), InRun(s),
                    run[c].pc = "event", x.pc \in {"turn", "save"},
                    x.turns = run[c].turns, x.done = run[c].done
    PROVE \E y : Become(c, y) /\ Nearer(y, run[c])
  OBVIOUS
<1>1. run[c] \in Run /\ chain \in 0..Overspent
  BY DEF RunInv, IInv, TypeOK
<1>2. s \in Run /\ s.pc = x.pc /\ s.turns = run[c].turns /\ s.done = run[c].done
  BY DEF Run
<1>3. Become(c, Stopped(s, "budget_exceeded")) \/ Become(c, s)
  BY <1>1, ChargeMoves
<1> HIDE DEF s
<1>4. Distance(s) < Distance(run[c]) /\ Distance(run[c]) > 2
  BY <1>1, <1>2, EventNearer
<1>5. InRun(Stopped(s, "budget_exceeded")) /\ Distance(Stopped(s, "budget_exceeded")) = 2
  BY <1>2, StopIsNear
<1> QED
  BY <1>3, <1>4, <1>5 DEF Nearer

\* A call in the turns of a node.
LEMMA NodeNearer ==
  ASSUME NEW c \in Calls
  PROVE RunInv /\ RunNode(c) => \E x : Become(c, x) /\ Nearer(x, run[c])
<1> SUFFICES ASSUME RunInv, RunNode(c) PROVE \E x : Become(c, x) /\ Nearer(x, run[c])
  OBVIOUS
<1> DEFINE r == run[c]
<1>T. r \in Run /\ InRun(r)
  BY DEF RunInv, IInv, TypeOK
<1>N. /\ RoomTurnLimit \in Nat /\ r.turns \in Nat /\ r.turns <= RoomTurnLimit
      /\ Left(r.done) \in Nat /\ r.spend \in Nat /\ r.midRoom \in Nat
      /\ Budget \in Nat /\ ReplacementPrice \in Nat /\ HelperPrice \in Nat
      /\ Earned(r.turns) \in Nat
  BY <1>T, RunNumbers
<1>P. /\ r.pc = "event" => Pending(r) = ReplacementPrice
      /\ r.pc # "event" => Pending(r) = 0
  BY DEF Pending
<1>S. \A price \in Nat : /\ Saturated(r.midRoom + price) \in 0..Overspent
                         /\ Saturated(r.midRoom + price) <= r.midRoom + price
  BY <1>N, RoomAssumption, SaturatedType DEF Saturated
<1>1. CASE Turn(c)
  <2>0. r.pc = "turn" /\ Distance(r) = 2 * (RoomTurnLimit - r.turns) + 2 * Left(r.done) + 3
    BY <1>1, <1>T, DistanceIs DEF Turn, At
  <2>1. CASE \E reason \in Halts : Become(c, Stopped(r, reason))
    <3>1. PICK reason \in Halts : Become(c, Stopped(r, reason))
      BY <2>1
    <3>2. InRun(Stopped(r, reason)) /\ Distance(Stopped(r, reason)) = 2
      BY <1>T, StopIsNear
    <3>3. Distance(r) > 2
      BY <1>N, <2>0
    <3> QED
      BY <3>1, <3>2, <3>3 DEF Nearer
  <2>2. CASE /\ Become(c, [r EXCEPT !.pc = "event", !.turns = @ + 1,
                                    !.agentTurns = [r.agentTurns EXCEPT ![r.agent] = @ + 1]])
             /\ r.turns < RoomTurnLimit
    <3> DEFINE x == [r EXCEPT !.pc = "event", !.turns = @ + 1,
                              !.agentTurns = [r.agentTurns EXCEPT ![r.agent] = @ + 1]]
    <3>1. /\ x.pc = "event" /\ x.turns = r.turns + 1 /\ x.done = r.done /\ x.node = r.node
          /\ x.spend = r.spend /\ x.midRoom = r.midRoom
      BY <1>T DEF Run
    <3>2. Become(c, x)
      BY <2>2
    <3> HIDE DEF x
    <3>3. Distance(x) = 2 * (RoomTurnLimit - (r.turns + 1)) + 2 * Left(r.done) + 4
      BY <3>1 DEF Distance
    <3>4. Earned(x.turns) = Earned(r.turns) + ReplacementPrice /\ Pending(x) = ReplacementPrice
      BY <1>N, <3>1, EarnedGrows DEF Pending
    <3>5. InRun(x)
      BY <1>T, <1>N, <1>P, <2>0, <3>1, <3>4 DEF InRun
    <3> QED
      BY <1>N, <2>0, <3>2, <3>3, <3>5 DEF Nearer
  <2> QED
    BY <1>1, <2>1, <2>2 DEF Turn, Halts
<1>2. CASE Deliver(c)
  <2> DEFINE x == [r EXCEPT !.pc = "save"]
  <2>1. PICK cost \in Routed : Charge(c, x, cost)
    BY <1>2 DEF Deliver
  <2>2. cost \in Nat /\ r.pc = "event"
    BY <1>2, RoutedCosts DEF Deliver, At
  <2>3. /\ x \in Run /\ x.pc = "save" /\ x.turns = r.turns /\ x.done = r.done
        /\ [x EXCEPT !.spend = @ + cost].spend = r.spend + cost
        /\ [x EXCEPT !.spend = @ + cost].midRoom = r.midRoom
        /\ [x EXCEPT !.spend = @ + cost].turns = r.turns
        /\ [x EXCEPT !.spend = @ + cost].done = r.done
        /\ [x EXCEPT !.spend = @ + cost].node = r.node
        /\ [x EXCEPT !.spend = @ + cost].pc = "save"
    BY <1>T DEF Run, Running
  <2> HIDE DEF x
  <2>4. InRun([x EXCEPT !.spend = @ + cost])
    BY <1>T, <1>N, <1>P, <2>2, <2>3 DEF InRun, Pending
  <2> QED
    BY <2>1, <2>2, <2>3, <2>4, ChargeNearer
<1>3. CASE GiveUp(c) \/ Blocked(c)
  <2> DEFINE x == [r EXCEPT !.pc = "save"]
  <2>1. /\ x \in Run /\ x.pc = "save" /\ x.turns = r.turns /\ x.done = r.done /\ x.node = r.node
        /\ x.spend = r.spend /\ x.midRoom = r.midRoom
    BY <1>T DEF Run, Running
  <2>2. Become(c, x) /\ r.pc = "event"
    BY <1>3 DEF GiveUp, Undelivered, Blocked, Goto, At
  <2> HIDE DEF x
  <2>3. InRun(x)
    BY <1>T, <1>N, <1>P, <2>1, <2>2 DEF InRun, Pending
  <2> QED
    BY <1>T, <2>1, <2>2, <2>3, EventNearer DEF Nearer
<1>4. CASE Replace(c)
  <2> DEFINE x == [r EXCEPT !.pc = "turn", !.agent = "replacement",
                            !.midRoom = Saturated(@ + ReplacementPrice)]
  <2>1. /\ x \in Run /\ x.pc = "turn" /\ x.turns = r.turns /\ x.done = r.done /\ x.node = r.node
        /\ x.spend = r.spend /\ x.midRoom = Saturated(r.midRoom + ReplacementPrice)
    BY <1>T, <1>N, <1>S DEF Run, Running, Agents
  <2>2. Become(c, x) /\ r.pc = "event"
    BY <1>4 DEF Replace, Undelivered, At
  <2> HIDE DEF x
  <2>3. x.midRoom <= r.midRoom + ReplacementPrice /\ x.midRoom \in Nat
    BY <1>N, <1>S, <2>1, RoomAssumption
  <2>4. InRun(x)
    BY <1>T, <1>N, <1>P, <2>1, <2>2, <2>3 DEF InRun, Pending
  <2> QED
    BY <1>T, <2>1, <2>2, <2>4, EventNearer DEF Nearer
<1>5. CASE Answer(c)
  <2>0. PICK cost \in Routed : Resolve(c, cost)
    BY <1>5 DEF Answer, Recall, Poll, Routed
  <2>1. PICK t \in Topics :
          Charge(c, [r EXCEPT !.pc = "turn", !.asked = @ \cup {t}], cost)
    BY <2>0 DEF Resolve
  <2> DEFINE x == [r EXCEPT !.pc = "turn", !.asked = @ \cup {t}]
  <2>2. cost \in Nat /\ r.pc = "event"
    BY <2>0, RoutedCosts DEF Resolve, At
  <2>3. /\ x \in Run /\ x.pc = "turn" /\ x.turns = r.turns /\ x.done = r.done
        /\ [x EXCEPT !.spend = @ + cost].spend = r.spend + cost
        /\ [x EXCEPT !.spend = @ + cost].midRoom = r.midRoom
        /\ [x EXCEPT !.spend = @ + cost].turns = r.turns
        /\ [x EXCEPT !.spend = @ + cost].done = r.done
        /\ [x EXCEPT !.spend = @ + cost].node = r.node
        /\ [x EXCEPT !.spend = @ + cost].pc = "turn"
    BY <1>T DEF Run, Running
  <2>5. Charge(c, x, cost)
    BY <2>1
  <2> HIDE DEF x
  <2>4. InRun([x EXCEPT !.spend = @ + cost])
    BY <1>T, <1>N, <1>P, <2>2, <2>3 DEF InRun, Pending
  <2> QED
    BY <2>5, <2>2, <2>3, <2>4, ChargeNearer
<1>6. CASE HireHelper(c)
  <2>1. PICK t \in Topics :
          Charge(c, [r EXCEPT !.pc = "turn", !.asked = @ \cup {t},
                              !.midRoom = Saturated(@ + HelperPrice)], HelperPrice)
    BY <1>6 DEF HireHelper
  <2> DEFINE x == [r EXCEPT !.pc = "turn", !.asked = @ \cup {t},
                            !.midRoom = Saturated(@ + HelperPrice)]
  <2>2. r.pc = "event" /\ r.spend + HelperPrice <= Budget
    BY <1>6 DEF HireHelper, At, Affordable
  <2>3. Saturated(r.midRoom + HelperPrice) \in 0..Overspent
    BY <1>N, <1>S
  <2>4. /\ x \in Run /\ x.pc = "turn" /\ x.turns = r.turns /\ x.done = r.done
        /\ x.spend = r.spend /\ x.node = r.node
        /\ x.midRoom = Saturated(r.midRoom + HelperPrice)
    BY <1>T, <2>3 DEF Run, Running
  <2>5. Charge(c, x, HelperPrice)
    BY <2>1
  <2> HIDE DEF x
  <2> DEFINE y == [x EXCEPT !.spend = @ + HelperPrice]
  <2>6. /\ y.pc = "turn" /\ y.turns = r.turns /\ y.done = r.done /\ y.node = r.node
        /\ y.spend = r.spend + HelperPrice /\ y.midRoom = x.midRoom
    BY <2>4 DEF Run
  <2> HIDE DEF y
  <2>7. y.midRoom <= r.midRoom + HelperPrice /\ y.midRoom \in Nat
    BY <1>N, <1>S, <2>3, <2>4, <2>6, RoomAssumption
  <2>8. InRun(y)
    BY <1>T, <1>N, <1>P, <2>2, <2>6, <2>7 DEF InRun, Pending
  <2> QED
    BY <1>N, <2>2, <2>4, <2>5, <2>8, ChargeNearer DEF y
<1> QED
  BY <1>1, <1>2, <1>3, <1>4, <1>5, <1>6 DEF RunNode

\* A call that moves leaves the others where they are.
LEMMA RunMoves ==
  ASSUME NEW c \in Calls, NEW x
  PROVE /\ RunInv /\ Become(c, x) /\ InRun(x)
        /\ (run[c].pc \in Running => Distance(x) < Distance(run[c]))
        => /\ \A d \in Calls : InRun(run'[d])
           /\ \A d \in Calls : run[d].pc \in Running =>
                run'[d] = run[d] \/ Distance(run'[d]) < Distance(run[d])
<1> SUFFICES ASSUME RunInv, Become(c, x), InRun(x),
                    run[c].pc \in Running => Distance(x) < Distance(run[c]),
                    NEW d \in Calls
    PROVE /\ InRun(run'[d])
          /\ run[d].pc \in Running =>
               run'[d] = run[d] \/ Distance(run'[d]) < Distance(run[d])
  OBVIOUS
<1>1. run' = [run EXCEPT ![c] = x] /\ run \in [Calls -> Run]
  BY DEF Become, RunInv, IInv, TypeOK
<1>2. CASE d = c
  BY <1>1, <1>2
<1>3. CASE d # c
  <2>1. run'[d] = run[d] /\ InRun(run[d])
    BY <1>1, <1>3 DEF RunInv
  <2> QED
    BY <2>1
<1> QED
  BY <1>2, <1>3

LEMMA RunInvInit == Init => RunInv
<1> SUFFICES ASSUME Init PROVE RunInv
  OBVIOUS
<1>1. \A c \in Calls : run[c] = NoRun("idle")
  BY DEF Init
<1>2. InRun(NoRun("idle"))
  BY NoRunInRun
<1> QED
  BY <1>1, <1>2, IInvInit DEF RunInv

LEMMA RunInvStep ==
  RunInv /\ [Next]_vars
    => RunInv' /\ \A c \in Calls : run[c].pc \in Running =>
                    run'[c] = run[c] \/ Distance(run'[c]) < Distance(run[c])
<1> SUFFICES ASSUME RunInv, [Next]_vars
    PROVE /\ \A c \in Calls : InRun(run'[c])
          /\ \A c \in Calls : run[c].pc \in Running =>
               run'[c] = run[c] \/ Distance(run'[c]) < Distance(run[c])
  BY IInvStep DEF RunInv
<1>1. CASE \E c \in Calls : RunRoom(c) \/ RunNode(c)
  <2>1. PICK c \in Calls : RunRoom(c) \/ RunNode(c)
    BY <1>1
  <2>2. PICK x : Become(c, x) /\ Nearer(x, run[c])
    BY <2>1, RoomNearer, NodeNearer
  <2> QED
    BY <2>2, RunMoves DEF Nearer
<1>2. CASE \E c \in Calls : Begin(c)
  <2>1. PICK c \in Calls : Begin(c)
    BY <1>2
  <2>2. run[c].pc = "idle"
    BY <2>1 DEF Begin, At
  <2>3. PICK pc \in {"load", "reload"}, live \in BOOLEAN :
          Become(c, [NoRun(pc) EXCEPT !.live = live])
    BY <2>1 DEF Begin
  <2>4. InRun([NoRun(pc) EXCEPT !.live = live]) /\ run[c].pc \notin Running
    BY <2>2, NoRunInRun DEF Running
  <2> QED
    BY <2>3, <2>4, RunMoves
<1>3. CASE \E c \in Calls : Die(c)
  <2>1. PICK c \in Calls : Die(c)
    BY <1>3
  <2>2. InRun(NoRun("dead")) /\ Distance(NoRun("dead")) = 0
    BY NoRunInRun DEF Distance, NoRun
  <2>3. run[c] \in Run /\ run[c].pc \in Running
    BY <2>1 DEF Die, RunInv, IInv, TypeOK
  <2>4. Distance(run[c]) > 0
    BY <2>3, DistanceIs, RunNumbers DEF Running
  <2>5. Become(c, NoRun("dead"))
    BY <2>1 DEF Die
  <2> QED
    BY <2>2, <2>4, <2>5, RunMoves
<1>4. CASE Freeze \/ SignOffJob \/ UNCHANGED vars
  <2>1. run' = run
    BY <1>4 DEF Freeze, SignOffJob, vars
  <2> QED
    BY <2>1 DEF RunInv
<1> QED
  BY <1>1, <1>2, <1>3, <1>4 DEF Next

LEMMA RunInvAlways == Spec => []RunInv
BY RunInvInit, RunInvStep, PTL DEF Spec

\* The safety half of EventuallyReturns (Referee.turn, done_nodes and the halts): every
\* step of a call under way brings it nearer to its return, and nothing others do takes
\* it further away, so that a run is over after 2 * RoomTurnLimit + 2 * NodeCount + 5 of
\* its own steps at most, questions, replacements and resumes included.
THEOREM RunsShortenCorrect == Spec => RunsShorten
<1>1. RunInv /\ [Next]_vars =>
        [\A c \in Calls : run[c].pc \in Running =>
           run'[c] = run[c] \/ Distance(run'[c]) < Distance(run[c])]_vars
  BY RunInvStep
<1> QED
  BY <1>1, RunInvAlways, PTL DEF Spec, RunsShorten

\* The escrows a run opens mid-room (_hire_helper, hire_replacement) are bounded after
\* all, although replacements are not charged to the meter: by the ceiling and one
\* replacement a turn.
THEOREM MidRoomBoundedCorrect == Spec => []MidRoomBounded
<1>1. RunInv => MidRoomBounded
  <2> SUFFICES ASSUME RunInv, NEW c \in Calls
      PROVE run[c].midRoom <= Budget + RoomTurnLimit * ReplacementPrice
    BY DEF MidRoomBounded
  <2>1. run[c] \in Run /\ InRun(run[c])
    BY DEF RunInv, IInv, TypeOK
  <2>2. /\ run[c].turns \in Nat /\ run[c].turns <= RoomTurnLimit /\ run[c].midRoom \in Nat
        /\ Earned(run[c].turns) \in Nat /\ Budget \in Nat /\ RoomTurnLimit \in Nat
        /\ ReplacementPrice \in Nat
    BY <2>1, RunNumbers
  <2>3. Earned(run[c].turns) <= RoomTurnLimit * ReplacementPrice
    BY <2>2, EarnedBounded
  <2>4. run[c].midRoom <= Budget + Earned(run[c].turns)
    BY <2>1, <2>2 DEF InRun, Pending
  <2>5. RoomTurnLimit * ReplacementPrice \in Nat
    BY <2>2
  <2> QED
    BY <2>2, <2>3, <2>4, <2>5
<1> QED
  BY <1>1, RunInvAlways, PTL
=============================================================================
