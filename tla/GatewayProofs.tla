---------------------------- MODULE GatewayProofs ----------------------------
(***************************************************************************)
(* Theorems of module Gateway, for any number of calls, authorizations,    *)
(* faults and crashes.                                                     *)
(***************************************************************************)
EXTENDS Gateway, TLAPS

\* The calls that account for an authorization: those that have not ended yet, and those
\* that keep it for good.
Holds(c) == InHands(c) \/ Bought(c) \/ Burned(c)

LEMMA KeptHolds == \A c : Kept(c) => Holds(c)
BY DEF Kept, Holds, InHands

\* A call answers when it is done, and only then.
AnsweredWhenDone ==
  \A c \in Calls : /\ pc[c] # "done" => reply[c] = "none"
                   /\ pc[c] = "done" => reply[c] # "none"

\* Whoever got past the gate and was accepted is a holder or has raised.
AcceptedInside ==
  \A c \in Calls : log[c] # "none" =>
    \/ pc[c] \in {"held", "raised", "waiting", "dead"}
    \/ reply[c] \in {"ok", "failed", "pending", "error", "broken", "accepted"}

\* A claimed authorization is held, a held one is claimed, and one call holds it.
KeysAreHeld == \A a \in keys : \E c \in Paid : Auth[c] = a /\ Holds(c)
HeldIsClaimed == \A c \in Paid : Holds(c) => Auth[c] \in keys
OneHolder == \A c, d \in Paid : Auth[c] = Auth[d] /\ Holds(c) /\ Holds(d) => c = d

\* An operator's handle is no answer to a payer.
NoPaidHandle == \A c \in Paid : reply[c] # "accepted"

Inv ==
  /\ GatewayTypeOK
  /\ AnsweredWhenDone
  /\ AcceptedInside
  /\ NoPaidHandle
  /\ HeldIsClaimed
  /\ OneHolder
  /\ KeysAreHeld

LEMMA InitInv == Init => Inv
<1> SUFFICES ASSUME Init PROVE Inv
  OBVIOUS
<1>1. GatewayTypeOK
  BY BoundAssumption DEF Init, GatewayTypeOK, Replies
<1>2. \A c \in Calls : ~Holds(c)
  BY DEF Init, Holds, Kept, InHands, Bought, Burned
<1> QED
  BY <1>1, <1>2 DEF Init, Inv, AnsweredWhenDone, AcceptedInside, NoPaidHandle, HeldIsClaimed,
                    OneHolder, KeysAreHeld, Paid

-----------------------------------------------------------------------------
\* Every value a variable takes is one of those the type invariant lists.
LEMMA TypeStep == GatewayTypeOK /\ [Next]_vars => GatewayTypeOK'
<1> SUFFICES ASSUME GatewayTypeOK, [Next]_vars PROVE GatewayTypeOK'
  OBVIOUS
<1> USE DEF GatewayTypeOK, Goto, Answer, At, broker, Replies
<1>1. CASE UNCHANGED vars
  BY <1>1 DEF vars
<1>2. ASSUME NEW c \in Calls, TurnAway(c) PROVE GatewayTypeOK'
  BY <1>2 DEF TurnAway
<1>3. ASSUME NEW c \in Calls, ClaimKey(c) PROVE GatewayTypeOK'
  <2>1. Auth[c] \in Auths
    BY <1>3, AuthAssumption DEF ClaimKey, Verified, Paid
  <2> QED
    BY <1>3, <2>1 DEF ClaimKey
<1>4. ASSUME NEW c \in Calls, SubmitCall(c) \/ Refuse(c) PROVE GatewayTypeOK'
  BY <1>4 DEF SubmitCall, Refuse
<1>5. ASSUME NEW c \in Calls, Raise(c) \/ ReleaseRaises(c) \/ PollRaises(c) \/ Cancel(c)
      PROVE  GatewayTypeOK'
  BY <1>5, BoundAssumption DEF Raise, ReleaseRaises, PollRaises, Cancel
<1>6. ASSUME NEW c \in Calls, ReleaseKey(c) PROVE GatewayTypeOK'
  BY <1>6 DEF ReleaseKey
<1>7. ASSUME NEW c \in Calls, Submitted(c) \/ Poll(c) \/ TimeOut(c) PROVE GatewayTypeOK'
  BY <1>7 DEF Submitted, Poll, TimeOut
<1>8. ASSUME NEW c \in Calls, Take(c) \/ Settle(c) PROVE GatewayTypeOK'
  BY <1>8 DEF Take, Settle
<1>9. ASSUME NEW S \in SUBSET Calls, Deliver(S) \/ Expire(S) PROVE GatewayTypeOK'
  BY <1>9 DEF Deliver, Expire
<1>10. CASE WeekPasses
  BY <1>10 DEF WeekPasses
<1>11. CASE Crash
  BY <1>11, BoundAssumption DEF Crash
<1> QED
  BY <1>1, <1>2, <1>3, <1>4, <1>5, <1>6, <1>7, <1>8, <1>9, <1>10, <1>11
     DEF Next, Call, Broker

\* Steps that leave every call and every claim where they are.
LEMMA BrokerStep ==
  ASSUME Inv, GatewayTypeOK', pc' = pc, reply' = reply, keys' = keys,
         \A c \in Calls : log'[c] # "none" => log[c] # "none" \/ pc[c] = "held"
  PROVE  Inv'
<1>1. \A c \in Calls : Holds(c)' <=> Holds(c)
  BY DEF Holds, InHands, Bought, Burned
<1>2. HeldIsClaimed' /\ OneHolder' /\ KeysAreHeld'
  BY <1>1 DEF Inv, HeldIsClaimed, OneHolder, KeysAreHeld, Paid
<1>3. AnsweredWhenDone' /\ AcceptedInside' /\ NoPaidHandle'
  BY DEF Inv, AnsweredWhenDone, AcceptedInside, NoPaidHandle
<1> QED
  BY <1>2, <1>3 DEF Inv

\* Steps of one call that keeps in its hands what it has there.
LEMMA KeepsHold ==
  ASSUME Inv, GatewayTypeOK', keys' = keys, log' = log, NEW c \in Calls,
         \A d \in Calls \ {c} : pc'[d] = pc[d] /\ reply'[d] = reply[d],
         pc'[c] # "done" => reply'[c] = "none",
         pc'[c] = "done" => reply'[c] # "none",
         log[c] # "none" => \/ pc'[c] \in {"held", "raised", "waiting", "dead"}
                            \/ reply'[c] \in {"ok", "failed", "pending", "error", "broken", "accepted"},
         c \in Paid => reply'[c] # "accepted" /\ (Holds(c)' <=> Holds(c))
  PROVE  Inv'
<1>1. \A d \in Paid : Holds(d)' <=> Holds(d)
  BY DEF Holds, Kept, InHands, Bought, Burned, Paid
<1> HIDE DEF Holds
<1>2. HeldIsClaimed' /\ OneHolder'
  BY <1>1 DEF Inv, HeldIsClaimed, OneHolder
<1>3. KeysAreHeld'
  BY <1>1 DEF Inv, KeysAreHeld
<1>4. AnsweredWhenDone' /\ AcceptedInside' /\ NoPaidHandle'
  BY DEF Inv, AnsweredWhenDone, AcceptedInside, NoPaidHandle, Paid
<1> QED
  BY <1>2, <1>3, <1>4 DEF Inv

\* The insert on the primary key: one call of those that present it gets the key.
LEMMA ClaimStep ==
  ASSUME Inv, GatewayTypeOK', NEW c \in Calls, ClaimKey(c)
  PROVE  Inv'
<1>1. c \in Paid /\ pc[c] = "idle" /\ reply[c] = "none" /\ log[c] = "none" /\ log' = log
  BY DEF ClaimKey, Verified, At, Inv, AnsweredWhenDone, AcceptedInside, broker
<1>2. pc \in [Calls -> {"idle", "held", "refused", "raised", "waiting", "done", "dead"}]
      /\ reply \in [Calls -> Replies]
  BY DEF Inv, GatewayTypeOK
<1>3. CASE Auth[c] \in keys
  <2>1. pc' = [pc EXCEPT ![c] = "done"] /\ reply' = [reply EXCEPT ![c] = "payment_required"]
        /\ keys' = keys
    BY <1>3 DEF ClaimKey, Answer, Goto
  <2>2. ~Holds(c) /\ ~Holds(c)'
    BY <1>1, <1>2, <2>1 DEF Holds, Kept, InHands, Bought, Burned
  <2> QED
    BY <1>1, <1>2, <2>1, <2>2, KeepsHold
<1>4. CASE Auth[c] \notin keys
  <2>1. pc' = [pc EXCEPT ![c] = "held"] /\ reply' = reply /\ keys' = keys \cup {Auth[c]}
    BY <1>4 DEF ClaimKey, Goto
  <2>2. \A d \in Paid : Holds(d)' <=> d = c \/ Holds(d)
    BY <1>1, <1>2, <2>1 DEF Holds, Kept, InHands, Bought, Burned, Paid
  <2>3. \A d \in Paid : Holds(d) => Auth[d] # Auth[c]
    BY <1>4 DEF Inv, HeldIsClaimed
  <2>4. HeldIsClaimed' /\ OneHolder'
    BY <2>1, <2>2, <2>3 DEF Inv, HeldIsClaimed, OneHolder
  <2>5. KeysAreHeld'
    BY <1>1, <2>1, <2>2 DEF Inv, KeysAreHeld
  <2>6. AnsweredWhenDone' /\ AcceptedInside' /\ NoPaidHandle'
    BY <1>1, <1>2, <2>1 DEF Inv, AnsweredWhenDone, AcceptedInside, NoPaidHandle
  <2> QED
    BY <2>4, <2>5, <2>6 DEF Inv
<1> QED
  BY <1>3, <1>4

\* A refusal or an error frees the key of the call, and nobody else's.
LEMMA ReleaseStep ==
  ASSUME Inv, GatewayTypeOK', NEW c \in Calls, ReleaseKey(c)
  PROVE  Inv'
<1>1. /\ pc[c] \in {"refused", "raised"} /\ log' = log /\ keys' = keys \ {Auth[c]}
      /\ pc' = [pc EXCEPT ![c] = "done"]
      /\ reply' = [reply EXCEPT ![c] = IF pc[c] = "refused" THEN "refused" ELSE "error"]
  BY DEF ReleaseKey, At, Answer, Goto, broker
<1>2. pc \in [Calls -> {"idle", "held", "refused", "raised", "waiting", "done", "dead"}]
      /\ reply \in [Calls -> Replies]
  BY DEF Inv, GatewayTypeOK
<1>3. reply[c] = "none"
  BY <1>1 DEF Inv, AnsweredWhenDone
<1>4. c \in Paid => Holds(c)
  BY <1>1 DEF Holds, InHands
<1>5. \A d \in Paid : Holds(d)' <=> d # c /\ Holds(d)
  BY <1>1, <1>2, <1>3 DEF Holds, Kept, InHands, Bought, Burned, Paid
<1>6. \A d \in Paid : Auth[d] \in Auths /\ (Auth[c] = Auth[d] => c \in Paid)
  BY AuthAssumption DEF Paid
<1>7. HeldIsClaimed' /\ OneHolder'
  BY <1>1, <1>4, <1>5, <1>6 DEF Inv, HeldIsClaimed, OneHolder
<1>8. KeysAreHeld'
  BY <1>1, <1>5 DEF Inv, KeysAreHeld
<1>9. AnsweredWhenDone' /\ NoPaidHandle'
  BY <1>1, <1>2 DEF Inv, AnsweredWhenDone, NoPaidHandle, Paid
<1>10. AcceptedInside'
  BY <1>1, <1>2, <1>3 DEF Inv, AcceptedInside
<1> QED
  BY <1>7, <1>8, <1>9, <1>10 DEF Inv

\* A crash: whoever had not answered keeps what it held.
LEMMA CrashStep ==
  ASSUME Inv, GatewayTypeOK', Crash
  PROVE  Inv'
<1>1. /\ pc' = [c \in Calls |-> IF pc[c] \in {"idle", "done"} THEN pc[c] ELSE "dead"]
      /\ reply' = reply /\ keys' = keys /\ log' = log
  BY DEF Crash
<1>2. pc \in [Calls -> {"idle", "held", "refused", "raised", "waiting", "done", "dead"}]
  BY DEF Inv, GatewayTypeOK
<1>3. \A c \in Paid : Holds(c)' <=> Holds(c)
  BY <1>1, <1>2 DEF Holds, Kept, InHands, Bought, Burned, Paid
<1>4. HeldIsClaimed' /\ OneHolder' /\ KeysAreHeld'
  <2> HIDE DEF Holds
  <2>1. HeldIsClaimed' /\ OneHolder'
    BY <1>1, <1>3 DEF Inv, HeldIsClaimed, OneHolder
  <2>2. \A a \in keys : \E c \in Paid : Auth[c] = a /\ Holds(c)
    BY DEF Inv, KeysAreHeld
  <2>3. \A a \in keys' : \E c \in Paid : Auth[c] = a /\ Holds(c)'
    BY <1>1, <1>3, <2>2
  <2>4. KeysAreHeld'
    BY <2>3 DEF KeysAreHeld
  <2> QED
    BY <2>1, <2>4
<1>5. AnsweredWhenDone' /\ AcceptedInside' /\ NoPaidHandle'
  BY <1>1, <1>2 DEF Inv, AnsweredWhenDone, AcceptedInside, NoPaidHandle, Paid
<1> QED
  BY <1>4, <1>5 DEF Inv

\* A failure nobody handles: the call ends with the authorization it had.
LEMMA FaultStep ==
  ASSUME Inv, GatewayTypeOK', NEW c \in Calls, ReleaseRaises(c) \/ PollRaises(c) \/ Cancel(c)
  PROVE  Inv'
<1>1. InHands(c) /\ reply[c] = "none" /\ keys' = keys /\ log' = log
  BY DEF ReleaseRaises, PollRaises, Cancel, At, InHands, broker, Inv, AnsweredWhenDone
<1>2. pc \in [Calls -> {"idle", "held", "refused", "raised", "waiting", "done", "dead"}]
      /\ reply \in [Calls -> Replies]
  BY DEF Inv, GatewayTypeOK
<1>3. \/ pc' = [pc EXCEPT ![c] = "done"] /\ reply' = [reply EXCEPT ![c] = "broken"]
      \/ pc' = [pc EXCEPT ![c] = "dead"] /\ reply' = reply
  BY DEF ReleaseRaises, PollRaises, Cancel, Answer, Goto
<1>4. /\ \A d \in Calls \ {c} : pc'[d] = pc[d] /\ reply'[d] = reply[d]
      /\ (pc'[c] = "done" /\ reply'[c] = "broken") \/ (pc'[c] = "dead" /\ reply'[c] = "none")
  <2>1. CASE pc' = [pc EXCEPT ![c] = "done"] /\ reply' = [reply EXCEPT ![c] = "broken"]
    BY <1>2, <2>1
  <2>2. CASE pc' = [pc EXCEPT ![c] = "dead"] /\ reply' = reply
    BY <1>1, <1>2, <2>2
  <2> QED
    BY <1>3, <2>1, <2>2
<1>5. Holds(c)' <=> Holds(c)
  BY <1>1, <1>4 DEF Holds, InHands, Burned
<1> QED
  BY <1>1, <1>4, <1>5, KeepsHold

LEMMA NextInv == Inv /\ [Next]_vars => Inv'
<1> SUFFICES ASSUME Inv, [Next]_vars PROVE Inv'
  OBVIOUS
<1>0. GatewayTypeOK'
  BY TypeStep DEF Inv
<1>t. pc \in [Calls -> {"idle", "held", "refused", "raised", "waiting", "done", "dead"}]
      /\ reply \in [Calls -> Replies]
  BY DEF Inv, GatewayTypeOK
<1>1. CASE UNCHANGED vars
  BY <1>0, <1>1, BrokerStep DEF vars, broker
<1>2. ASSUME NEW c \in Calls, TurnAway(c) \/ SubmitCall(c) \/ Refuse(c) \/ Raise(c) PROVE Inv'
  <2>1. reply[c] = "none" /\ (pc[c] = "idle" => log[c] = "none")
    BY <1>2 DEF TurnAway, SubmitCall, Refuse, Raise, At, Inv, AnsweredWhenDone, AcceptedInside
  <2>2. keys' = keys /\ log' = log
    BY <1>2 DEF TurnAway, SubmitCall, Refuse, Raise, broker
  <2>3. CASE TurnAway(c)
    <3>1. pc' = [pc EXCEPT ![c] = "done"] /\ reply' = [reply EXCEPT ![c] = "payment_required"]
          /\ pc[c] = "idle"
      BY <2>3 DEF TurnAway, Answer, Goto, At
    <3>2. Holds(c)' <=> Holds(c)
      BY <1>t, <2>1, <3>1 DEF Holds, Kept, InHands, Bought, Burned
    <3> QED
      BY <1>0, <1>t, <2>1, <2>2, <3>1, <3>2, KeepsHold
  <2>4. CASE SubmitCall(c)
    <3>1. pc' = [pc EXCEPT ![c] = "held"] /\ reply' = reply /\ c \notin Paid
      BY <2>4 DEF SubmitCall, Goto
    <3> QED
      BY <1>0, <1>t, <2>1, <2>2, <3>1, KeepsHold
  <2>5. CASE Refuse(c) \/ Raise(c)
    <3>1. PICK l \in {"refused", "raised"} :
            /\ pc' = [pc EXCEPT ![c] = l] /\ reply' = reply /\ pc[c] = "held"
            /\ log[c] # "none" => l = "raised"
      BY <2>5 DEF Refuse, Raise, Goto, At
    <3>2. Holds(c)' <=> Holds(c)
      BY <1>t, <3>1 DEF Holds, Kept, InHands, Bought, Burned
    <3> QED
      BY <1>0, <1>t, <2>1, <2>2, <3>1, <3>2, KeepsHold
  <2> QED
    BY <1>2, <2>3, <2>4, <2>5
<1>3. ASSUME NEW c \in Calls, Submitted(c) \/ Poll(c) \/ TimeOut(c) PROVE Inv'
  <2>1. /\ reply[c] = "none" /\ keys' = keys /\ log' = log
        /\ pc[c] \in {"held", "waiting"}
    BY <1>3 DEF Submitted, Poll, TimeOut, At, broker, Inv, AnsweredWhenDone
  <2>2. \/ pc' = [pc EXCEPT ![c] = "waiting"] /\ reply' = reply
        \/ \E r \in {"ok", "failed", "pending"} :
             pc' = [pc EXCEPT ![c] = "done"] /\ reply' = [reply EXCEPT ![c] = r]
        \/ /\ pc' = [pc EXCEPT ![c] = "done"] /\ reply' = [reply EXCEPT ![c] = "accepted"]
           /\ c \notin Paid
    BY <1>3 DEF Submitted, Poll, TimeOut, Goto, Answer
  <2>3. c \in Paid => (Holds(c)' <=> Holds(c))
    BY <1>t, <2>1, <2>2 DEF Holds, Kept, InHands, Bought, Burned
  <2>4. /\ \A d \in Calls \ {c} : pc'[d] = pc[d] /\ reply'[d] = reply[d]
        /\ pc'[c] # "done" => reply'[c] = "none"
        /\ pc'[c] = "done" => reply'[c] # "none"
        /\ \/ pc'[c] \in {"held", "raised", "waiting", "dead"}
           \/ reply'[c] \in {"ok", "failed", "pending", "error", "broken", "accepted"}
        /\ c \in Paid => reply'[c] # "accepted"
    BY <1>t, <2>1, <2>2
  <2> QED
    BY <1>0, <2>1, <2>3, <2>4, KeepsHold
<1>4. ASSUME NEW c \in Calls, Take(c) \/ Settle(c) PROVE Inv'
  <2>1. pc' = pc /\ reply' = reply /\ keys' = keys
    BY <1>4 DEF Take, Settle
  <2>2. \A d \in Calls : log'[d] # "none" => log[d] # "none" \/ pc[d] = "held"
    BY <1>4 DEF Take, Settle, At, Inv, GatewayTypeOK
  <2> QED
    BY <1>0, <2>1, <2>2, BrokerStep
<1>5. ASSUME NEW S \in SUBSET Calls, Deliver(S) \/ Expire(S) PROVE Inv'
  <2>1. pc' = pc /\ reply' = reply /\ keys' = keys
    BY <1>5 DEF Deliver, Expire
  <2>2. \A d \in Calls : log'[d] # "none" => log[d] # "none" \/ pc[d] = "held"
    BY <1>5 DEF Deliver, Expire, Waiting
  <2> QED
    BY <1>0, <2>1, <2>2, BrokerStep
<1>6. CASE WeekPasses
  BY <1>0, <1>6, BrokerStep DEF WeekPasses
<1> QED
  BY <1>0, <1>1, <1>2, <1>3, <1>4, <1>5, <1>6, ClaimStep, ReleaseStep, FaultStep, CrashStep
     DEF Next, Call, Broker

LEMMA InvCorrect == Spec => []Inv
BY InitInv, NextInv, PTL DEF Spec

\* Type correctness of the gateway.
THEOREM GatewayTypeCorrect == Spec => []GatewayTypeOK
<1>1. Inv => GatewayTypeOK
  BY DEF Inv
<1> QED
  BY <1>1, InvCorrect, PTL

\* mcp_server.py: two calls with the same authorization are both accepted only if the
\* submit of one of them raised.
THEOREM SpentOnceCorrect == Spec => []SpentOnce
<1>1. Inv => SpentOnce
  <2> SUFFICES ASSUME Inv, NEW c \in Paid, NEW d \in Paid, c # d, Auth[c] = Auth[d],
                      Accepted(c), Accepted(d), ~Raised(c), ~Raised(d)
               PROVE  FALSE
    BY DEF SpentOnce
  <2>1. Holds(c) /\ Holds(d)
    BY DEF Inv, AcceptedInside, NoPaidHandle, Accepted, Raised, Holds, Kept, InHands, Bought, Burned, Paid
  <2> QED
    BY <2>1 DEF Inv, OneHolder
<1> QED
  BY <1>1, InvCorrect, PTL

\* mcp_server.py: a claimed authorization is accounted for by one call, which has not ended,
\* has something for it, or met with a failure for which no handler is there; no refusal and
\* no exception of submit burns it.
THEOREM AuthorizationNotStuckCorrect == Spec => []AuthorizationNotStuck
<1>1. Inv => AuthorizationNotStuck
  <2> SUFFICES ASSUME Inv, NEW a \in keys
               PROVE  \E c \in Paid : /\ Auth[c] = a /\ Holds(c)
                                      /\ \A d \in Paid \ {c} : Auth[d] = a => ~Holds(d)
    BY DEF AuthorizationNotStuck, Holds
  <2>1. PICK c \in Paid : Auth[c] = a /\ Holds(c)
    BY DEF Inv, KeysAreHeld
  <2>2. \A d \in Paid \ {c} : Auth[d] = a => ~Holds(d)
    BY <2>1 DEF Inv, OneHolder
  <2> QED
    BY <2>1, <2>2
<1> QED
  BY <1>1, InvCorrect, PTL

-----------------------------------------------------------------------------
(* The refinement of Authorization.                                        *)

\* Whether anybody keeps an authorization for good.
Spent(a) == \E c \in Paid : Auth[c] = a /\ Kept(c)

\* A step of one call, seen by the payer of its authorization.
LEMMA OneCallMaps ==
  ASSUME Inv, NEW c \in Calls, keys' = keys,
         \A d \in Calls \ {c} : pc'[d] = pc[d] /\ reply'[d] = reply[d],
         c \in Paid => (Kept(c)' <=> Kept(c)) \/ (InHands(c) /\ Kept(c)')
  PROVE  [Payment!Next]_AuthState
<1>1. \A d \in Paid \ {c} : Kept(d)' <=> Kept(d)
  BY DEF Kept, InHands, Bought, Burned, Paid
<1>2. CASE c \in Paid /\ InHands(c) /\ Kept(c)' /\ ~Kept(c)
  <2> DEFINE a == Auth[c]
  <2>1. a \in keys /\ a \in Auths /\ ~Spent(a)
    BY <1>2, KeptHolds DEF Inv, HeldIsClaimed, OneHolder, Holds, Spent, GatewayTypeOK
  <2>2. AuthState[a] = "held"
    BY <2>1 DEF AuthState, Spent
  <2>3. AuthState' = [AuthState EXCEPT ![a] = "spent"]
    BY <1>1, <1>2, <2>1 DEF AuthState
  <2> QED
    BY <2>1, <2>2, <2>3 DEF Payment!Next, Payment!Spend, Payment!Step
<1>3. CASE c \in Paid => (Kept(c)' <=> Kept(c))
  <2>1. \A d \in Paid : Kept(d)' <=> Kept(d)
    BY <1>1, <1>3
  <2>2. AuthState' = AuthState
    BY <2>1 DEF AuthState
  <2> QED
    BY <2>2
<1> QED
  BY <1>2, <1>3

LEMMA NextMaps == Inv /\ [Next]_vars => [Payment!Next]_AuthState
<1> SUFFICES ASSUME Inv, [Next]_vars PROVE [Payment!Next]_AuthState
  OBVIOUS
<1>t. pc \in [Calls -> {"idle", "held", "refused", "raised", "waiting", "done", "dead"}]
      /\ reply \in [Calls -> Replies] /\ keys \subseteq Auths
  BY DEF Inv, GatewayTypeOK
<1>1. ASSUME pc' = pc, reply' = reply, keys' = keys PROVE [Payment!Next]_AuthState
  <2>1. AuthState' = AuthState
    BY <1>1 DEF AuthState, Kept, InHands, Bought, Burned
  <2> QED
    BY <2>1
<1>2. ASSUME NEW c \in Calls, ClaimKey(c), Auth[c] \notin keys PROVE [Payment!Next]_AuthState
  <2> DEFINE a == Auth[c]
  <2>1. /\ c \in Paid /\ a \in Auths /\ pc[c] = "idle" /\ reply[c] = "none"
        /\ pc' = [pc EXCEPT ![c] = "held"] /\ reply' = reply /\ keys' = keys \cup {a}
    BY <1>2, AuthAssumption DEF ClaimKey, Verified, Goto, At, Paid, Inv, AnsweredWhenDone
  <2>2. \A d \in Paid : Kept(d)' <=> Kept(d)
    BY <1>t, <2>1 DEF Kept, InHands, Bought, Burned, Paid
  <2>3. \A d \in Paid : Kept(d) => Auth[d] # a
    BY <1>2, KeptHolds DEF Inv, HeldIsClaimed
  <2>4. AuthState[a] = "free" /\ AuthState' = [AuthState EXCEPT ![a] = "held"]
    BY <1>2, <2>1, <2>2, <2>3 DEF AuthState
  <2> QED
    BY <2>1, <2>4 DEF Payment!Next, Payment!Hold, Payment!Step
<1>3. ASSUME NEW c \in Calls, ReleaseKey(c) PROVE [Payment!Next]_AuthState
  <2> DEFINE a == Auth[c]
  <2>1. /\ pc[c] \in {"refused", "raised"} /\ reply[c] = "none" /\ keys' = keys \ {a}
        /\ pc' = [pc EXCEPT ![c] = "done"]
        /\ reply' = [reply EXCEPT ![c] = IF pc[c] = "refused" THEN "refused" ELSE "error"]
    BY <1>3 DEF ReleaseKey, Answer, Goto, At, Inv, AnsweredWhenDone
  <2>2. \A d \in Paid : Kept(d)' <=> Kept(d)
    BY <1>t, <2>1 DEF Kept, InHands, Bought, Burned, Paid
  <2>3. CASE c \in Paid
    <3>1. a \in keys /\ a \in Auths
      BY <1>t, <2>1, <2>3 DEF Inv, HeldIsClaimed, Holds, InHands
    <3>2. \A d \in Paid : Kept(d) => Auth[d] # a
      BY <2>1, <2>3 DEF Inv, OneHolder, Holds, Kept, InHands, Bought, Burned
    <3>3. AuthState[a] = "held" /\ AuthState' = [AuthState EXCEPT ![a] = "free"]
      BY <2>1, <2>2, <3>1, <3>2 DEF AuthState
    <3> QED
      BY <3>1, <3>3 DEF Payment!Next, Payment!Free, Payment!Step
  <2>4. CASE c \notin Paid
    <3>1. a \notin Auths
      BY <2>4, AuthAssumption DEF Paid
    <3>2. AuthState' = AuthState
      BY <2>1, <2>2, <3>1 DEF AuthState
    <3> QED
      BY <3>2
  <2> QED
    BY <2>3, <2>4
<1>4. CASE Crash
  <2>1. /\ pc' = [c \in Calls |-> IF pc[c] \in {"idle", "done"} THEN pc[c] ELSE "dead"]
        /\ reply' = reply /\ keys' = keys
    BY <1>4 DEF Crash
  <2>2. \A c \in Paid : Kept(c)' <=> Holds(c)
    BY <1>t, <2>1 DEF Holds, Kept, InHands, Bought, Burned, Paid
  <2>3. \A a \in keys : Spent(a)'
    BY <2>1, <2>2 DEF Inv, KeysAreHeld, Spent
  <2>4. AuthState' = [a \in Auths |-> IF AuthState[a] = "held" THEN "spent" ELSE AuthState[a]]
    BY <2>1, <2>3 DEF AuthState, Spent
  <2> QED
    BY <2>4 DEF Payment!Next, Payment!Abandon
<1>5. ASSUME NEW c \in Calls, Submitted(c) \/ Poll(c) \/ TimeOut(c) PROVE [Payment!Next]_AuthState
  <2>1. /\ keys' = keys /\ pc[c] \in {"held", "waiting"}
        /\ \A d \in Calls \ {c} : pc'[d] = pc[d] /\ reply'[d] = reply[d]
    BY <1>t, <1>5 DEF Submitted, Poll, TimeOut, At, Goto, Answer
  <2>2. c \in Paid => Kept(c)'
    BY <1>t, <1>5 DEF Submitted, Poll, TimeOut, Goto, Answer, Kept, InHands, Bought, Burned
  <2>3. (pc[c] = "waiting" => Kept(c)) /\ InHands(c)
    BY <2>1 DEF Kept, InHands
  <2> QED
    BY <2>1, <2>2, <2>3, OneCallMaps
<1>9. ASSUME NEW c \in Calls, ReleaseRaises(c) \/ PollRaises(c) \/ Cancel(c)
      PROVE  [Payment!Next]_AuthState
  <2>1. /\ keys' = keys /\ InHands(c)
        /\ \A d \in Calls \ {c} : pc'[d] = pc[d] /\ reply'[d] = reply[d]
    BY <1>t, <1>9 DEF ReleaseRaises, PollRaises, Cancel, At, Goto, Answer, InHands
  <2>2. Kept(c)'
    BY <1>t, <1>9 DEF ReleaseRaises, PollRaises, Cancel, Goto, Answer, Kept, Burned
  <2> QED
    BY <2>1, <2>2, OneCallMaps
<1>6. ASSUME NEW c \in Calls,
             \/ TurnAway(c) \/ SubmitCall(c) \/ Refuse(c) \/ Raise(c)
             \/ ClaimKey(c) /\ Auth[c] \in keys
      PROVE  [Payment!Next]_AuthState
  <2>1. keys' = keys /\ \A d \in Calls \ {c} : pc'[d] = pc[d] /\ reply'[d] = reply[d]
    BY <1>t, <1>6 DEF TurnAway, SubmitCall, Refuse, Raise, ClaimKey, At, Goto, Answer
  <2>2. /\ pc[c] \in {"idle", "held"} /\ reply[c] = "none"
        /\ pc'[c] \in {"held", "refused", "raised", "done"}
        /\ reply'[c] \in {"none", "payment_required"}
    BY <1>t, <1>6 DEF TurnAway, SubmitCall, Refuse, Raise, ClaimKey, At, Goto, Answer, Inv,
                      AnsweredWhenDone
  <2>3. ~Kept(c) /\ ~Kept(c)'
    BY <2>2 DEF Kept, InHands, Bought, Burned
  <2> QED
    BY <2>1, <2>3, OneCallMaps
<1>7. CASE UNCHANGED vars
  BY <1>1, <1>7 DEF vars
<1>8. CASE Broker \/ WeekPasses
  BY <1>1, <1>8 DEF Broker, Take, Settle, Deliver, Expire, WeekPasses
<1> QED
  BY <1>2, <1>3, <1>4, <1>5, <1>6, <1>7, <1>8, <1>9 DEF Next, Call

\* The gate implements what module Authorization promises a payer: held by one call, free
\* again only from its hands, spent for good once kept.
THEOREM ImplementsPaymentCorrect == Spec => ImplementsPayment
<1>1. Init => Payment!Init
  BY DEF Init, Payment!Init, AuthState
<1> QED
  BY <1>1, NextMaps, InvCorrect, PTL DEF Spec, ImplementsPayment, Payment!Spec
=============================================================================
