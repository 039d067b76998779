---------------------------- MODULE VoiceInbound ----------------------------
(***************************************************************************)
(* Customers who call our numbers (voice_dialer/inbound.py), beside the    *)
(* auto dialer: they get their own agent or any free one, hold while       *)
(* everybody is busy, and are called back when nobody takes them.          *)
(*                                                                         *)
(* A held caller is locked (HOLDING -> BRIDGING) by whoever handles them,  *)
(* the tick or the webhook their hold clip ends with; the lock is          *)
(* committed before an agent is claimed, and the caller may hang up at any *)
(* moment in between.                                                      *)
(***************************************************************************)
EXTENDS VoiceDialer

VARIABLE holdFor    \* hold_for_user_id: the agent a held caller waits for

invars == <<vars, holdFor>>

InTypeOK == TypeOK /\ holdFor \in [Calls -> Agents \cup {NoAgent}]

InInit == Init /\ holdFor = [c \in Calls |-> NoAgent]

-----------------------------------------------------------------------------
(* Where a caller goes *)

\* owner_state: busy is taking calls, but not free
Busy(a) == /\ a \in Agents /\ agent[a].ready
           /\ agent[a].status \in {"AVAILABLE", "ON_CALL"} /\ a \notin ReadyAgents(agent)

AnyoneTakingCalls ==
    \E a \in Agents : agent[a].ready /\ agent[a].status \in {"AVAILABLE", "ON_CALL"}

\* on_call: the lead is found or made, and a row of the call inserted.
Row(l, s, a) == [status |-> s, lead |-> l, agent |-> a, human |-> s = "CONNECTED"]
FoundLead(l) == IF lead[l].status = "NONE" THEN [lead EXCEPT ![l].status = "QUEUED"] ELSE lead

Turned(l) == l \in dnc \/ lead[l].status \in {"IN_PROGRESS", "ASSIGNED", "DIALING"}

NewCall(c) ==
    /\ Unused(c)
    /\ leg' = [leg EXCEPT ![c] = {"answered", "human"}]

\* Closed for the day, or a number we do not talk to, or are talking to already.
TurnAway(l, c) ==
    /\ NewCall(c)
    /\ att' = [att EXCEPT ![c] = Row(l, "CLOSED", NoAgent)]
    /\ lead' = FoundLead(l)
    /\ UNCHANGED <<agent, proc, tickLock, dnc, client, busy, enabled, holdFor>>

\* Mutant: the room of the agent is not cleared for a caller.
Bridge_shared(x, c, l, a, L, C, back) ==
    /\ agent' = [agent EXCEPT ![a].current = l, ![a].status = "ON_CALL"]
    /\ lead' = SetLead(L, l, "IN_PROGRESS", a)
    /\ att' = [C EXCEPT ![c] = Row(l, "CONNECTED", a)]
    /\ proc' = [proc EXCEPT ![x] = [@ EXCEPT !.pc = "ibridge", !.call = c, !.agent = a,
                                             !.back = back]]

\* _claim_agent, and connect up to its commit.
Bridge(x, c, l, a, L, C, back) ==
    /\ agent' = [agent EXCEPT ![a].current = l, ![a].status = "ON_CALL"]
    /\ lead' = SetLead(L, l, "IN_PROGRESS", a)
    /\ att' = [EndLiveCalls(C, {d \in Calls : C[d].agent = a}) EXCEPT
                  ![c] = Row(l, "CONNECTED", a)]
    /\ proc' = [proc EXCEPT ![x] = [@ EXCEPT !.pc = "ibridge", !.call = c, !.agent = a,
                                             !.back = back]]

\* The customer's agent if free; anyone free, unless that agent is worth waiting for.
PutThrough(x, l, c, a) ==
    /\ proc[x].pc = "idle"
    /\ NewCall(c) /\ ~Turned(l)
    /\ ~Busy(client[l]) /\ a \in Claimable(l)
    /\ Bridge(x, c, l, a, FoundLead(l), att, "idle")
    /\ UNCHANGED <<tickLock, dnc, client, busy, enabled, holdFor>>

Hold(l, c) ==
    LET waitsFor == IF Busy(client[l]) THEN client[l] ELSE NoAgent
    IN  /\ NewCall(c) /\ ~Turned(l)
        /\ waitsFor = NoAgent => Claimable(l) = {}
        /\ AnyoneTakingCalls
        /\ att' = [att EXCEPT ![c] = Row(l, "HOLDING", NoAgent)]
        /\ lead' = FoundLead(l)
        /\ holdFor' = [holdFor EXCEPT ![c] = waitsFor]
        /\ UNCHANGED <<agent, proc, tickLock, dnc, client, busy, enabled>>

\* Mutant: the attempts of the past still count.
CallBack_counted(L, l) ==
    IF L[l].status \notin {"QUEUED", "DISPOSITIONED", "READY_TO_CALL"} THEN L
    ELSE [L EXCEPT ![l].status = "READY_TO_CALL", ![l].yes = TRUE]

\* schedule_callback: onto the dial list, or the pool when the dialer is off; a lead
\* somebody has meanwhile stays where it is.
CallBack(L, l) ==
    IF L[l].status \notin {"QUEUED", "DISPOSITIONED", "READY_TO_CALL"} THEN L
    ELSE IF enabled
    THEN [L EXCEPT ![l].status = "READY_TO_CALL", ![l].tries = 0, ![l].yes = TRUE]
    ELSE [L EXCEPT ![l].status = "QUEUED"]

\* Nobody is taking calls: no point holding.
NobodyThere(l, c) ==
    /\ NewCall(c) /\ ~Turned(l)
    /\ ~AnyoneTakingCalls
    /\ att' = [att EXCEPT ![c] = Row(l, "CLOSED", NoAgent)]
    /\ lead' = CallBack(FoundLead(l), l)
    /\ UNCHANGED <<agent, proc, tickLock, dnc, client, busy, enabled, holdFor>>

-----------------------------------------------------------------------------
(* Held callers *)

\* Mutant: whoever comes takes the caller.
Lock_any(x, c, pc, only) ==
    /\ proc[x].pc \in {"idle", "serve"}
    /\ att[c].status \in {"HOLDING", "BRIDGING"}
    /\ att' = [att EXCEPT ![c].status = "BRIDGING"]
    /\ proc' = [proc EXCEPT ![x] = [@ EXCEPT !.pc = pc, !.call = c, !.agent = only, !.back = proc[x].pc]]
    /\ UNCHANGED <<lead, agent, leg, tickLock, dnc, client, busy, enabled, holdFor>>

\* _lock, by a tick that serves held callers or a hold webhook.
Lock(x, c, pc, only) ==
    /\ proc[x].pc \in {"idle", "serve"}
    /\ att[c].status = "HOLDING"
    /\ att' = [att EXCEPT ![c].status = "BRIDGING"]
    /\ proc' = [proc EXCEPT ![x] = [@ EXCEPT !.pc = pc, !.call = c, !.agent = only, !.back = proc[x].pc]]
    /\ UNCHANGED <<lead, agent, leg, tickLock, dnc, client, busy, enabled, holdFor>>

\* _try_serve, before: only the agent they wait for will do while that agent is busy
\* and the hold limit is not reached.
TryServe(x, c, expired) ==
    /\ proc[x].pc = "idle" => expired
    /\ Lock(x, c, "locked", IF ~expired /\ Busy(holdFor[c]) THEN holdFor[c] ELSE NoAgent)

\* Pressing 1, or the hold limit.
EndHold(x, c) == Lock(x, c, "missed", NoAgent)

\* _try_serve, after: the agents that will do.
Takers(x) ==
    LET c == proc[x].call
        free == ReadyAgents(agent)
    IN  IF proc[x].agent # NoAgent THEN free \cap {proc[x].agent}
        ELSE IF holdFor[c] \in free THEN {holdFor[c]} ELSE free

Serve(x, a) ==
    /\ proc[x].pc = "locked"
    /\ a \in Takers(x)
    /\ Bridge(x, proc[x].call, att[proc[x].call].lead, a, lead, att, proc[x].back)
    /\ UNCHANGED <<leg, tickLock, dnc, client, busy, enabled, holdFor>>

\* _unlock goes by the row as it was when it was locked.
Unlock(x) ==
    /\ proc[x].pc = "locked"
    /\ Takers(x) = {}
    /\ att' = [att EXCEPT ![proc[x].call].status = "HOLDING"]
    /\ Return(x)
    /\ UNCHANGED <<lead, agent, leg, tickLock, dnc, client, busy, enabled, holdFor>>

CallBackLater(x) ==
    /\ proc[x].pc = "missed"
    /\ att' = Close(proc[x].call)
    /\ lead' = CallBack(lead, att[proc[x].call].lead)
    /\ Return(x)
    /\ UNCHANGED <<agent, leg, tickLock, dnc, client, busy, enabled, holdFor>>

\* connect, after its commit: the two legs meet ...
CallerBridged(x) ==
    /\ proc[x].pc = "ibridge"
    /\ client' = [client EXCEPT ![att[proc[x].call].lead] = proc[x].agent]
    /\ Return(x)
    /\ UNCHANGED <<lead, agent, att, leg, tickLock, dnc, busy, enabled, holdFor>>

\* ... or not, and the lead goes to the pool.
CallerLost(x) ==
    LET a == proc[x].agent
    IN  /\ proc[x].pc = "ibridge"
        /\ att' = Close(proc[x].call)
        /\ agent' = [agent EXCEPT ![a].current = NoLead, ![a].status = "AVAILABLE"]
        /\ lead' = SetLead(lead, att[proc[x].call].lead, "QUEUED", NoAgent)
        /\ Return(x)
        /\ UNCHANGED <<leg, tickLock, dnc, client, busy, enabled, holdFor>>

\* The final event of a held caller's leg (caller_hung_up).
CallerHungUp(c) ==
    /\ "ended" \in leg[c]
    /\ att[c].status \in {"HOLDING", "BRIDGING"}
    /\ att' = Close(c)
    /\ lead' = CallBack(lead, att[c].lead)
    /\ UNCHANGED <<agent, leg, proc, tickLock, dnc, client, busy, enabled, holdFor>>

-----------------------------------------------------------------------------
Callers ==
    \E c \in Calls : \/ CallerHungUp(c)
                     \/ \E l \in Leads : TurnAway(l, c) \/ Hold(l, c) \/ NobodyThere(l, c)

Attends(x) ==
    \/ Unlock(x) \/ CallBackLater(x) \/ CallerBridged(x) \/ CallerLost(x)
    \/ \E a \in Agents : \/ Serve(x, a)
                         \/ \E l \in Leads, c \in Calls : PutThrough(x, l, c, a)
    \/ \E c \in Calls : EndHold(x, c) \/ \E expired \in BOOLEAN : TryServe(x, c, expired)

InNext ==
    \/ Next /\ UNCHANGED holdFor
    \/ Quiet /\ (Callers \/ \E x \in Handlers : Attends(x))

InSpec == InInit /\ [][InNext]_invars

-----------------------------------------------------------------------------
(* Properties *)

\* A held caller is dealt with by one handler at a time: not given to an agent by the
\* tick while the webhook promises to call back, nor to two agents.
OneHandlerPerCaller ==
    \A x, y \in Handlers :
        {proc[x].pc, proc[y].pc} \subseteq {"locked", "missed"} /\ proc[x].call = proc[y].call
            => x = y

=============================================================================
