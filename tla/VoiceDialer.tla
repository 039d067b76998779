---------------------------- MODULE VoiceDialer ----------------------------
(***************************************************************************)
(* The auto dialer of app/voice_dialer: customers who answer a text are    *)
(* called, and whoever picks up is bridged to an agent whose headset line  *)
(* is open.                                                                *)
(*                                                                         *)
(* The web handlers, the carrier's webhooks and the 3-second tick run as   *)
(* processes (Handlers) that commit several times and talk to the carrier  *)
(* in between; one action is one transaction.  connect_human is opened up  *)
(* further: its read of the call and its commit are two actions, and       *)
(* Overlap says whether other transactions may commit in between.          *)
(*                                                                         *)
(* The carrier keeps what has happened to each call leg; its events are    *)
(* delivered late, out of order, more than once or never.  A hangup is a   *)
(* request: a leg may end at any moment, asked or not.  Clocks are not     *)
(* modelled: a retry may be due, and a call found lost, at any tick.       *)
(***************************************************************************)
EXTENDS Integers, FiniteSets

CONSTANTS
    Agents,         \* rows of sms_queue_agents
    Leads,          \* rows of sms_leads: find_lead keeps one per number, a customer
    Calls,          \* rows of voice_call_attempts (bound on the unfinished ones)
    Handlers,       \* web requests and tasks running at one time (bound)
    NoAgent, NoLead, NoCall, NoHandler,
    MaxTotal,           \* settings: max_total_attempts
    MaxCallsPerTick,    \* MAX_CALLS_PER_TICK
    MachineDetection,   \* VOICE_MACHINE_DETECTION
    ConnectOnAnswer,    \* VOICE_CONNECT_ON_ANSWER
    Overlap,        \* another transaction may commit inside connect_human's first one
    LockExpires,    \* a tick may outlive the 4 seconds of its lock
    Crashes,        \* a process may die between two of its commits
    Deeds           \* what people may do in a run (bound), a subset of AllDeeds

ASSUME FiniteAssumption == IsFiniteSet(Agents) /\ IsFiniteSet(Leads) /\ IsFiniteSet(Calls)
ASSUME NullsAssumption ==
    NoAgent \notin Agents /\ NoLead \notin Leads /\ NoCall \notin Calls /\ NoHandler \notin Handlers
ASSUME SettingsAssumption ==
    /\ MaxTotal \in Nat \ {0} /\ MaxCallsPerTick \in Nat \ {0}
    /\ {MachineDetection, ConnectOnAnswer, Overlap, LockExpires, Crashes} \subseteq BOOLEAN

VARIABLES
    lead,       \* sms_leads: status, assigned_agent_id, dial_attempts, yes_at set
    agent,      \* sms_queue_agents: status, current_lead_id, voice_ready, line open
    att,        \* voice_call_attempts: status, lead, agent_user_id, human_at set
    leg,        \* the carrier: what has happened to the leg of each call
    proc,       \* the handlers in progress
    tickLock,   \* the Redis key voice:tick:<tenant>, with who set it
    dnc,        \* numbers on sms_do_not_call
    client,     \* voice_client_owners: the agent each customer talked to last
    busy,       \* agents on a hand-dialed call, or listening in on one
    enabled     \* settings: the dialer is on

tables == <<lead, agent, att, dnc, client, busy, enabled>>
vars == <<lead, agent, att, leg, proc, tickLock, dnc, client, busy, enabled>>

-----------------------------------------------------------------------------
(* Types *)

LeadStatus == {"NONE", "QUEUED", "ASSIGNED", "READY_TO_CALL", "DIALING", "IN_PROGRESS",
               "DISPOSITIONED"}
\* RINGING counts as DIALING; every final status of an attempt but ABANDONED is CLOSED.
CallStatus == {"NONE", "DIALING", "ANSWERED", "CONNECTED", "HOLDING", "BRIDGING", "ABANDONED",
               "CLOSED"}
IN_FLIGHT == {"DIALING", "ANSWERED"}
LegEvents == {"answered", "human", "machine", "ended"}

TickPhases == {"grace", "serve", "dial", "calling"}
Pcs == {"idle", "connect", "bridge", "requeue", "locked", "missed", "ibridge"} \cup TickPhases

LeadRow == [status : LeadStatus, owner : Agents \cup {NoAgent}, tries : 0..MaxTotal, yes : BOOLEAN]
AgentRow == [status : {"AVAILABLE", "ON_CALL", "AWAY", "OFFLINE"}, current : Leads \cup {NoLead},
             ready : BOOLEAN, line : BOOLEAN]
CallRow == [status : CallStatus, lead : Leads \cup {NoLead}, agent : Agents \cup {NoAgent},
            human : BOOLEAN]
\* back: what the process goes on with; call, agent: what it works on; early: connected
\* before the detection's verdict; cand, cap: the customers a tick may dial, and how many.
ProcRow == [pc : Pcs, back : Pcs, call : Calls \cup {NoCall}, agent : Agents \cup {NoAgent},
            early : BOOLEAN, cand : SUBSET Leads, cap : 0..MaxCallsPerTick]

\* The type invariant: rows and processes keep their shape.
TypeOK ==
    /\ lead \in [Leads -> LeadRow]
    /\ agent \in [Agents -> AgentRow]
    /\ att \in [Calls -> CallRow]
    /\ leg \in [Calls -> SUBSET LegEvents]
    /\ proc \in [Handlers -> ProcRow]
    /\ tickLock \in Handlers \cup {NoHandler}
    /\ dnc \subseteq Leads
    /\ client \in [Leads -> Agents \cup {NoAgent}]
    /\ busy \subseteq Agents
    /\ enabled \in BOOLEAN

Idle == [pc |-> "idle", back |-> "idle", call |-> NoCall, agent |-> NoAgent, early |-> FALSE,
         cand |-> {}, cap |-> 0]

Init ==
    /\ lead = [l \in Leads |-> [status |-> "NONE", owner |-> NoAgent, tries |-> 0, yes |-> FALSE]]
    /\ agent = [a \in Agents |-> [status |-> "OFFLINE", current |-> NoLead,
                                  ready |-> FALSE, line |-> FALSE]]
    /\ att = [c \in Calls |-> [status |-> "NONE", lead |-> NoLead, agent |-> NoAgent,
                               human |-> FALSE]]
    /\ leg = [c \in Calls |-> {}]
    /\ proc = [x \in Handlers |-> Idle]
    /\ tickLock = NoHandler
    /\ dnc = {}
    /\ client = [l \in Leads |-> NoAgent]
    /\ busy = {}
    /\ enabled = TRUE

-----------------------------------------------------------------------------
(* Helpers on the tables *)

InFlight(C, l) == \E c \in Calls : C[c].lead = l /\ C[c].status \in IN_FLIGHT

ReadyAgents(A) ==
    {a \in Agents : /\ A[a].status = "AVAILABLE" /\ A[a].current = NoLead
                    /\ A[a].line /\ A[a].ready /\ a \notin busy}

\* dialer_reserves_agents
Reserved(L, C) ==
    \/ \E c \in Calls : C[c].status = "HOLDING"
    \/ enabled /\ \E l \in Leads : L[l].status \in {"READY_TO_CALL", "DIALING"}

\* Who is given lead l by the dealing m.
GivenTo(m, l) == CHOOSE a \in DOMAIN m : m[a] = l

\* Up to n offers of the regular assigner from the tables L, A and C.  Its order
\* and its cooldowns are module SmsQueue's matter: here it may offer any queued lead.
Assign(n, L, A, C) ==
    LET free == {a \in Agents : /\ A[a].status = "AVAILABLE" /\ A[a].current = NoLead
                                /\ a \notin busy
                                /\ ~(Reserved(L, C) /\ A[a].line)}
    IN \E D \in SUBSET free : \E m \in [D -> {l \in Leads : L[l].status = "QUEUED"}] :
          /\ Cardinality(D) <= n
          /\ \A a, b \in D : m[a] = m[b] => a = b
          /\ lead' = [l \in Leads |-> IF \E a \in D : m[a] = l
                         THEN [L[l] EXCEPT !.status = "ASSIGNED", !.owner = GivenTo(m, l)]
                         ELSE L[l]]
          /\ agent' = [a \in Agents |-> IF a \in D THEN [A[a] EXCEPT !.current = m[a]] ELSE A[a]]

SetLead(L, l, s, o) == [L EXCEPT ![l].status = s, ![l].owner = o]

\* The holder of an offer loses it, if it is still their current lead.
Detach(A, l) ==
    [a \in Agents |-> IF a = lead[l].owner /\ A[a].current = l
                      THEN [A[a] EXCEPT !.current = NoLead] ELSE A[a]]

\* Mutant: one attempt too many.
Missed_late(L, l) ==
    IF L[l].status # "DIALING" THEN L
    ELSE [L EXCEPT ![l].status = IF L[l].tries > MaxTotal THEN "QUEUED" ELSE "READY_TO_CALL"]

\* _requeue after a miss: to the dial list again, or to the pool when out of attempts.
\* It leaves a lead alone that something else has moved meanwhile.
Missed(L, l) ==
    IF L[l].status # "DIALING" THEN L
    ELSE [L EXCEPT ![l].status = IF L[l].tries >= MaxTotal THEN "QUEUED" ELSE "READY_TO_CALL"]

\* and its assign_next, when the lead went to the pool.
Requeue(l, L, A, C) ==
    Assign(IF L[l].status = "DIALING" /\ L[l].tries >= MaxTotal THEN 1 ELSE 0, Missed(L, l), A, C)

\* The rows D of C closed; what is only kept for the statistics is forgotten.
Closed(C, D) ==
    [c \in Calls |-> IF c \in D THEN [C[c] EXCEPT !.status = "CLOSED", !.agent = NoAgent,
                                                  !.human = FALSE]
                     ELSE C[c]]

\* Mutant: whoever is still in the agent's room stays there.
EndLiveCalls_stay(C, D) == C

\* _end_live_calls: the connected calls among D are closed (and hung up).
EndLiveCalls(C, D) == Closed(C, {c \in D : C[c].status = "CONNECTED"})

CallsOf(l) == {c \in Calls : att[c].lead = l}
CallsWith(a) == {c \in Calls : att[c].agent = a}

Close(c) == Closed(att, {c})

Goto(x, pc) == proc' = [proc EXCEPT ![x].pc = pc]
\* The process is done with this call: back to its tick, or finished.
Return(x) ==
    proc' = [proc EXCEPT ![x] =
        IF proc[x].back = "idle" THEN Idle
        ELSE [proc[x] EXCEPT !.pc = proc[x].back, !.back = "idle", !.call = NoCall,
                             !.agent = NoAgent, !.early = FALSE]]

-----------------------------------------------------------------------------
(* Customers text *)

\* Where an answer to our text takes a lead that may be called.
AfterYes(s) ==
    CASE s \in {"IN_PROGRESS", "DIALING"} \/ (s = "ASSIGNED" /\ ~enabled) -> s
      [] enabled                        -> "READY_TO_CALL"
      [] s \in {"NONE", "DISPOSITIONED"} -> "QUEUED"
      [] OTHER                          -> s

\* A clear yes, or any other friendly reply.  The yes lifts an opt-out and reopens
\* a closed lead; anything else from a closed lead is only saved.
TextYes(l, clear) ==
    LET old == lead[l].status
        out == l \in dnc /\ ~clear
        new == IF ~out THEN AfterYes(old) ELSE IF old = "NONE" THEN "QUEUED" ELSE old
        moved == ~out /\ new = "READY_TO_CALL" /\ enabled
        row == [lead[l] EXCEPT !.status = new, !.yes = TRUE,
                               !.tries = IF moved THEN 0 ELSE @,
                               !.owner = IF moved THEN NoAgent ELSE @]
    IN  /\ clear \/ old # "DISPOSITIONED"
        /\ dnc' = IF clear THEN dnc \ {l} ELSE dnc
        /\ Assign(IF new = "QUEUED" THEN 1 ELSE 0, [lead EXCEPT ![l] = row],
                  IF moved /\ old = "ASSIGNED" THEN Detach(agent, l) ELSE agent, att)
        /\ UNCHANGED <<att, leg, proc, tickLock, client, busy, enabled>>

\* STOP, a plain no, a wrong number.  A lead being worked stays with its agent; a
\* ringing call is hung up, and its row closed by the event that follows.
TextStop(l) ==
    LET old == lead[l].status
        parked == old \notin {"IN_PROGRESS", "DISPOSITIONED"}
    IN  /\ dnc' = dnc \cup {l}
        /\ lead' = IF parked
                   THEN SetLead(lead, l, "DISPOSITIONED",
                                IF old = "ASSIGNED" THEN NoAgent ELSE lead[l].owner)
                   ELSE lead
        /\ agent' = IF old = "ASSIGNED" THEN Detach(agent, l) ELSE agent
        /\ UNCHANGED <<att, leg, proc, tickLock, client, busy, enabled>>

\* "Press 9" on the message of an abandoned call.
PressNine(c) ==
    LET l == att[c].lead
    IN  /\ att[c].status = "ABANDONED"
        /\ dnc' = dnc \cup {l}
        /\ lead' = IF lead[l].status \in {"READY_TO_CALL", "DIALING", "QUEUED"}
                   THEN [lead EXCEPT ![l].status = "DISPOSITIONED"] ELSE lead
        /\ UNCHANGED <<agent, att, leg, proc, tickLock, client, busy, enabled>>

-----------------------------------------------------------------------------
(* What agents and managers do: the parts of queue_service.py that touch a call *)

Others == <<leg, proc, tickLock, client, busy, enabled>>

\* join, and end_break
Join(a) ==
    /\ Assign(1, lead, [agent EXCEPT ![a].status = "AVAILABLE"], att)
    /\ UNCHANGED <<att, dnc, Others>>

ReleaseHeld(a) ==
    [l \in Leads |-> IF lead[l].owner = a /\ lead[l].status \in {"ASSIGNED", "IN_PROGRESS"}
                     THEN [lead[l] EXCEPT !.status = "QUEUED", !.owner = NoAgent] ELSE lead[l]]

\* The line stays open until the next tick finds it on an agent who is OFFLINE.
Leave(a) ==
    /\ Assign(1, ReleaseHeld(a),
              [agent EXCEPT ![a].status = "OFFLINE", ![a].current = NoLead, ![a].ready = FALSE], att)
    /\ UNCHANGED <<att, dnc, Others>>

StartBreak(a) ==
    /\ Assign(1, ReleaseHeld(a), [agent EXCEPT ![a].status = "AWAY", ![a].current = NoLead], att)
    /\ UNCHANGED <<att, dnc, Others>>

Accept(a, l) ==
    /\ lead[l].status = "ASSIGNED" /\ lead[l].owner = a
    /\ lead' = [lead EXCEPT ![l].status = "IN_PROGRESS"]
    /\ agent' = [agent EXCEPT ![a].status = "ON_CALL", ![a].current = l]
    /\ UNCHANGED <<att, dnc, Others>>

Pass(a, l) ==
    /\ lead[l].status = "ASSIGNED" /\ lead[l].owner = a
    /\ Assign(1, SetLead(lead, l, "QUEUED", NoAgent), [agent EXCEPT ![a].current = NoLead], att)
    /\ UNCHANGED <<att, dnc, Others>>

\* A result ends the call with the customer; some results suppress the number.
Disposition(a, l, suppress) ==
    LET closed == EndLiveCalls(att, CallsOf(l))
    IN  /\ lead[l].status # "NONE"
        /\ dnc' = IF suppress THEN dnc \cup {l} ELSE dnc
        /\ att' = closed
        /\ Assign(1, [lead EXCEPT ![l].status = "DISPOSITIONED"],
                  [agent EXCEPT ![a].status = "AVAILABLE", ![a].current = NoLead], closed)
        /\ UNCHANGED Others

\* The result VOICEMAIL puts a customer who had said yes back on the dial list.
Voicemail(a, l) ==
    LET closed == EndLiveCalls(att, CallsOf(l))
        again == SetLead(lead, l, "DIALING", NoAgent)
    IN  /\ lead[l].yes /\ enabled
        /\ att' = closed
        /\ Assign(IF lead[l].tries >= MaxTotal THEN 2 ELSE 1, Missed(again, l),
                  [agent EXCEPT ![a].status = "AVAILABLE", ![a].current = NoLead], closed)
        /\ UNCHANGED <<dnc, Others>>

ManagerDisposition(l) ==
    LET closed == EndLiveCalls(att, CallsOf(l))
    IN  /\ lead[l].status # "NONE"
        /\ dnc' = dnc \cup {l}
        /\ att' = closed
        /\ Assign(1, SetLead(lead, l, "DISPOSITIONED", NoAgent), Detach(agent, l), closed)
        /\ UNCHANGED Others

Reassign(l, a) ==
    /\ lead[l].status # "NONE"
    /\ lead' = SetLead(lead, l, "ASSIGNED", a)
    /\ agent' = [Detach(agent, l) EXCEPT ![a].current = l]
    /\ UNCHANGED <<att, dnc, Others>>

-----------------------------------------------------------------------------
(* Headset lines and hand-dialed calls *)

\* Switching off hangs the line up (and whoever is in its room).
SetReady(a, on) ==
    /\ agent' = [agent EXCEPT ![a].ready = on, ![a].line = on /\ @]
    /\ UNCHANGED <<lead, att, dnc, Others>>

OnAgentLine(a) ==
    /\ agent[a].ready /\ a \notin busy
    /\ agent' = [agent EXCEPT ![a].line = TRUE]
    /\ UNCHANGED <<lead, att, dnc, Others>>

OnAgentLineEnded(a) ==
    /\ agent[a].line
    /\ agent' = [agent EXCEPT ![a].line = FALSE]
    /\ UNCHANGED <<lead, att, dnc, Others>>

\* A hand-dialed call: refused while a customer is on the line; the caller owns
\* the customer's callbacks from now on.
StartHandCall(a, l) ==
    /\ a \notin busy
    /\ ~ \E c \in Calls : att[c].agent = a /\ att[c].status = "CONNECTED"
    /\ busy' = busy \cup {a}
    /\ client' = [client EXCEPT ![l] = a]
    /\ agent' = [agent EXCEPT ![a].line = FALSE]
    /\ UNCHANGED <<lead, att, dnc, leg, proc, tickLock, enabled>>

\* _finish assigns without committing: the offer it announces is rolled back.
EndHandCall(a) ==
    /\ a \in busy
    /\ busy' = busy \ {a}
    /\ UNCHANGED <<lead, agent, att, dnc, leg, proc, tickLock, client, enabled>>

Toggle ==
    /\ enabled' = ~enabled
    /\ UNCHANGED <<lead, agent, att, dnc, leg, proc, tickLock, client, busy>>

-----------------------------------------------------------------------------
(* The carrier *)

LegStep(c, e) ==
    /\ att[c].status # "NONE"
    /\ leg' = [leg EXCEPT ![c] = @ \cup {e}]
    /\ UNCHANGED <<tables, proc, tickLock>>

CustomerPicksUp(c) == leg[c] = {} /\ LegStep(c, "answered")
DetectionDecides(c, v) == MachineDetection /\ leg[c] = {"answered"} /\ LegStep(c, v)
LegEnds(c) == "ended" \notin leg[c] /\ LegStep(c, "ended")

-----------------------------------------------------------------------------
(* connect_human *)

\* Mutant: the lead is not looked at again.
ReadCall_unchecked(x, c, early, back, C) ==
    /\ proc' = [proc EXCEPT ![x] = [Idle EXCEPT !.pc = "connect", !.call = c, !.early = early,
                                                 !.back = back]]
    /\ att' = C

\* Its checks: the call is still in flight, its lead still the dialer's.
ReadCall(x, c, early, back, C) ==
    IF lead[C[c].lead].status = "DIALING"
    THEN /\ proc' = [proc EXCEPT ![x] = [Idle EXCEPT !.pc = "connect", !.call = c,
                                                      !.early = early, !.back = back]]
         /\ att' = C
    ELSE att' = Closed(C, {c}) /\ UNCHANGED proc

\* The customer's own agent first, else any free one.
Claimable(l) ==
    IF client[l] \in ReadyAgents(agent) THEN {client[l]} ELSE ReadyAgents(agent)

\* Its first transaction: the agent is claimed, their room cleared, the lead theirs.
ConnectAgent(x, a) ==
    LET c == proc[x].call
        l == att[c].lead
    IN  /\ proc[x].pc = "connect"
        /\ a \in Claimable(l)
        /\ agent' = [agent EXCEPT ![a].current = l, ![a].status = "ON_CALL"]
        /\ lead' = SetLead(lead, l, "IN_PROGRESS", a)
        /\ att' = [EndLiveCalls(att, CallsWith(a)) EXCEPT
                      ![c].status = "CONNECTED", ![c].agent = a,
                      ![c].human = @ \/ ~proc[x].early]
        /\ proc' = [proc EXCEPT ![x].pc = "bridge", ![x].agent = a]
        /\ UNCHANGED <<leg, tickLock, dnc, client, busy, enabled>>

\* Nobody is free: the customer hears the apology; the lead goes back afterwards.
Abandon(x) ==
    /\ proc[x].pc = "connect"
    /\ Claimable(att[proc[x].call].lead) = {}
    /\ att' = [att EXCEPT ![proc[x].call].status = "ABANDONED"]
    /\ Goto(x, "requeue")
    /\ UNCHANGED <<lead, agent, leg, tickLock, dnc, client, busy, enabled>>

RequeueLater(x) ==
    /\ proc[x].pc = "requeue"
    /\ Requeue(att[proc[x].call].lead, lead, agent, att)
    /\ Return(x)
    /\ UNCHANGED <<att, leg, tickLock, dnc, client, busy, enabled>>

\* Both legs are moved into one room ...
Bridged(x) ==
    /\ proc[x].pc = "bridge"
    /\ client' = [client EXCEPT ![att[proc[x].call].lead] = proc[x].agent]
    /\ Return(x)
    /\ UNCHANGED <<lead, agent, att, leg, tickLock, dnc, busy, enabled>>

\* ... or the carrier refuses, and all is undone, whatever happened meanwhile.
BridgeFails(x) ==
    LET c == proc[x].call
        l == att[c].lead
    IN  /\ proc[x].pc = "bridge"
        /\ att' = Close(c)
        /\ Requeue(l, SetLead(lead, l, "DIALING", NoAgent),
                   [agent EXCEPT ![proc[x].agent].current = NoLead,
                                 ![proc[x].agent].status = "AVAILABLE"], Close(c))
        /\ Return(x)
        /\ UNCHANGED <<leg, tickLock, dnc, client, busy, enabled>>

-----------------------------------------------------------------------------
(* Webhooks of a customer's leg *)

\* The answer URL is asked: connect at once, or hold while the detection listens.
AnswerUrl(x, c) ==
    LET answered == [att EXCEPT ![c].status = IF @ = "DIALING" THEN "ANSWERED" ELSE @]
    IN  /\ proc[x].pc = "idle"
        /\ "answered" \in leg[c] /\ att[c].status \in IN_FLIGHT
        /\ IF ConnectOnAnswer \/ ~MachineDetection
           THEN ReadCall(x, c, MachineDetection, "idle", att)
           ELSE att' = answered /\ UNCHANGED proc
        /\ UNCHANGED <<lead, agent, leg, tickLock, dnc, client, busy, enabled>>

\* The event "answered"; its row is committed before connect_human reads it again.
AnsweredEvent(x, c) ==
    LET answered == [att EXCEPT ![c].status = IF @ = "DIALING" THEN "ANSWERED" ELSE @]
    IN  /\ proc[x].pc = "idle"
        /\ "answered" \in leg[c] /\ att[c].status \in IN_FLIGHT
        /\ IF ConnectOnAnswer /\ MachineDetection
           THEN ReadCall(x, c, TRUE, "idle", answered)
           ELSE att' = answered /\ UNCHANGED proc
        /\ UNCHANGED <<lead, agent, leg, tickLock, dnc, client, busy, enabled>>

HumanEvent(x, c) ==
    /\ proc[x].pc = "idle"
    /\ "human" \in leg[c]
    /\ \/ /\ att[c].status = "CONNECTED"
          /\ att' = [att EXCEPT ![c].human = TRUE]
          /\ UNCHANGED proc
       \/ /\ att[c].status \in IN_FLIGHT
          /\ ReadCall(x, c, FALSE, "idle", att)
    /\ UNCHANGED <<lead, agent, leg, tickLock, dnc, client, busy, enabled>>

\* Mutant: the agent is not taken off the voicemail.
MachineEvent_kept(x, c) ==
    /\ proc[x].pc = "idle"
    /\ "machine" \in leg[c]
    /\ att[c].status \in IN_FLIGHT \cup {"CONNECTED"} /\ ~att[c].human
    /\ att' = Close(c)
    /\ UNCHANGED <<lead, agent, proc, leg, tickLock, dnc, client, busy, enabled>>

\* Voicemail: before a bridge, or after an early one (_drop_early_voicemail), the
\* call is closed first and the lead put back by a transaction of its own.
MachineEvent(x, c) ==
    LET a == att[c].agent
        l == att[c].lead
        early == att[c].status = "CONNECTED"
    IN  /\ proc[x].pc = "idle"
        /\ "machine" \in leg[c]
        /\ att[c].status \in IN_FLIGHT \/ (early /\ ~att[c].human)
        /\ att' = Close(c)
        /\ lead' = IF early /\ lead[l].status = "IN_PROGRESS"
                   THEN SetLead(lead, l, "DIALING", NoAgent) ELSE lead
        /\ agent' = IF ~early THEN agent
                    ELSE [agent EXCEPT ![a].current = IF @ = l THEN NoLead ELSE @,
                                       ![a].status = IF @ = "ON_CALL" THEN "AVAILABLE" ELSE @]
        /\ proc' = [proc EXCEPT ![x] = [Idle EXCEPT !.pc = "requeue", !.call = c]]
        /\ UNCHANGED <<leg, tickLock, dnc, client, busy, enabled>>

\* The final event.  After a bridge the agent keeps the lead until they set a result.
EndedEvent(c) ==
    /\ "ended" \in leg[c]
    /\ \/ /\ att[c].status = "CONNECTED"
          /\ UNCHANGED <<lead, agent>>
       \/ /\ att[c].status \in IN_FLIGHT
          /\ Requeue(att[c].lead, lead, agent, Close(c))
    /\ att' = Close(c)
    /\ UNCHANGED <<leg, proc, tickLock, dnc, client, busy, enabled>>

-----------------------------------------------------------------------------
(* The tick: beat runs it every 3 seconds, every webhook when it is done, and an  *)
(* agent's switch.  A phase may also be skipped: an exception ends it early.      *)

Ticking(x) == proc[x].pc \in TickPhases \/ proc[x].back \in TickPhases

\* The reaper comes first: S are the agents whose heartbeat is stale.
ReapStaleAgents(S) ==
    Assign(IF S = {} THEN 0 ELSE Cardinality(Agents),
           [l \in Leads |-> IF /\ lead[l].status \in {"ASSIGNED", "IN_PROGRESS"}
                               /\ \E a \in S : agent[a].current = l
                            THEN [lead[l] EXCEPT !.status = "QUEUED", !.owner = NoAgent]
                            ELSE lead[l]],
           [a \in Agents |-> IF a \in S THEN [agent[a] EXCEPT !.status = "OFFLINE",
                                                 !.current = NoLead, !.ready = FALSE]
                             ELSE agent[a]],
           att)

TickStarts(x, S) ==
    /\ proc[x].pc = "idle" /\ tickLock = NoHandler
    /\ tickLock' = x
    /\ proc' = [proc EXCEPT ![x] = [Idle EXCEPT !.pc = "grace"]]
    /\ \A a \in S : agent[a].status # "OFFLINE"
    /\ ReapStaleAgents(S)
    /\ UNCHANGED <<att, leg, dnc, client, busy, enabled>>

\* An answered call without a verdict is connected when its grace is over.
GraceOver(x, c) ==
    /\ proc[x].pc = "grace"
    /\ att[c].status = "ANSWERED"
    /\ ReadCall(x, c, FALSE, "grace", att)
    /\ UNCHANGED <<lead, agent, leg, tickLock, dnc, client, busy, enabled>>

Stray(c) ==
    /\ att[c].status = "CONNECTED"
    /\ \/ lead[att[c].lead].status # "IN_PROGRESS"
       \/ lead[att[c].lead].owner # att[c].agent

\* Mutant: lost calls are closed, their customers forgotten.
House_forgets(x, lost, old) ==
    LET closed == Closed(att, {c \in Calls : c \in lost \cup old \/ Stray(c)})
    IN  /\ proc[x].pc = "grace"
        /\ \A c \in lost : att[c].status = "DIALING"
        /\ \A c \in old : att[c].status = "CONNECTED"
        /\ att' = closed
        /\ Goto(x, "serve")
        /\ UNCHANGED <<lead, agent, leg, tickLock, dnc, client, busy, enabled>>

\* Mutant: a bridged call is left to its own end event.
House_strays(x, lost, old) ==
    LET unanswered == {l \in Leads : \E c \in lost : att[c].lead = l}
    IN  /\ proc[x].pc = "grace"
        /\ \A c \in lost : att[c].status = "DIALING"
        /\ att' = Closed(att, lost)
        /\ lead' = [l \in Leads |-> IF l \in unanswered THEN Missed(lead, l)[l] ELSE lead[l]]
        /\ Goto(x, "serve")
        /\ UNCHANGED <<agent, leg, tickLock, dnc, client, busy, enabled>>

\* One sweep over the rows.  lost: dialed too long ago, and no final event came;
\* old: bridged hours ago, and no end event came.  A bridged call whose lead is not
\* with its agent any more is ended, the line of an agent who is gone hung up.
House(x, lost, old) ==
    LET closed == Closed(att, {c \in Calls : c \in lost \cup old \/ Stray(c)})
        unanswered == {l \in Leads : \E c \in lost : att[c].lead = l}
    IN  /\ proc[x].pc = "grace"
        /\ \A c \in lost : att[c].status = "DIALING"
        /\ \A c \in old : att[c].status = "CONNECTED"
        /\ att' = closed
        /\ Assign(Cardinality({l \in unanswered : lead[l].status = "DIALING"
                                                  /\ lead[l].tries >= MaxTotal}),
                  [l \in Leads |-> IF l \in unanswered THEN Missed(lead, l)[l] ELSE lead[l]],
                  [a \in Agents |-> IF agent[a].status = "OFFLINE"
                                    THEN [agent[a] EXCEPT !.line = FALSE] ELSE agent[a]],
                  closed)
        /\ Goto(x, "serve")
        /\ UNCHANGED <<leg, tickLock, dnc, client, busy, enabled>>

\* _reclaim_offers: offers on an open line go back to the pool.
Reclaimable == {a \in Agents : /\ agent[a].status = "AVAILABLE" /\ agent[a].line
                               /\ agent[a].current # NoLead
                               /\ lead[agent[a].current].status = "ASSIGNED"}

\* One call per free agent on the line, counting the calls already in flight.
Capacity(A) ==
    LET n == Cardinality(ReadyAgents(A)) - Cardinality({c \in Calls : att[c].status \in IN_FLIGHT})
    IN  IF n < 0 THEN 0 ELSE IF n > MaxCallsPerTick THEN MaxCallsPerTick ELSE n

\* Mutant: calls in flight are not looked at.
Plan_busy(x, due) ==
    /\ proc[x].pc = "serve"
    /\ enabled /\ ~ \E c \in Calls : att[c].status = "HOLDING"
    /\ due # {} /\ \A l \in due : lead[l].status = "READY_TO_CALL"
    /\ proc' = [proc EXCEPT ![x].pc = "dial", ![x].cap = MaxCallsPerTick, ![x].cand = due]
    /\ UNCHANGED <<lead, agent, att, leg, tickLock, dnc, client, busy, enabled>>

\* due: the ready leads whose retry time has come.  Nobody is dialed while a caller
\* is on hold, nor anyone who is in a call already.
Plan(x, due) ==
    /\ proc[x].pc = "serve"
    /\ enabled /\ ~ \E c \in Calls : att[c].status = "HOLDING"
    /\ due # {} /\ \A l \in due : lead[l].status = "READY_TO_CALL"
    /\ \E back \in {{}, IF Capacity(agent) = 0 THEN Reclaimable ELSE {}} :
          LET A == [a \in Agents |-> IF a \in back THEN [agent[a] EXCEPT !.current = NoLead]
                                     ELSE agent[a]]
          IN  /\ agent' = A
              /\ lead' = [l \in Leads |-> IF \E a \in back : agent[a].current = l
                             THEN [lead[l] EXCEPT !.status = "QUEUED", !.owner = NoAgent]
                             ELSE lead[l]]
              /\ proc' = [proc EXCEPT ![x].pc = "dial", ![x].cap = Capacity(A),
                                      ![x].cand = {l \in due : ~InFlight(att, l)}]
    /\ UNCHANGED <<att, leg, tickLock, dnc, client, busy, enabled>>

\* Calling hours, or the 24-hour limit: not now.
NotNow(x, l) ==
    /\ proc[x].pc = "dial" /\ proc[x].cap > 0 /\ l \in proc[x].cand
    /\ proc' = [proc EXCEPT ![x].cand = @ \ {l}]
    /\ UNCHANGED <<tables, leg, tickLock>>

\* An opt-out since: the lead is closed, whatever its status has become.
OptedOutSince(x, l) ==
    /\ proc[x].pc = "dial" /\ proc[x].cap > 0 /\ l \in proc[x].cand
    /\ l \in dnc
    /\ lead' = [lead EXCEPT ![l].status = "DISPOSITIONED"]
    /\ proc' = [proc EXCEPT ![x].cand = @ \ {l}]
    /\ UNCHANGED <<agent, att, leg, tickLock, dnc, client, busy, enabled>>

\* A row to use: a new one, or one of a call that is over for everybody.
Unused(c) ==
    \/ att[c].status = "NONE"
    \/ /\ att[c].status \in {"CLOSED", "ABANDONED"} /\ "ended" \in leg[c]
       /\ \A x \in Handlers : proc[x].call # c

\* The claim READY_TO_CALL -> DIALING, and the row of the call.
Dial(x, l, c) ==
    /\ proc[x].pc = "dial" /\ proc[x].cap > 0 /\ l \in proc[x].cand
    /\ l \notin dnc
    /\ lead[l].status = "READY_TO_CALL"
    /\ Unused(c)
    /\ lead' = [lead EXCEPT ![l].status = "DIALING", ![l].tries = @ + 1]
    /\ att' = [att EXCEPT ![c] = [status |-> "DIALING", lead |-> l, agent |-> NoAgent,
                                  human |-> FALSE]]
    /\ leg' = [leg EXCEPT ![c] = {}]
    /\ proc' = [proc EXCEPT ![x].pc = "calling", ![x].call = c, ![x].cand = @ \ {l}]
    /\ UNCHANGED <<agent, tickLock, dnc, client, busy, enabled>>

CallPlaced(x) ==
    /\ proc[x].pc = "calling"
    /\ proc' = [proc EXCEPT ![x].pc = "dial", ![x].call = NoCall, ![x].cap = @ - 1]
    /\ UNCHANGED <<tables, leg, tickLock>>

\* The carrier refuses, or its answer is lost and the phone rings all the same.
CallFails(x) ==
    /\ proc[x].pc = "calling"
    /\ att' = Close(proc[x].call)
    /\ Requeue(att[proc[x].call].lead, lead, agent, Close(proc[x].call))
    /\ proc' = [proc EXCEPT ![x].pc = "dial", ![x].call = NoCall]
    /\ UNCHANGED <<leg, tickLock, dnc, client, busy, enabled>>

\* The lock is deleted by whoever comes to the end, also when it is another's by now.
TickEnds(x) ==
    /\ proc[x].pc \in {"grace", "serve", "dial"}
    /\ proc' = [proc EXCEPT ![x] = Idle]
    /\ tickLock' = NoHandler
    /\ UNCHANGED <<tables, leg>>

\* The Redis key expires: under a process that died, or one that takes too long.
LockRunsOut ==
    /\ tickLock # NoHandler
    /\ LockExpires \/ ~Ticking(tickLock)
    /\ tickLock' = NoHandler
    /\ UNCHANGED <<tables, leg, proc>>

Dies(x) ==
    /\ Crashes
    /\ proc[x].pc # "idle"
    /\ proc' = [proc EXCEPT ![x] = Idle]
    /\ UNCHANGED <<tables, leg, tickLock>>

-----------------------------------------------------------------------------
\* Nobody is between a read and the commit that relies on it.
Quiet == Overlap \/ \A x \in Handlers : proc[x].pc # "connect"

Handler(x) ==
    \/ RequeueLater(x) \/ Bridged(x) \/ BridgeFails(x)
    \/ \E c \in Calls : AnswerUrl(x, c) \/ AnsweredEvent(x, c) \/ HumanEvent(x, c)
                        \/ MachineEvent(x, c)

Tick(x) ==
    \/ \E S \in SUBSET Agents : TickStarts(x, S)
    \/ \E c \in Calls : GraceOver(x, c)
    \/ \E lost, old \in SUBSET Calls : House(x, lost, old)
    \/ \E due \in SUBSET Leads : Plan(x, due)
    \/ \E l \in Leads : \/ NotNow(x, l) \/ OptedOutSince(x, l)
                        \/ \E c \in Calls : Dial(x, l, c)
    \/ CallPlaced(x) \/ CallFails(x) \/ TickEnds(x)

Connect(x) == Abandon(x) \/ \E a \in Agents : ConnectAgent(x, a)

AllDeeds == {"stop", "break", "leave", "take", "result", "voicemail", "manage", "line", "hand",
             "toggle"}

People ==
    \/ \E l \in Leads, clear \in BOOLEAN : TextYes(l, clear)
    \/ \E a \in Agents : Join(a) \/ OnAgentLine(a) \/ SetReady(a, TRUE)
    \/ "stop" \in Deeds /\ \/ \E l \in Leads : TextStop(l)
                           \/ \E c \in Calls : PressNine(c)
    \/ "break" \in Deeds /\ \E a \in Agents : StartBreak(a)
    \/ "leave" \in Deeds /\ \E a \in Agents : Leave(a)
    \/ "take" \in Deeds /\ \E a \in Agents, l \in Leads : Accept(a, l) \/ Pass(a, l)
    \/ "result" \in Deeds /\ \E a \in Agents, l \in Leads, suppress \in BOOLEAN :
                               Disposition(a, l, suppress)
    \/ "voicemail" \in Deeds /\ \E a \in Agents, l \in Leads : Voicemail(a, l)
    \/ "manage" \in Deeds /\ \E l \in Leads : \/ ManagerDisposition(l)
                                             \/ \E a \in Agents : Reassign(l, a)
    \/ "line" \in Deeds /\ \E a \in Agents : OnAgentLineEnded(a) \/ SetReady(a, FALSE)
    \/ "hand" \in Deeds /\ \E a \in Agents : EndHandCall(a) \/ \E l \in Leads : StartHandCall(a, l)
    \/ "toggle" \in Deeds /\ Toggle

Carrier ==
    \E c \in Calls : \/ CustomerPicksUp(c) \/ LegEnds(c) \/ EndedEvent(c)
                     \/ \E v \in {"human", "machine"} : DetectionDecides(c, v)

Next ==
    \/ Quiet /\ (People \/ Carrier \/ LockRunsOut \/ \E x \in Handlers : Handler(x) \/ Tick(x))
    \/ \E x \in Handlers : Connect(x) \/ Dies(x)

Spec == Init /\ [][Next]_vars

\* Handlers run to their end, the beat goes on, legs end; a call that is long
\* overdue is overdue in every later sweep.  Nobody picks up, texts or works.
FairSpec ==
    /\ Spec
    /\ \A x \in Handlers : WF_vars(Connect(x) \/ RequeueLater(x) \/ Bridged(x) \/ BridgeFails(x))
    /\ \A x \in Handlers : WF_vars(CallPlaced(x) \/ CallFails(x) \/ TickEnds(x))
    /\ WF_vars(\E x \in Handlers : TickStarts(x, {}))
    /\ \A c \in Calls :
          /\ SF_vars(\E x \in Handlers : GraceOver(x, c))
          /\ SF_vars(\E x \in Handlers, lost, old \in SUBSET Calls :
                        (c \in lost \/ Stray(c)) /\ House(x, lost, old))

-----------------------------------------------------------------------------
(* Properties *)

\* No two strangers in one room: an agent is bridged to one customer at most, and
\* to none while on a hand-dialed call, whatever results, reassignments, breaks and
\* failed bridges came in between.
NoTwoCustomersInOneRoom ==
    \A c, d \in Calls :
        att[c].status = "CONNECTED" /\ att[d].status = "CONNECTED" /\ att[c].agent = att[d].agent
            => c = d /\ att[c].agent \notin busy

\* Never two calls to the same customer at once.
OneCallPerCustomer ==
    \A c, d \in Calls :
        InFlight(att, att[c].lead) /\ {att[c].status, att[d].status} \subseteq IN_FLIGHT
            /\ att[c].lead = att[d].lead => c = d

\* A customer on the dial list's claimed status is never forgotten: a call of theirs
\* is in flight, or some handler is about to put them back.
ClaimedIsTracked ==
    \A l \in Leads : lead[l].status = "DIALING" =>
        \/ InFlight(att, l)
        \/ \E x \in Handlers : proc[x].pc = "requeue" /\ att[proc[x].call].lead = l

\* One lead, one call, one agent: no two agents have the same customer in front of them.
OneLeadOneAgent ==
    \A a, b \in Agents : agent[a].current = agent[b].current /\ agent[a].current # NoLead => a = b

\* Whoever opted out is not bridged to an agent, even when the phone was already
\* ringing as they did.
OptedOutNotBridged ==
    [][\A c \in Calls : att'[c].status = "CONNECTED" /\ att[c].status \in IN_FLIGHT
          => att[c].lead \notin dnc]_vars

\* A claimed customer leaves that status again: answered, missed, closed or lost.
DialingEnds ==
    \A l \in Leads : lead[l].status = "DIALING" ~> lead[l].status # "DIALING"

\* A bridged call whose lead has gone elsewhere is hung up.
StrayEnds == \A c \in Calls : Stray(c) ~> ~Stray(c)
=============================================================================
