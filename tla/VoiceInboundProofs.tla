------------------------ MODULE VoiceInboundProofs ------------------------
(***************************************************************************)
(* Proofs about VoiceInbound: the dialer's invariants also hold with       *)
(* callers, and a held caller has one handler.                             *)
(***************************************************************************)
EXTENDS VoiceInbound, VoiceDialerProofs

-----------------------------------------------------------------------------
(* What the helpers make of leads and calls. *)

LEMMA FoundType ==
    ASSUME LeadsOK(lead), NEW l \in Leads PROVE LeadsOK(FoundLead(l)) /\ NoneClaimed(FoundLead(l))
<1>1. CASE lead[l].status = "NONE"
    <2>1. FoundLead(l) = [lead EXCEPT ![l].status = "QUEUED"]
        BY <1>1 DEF FoundLead
    <2>2. LeadsOK([lead EXCEPT ![l].status = "QUEUED"])
        BY StatusType DEF LeadStatus
    <2>3. NoneClaimed([lead EXCEPT ![l].status = "QUEUED"])
        BY DEF LeadsOK, LeadRow, NoneClaimed
    <2> QED BY <2>1, <2>2, <2>3
<1>2. CASE lead[l].status # "NONE"
    BY <1>2 DEF FoundLead, NoneClaimed
<1> QED BY <1>1, <1>2

\* A callback gives a lead all its attempts again, and claims nobody.
LEMMA CallBackType ==
    ASSUME NEW L, LeadsOK(L), NoneClaimed(L), NEW l \in Leads
    PROVE  LeadsOK(CallBack(L, l)) /\ NoneClaimed(CallBack(L, l))
<1> DEFINE q == [L[l] EXCEPT !.status = "READY_TO_CALL", !.tries = 0, !.yes = TRUE]
           w == [L[l] EXCEPT !.status = "QUEUED"]
<1>1. L[l] \in LeadRow /\ L \in [Leads -> LeadRow]
    BY DEF LeadsOK
<1>0. MaxTotal > 0 /\ 0 \in 0..MaxTotal
    BY SettingsAssumption
<1>2. /\ q \in LeadRow /\ q.status = "READY_TO_CALL" /\ q.tries = 0
      /\ w \in LeadRow /\ w.status = "QUEUED"
    BY <1>0, <1>1 DEF LeadRow, LeadStatus
<1>3. CallBack(L, l) \in {L, [L EXCEPT ![l] = q], [L EXCEPT ![l] = w]}
    BY <1>1 DEF CallBack
<1> HIDE DEF q, w
<1>5. LeadsOK([L EXCEPT ![l] = q]) /\ NoneClaimed([L EXCEPT ![l] = q])
    BY <1>0, <1>1, <1>2 DEF LeadsOK, NoneClaimed
<1>6. LeadsOK([L EXCEPT ![l] = w]) /\ NoneClaimed([L EXCEPT ![l] = w])
    BY <1>1, <1>2 DEF LeadsOK, NoneClaimed
<1> QED BY <1>3, <1>5, <1>6

\* An unused row is in no flight, in no room, and in no handler's hands.
LEMMA UnusedRow ==
    ASSUME DialerInv, NEW c \in Calls, Unused(c)
    PROVE  /\ att[c].status \notin IN_FLIGHT \cup {"CONNECTED", "HOLDING"}
           /\ \A x \in Handlers : proc[x].pc \in AtWork => proc[x].call # c
BY HandlerCall DEF Unused, IN_FLIGHT

\* The steps of handlers that no claimed customer waits for.
Apart == {"idle", "serve", "locked", "missed", "ibridge"}

\* What the steps around callers have in common: no flight begins or ends, nobody is
\* claimed or taken off a hand-dialed call, the dialer's own handlers do not move.
InStep ==
    /\ DialerInv'
    /\ FlightsKept
    /\ \A c \in Calls : att[c].status \in IN_FLIGHT => att'[c].status \in IN_FLIGHT
    /\ \A c \in Calls : att'[c].lead = att[c].lead \/ Unused(c)
    /\ NoneClaimed(lead')
    /\ \A y \in Handlers :
          proc'[y] = proc[y] \/ (proc[y].pc \in Apart /\ proc'[y].pc \in Apart \cup {"grace"})
    /\ RowsKept
    /\ UNCHANGED <<tickLock, dnc, busy>>

\* Held callers and their handlers.
HeldInv ==
    /\ OneHandlerPerCaller
    /\ \A x \in Handlers : proc[x].pc \in {"locked", "missed"} => att[proc[x].call].status # "HOLDING"
    /\ \A x \in Handlers : proc[x].pc \in {"locked", "missed", "ibridge"}
          => att[proc[x].call].status \notin IN_FLIGHT

-----------------------------------------------------------------------------
(* The steps around callers. *)

\* A call that comes in and is not put through.
LEMMA NewCallRows ==
    ASSUME DialerInv, NEW c \in Calls, Unused(c), NEW l \in Leads, NEW s \in {"CLOSED", "HOLDING"},
           att' = [att EXCEPT ![c] = Row(l, s, NoAgent)],
           leg' = [leg EXCEPT ![c] = {"answered", "human"}],
           lead' = FoundLead(l) \/ lead' = CallBack(FoundLead(l), l),
           UNCHANGED <<agent, proc, tickLock, dnc, client, busy, enabled>>
    PROVE  /\ InStep
           /\ att'[c].status = s /\ \A d \in Calls \ {c} : att'[d] = att[d]
<1> DEFINE q == Row(l, s, NoAgent)
<1>1. q \in CallRow /\ q.status = s /\ q.lead = l
    BY DEF Row, CallRow, CallStatus
<1> HIDE DEF q
<1>2. CallsOK(att') /\ att'[c] = q /\ \A d \in Calls \ {c} : att'[d] = att[d]
    BY <1>1 DEF DialerInv, CallsOK, q
<1>3. LeadsOK(lead') /\ NoneClaimed(lead')
    BY FoundType, CallBackType DEF DialerInv
<1>4. HandlersOK(proc', att')
    <2>1. \A d \in Calls : att[d].status # "NONE" => att'[d].status # "NONE"
        BY <1>1, <1>2
    <2>2. HandlersOK(proc, att')
        BY <2>1, HandlersKeep DEF DialerInv
    <2> QED BY <2>2
<1>5. leg' \in [Calls -> SUBSET LegEvents]
    BY DEF DialerInv, OthersOK, LegEvents
<1>6. DialerInv'
    BY <1>2, <1>3, <1>4, <1>5, InvStep DEF DialerInv, OthersOK
<1>7. FlightsKept /\ \A d \in Calls : att[d].status \in IN_FLIGHT => att'[d].status \in IN_FLIGHT
    BY <1>1, <1>2, UnusedRow DEF FlightsKept, IN_FLIGHT
<1>8. \A d \in Calls : att'[d].lead = att[d].lead \/ Unused(d)
    BY <1>2
<1> QED BY <1>1, <1>2, <1>3, <1>6, <1>7, <1>8, SameRows DEF InStep

LEMMA NewCallStep ==
    ASSUME DialerInv, NEW c \in Calls, NEW l \in Leads, TurnAway(l, c) \/ Hold(l, c) \/ NobodyThere(l, c)
    PROVE  /\ InStep
           /\ Unused(c) /\ UNCHANGED proc
           /\ att'[c].status \in {"CLOSED", "HOLDING"} /\ \A d \in Calls \ {c} : att'[d] = att[d]
<1>1. PICK s \in {"CLOSED", "HOLDING"} : att' = [att EXCEPT ![c] = Row(l, s, NoAgent)]
    BY DEF TurnAway, Hold, NobodyThere
<1>2. /\ Unused(c) /\ leg' = [leg EXCEPT ![c] = {"answered", "human"}]
      /\ lead' = FoundLead(l) \/ lead' = CallBack(FoundLead(l), l)
      /\ UNCHANGED <<agent, proc, tickLock, dnc, client, busy, enabled>>
    BY DEF TurnAway, Hold, NobodyThere, NewCall
<1> QED BY <1>1, <1>2, NewCallRows

\* A caller is put through: the row is new, or the one that was locked.
LEMMA BridgeStep ==
    ASSUME DialerInv, NEW x \in Handlers, NEW c \in Calls, NEW l \in Leads, NEW a \in Agents,
           NEW L, LeadsOK(L), NoneClaimed(L), NEW back \in {"idle", "grace", "serve"},
           Bridge(x, c, l, a, L, att, back), a \in ReadyAgents(agent),
           proc[x].pc \in {"idle", "locked"}, proc[x].cand = {},
           back \in TickPhases => back = proc[x].back,
           att[c].status \notin IN_FLIGHT, att[c].lead = l \/ Unused(c),
           leg' \in [Calls -> SUBSET LegEvents],
           UNCHANGED <<tickLock, dnc, client, busy, enabled>>
    PROVE  /\ InStep /\ PutThroughTo(c, a) /\ att'[c].human
           /\ proc'[x].pc = "ibridge" /\ proc'[x].call = c
           /\ \A y \in Handlers \ {x} : proc'[y] = proc[y]
<1> DEFINE q == Row(l, "CONNECTED", a)
           r == [proc[x] EXCEPT !.pc = "ibridge", !.call = c, !.agent = a, !.back = back]
<1>1. /\ agent' = [agent EXCEPT ![a].current = l, ![a].status = "ON_CALL"]
      /\ lead' = SetLead(L, l, "IN_PROGRESS", a)
      /\ att' = Filled(att, a, c, q)
      /\ proc' = [proc EXCEPT ![x] = r]
    BY DEF Bridge, Filled, Emptied, DialerInv, HandlersOK
<1>2. q \in CallRow /\ q.status = "CONNECTED" /\ q.lead = l /\ q.agent = a /\ q.human
    BY DEF Row, CallRow, CallStatus
<1>3. proc[x] \in ProcRow /\ RowOK(proc[x], att)
    BY DEF DialerInv, HandlersOK
<1>4. r \in ProcRow /\ r.pc = "ibridge" /\ r.back = back /\ r.call = c /\ r.cand = {}
    BY <1>3 DEF ProcRow, Pcs, TickPhases
<1> HIDE DEF q, r
<1>5. CallsOK(att') /\ att'[c] = q /\ Moved(att, att', c, a)
    BY <1>1, <1>2, RoomRows DEF DialerInv
<1>6. LeadsOK(lead') /\ NoneClaimed(lead')
    <2>1. LeadsOK(lead')
        BY <1>1, SetLeadType DEF LeadStatus
    <2>2. \A k \in Leads : lead'[k].status \in {L[k].status, "IN_PROGRESS"}
        BY <1>1 DEF SetLead, LeadsOK, LeadRow
    <2> QED BY <2>1, <2>2 DEF NoneClaimed
<1>7. AgentsOK(agent')
    BY <1>1, ZenonT(30) DEF DialerInv, AgentsOK, AgentRow
<1>8. HandlersOK(proc', att')
    <2>1. \A d \in Calls : att[d].status # "NONE" => att'[d].status # "NONE"
        BY <1>2, <1>5 DEF Moved
    <2>2. HandlersOK(proc, att')
        BY <2>1, HandlersKeep DEF DialerInv
    <2>3. RowOK(r, att')
        BY <1>2, <1>4, <1>5 DEF RowOK
    <2> QED BY <1>1, <2>2, <2>3, HandlersSet
<1>9. DialerInv'
    BY <1>5, <1>6, <1>7, <1>8, InvStep DEF DialerInv, OthersOK
<1>10. PutThroughTo(c, a)
    BY <1>2, <1>5 DEF PutThroughTo, ReadyAgents
<1>11. FlightsKept /\ \A d \in Calls : att[d].status \in IN_FLIGHT => att'[d].status \in IN_FLIGHT
    BY <1>5, <1>10, PutThroughFlights DEF Moved, IN_FLIGHT
<1>12. \A d \in Calls : att'[d].lead = att[d].lead \/ Unused(d)
    BY <1>2, <1>5 DEF Moved
<1>13. proc'[x] = r /\ \A y \in Handlers \ {x} : proc'[y] = proc[y]
    BY <1>1 DEF DialerInv, HandlersOK
<1>14. RowsKept
    <2>1. RowKept(proc[x], r)
        BY <1>3, <1>4 DEF RowKept, Ticks, TickPhases
    <2> QED BY <1>1, <2>1, OwnRow
<1>15. \A y \in Handlers : proc'[y] = proc[y] \/ (proc[y].pc \in Apart /\ proc'[y].pc \in Apart \cup {"grace"})
    BY <1>4, <1>13 DEF Apart
<1> QED BY <1>2, <1>4, <1>5, <1>6, <1>9, <1>10, <1>11, <1>12, <1>13, <1>14, <1>15 DEF InStep

LEMMA ClaimableReady ==
    ASSUME NEW l, NEW a \in Agents, a \in Claimable(l) PROVE a \in ReadyAgents(agent)
BY DEF Claimable

LEMMA PutThroughStep ==
    ASSUME DialerInv, NoneToDial, NEW x \in Handlers, NEW l \in Leads, NEW c \in Calls,
           NEW a \in Agents, PutThrough(x, l, c, a)
    PROVE  /\ InStep /\ PutThroughTo(c, a) /\ att'[c].human /\ Unused(c)
           /\ proc'[x].pc = "ibridge" /\ proc'[x].call = c
           /\ \A y \in Handlers \ {x} : proc'[y] = proc[y]
<1> DEFINE L == FoundLead(l)
<1>1. /\ Unused(c) /\ leg' = [leg EXCEPT ![c] = {"answered", "human"}]
      /\ Bridge(x, c, l, a, L, att, "idle") /\ proc[x].pc = "idle" /\ a \in ReadyAgents(agent)
      /\ UNCHANGED <<tickLock, dnc, client, busy, enabled>>
    BY ClaimableReady DEF PutThrough, NewCall
<1>2. LeadsOK(L) /\ NoneClaimed(L)
    BY FoundType DEF DialerInv
<1> HIDE DEF L
<1>3. proc[x].cand = {} /\ att[c].status \notin IN_FLIGHT
    BY <1>1, UnusedRow DEF NoneToDial
<1>4. leg' \in [Calls -> SUBSET LegEvents]
    BY <1>1 DEF DialerInv, OthersOK, LegEvents
<1>5. "idle" \notin TickPhases
    BY DEF TickPhases
<1> QED BY <1>1, <1>2, <1>3, <1>4, <1>5, BridgeStep

LEMMA ServeStep ==
    ASSUME DialerInv, NoneToDial, HeldInv, NEW x \in Handlers, NEW a \in Agents, Serve(x, a)
    PROVE  /\ InStep /\ PutThroughTo(proc[x].call, a) /\ att'[proc[x].call].human
           /\ proc[x].pc = "locked" /\ proc'[x].pc = "ibridge" /\ proc'[x].call = proc[x].call
           /\ \A y \in Handlers \ {x} : proc'[y] = proc[y]
<1> DEFINE c == proc[x].call
<1>1. /\ proc[x].pc = "locked" /\ Bridge(x, c, att[c].lead, a, lead, att, proc[x].back)
      /\ UNCHANGED <<leg, tickLock, dnc, client, busy, enabled>>
    BY DEF Serve
<1>2. a \in ReadyAgents(agent)
    BY DEF Serve, Takers
<1>3. c \in Calls /\ att[c].lead \in Leads
    BY <1>1, HandlerCall DEF AtWork, Pcs
<1>4. proc[x].cand = {} /\ att[c].status \notin IN_FLIGHT
    BY <1>1 DEF NoneToDial, HeldInv
<1>5. proc[x].back \in {"idle", "grace", "serve"}
    BY DEF DialerInv, HandlersOK, RowOK
<1>6. LeadsOK(lead) /\ NoneClaimed(lead) /\ leg' \in [Calls -> SUBSET LegEvents]
    BY <1>1 DEF DialerInv, NoneClaimed, OthersOK
<1> HIDE DEF c
<1>7. /\ InStep /\ PutThroughTo(c, a) /\ att'[c].human
      /\ proc'[x].pc = "ibridge" /\ proc'[x].call = c
      /\ \A y \in Handlers \ {x} : proc'[y] = proc[y]
    BY <1>1, <1>2, <1>3, <1>4, <1>5, <1>6, BridgeStep
<1> QED BY <1>1, <1>7 DEF c

\* A caller is locked: only a held one, and no longer held then.
LEMMA LockStep ==
    ASSUME DialerInv, NoneToDial, NEW x \in Handlers, NEW c \in Calls, NEW pc \in {"locked", "missed"},
           NEW only \in Agents \cup {NoAgent}, Lock(x, c, pc, only)
    PROVE  /\ InStep
           /\ att[c].status = "HOLDING" /\ att'[c].status = "BRIDGING"
           /\ proc[x].pc \in {"idle", "serve"} /\ proc'[x].pc \in {"locked", "missed"} /\ proc'[x].call = c
           /\ \A d \in Calls \ {c} : att'[d] = att[d]
           /\ \A y \in Handlers \ {x} : proc'[y] = proc[y]
<1> DEFINE r == [proc[x] EXCEPT !.pc = pc, !.call = c, !.agent = only, !.back = proc[x].pc]
           q == [att[c] EXCEPT !.status = "BRIDGING"]
<1>1. /\ proc[x].pc \in {"idle", "serve"} /\ att[c].status = "HOLDING"
      /\ att' = [att EXCEPT ![c] = q] /\ proc' = [proc EXCEPT ![x] = r]
      /\ UNCHANGED <<lead, agent, leg, tickLock, dnc, client, busy, enabled>>
    BY DEF Lock, DialerInv, HandlersOK, CallsOK
<1>2. proc[x] \in ProcRow /\ RowOK(proc[x], att) /\ proc[x].cand = {}
    BY <1>1 DEF DialerInv, HandlersOK, NoneToDial
<1>3. r \in ProcRow /\ r.pc = pc /\ r.back = proc[x].pc /\ r.call = c /\ r.cand = {}
    BY <1>1, <1>2 DEF ProcRow, Pcs, TickPhases
<1>4. q \in CallRow /\ q.status = "BRIDGING" /\ q.lead = att[c].lead
    BY DEF DialerInv, CallsOK, CallRow, CallStatus
<1> HIDE DEF r, q
<1>5. CallsOK(att') /\ att'[c] = q /\ \A d \in Calls \ {c} : att'[d] = att[d]
    BY <1>1, <1>4 DEF DialerInv, CallsOK
<1>6. HandlersOK(proc', att')
    <2>1. \A d \in Calls : att[d].status # "NONE" => att'[d].status # "NONE"
        BY <1>4, <1>5
    <2>2. HandlersOK(proc, att')
        BY <2>1, HandlersKeep DEF DialerInv
    <2>3. RowOK(r, att')
        BY <1>1, <1>3, <1>4, <1>5 DEF RowOK
    <2> QED BY <1>1, <2>2, <2>3, HandlersSet
<1>7. DialerInv'
    BY <1>1, <1>5, <1>6, InvStep DEF DialerInv, OthersOK
<1>8. FlightsKept /\ \A d \in Calls : att[d].status \in IN_FLIGHT => att'[d].status \in IN_FLIGHT
    BY <1>1, <1>4, <1>5 DEF FlightsKept, IN_FLIGHT
<1>9. proc'[x] = r /\ \A y \in Handlers \ {x} : proc'[y] = proc[y]
    BY <1>1 DEF DialerInv, HandlersOK
<1>10. RowsKept
    <2>1. RowKept(proc[x], r)
        BY <1>1, <1>3 DEF RowKept, Ticks, TickPhases
    <2> QED BY <1>1, <2>1, OwnRow
<1>11. \A y \in Handlers : proc'[y] = proc[y] \/ (proc[y].pc \in Apart /\ proc'[y].pc \in Apart \cup {"grace"})
    BY <1>1, <1>3, <1>9 DEF Apart
<1>12. NoneClaimed(lead') /\ \A d \in Calls : att'[d].lead = att[d].lead
    BY <1>1, <1>4, <1>5 DEF NoneClaimed
<1> QED BY <1>1, <1>3, <1>4, <1>5, <1>7, <1>8, <1>9, <1>10, <1>11, <1>12 DEF InStep

\* The steps that end a held call, or give the caller back, leave the handler to its tick.
Ended(c) ==
    \/ att'[c] = att[c]
    \/ /\ att[c].status \notin IN_FLIGHT \cup {"NONE"}
       /\ att'[c].status \in {"CLOSED", "HOLDING"} /\ att'[c].lead = att[c].lead

LEMMA DoneStep ==
    ASSUME DialerInv, NoneToDial, NEW x \in Handlers, proc[x].pc \in {"locked", "missed", "ibridge"},
           Return(x), LeadsOK(lead'), NoneClaimed(lead'), AgentsOK(agent'), CallsOK(att'),
           \A c \in Calls : Ended(c), client' \in [Leads -> Agents \cup {NoAgent}],
           UNCHANGED <<leg, tickLock, dnc, busy, enabled>>
    PROVE  /\ InStep
           /\ proc'[x].pc \notin {"locked", "missed", "ibridge", "connect"}
           /\ \A y \in Handlers \ {x} : proc'[y] = proc[y]
<1> DEFINE r == IF proc[x].back = "idle" THEN Idle
                ELSE [proc[x] EXCEPT !.pc = proc[x].back, !.back = "idle", !.call = NoCall,
                                     !.agent = NoAgent, !.early = FALSE]
<1>1. proc' = [proc EXCEPT ![x] = r]
    BY DEF Return
<1>2. r.pc \in {"idle", "grace", "serve"}
    <2>1. proc[x] \in ProcRow /\ proc[x].back \in {"idle", "grace", "serve"}
        BY DEF DialerInv, HandlersOK, RowOK
    <2>2. CASE proc[x].back = "idle"
        BY <2>2 DEF Idle
    <2>3. CASE proc[x].back \in {"grace", "serve"}
        BY <2>1, <2>3 DEF ProcRow
    <2> QED BY <2>1, <2>2, <2>3
<1> HIDE DEF r
<1>3. proc'[x] = r /\ \A y \in Handlers \ {x} : proc'[y] = proc[y]
    BY <1>1 DEF DialerInv, HandlersOK
<1>4. HandlersOK(proc', att')
    <2>1. \A d \in Calls : att[d].status # "NONE" => att'[d].status # "NONE"
        BY DEF Ended
    <2>2. HandlersOK(proc, att')
        BY <2>1, HandlersKeep DEF DialerInv
    <2> QED BY <2>2, ReturnOK
<1>5. DialerInv'
    BY <1>4, InvStep DEF DialerInv, OthersOK
<1>6. FlightsKept /\ \A d \in Calls : att[d].status \in IN_FLIGHT => att'[d].status \in IN_FLIGHT
    BY DEF FlightsKept, IN_FLIGHT, Ended
<1>7. RowsKept
    BY ReturnRow
<1>8. \A y \in Handlers : proc'[y] = proc[y] \/ (proc[y].pc \in Apart /\ proc'[y].pc \in Apart \cup {"grace"})
    BY <1>2, <1>3 DEF Apart
<1>9. \A d \in Calls : att'[d].lead = att[d].lead
    BY DEF Ended
<1> QED BY <1>2, <1>3, <1>5, <1>6, <1>7, <1>8, <1>9 DEF InStep

LEMMA CloseEnded ==
    ASSUME DialerInv, NEW c \in Calls, att[c].status \notin IN_FLIGHT \cup {"NONE"}, att' = Close(c)
    PROVE  CallsOK(att') /\ att'[c].status = "CLOSED" /\ \A d \in Calls : Ended(d)
BY ClosedType DEF Close, DialerInv, Ended

LEMMA HeldCall ==
    ASSUME DialerInv, HeldInv, NEW x \in Handlers, proc[x].pc \in {"locked", "missed", "ibridge"}
    PROVE  /\ proc[x].call \in Calls /\ att[proc[x].call].lead \in Leads
           /\ att[proc[x].call].status \notin IN_FLIGHT \cup {"NONE"}
BY HandlerCall DEF AtWork, Pcs, HeldInv

LEMMA UnlockStep ==
    ASSUME DialerInv, NoneToDial, HeldInv, NEW x \in Handlers, Unlock(x)
    PROVE  /\ InStep
           /\ proc[x].pc = "locked" /\ proc'[x].pc \notin {"locked", "missed", "ibridge", "connect"}
           /\ \A d \in Calls : Ended(d) /\ (d # proc[x].call => att'[d] = att[d])
           /\ \A y \in Handlers \ {x} : proc'[y] = proc[y]
<1> DEFINE c == proc[x].call
           q == [att[c] EXCEPT !.status = "HOLDING"]
<1>1. /\ proc[x].pc = "locked" /\ att' = [att EXCEPT ![c] = q] /\ Return(x)
      /\ UNCHANGED <<lead, agent, leg, tickLock, dnc, client, busy, enabled>>
    BY DEF Unlock, DialerInv, CallsOK
<1>2. c \in Calls /\ att[c].status \notin IN_FLIGHT \cup {"NONE"}
    BY <1>1, HeldCall
<1> HIDE DEF c
<1>3. q \in CallRow /\ q.status = "HOLDING" /\ q.lead = att[c].lead
    BY <1>2 DEF DialerInv, CallsOK, CallRow, CallStatus
<1> HIDE DEF q
<1>4. CallsOK(att') /\ \A d \in Calls : Ended(d) /\ (d # c => att'[d] = att[d])
    BY <1>1, <1>2, <1>3 DEF DialerInv, CallsOK, Ended
<1>5. LeadsOK(lead') /\ NoneClaimed(lead') /\ AgentsOK(agent') /\ client' \in [Leads -> Agents \cup {NoAgent}]
    BY <1>1 DEF DialerInv, NoneClaimed, OthersOK
<1> QED BY <1>1, <1>4, <1>5, DoneStep DEF c

LEMMA CallBackLaterStep ==
    ASSUME DialerInv, NoneToDial, HeldInv, NEW x \in Handlers, CallBackLater(x)
    PROVE  /\ InStep
           /\ proc[x].pc = "missed" /\ proc'[x].pc \notin {"locked", "missed", "ibridge", "connect"}
           /\ \A d \in Calls : att'[d].status = "HOLDING" \/ att'[d].status = "CONNECTED" => att'[d] = att[d]
           /\ \A y \in Handlers \ {x} : proc'[y] = proc[y]
<1> DEFINE c == proc[x].call
<1>1. /\ proc[x].pc = "missed" /\ att' = Close(c) /\ Return(x)
      /\ lead' = CallBack(lead, att[c].lead)
      /\ UNCHANGED <<agent, leg, tickLock, dnc, client, busy, enabled>>
    BY DEF CallBackLater
<1>2. c \in Calls /\ att[c].status \notin IN_FLIGHT \cup {"NONE"} /\ att[c].lead \in Leads
    BY <1>1, HeldCall
<1> HIDE DEF c
<1>3. CallsOK(att') /\ \A d \in Calls : Ended(d)
    BY <1>1, <1>2, CloseEnded
<1>4. \A d \in Calls : att'[d].status = "HOLDING" \/ att'[d].status = "CONNECTED" => att'[d] = att[d]
    BY <1>1, <1>2, CloseOthers, CloseEnded
<1>5. LeadsOK(lead') /\ NoneClaimed(lead')
    BY <1>1, <1>2, CallBackType DEF DialerInv, NoneClaimed
<1>6. AgentsOK(agent') /\ client' \in [Leads -> Agents \cup {NoAgent}]
    BY <1>1 DEF DialerInv, OthersOK
<1> QED BY <1>1, <1>3, <1>4, <1>5, <1>6, DoneStep

LEMMA CallerBridgedStep ==
    ASSUME DialerInv, NoneToDial, HeldInv, NEW x \in Handlers, CallerBridged(x)
    PROVE  /\ InStep
           /\ proc[x].pc = "ibridge" /\ proc'[x].pc \notin {"locked", "missed", "ibridge", "connect"}
           /\ UNCHANGED att
           /\ \A y \in Handlers \ {x} : proc'[y] = proc[y]
<1>1. /\ proc[x].pc = "ibridge" /\ Return(x)
      /\ UNCHANGED <<lead, agent, att, leg, tickLock, dnc, busy, enabled>>
      /\ client' = [client EXCEPT ![att[proc[x].call].lead] = proc[x].agent]
    BY DEF CallerBridged
<1>2. CallsOK(att') /\ \A d \in Calls : Ended(d)
    BY <1>1 DEF DialerInv, Ended
<1>3. LeadsOK(lead') /\ NoneClaimed(lead') /\ AgentsOK(agent')
    BY <1>1 DEF DialerInv, NoneClaimed
<1>4. proc[x].agent \in Agents \cup {NoAgent}
    BY DEF DialerInv, HandlersOK, ProcRow
<1>5. client' \in [Leads -> Agents \cup {NoAgent}]
    BY <1>1, <1>4 DEF DialerInv, OthersOK
<1> QED BY <1>1, <1>2, <1>3, <1>5, DoneStep

LEMMA CallerLostStep ==
    ASSUME DialerInv, NoneToDial, HeldInv, NEW x \in Handlers, CallerLost(x)
    PROVE  /\ InStep
           /\ proc[x].pc = "ibridge" /\ proc'[x].pc \notin {"locked", "missed", "ibridge", "connect"}
           /\ \A d \in Calls : att'[d].status = "HOLDING" \/ att'[d].status = "CONNECTED" => att'[d] = att[d]
           /\ \A y \in Handlers \ {x} : proc'[y] = proc[y]
<1> DEFINE c == proc[x].call
           a == proc[x].agent
<1>1. /\ proc[x].pc = "ibridge" /\ att' = Close(c) /\ Return(x)
      /\ lead' = SetLead(lead, att[c].lead, "QUEUED", NoAgent)
      /\ agent' = [agent EXCEPT ![a].current = NoLead, ![a].status = "AVAILABLE"]
      /\ UNCHANGED <<leg, tickLock, dnc, client, busy, enabled>>
    BY DEF CallerLost
<1>2. c \in Calls /\ att[c].status \notin IN_FLIGHT \cup {"NONE"} /\ att[c].lead \in Leads
    BY <1>1, HeldCall
<1> HIDE DEF c, a
<1>3. CallsOK(att') /\ \A d \in Calls : Ended(d)
    BY <1>1, <1>2, CloseEnded
<1>4. \A d \in Calls : att'[d].status = "HOLDING" \/ att'[d].status = "CONNECTED" => att'[d] = att[d]
    BY <1>1, <1>2, CloseOthers, CloseEnded
<1>5. LeadsOK(lead') /\ NoneClaimed(lead')
    BY <1>1, <1>2, SetLeadClaims DEF DialerInv, LeadStatus
<1>6. AgentsOK(agent') /\ client' \in [Leads -> Agents \cup {NoAgent}]
    BY <1>1, ZenonT(30) DEF DialerInv, OthersOK, AgentsOK, AgentRow
<1> QED BY <1>1, <1>3, <1>4, <1>5, <1>6, DoneStep

LEMMA CallerHungUpStep ==
    ASSUME DialerInv, NEW c \in Calls, CallerHungUp(c)
    PROVE  /\ InStep /\ UNCHANGED proc
           /\ \A d \in Calls : att'[d].status = "HOLDING" \/ att'[d].status = "CONNECTED" => att'[d] = att[d]
<1>1. /\ att[c].status \in {"HOLDING", "BRIDGING"} /\ att' = Close(c)
      /\ lead' = CallBack(lead, att[c].lead)
      /\ UNCHANGED <<agent, leg, proc, tickLock, dnc, client, busy, enabled>>
    BY DEF CallerHungUp
<1>2. att[c].status \notin IN_FLIGHT \cup {"NONE"} /\ att[c].lead \in Leads
    BY <1>1 DEF IN_FLIGHT, DialerInv, CallsOK
<1>3. CallsOK(att') /\ \A d \in Calls : Ended(d)
    BY <1>1, <1>2, CloseEnded
<1>4. \A d \in Calls : att'[d].status = "HOLDING" \/ att'[d].status = "CONNECTED" => att'[d] = att[d]
    BY <1>1, <1>2, CloseOthers, CloseEnded
<1>5. LeadsOK(lead') /\ NoneClaimed(lead')
    BY <1>1, <1>2, CallBackType DEF DialerInv, NoneClaimed
<1>6. HandlersOK(proc', att')
    <2>1. \A d \in Calls : att[d].status # "NONE" => att'[d].status # "NONE"
        BY <1>3 DEF Ended
    <2> QED BY <1>1, <2>1, HandlersKeep DEF DialerInv
<1>7. DialerInv'
    BY <1>1, <1>3, <1>5, <1>6, InvStep DEF DialerInv, OthersOK
<1>8. FlightsKept /\ \A d \in Calls : att[d].status \in IN_FLIGHT => att'[d].status \in IN_FLIGHT
    BY <1>3 DEF FlightsKept, IN_FLIGHT, Ended
<1>9. \A d \in Calls : att'[d].lead = att[d].lead
    BY <1>3 DEF Ended
<1> QED BY <1>1, <1>4, <1>5, <1>7, <1>8, <1>9, SameRows DEF InStep

-----------------------------------------------------------------------------
(* A held caller has one handler. *)

LEMMA HeldKept ==
    ASSUME DialerInv, HeldInv,
           \A y \in Handlers : proc'[y].pc \in {"locked", "missed", "ibridge"} => proc'[y] = proc[y],
           \A c \in Calls : att'[c].status = "HOLDING" => att[c].status = "HOLDING" \/ Unused(c),
           \A c \in Calls : att'[c].status \in IN_FLIGHT => att[c].status \in IN_FLIGHT \/ Unused(c)
    PROVE  HeldInv'
<1>1. \A y \in Handlers : proc[y].pc \in {"locked", "missed", "ibridge"} =>
          proc[y].call \in Calls /\ ~Unused(proc[y].call)
    BY HandlerCall, UnusedRow DEF AtWork, Pcs
<1>2. OneHandlerPerCaller'
    BY DEF HeldInv, OneHandlerPerCaller
<1> QED BY <1>1, <1>2 DEF HeldInv

\* The dialer's own steps hold nobody, and lock nobody.
LEMMA HeldNext ==
    ASSUME DialerInv, HeldInv, [Next]_vars PROVE HeldInv'
<1>1. \A y \in Handlers : proc'[y].pc \in {"locked", "missed", "ibridge"} => proc'[y] = proc[y]
    <2>1. CASE \E x \in Handlers, c \in Calls : AnswerUrl(x, c) \/ AnsweredEvent(x, c) \/ HumanEvent(x, c)
                                                 \/ GraceOver(x, c)
        <3>1. PICK x \in Handlers : ReadStep(x)
            BY <2>1, EventReads
        <3> QED BY <3>1 DEF ReadStep
    <2>2. CASE ~ \E x \in Handlers, c \in Calls : AnswerUrl(x, c) \/ AnsweredEvent(x, c) \/ HumanEvent(x, c)
                                                   \/ GraceOver(x, c)
        BY <2>2, NoNewEntries DEF Entries
    <2> QED BY <2>1, <2>2
<1>2. ASSUME NEW c \in Calls
      PROVE  /\ att'[c].status = "HOLDING" => att[c].status = "HOLDING" \/ Unused(c)
             /\ att'[c].status \in IN_FLIGHT => att[c].status \in IN_FLIGHT \/ Unused(c)
    <2>1. CASE Settled(att, att')
        BY <2>1 DEF Settled, IN_FLIGHT
    <2>2. CASE \E x \in Handlers, a \in Agents : ConnectAgent(x, a)
        <3>1. PICK d, a : PutThroughTo(d, a)
            BY <2>2, ConnectAgentStep
        <3> QED BY <3>1 DEF PutThroughTo, Moved, IN_FLIGHT
    <2>3. CASE \E x \in Handlers, l \in Leads, d \in Calls : Dial(x, l, d)
        <3>1. PICK d \in Calls : /\ Unused(d) /\ att'[d].status = "DIALING"
                                 /\ \A e \in Calls \ {d} : att'[e] = att[e]
            <4>1. PICK x \in Handlers, l \in Leads, d \in Calls : Dial(x, l, d)
                BY <2>3
            <4>2. Unused(d)
                BY <4>1 DEF Dial
            <4> QED BY <4>1, <4>2, DialStep
        <3> QED BY <3>1
    <2>4. PersonStep \/ CallStep => Settled(att, att')
        BY FadedSettles DEF PersonStep, CallStep
    <2> QED BY <2>1, <2>2, <2>3, <2>4, StepKinds
<1> QED BY <1>1, <1>2, HeldKept

\* A caller on the phone, or let go: who is locked stays locked.
LEMMA PutThroughHeld ==
    ASSUME DialerInv, NoneToDial, HeldInv, NEW x \in Handlers, NEW c \in Calls, NEW a,
           proc'[x].pc = "ibridge", proc'[x].call = c, PutThroughTo(c, a),
           \A y \in Handlers \ {x} : proc'[y] = proc[y]
    PROVE  HeldInv'
<1>1. \A d \in Calls : /\ att'[d].status = "HOLDING" => att[d].status = "HOLDING"
                       /\ att'[d].status \in IN_FLIGHT => att[d].status \in IN_FLIGHT
    BY DEF PutThroughTo, Moved, IN_FLIGHT
<1>2. \A y \in Handlers \ {x} : proc[y].pc \in {"locked", "missed", "ibridge"} => proc[y].call \in Calls
    BY HandlerCall DEF AtWork, Pcs
<1>3. att'[c].status = "CONNECTED"
    BY DEF PutThroughTo
<1>4. OneHandlerPerCaller'
    BY DEF HeldInv, OneHandlerPerCaller
<1> QED BY <1>1, <1>2, <1>3, <1>4 DEF HeldInv, IN_FLIGHT

LEMMA LockHeld ==
    ASSUME DialerInv, NoneToDial, HeldInv, NEW x \in Handlers, NEW c \in Calls,
           NEW pc \in {"locked", "missed"}, NEW only \in Agents \cup {NoAgent}, Lock(x, c, pc, only)
    PROVE  InStep /\ HeldInv' /\ \A d \in Calls : att'[d].status = "CONNECTED" => att'[d] = att[d]
<1>1. /\ InStep
      /\ att[c].status = "HOLDING" /\ att'[c].status = "BRIDGING"
      /\ proc[x].pc \in {"idle", "serve"} /\ proc'[x].pc \in {"locked", "missed"} /\ proc'[x].call = c
      /\ \A d \in Calls \ {c} : att'[d] = att[d]
      /\ \A y \in Handlers \ {x} : proc'[y] = proc[y]
    BY LockStep
<1>2. \A y \in Handlers : proc[y].pc \in {"locked", "missed", "ibridge"} => proc[y].call \in Calls
    BY HandlerCall DEF AtWork, Pcs
<1>3. \A y \in Handlers \ {x} : proc'[y].pc \in {"locked", "missed"} => proc'[y].call # c
    BY <1>1 DEF HeldInv
<1>4. OneHandlerPerCaller'
    BY <1>1, <1>3 DEF HeldInv, OneHandlerPerCaller
<1> QED BY <1>1, <1>2, <1>4 DEF HeldInv, IN_FLIGHT

LEMMA UnlockHeld ==
    ASSUME DialerInv, NoneToDial, HeldInv, NEW x \in Handlers, Unlock(x) PROVE HeldInv'
<1>1. /\ InStep
      /\ proc[x].pc = "locked" /\ proc'[x].pc \notin {"locked", "missed", "ibridge", "connect"}
      /\ \A d \in Calls : Ended(d) /\ (d # proc[x].call => att'[d] = att[d])
      /\ \A y \in Handlers \ {x} : proc'[y] = proc[y]
    BY UnlockStep
<1>2. \A y \in Handlers : proc[y].pc \in {"locked", "missed", "ibridge"} => proc[y].call \in Calls
    BY HandlerCall DEF AtWork, Pcs
<1>3. \A y \in Handlers \ {x} : proc[y].pc \in {"locked", "missed"} => proc[y].call # proc[x].call
    BY <1>1 DEF HeldInv, OneHandlerPerCaller
<1>4. OneHandlerPerCaller'
    BY <1>1 DEF HeldInv, OneHandlerPerCaller
<1> QED BY <1>1, <1>2, <1>3, <1>4 DEF HeldInv, IN_FLIGHT, Ended

\* Every step around callers: nobody is bridged but who is put through, into an empty room.
Bridges == \E c \in Calls, a \in Agents : PutThroughTo(c, a) /\ att'[c].human

NoBridge == \A d \in Calls : att'[d].status = "CONNECTED" => att'[d] = att[d]

LEMMA InboundSteps ==
    ASSUME DialerInv, NoneToDial, HeldInv, Callers \/ \E x \in Handlers : Attends(x)
    PROVE  InStep /\ HeldInv' /\ (Bridges \/ NoBridge)
<1>0. ASSUME InStep, \A y \in Handlers : proc'[y].pc \in {"locked", "missed", "ibridge"} => proc'[y] = proc[y],
             \A c \in Calls : att'[c].status = "HOLDING" => att[c].status = "HOLDING" \/ Unused(c)
      PROVE  HeldInv'
    BY <1>0, HeldKept DEF InStep, FlightsKept
<1>1. ASSUME NEW c \in Calls, NEW l \in Leads, TurnAway(l, c) \/ Hold(l, c) \/ NobodyThere(l, c)
      PROVE  InStep /\ HeldInv' /\ NoBridge
    BY <1>0, <1>1, NewCallStep DEF NoBridge
<1>2. ASSUME NEW c \in Calls, CallerHungUp(c) PROVE InStep /\ HeldInv' /\ NoBridge
    BY <1>0, <1>2, CallerHungUpStep DEF NoBridge
<1>3. ASSUME NEW x \in Handlers, NEW a \in Agents,
             Serve(x, a) \/ \E l \in Leads, c \in Calls : PutThrough(x, l, c, a)
      PROVE  InStep /\ HeldInv' /\ Bridges
    <2>1. PICK c \in Calls : /\ InStep /\ PutThroughTo(c, a) /\ att'[c].human
                             /\ proc'[x].pc = "ibridge" /\ proc'[x].call = c
                             /\ \A y \in Handlers \ {x} : proc'[y] = proc[y]
        <3>1. CASE Serve(x, a)
            BY <3>1, ServeStep DEF PutThroughTo
        <3>2. CASE \E l \in Leads, c \in Calls : PutThrough(x, l, c, a)
            BY <3>2, PutThroughStep
        <3> QED BY <1>3, <3>1, <3>2
    <2> QED BY <2>1, PutThroughHeld DEF Bridges
<1>4. ASSUME NEW x \in Handlers, Unlock(x) PROVE InStep /\ HeldInv' /\ NoBridge
    BY <1>4, UnlockStep, UnlockHeld DEF NoBridge, Ended
<1>5. ASSUME NEW x \in Handlers, CallBackLater(x) \/ CallerBridged(x) \/ CallerLost(x)
      PROVE  InStep /\ HeldInv' /\ NoBridge
    <2>1. /\ InStep /\ proc'[x].pc \notin {"locked", "missed", "ibridge", "connect"}
          /\ \A d \in Calls : att'[d].status = "HOLDING" \/ att'[d].status = "CONNECTED" => att'[d] = att[d]
          /\ \A y \in Handlers \ {x} : proc'[y] = proc[y]
        BY <1>5, CallBackLaterStep, CallerBridgedStep, CallerLostStep
    <2> QED BY <1>0, <2>1 DEF NoBridge
<1>6. ASSUME NEW x \in Handlers, NEW c \in Calls, EndHold(x, c) \/ \E expired \in BOOLEAN : TryServe(x, c, expired)
      PROVE  InStep /\ HeldInv' /\ NoBridge
    <2>1. PICK pc \in {"locked", "missed"}, only \in Agents \cup {NoAgent} : Lock(x, c, pc, only)
        BY <1>6 DEF EndHold, TryServe, Busy
    <2> QED BY <2>1, LockHeld DEF NoBridge
<1> QED BY <1>1, <1>2, <1>3, <1>4, <1>5, <1>6 DEF Callers, Attends

-----------------------------------------------------------------------------
(* The theorems. *)

InInv == DialerInv /\ NoneToDial /\ HeldInv

\* Steps of the specification, one by one.
LEMMA InSteps ==
    ASSUME [InNext]_invars
    PROVE  \/ [Next]_vars
           \/ Quiet /\ (Callers \/ \E x \in Handlers : Attends(x))
BY DEF InNext, invars, vars

LEMMA InInvInit == InInit => InInv
<1> SUFFICES ASSUME InInit PROVE InInv
    OBVIOUS
<1>1. Init
    BY DEF InInit
<1>2. DialerInv /\ NoneToDial
    BY <1>1, DialerInit, TickInit DEF TickInv
<1>3. HeldInv
    <2>1. \A x \in Handlers : proc[x] = Idle
        BY <1>1 DEF Init
    <2>2. Idle.pc = "idle"
        BY DEF Idle
    <2> QED BY <2>1, <2>2 DEF HeldInv, OneHandlerPerCaller
<1> QED BY <1>2, <1>3 DEF InInv

LEMMA InInvNext == InInv /\ [InNext]_invars => InInv'
<1> SUFFICES ASSUME InInv, [InNext]_invars PROVE InInv'
    OBVIOUS
<1>0. DialerInv /\ NoneToDial /\ HeldInv
    BY DEF InInv
<1>1. CASE [Next]_vars
    <2>1. DialerInv'
        BY <1>0, <1>1, DialerNext
    <2>2. NoneToDial'
        BY <1>0, <1>1, NoneNext
    <2>3. HeldInv'
        BY <1>0, <1>1, HeldNext
    <2> QED BY <2>1, <2>2, <2>3 DEF InInv
<1>2. CASE Callers \/ \E x \in Handlers : Attends(x)
    <2>1. InStep /\ HeldInv'
        BY <1>0, <1>2, InboundSteps
    <2>2. DialerInv' /\ RowsKept
        BY <2>1 DEF InStep
    <2> QED BY <1>0, <2>1, <2>2, NoneKept DEF InInv
<1> QED BY <1>1, <1>2, InSteps

LEMMA InInvariant == InSpec => []InInv
<1>1. InInit => InInv
    BY InInvInit
<1>2. InInv /\ [InNext]_invars => InInv'
    BY InInvNext
<1> QED BY <1>1, <1>2, PTL DEF InSpec

\* The agent a held caller waits for is an agent, or nobody.
HoldForOK == holdFor \in [Calls -> Agents \cup {NoAgent}]

LEMMA HoldForNext == HoldForOK /\ [InNext]_invars => HoldForOK'
<1> SUFFICES ASSUME HoldForOK, [InNext]_invars PROVE HoldForOK'
    OBVIOUS
<1>1. ASSUME UNCHANGED holdFor PROVE HoldForOK'
    BY <1>1 DEF HoldForOK
<1>2. ASSUME NEW c \in Calls, NEW l \in Leads, Hold(l, c) PROVE HoldForOK'
    <2> DEFINE who == IF Busy(client[l]) THEN client[l] ELSE NoAgent
    <2>1. holdFor' = [holdFor EXCEPT ![c] = who]
        BY <1>2 DEF Hold
    <2>2. who \in Agents \cup {NoAgent}
        BY DEF Busy
    <2> HIDE DEF who
    <2> QED BY <2>1, <2>2 DEF HoldForOK
<1>3. ASSUME NEW x \in Handlers, Attends(x) PROVE UNCHANGED holdFor
    BY <1>3 DEF Attends, Unlock, CallBackLater, CallerBridged, CallerLost, Serve, PutThrough, EndHold,
                TryServe, Lock
<1>4. ASSUME Callers PROVE UNCHANGED holdFor \/ \E c \in Calls, l \in Leads : Hold(l, c)
    BY <1>4 DEF Callers, CallerHungUp, TurnAway, NobodyThere
<1> QED BY <1>1, <1>2, <1>3, <1>4 DEF InNext, invars

\* With callers, too, every row and every handler keeps its shape.
THEOREM InboundTypes == InSpec => []InTypeOK
<1>1. InInit => HoldForOK
    BY DEF InInit, HoldForOK
<1>2. HoldForOK /\ [InNext]_invars => HoldForOK'
    BY HoldForNext
<1>3. InSpec => []HoldForOK
    BY <1>1, <1>2, PTL DEF InSpec
<1>4. InInv /\ HoldForOK => InTypeOK
    BY InvTypes DEF InInv, InTypeOK, HoldForOK
<1> QED BY <1>3, <1>4, InInvariant, PTL

\* A held caller is dealt with by one handler at a time: the lock on their row is taken
\* from HOLDING only, and given back only by who took it.
THEOREM InboundHandlers == InSpec => []OneHandlerPerCaller
<1>1. InInv => OneHandlerPerCaller
    BY DEF InInv, HeldInv
<1> QED BY <1>1, InInvariant, PTL

\* A caller who is put through finds an empty room, as a customer does whom we called.
THEOREM InboundRooms == InSpec => []NoTwoCustomersInOneRoom
<1>1. InInit => NoTwoCustomersInOneRoom
    BY DEF InInit, Init, NoTwoCustomersInOneRoom
<1>2. InInv /\ NoTwoCustomersInOneRoom /\ [InNext]_invars => NoTwoCustomersInOneRoom'
    <2> SUFFICES ASSUME InInv, NoTwoCustomersInOneRoom, [InNext]_invars PROVE NoTwoCustomersInOneRoom'
        OBVIOUS
    <2>0. DialerInv /\ NoneToDial /\ HeldInv
        BY DEF InInv
    <2>1. CASE [Next]_vars
        BY <2>0, <2>1, RoomsNext
    <2>2. CASE Callers \/ \E x \in Handlers : Attends(x)
        <3>1. busy' = busy /\ (Bridges \/ NoBridge)
            BY <2>0, <2>2, InboundSteps DEF InStep
        <3>2. CASE Bridges
            BY <3>1, <3>2, PutThroughRooms DEF Bridges
        <3>3. CASE NoBridge
            <4>1. \A c \in Calls : att'[c].status = "CONNECTED"
                      => att[c].status = "CONNECTED" /\ att'[c].agent = att[c].agent
                BY <3>3 DEF NoBridge
            <4> QED BY <3>1, <4>1, KeptRooms
        <3> QED BY <3>1, <3>2, <3>3
    <2> QED BY <2>1, <2>2, InSteps
<1> QED BY <1>1, <1>2, InInvariant, PTL DEF InSpec

\* Callers do not call anybody up: with them, too, no customer is ever called twice at
\* once, as long as no tick outlives its lock.
THEOREM InboundCalls ==
    ASSUME ~LockExpires PROVE InSpec => []OneCallPerCustomer
<1>1. InInit => TickInv
    BY TickInit DEF InInit
<1>2. InInv /\ TickInv /\ [InNext]_invars => TickInv'
    <2> SUFFICES ASSUME InInv, TickInv, [InNext]_invars PROVE TickInv'
        OBVIOUS
    <2>0. DialerInv /\ NoneToDial /\ HeldInv
        BY DEF InInv
    <2>1. CASE [Next]_vars
        BY <2>0, <2>1, TickNext
    <2>2. CASE Callers \/ \E x \in Handlers : Attends(x)
        <3>1. RowsKept /\ FlightsKept /\ UNCHANGED tickLock
            BY <2>0, <2>2, InboundSteps DEF InStep
        <3> QED BY <3>1, TickKept
    <2> QED BY <2>1, <2>2, InSteps
<1>3. TickInv => OneCallPerCustomer
    BY DEF TickInv
<1> QED BY <1>1, <1>2, <1>3, InInvariant, PTL DEF InSpec

\* A caller's handler takes nobody from the dialer: its calls and their requeues stay.
LEMMA InTracked ==
    ASSUME DialerInv, InStep, ClaimedIsTracked PROVE ClaimedIsTracked'
<1>1. \A c \in Calls : att[c].status \in IN_FLIGHT => att'[c].status \in IN_FLIGHT /\ att'[c].lead = att[c].lead
    BY UnusedRow DEF InStep
<1>2. \A y \in Handlers : proc[y].pc = "requeue" =>
          proc'[y] = proc[y] /\ att'[proc[y].call].lead = att[proc[y].call].lead
    <2> SUFFICES ASSUME NEW y \in Handlers, proc[y].pc = "requeue"
                 PROVE  proc'[y] = proc[y] /\ att'[proc[y].call].lead = att[proc[y].call].lead
        OBVIOUS
    <2>1. proc[y].pc \in AtWork
        BY DEF AtWork, Pcs, TickPhases
    <2>2. proc[y].call \in Calls /\ ~Unused(proc[y].call)
        BY <2>1, HandlerCall, UnusedRow
    <2> QED BY <2>2 DEF InStep, Apart
<1>3. ASSUME NEW l \in Leads, lead'[l].status = "DIALING"
      PROVE  lead[l].status = "DIALING" /\ (InFlight(att, l) => Tracked(l)') /\ (AtRequeue(l) => Tracked(l)')
    <2>1. lead[l].status = "DIALING"
        BY <1>3 DEF InStep, NoneClaimed
    <2>2. InFlight(att, l) => InFlight(att, l)'
        BY <1>1 DEF InFlight
    <2>3. AtRequeue(l) => AtRequeue(l)'
        BY <1>2 DEF AtRequeue
    <2> QED BY <2>1, <2>2, <2>3 DEF Tracked
<1> QED BY <1>3, TrackKept

\* No caller makes the dialer forget a customer it has claimed.
THEOREM InboundTracks ==
    ASSUME ~Crashes PROVE InSpec => []ClaimedIsTracked
<1>1. InInit => ClaimedIsTracked
    BY DEF InInit, Init, ClaimedIsTracked
<1>2. InInv /\ ClaimedIsTracked /\ [InNext]_invars => ClaimedIsTracked'
    <2> SUFFICES ASSUME InInv, ClaimedIsTracked, [InNext]_invars PROVE ClaimedIsTracked'
        OBVIOUS
    <2>0. DialerInv /\ NoneToDial /\ HeldInv
        BY DEF InInv
    <2>1. CASE [Next]_vars
        BY <2>0, <2>1, TrackedNext
    <2>2. CASE Callers \/ \E x \in Handlers : Attends(x)
        BY <2>0, <2>2, InboundSteps, InTracked
    <2> QED BY <2>1, <2>2, InSteps
<1> QED BY <1>1, <1>2, InInvariant, PTL DEF InSpec

\* A customer who opted out is not connected by the dialer, callers or not.
THEOREM InboundOptOuts ==
    ASSUME ~Overlap, NoEarlyBridge PROVE InSpec => OptedOutNotBridged
<1>1. InInit => ConnectInv
    BY ConnectInit DEF InInit
<1>2. InInv /\ ConnectInv /\ [InNext]_invars => ConnectInv'
    <2> SUFFICES ASSUME InInv, ConnectInv, [InNext]_invars PROVE ConnectInv'
        OBVIOUS
    <2>0. DialerInv /\ NoneToDial /\ HeldInv
        BY DEF InInv
    <2>1. CASE [Next]_vars
        BY <2>0, <2>1, ConnectNext
    <2>2. CASE Quiet /\ (Callers \/ \E x \in Handlers : Attends(x))
        <3>1. InStep /\ (Bridges \/ NoBridge)
            BY <2>0, <2>2, InboundSteps
        <3>2. \A x \in Handlers : proc'[x].pc # "connect"
            BY <2>2, <3>1 DEF Quiet, InStep, Apart
        <3>3. \A c \in Calls : att'[c].status = "CONNECTED" => att'[c].human
            <4>1. CASE Bridges
                BY <4>1 DEF Bridges, PutThroughTo, Moved, ConnectInv
            <4>2. CASE NoBridge
                BY <4>2 DEF NoBridge, ConnectInv
            <4> QED BY <3>1, <4>1, <4>2
        <3>4. \A l \in dnc' : lead'[l].status # "DIALING"
            <4>1. dnc' = dnc /\ dnc \subseteq Leads /\ NoneClaimed(lead')
                BY <2>0, <3>1 DEF InStep, DialerInv, OthersOK
            <4> QED BY <4>1 DEF ConnectInv, NoneClaimed
        <3> QED BY <3>2, <3>3, <3>4 DEF ConnectInv
    <2> QED BY <2>1, <2>2, InSteps
<1>3. InInv /\ ConnectInv /\ [InNext]_invars =>
          \A c \in Calls : att'[c].status = "CONNECTED" /\ att[c].status \in IN_FLIGHT
              => att[c].lead \notin dnc
    <2> SUFFICES ASSUME InInv, ConnectInv, [InNext]_invars
                 PROVE  \A c \in Calls : att'[c].status = "CONNECTED" /\ att[c].status \in IN_FLIGHT
                            => att[c].lead \notin dnc
        OBVIOUS
    <2>0. DialerInv /\ NoneToDial /\ HeldInv
        BY DEF InInv
    <2>1. CASE [Next]_vars
        BY <2>0, <2>1, BridgesNoOptOut
    <2>2. CASE Callers \/ \E x \in Handlers : Attends(x)
        <3>1. \A c \in Calls : att[c].status \in IN_FLIGHT => att'[c].status \in IN_FLIGHT
            BY <2>0, <2>2, InboundSteps DEF InStep
        <3> QED BY <3>1 DEF IN_FLIGHT
    <2> QED BY <2>1, <2>2, InSteps
<1> QED BY <1>1, <1>2, <1>3, InInvariant, PTL DEF InSpec, OptedOutNotBridged

=============================================================================
