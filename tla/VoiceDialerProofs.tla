------------------------- MODULE VoiceDialerProofs -------------------------
(***************************************************************************)
(* Proofs about VoiceDialer, for any agents, customers, calls and handlers *)
(* and any settings.                                                       *)
(***************************************************************************)
EXTENDS VoiceDialer, FiniteSetTheorems, TLAPS

-----------------------------------------------------------------------------
(* The inductive form of the type invariant. *)

\* A lead that waits for a call has an attempt left.
LeadsOK(L) ==
    /\ L \in [Leads -> LeadRow]
    /\ \A l \in Leads : L[l].status = "READY_TO_CALL" => L[l].tries < MaxTotal

AgentsOK(A) == A \in [Agents -> AgentRow]

\* A row of a call that exists is about a customer.
CallsOK(C) ==
    /\ C \in [Calls -> CallRow]
    /\ \A c \in Calls : C[c].status # "NONE" => C[c].lead \in Leads

\* A handler that works on a call has one, a tick that places a call may place it,
\* and a handler goes on with its tick where a call can come in between.
AtWork == Pcs \ {"idle", "grace", "serve", "dial"}

RowOK(r, C) ==
    /\ r \in ProcRow
    /\ r.back \in {"idle", "grace", "serve"}
    /\ r.pc = "calling" => r.cap > 0
    /\ r.pc \in AtWork => r.call \in Calls /\ C[r.call].status # "NONE"

HandlersOK(P, C) == P \in [Handlers -> ProcRow] /\ \A x \in Handlers : RowOK(P[x], C)

OthersOK ==
    /\ leg \in [Calls -> SUBSET LegEvents]
    /\ tickLock \in Handlers \cup {NoHandler}
    /\ dnc \subseteq Leads
    /\ client \in [Leads -> Agents \cup {NoAgent}]
    /\ busy \subseteq Agents
    /\ enabled \in BOOLEAN

DialerInv == LeadsOK(lead) /\ AgentsOK(agent) /\ CallsOK(att) /\ HandlersOK(proc, att) /\ OthersOK

LEMMA InvTypes == DialerInv => TypeOK
BY DEF DialerInv, TypeOK, LeadsOK, AgentsOK, CallsOK, HandlersOK, OthersOK

-----------------------------------------------------------------------------
(* What the helpers make of rows. *)

\* The assigner offers queued leads and leaves the others alone.
Offers(L) ==
    \A l \in Leads :
        /\ lead'[l].tries = L[l].tries /\ lead'[l].yes = L[l].yes
        /\ lead'[l].status = L[l].status \/ (L[l].status = "QUEUED" /\ lead'[l].status = "ASSIGNED")

LEMMA AssignOutcome ==
    ASSUME NEW n, NEW C, NEW L, NEW A, LeadsOK(L), AgentsOK(A), Assign(n, L, A, C)
    PROVE  LeadsOK(lead') /\ AgentsOK(agent') /\ Offers(L)
<1> DEFINE free == {a \in Agents : /\ A[a].status = "AVAILABLE" /\ A[a].current = NoLead
                                   /\ a \notin busy
                                   /\ ~(Reserved(L, C) /\ A[a].line)}
           Dealt(D, m) ==
               /\ Cardinality(D) <= n
               /\ \A a, b \in D : m[a] = m[b] => a = b
               /\ lead' = [l \in Leads |-> IF \E a \in D : m[a] = l
                              THEN [L[l] EXCEPT !.status = "ASSIGNED", !.owner = GivenTo(m, l)]
                              ELSE L[l]]
               /\ agent' = [a \in Agents |-> IF a \in D THEN [A[a] EXCEPT !.current = m[a]] ELSE A[a]]
<1>1. \E D \in SUBSET free : \E m \in [D -> {l \in Leads : L[l].status = "QUEUED"}] : Dealt(D, m)
    BY DEF Assign
<1>2. PICK D \in SUBSET Agents : \E m \in [D -> {l \in Leads : L[l].status = "QUEUED"}] : Dealt(D, m)
    BY <1>1
<1>0. PICK m \in [D -> {l \in Leads : L[l].status = "QUEUED"}] : Dealt(D, m)
    BY <1>2
<1>3. ASSUME NEW l \in Leads
      PROVE  /\ lead'[l] \in LeadRow
             /\ lead'[l].tries = L[l].tries /\ lead'[l].yes = L[l].yes
             /\ lead'[l].status = L[l].status \/ (L[l].status = "QUEUED" /\ lead'[l].status = "ASSIGNED")
    <2>1. L[l] \in LeadRow
        BY DEF LeadsOK
    <2>2. CASE \E a \in D : m[a] = l
        <3>1. PICK o \in Agents : o = GivenTo(m, l)
            BY <2>2 DEF GivenTo
        <3>2. lead'[l] = [L[l] EXCEPT !.status = "ASSIGNED", !.owner = o]
            BY <1>0, <2>2, <3>1
        <3>3. L[l].status = "QUEUED"
            BY <2>2
        <3> QED BY <2>1, <3>2, <3>3 DEF LeadRow, LeadStatus
    <2>3. CASE ~ \E a \in D : m[a] = l
        BY <1>0, <2>1, <2>3
    <2> QED BY <2>2, <2>3
<1>4. lead' \in [Leads -> LeadRow]
    BY <1>0, <1>3
<1>5. agent' \in [Agents -> AgentRow]
    <2>1. ASSUME NEW a \in Agents PROVE agent'[a] \in AgentRow
        <3>1. A[a] \in AgentRow
            BY DEF AgentsOK
        <3>2. CASE a \in D
            <4>1. m[a] \in Leads /\ agent'[a] = [A[a] EXCEPT !.current = m[a]]
                BY <1>0, <3>2
            <4> QED BY <3>1, <4>1 DEF AgentRow
        <3> QED BY <1>0, <3>1, <3>2
    <2> QED BY <1>0, <2>1
<1> QED BY <1>3, <1>4, <1>5 DEF LeadsOK, AgentsOK, Offers

\* A miss puts a claimed lead back, and no lead on the dial list without an attempt left.
LEMMA MissedType ==
    ASSUME NEW L, LeadsOK(L), NEW l
    PROVE  LeadsOK(Missed(L, l))
<1>1. CASE l \in Leads
    BY <1>1, SettingsAssumption DEF LeadsOK, Missed, LeadRow, LeadStatus
<1>2. CASE l \notin Leads
    <2>1. Missed(L, l) = L
        BY <1>2 DEF LeadsOK, Missed
    <2> QED BY <2>1
<1> QED BY <1>1, <1>2

LEMMA MissedLeaves ==
    ASSUME NEW L, LeadsOK(L), NEW l \in Leads
    PROVE  /\ Missed(L, l)[l].status # "DIALING"
           /\ \A k \in Leads \ {l} : Missed(L, l)[k] = L[k]
BY DEF LeadsOK, Missed, LeadRow

LEMMA SetLeadType ==
    ASSUME NEW L, LeadsOK(L), NEW l, NEW s \in LeadStatus \ {"READY_TO_CALL"},
           NEW o \in Agents \cup {NoAgent}
    PROVE  LeadsOK(SetLead(L, l, s, o))
<1>1. CASE l \in Leads
    BY <1>1 DEF LeadsOK, SetLead, LeadRow
<1>2. CASE l \notin Leads
    <2>1. SetLead(L, l, s, o) = L
        BY <1>2 DEF LeadsOK, SetLead
    <2> QED BY <2>1
<1> QED BY <1>1, <1>2

LEMMA StatusType ==
    ASSUME NEW L, LeadsOK(L), NEW l \in Leads, NEW s \in LeadStatus \ {"READY_TO_CALL"}
    PROVE  LeadsOK([L EXCEPT ![l].status = s])
BY DEF LeadsOK, LeadRow

LEMMA DetachType ==
    ASSUME NEW A, AgentsOK(A), NEW l PROVE AgentsOK(Detach(A, l))
BY DEF AgentsOK, Detach, AgentRow

LEMMA ReleaseHeldType ==
    ASSUME LeadsOK(lead), NEW a PROVE LeadsOK(ReleaseHeld(a))
BY DEF LeadsOK, ReleaseHeld, LeadRow, LeadStatus

LEMMA AgentRowType ==
    ASSUME NEW A, AgentsOK(A), NEW a, NEW r \in AgentRow
    PROVE  AgentsOK([A EXCEPT ![a] = r])
BY DEF AgentsOK

LEMMA RequeueOutcome ==
    ASSUME NEW C, NEW L, NEW A, LeadsOK(L), AgentsOK(A), NEW l, Requeue(l, L, A, C)
    PROVE  /\ LeadsOK(lead') /\ AgentsOK(agent')
           /\ Offers(Missed(L, l))
BY MissedType, AssignOutcome DEF Requeue

\* Closing calls.
LEMMA ClosedType ==
    ASSUME NEW C, CallsOK(C), NEW D, \A c \in Calls \cap D : C[c].status # "NONE"
    PROVE  /\ CallsOK(Closed(C, D))
           /\ \A c \in Calls : IF c \in D THEN Closed(C, D)[c].status = "CLOSED" /\ Closed(C, D)[c].lead = C[c].lead
                               ELSE Closed(C, D)[c] = C[c]
<1>1. ASSUME NEW c \in Calls
      PROVE  /\ Closed(C, D)[c] \in CallRow
             /\ IF c \in D THEN Closed(C, D)[c].status = "CLOSED" /\ Closed(C, D)[c].lead = C[c].lead
                           ELSE Closed(C, D)[c] = C[c]
    <2>1. C[c] \in CallRow
        BY DEF CallsOK
    <2> QED BY <2>1 DEF Closed, CallRow, CallStatus
<1>2. \A c \in Calls : (IF c \in D THEN [C[c] EXCEPT !.status = "CLOSED", !.agent = NoAgent, !.human = FALSE]
                         ELSE C[c]) \in CallRow
    BY <1>1 DEF Closed
<1>3. Closed(C, D) \in [Calls -> CallRow]
    BY <1>2 DEF Closed
<1>4. CallsOK(Closed(C, D))
    <2> DEFINE E == Closed(C, D)
    <2>1. \A c \in Calls : E[c].lead = C[c].lead /\ (E[c].status # "NONE" => C[c].status # "NONE")
        BY <1>1
    <2> HIDE DEF E
    <2> QED BY <1>3, <2>1 DEF CallsOK, E
<1> QED BY <1>1, <1>4

\* Ending the bridged calls among D: every other call stays as it is.
Faded(C, E) ==
    \A c \in Calls :
        E[c] = C[c] \/ (C[c].status = "CONNECTED" /\ E[c].status = "CLOSED" /\ E[c].lead = C[c].lead)

LEMMA EndType ==
    ASSUME NEW C, CallsOK(C), NEW D
    PROVE  CallsOK(EndLiveCalls(C, D)) /\ Faded(C, EndLiveCalls(C, D))
<1> DEFINE E == {c \in D : C[c].status = "CONNECTED"}
<1>1. \A c \in Calls \cap E : C[c].status = "CONNECTED" /\ C[c].status # "NONE"
    OBVIOUS
<1> HIDE DEF E
<1>2. CallsOK(Closed(C, E)) /\ Faded(C, Closed(C, E))
    BY <1>1, ClosedType DEF Faded
<1> QED BY <1>2 DEF EndLiveCalls, E

\* Handlers.
LEMMA HandlersKeep ==
    ASSUME NEW P, NEW C, HandlersOK(P, C),
           NEW D, \A c \in Calls : C[c].status # "NONE" => D[c].status # "NONE"
    PROVE  HandlersOK(P, D)
BY DEF HandlersOK, RowOK

LEMMA HandlersSet ==
    ASSUME NEW P, NEW C, HandlersOK(P, C), NEW x \in Handlers, NEW r, RowOK(r, C)
    PROVE  HandlersOK([P EXCEPT ![x] = r], C)
BY DEF HandlersOK, RowOK

LEMMA IdleOK == ASSUME NEW C PROVE RowOK(Idle, C)
BY SettingsAssumption DEF RowOK, Idle, ProcRow, Pcs, TickPhases, AtWork

LEMMA GotoOK ==
    ASSUME NEW C, HandlersOK(proc, C), NEW x \in Handlers, NEW pc \in Pcs \ {"calling"},
           pc \in AtWork => proc[x].pc \in AtWork, Goto(x, pc)
    PROVE  HandlersOK(proc', C)
<1> DEFINE r == [proc[x] EXCEPT !.pc = pc]
<1>1. proc[x] \in ProcRow /\ RowOK(proc[x], C)
    BY DEF HandlersOK
<1>2. r \in ProcRow /\ r.pc = pc /\ r.back = proc[x].back /\ r.cap = proc[x].cap /\ r.call = proc[x].call
    BY <1>1 DEF ProcRow
<1>3. proc' = [proc EXCEPT ![x] = r]
    BY DEF Goto, HandlersOK
<1> HIDE DEF r
<1>4. RowOK(r, C)
    BY <1>1, <1>2 DEF RowOK
<1> QED BY <1>3, <1>4, HandlersSet

LEMMA ReturnOK ==
    ASSUME NEW C, HandlersOK(proc, C), NEW x \in Handlers, Return(x)
    PROVE  HandlersOK(proc', C)
<1> DEFINE r == IF proc[x].back = "idle" THEN Idle
                ELSE [proc[x] EXCEPT !.pc = proc[x].back, !.back = "idle", !.call = NoCall,
                                     !.agent = NoAgent, !.early = FALSE]
<1>1. proc[x] \in ProcRow /\ RowOK(proc[x], C)
    BY DEF HandlersOK
<1>2. RowOK(r, C)
    <2>1. CASE proc[x].back = "idle"
        BY <2>1, IdleOK
    <2>2. CASE proc[x].back \in {"grace", "serve"}
        BY <1>1, <2>2 DEF ProcRow, RowOK, AtWork, Pcs, TickPhases
    <2> QED BY <1>1, <2>1, <2>2 DEF RowOK
<1>3. proc' = [proc EXCEPT ![x] = r]
    BY DEF Return
<1> HIDE DEF r
<1> QED BY <1>2, <1>3, HandlersSet

LEMMA ReadCallType ==
    ASSUME NEW C, CallsOK(C), HandlersOK(proc, C), NEW x \in Handlers, NEW c \in Calls,
           C[c].status # "NONE", NEW early \in BOOLEAN, NEW back \in {"idle", "grace"},
           ReadCall(x, c, early, back, C)
    PROVE  CallsOK(att') /\ HandlersOK(proc', att')
<1> DEFINE r == [Idle EXCEPT !.pc = "connect", !.call = c, !.early = early, !.back = back]
<1>1. CASE proc' = [proc EXCEPT ![x] = r] /\ att' = C
    <2>3. Idle \in ProcRow /\ {"connect", back} \subseteq Pcs
        BY IdleOK DEF RowOK, Pcs, TickPhases
    <2>4. r \in ProcRow /\ r.pc = "connect" /\ r.back = back /\ r.call = c
        BY <2>3 DEF ProcRow
    <2> HIDE DEF r
    <2>1. RowOK(r, C)
        BY <2>4 DEF RowOK
    <2>2. att' = C /\ proc' = [proc EXCEPT ![x] = r]
        BY <1>1 DEF r
    <2> QED BY <2>1, <2>2, HandlersSet
<1>2. CASE att' = Closed(C, {c}) /\ UNCHANGED proc
    <2>1. CallsOK(att') /\ \A d \in Calls : C[d].status # "NONE" => att'[d].status # "NONE"
        BY <1>2, ClosedType
    <2>2. HandlersOK(proc, att')
        BY <2>1, HandlersKeep
    <2> QED BY <1>2, <2>1, <2>2
<1> QED BY <1>1, <1>2 DEF ReadCall

-----------------------------------------------------------------------------
(* What people do. *)

\* No lead is claimed for a call.
NoneClaimed(L) == \A l \in Leads : L[l].status = "DIALING" => lead[l].status = "DIALING"

\* Nothing that people do claims a lead or starts or bridges a call; who opts out is
\* not claimed any more, and who starts a hand-dialed call has no customer in the room.
PersonStep ==
    /\ LeadsOK(lead') /\ AgentsOK(agent') /\ CallsOK(att')
    /\ NoneClaimed(lead') /\ Faded(att, att')
    /\ dnc' \subseteq Leads /\ \A l \in dnc' \ dnc : lead'[l].status # "DIALING"
    /\ client' \in [Leads -> Agents \cup {NoAgent}] /\ busy' \subseteq Agents /\ enabled' \in BOOLEAN
    /\ \A a \in busy' \ busy : ~ \E c \in Calls : att[c].agent = a /\ att[c].status = "CONNECTED"
    /\ UNCHANGED <<leg, proc, tickLock>>

LEMMA AssignClaims ==
    ASSUME NEW n, NEW C, NEW L, NEW A, LeadsOK(L), AgentsOK(A), NoneClaimed(L), Assign(n, L, A, C)
    PROVE  LeadsOK(lead') /\ AgentsOK(agent') /\ NoneClaimed(lead') /\ Offers(L)
<1>1. LeadsOK(lead') /\ AgentsOK(agent') /\ Offers(L)
    BY AssignOutcome
<1> QED BY <1>1 DEF Offers, NoneClaimed

LEMMA FadedSame == CallsOK(att) => Faded(att, att)
BY DEF Faded

LEMMA AfterYesStatus ==
    ASSUME NEW s \in LeadStatus
    PROVE  /\ AfterYes(s) \in LeadStatus
           /\ AfterYes(s) = "READY_TO_CALL" => enabled \/ s = "READY_TO_CALL"
           /\ AfterYes(s) = "DIALING" => s = "DIALING"
BY DEF AfterYes, LeadStatus

LEMMA TextYesStep ==
    ASSUME DialerInv, NEW l \in Leads, NEW clear \in BOOLEAN, TextYes(l, clear) PROVE PersonStep
<1> DEFINE old == lead[l].status
           out == l \in dnc /\ ~clear
           new == IF ~out THEN AfterYes(old) ELSE IF old = "NONE" THEN "QUEUED" ELSE old
           moved == ~out /\ new = "READY_TO_CALL" /\ enabled
           row == [lead[l] EXCEPT !.status = new, !.yes = TRUE,
                                  !.tries = IF moved THEN 0 ELSE @,
                                  !.owner = IF moved THEN NoAgent ELSE @]
<1>1. lead[l] \in LeadRow /\ old \in LeadStatus /\ (old = "READY_TO_CALL" => lead[l].tries < MaxTotal)
    BY DEF DialerInv, LeadsOK, LeadRow
<1>2. /\ new \in LeadStatus
      /\ new = "READY_TO_CALL" => moved \/ old = "READY_TO_CALL"
      /\ new = "DIALING" => old = "DIALING"
    BY <1>1, AfterYesStatus DEF LeadStatus
<1>3. /\ row \in LeadRow /\ row.status = new
      /\ row.tries = IF moved THEN 0 ELSE lead[l].tries
    <2> DEFINE t == IF moved THEN 0 ELSE lead[l].tries
               o == IF moved THEN NoAgent ELSE lead[l].owner
    <2>1. t \in 0..MaxTotal /\ o \in Agents \cup {NoAgent}
        BY <1>1, SettingsAssumption DEF LeadRow
    <2>2. row = [lead[l] EXCEPT !.status = new, !.yes = TRUE, !.tries = t, !.owner = o]
        OBVIOUS
    <2> HIDE DEF new, t, o, row
    <2>3. row \in LeadRow /\ row.status = new /\ row.tries = t
        BY <1>1, <1>2, <2>1, <2>2 DEF LeadRow
    <2> QED BY <2>3 DEF t
<1>4. Assign(IF new = "QUEUED" THEN 1 ELSE 0, [lead EXCEPT ![l] = row],
             IF moved /\ old = "ASSIGNED" THEN Detach(agent, l) ELSE agent, att)
      /\ dnc' \subseteq dnc /\ UNCHANGED <<att, leg, proc, tickLock, client, busy, enabled>>
    BY DEF TextYes
<1> HIDE DEF row, new, moved, old, out
<1>5. LeadsOK([lead EXCEPT ![l] = row]) /\ NoneClaimed([lead EXCEPT ![l] = row])
    BY <1>1, <1>2, <1>3, SettingsAssumption DEF DialerInv, LeadsOK, NoneClaimed, old
<1>6. AgentsOK(Detach(agent, l)) /\ AgentsOK(agent)
    BY DetachType DEF DialerInv
<1>7. LeadsOK(lead') /\ AgentsOK(agent') /\ NoneClaimed(lead')
    BY <1>4, <1>5, <1>6, AssignClaims
<1> QED BY <1>4, <1>7, FadedSame DEF DialerInv, PersonStep, OthersOK

LEMMA TextStopStep ==
    ASSUME DialerInv, NEW l \in Leads, TextStop(l) PROVE PersonStep
<1> DEFINE old == lead[l].status
           o == IF old = "ASSIGNED" THEN NoAgent ELSE lead[l].owner
<1>1. o \in Agents \cup {NoAgent} /\ lead[l] \in LeadRow
    BY DEF DialerInv, LeadsOK, LeadRow
<1>2. /\ dnc' = dnc \cup {l}
      /\ lead' = IF old \notin {"IN_PROGRESS", "DISPOSITIONED"} THEN SetLead(lead, l, "DISPOSITIONED", o) ELSE lead
      /\ agent' = IF old = "ASSIGNED" THEN Detach(agent, l) ELSE agent
      /\ UNCHANGED <<att, leg, proc, tickLock, client, busy, enabled>>
    BY DEF TextStop
<1> HIDE DEF o
<1>3. LeadsOK(lead') /\ NoneClaimed(lead') /\ lead'[l].status # "DIALING"
    <2>1. CASE old \in {"IN_PROGRESS", "DISPOSITIONED"}
        BY <1>2, <2>1 DEF DialerInv, NoneClaimed
    <2>2. CASE old \notin {"IN_PROGRESS", "DISPOSITIONED"}
        <3>1. LeadsOK(lead')
            BY <1>1, <1>2, <2>2, SetLeadType DEF DialerInv, LeadStatus
        <3>2. NoneClaimed(lead') /\ lead'[l].status # "DIALING"
            BY <1>1, <1>2, <2>2 DEF DialerInv, LeadsOK, SetLead, NoneClaimed, LeadRow
        <3> QED BY <3>1, <3>2
    <2> QED BY <2>1, <2>2
<1>4. AgentsOK(agent')
    BY <1>2, DetachType DEF DialerInv
<1> QED BY <1>2, <1>3, <1>4, FadedSame DEF DialerInv, PersonStep, OthersOK

LEMMA PressNineStep ==
    ASSUME DialerInv, NEW c \in Calls, PressNine(c) PROVE PersonStep
<1> DEFINE l == att[c].lead
<1>1. l \in Leads
    BY DEF PressNine, DialerInv, CallsOK
<1>2. /\ dnc' = dnc \cup {l}
      /\ lead' = IF lead[l].status \in {"READY_TO_CALL", "DIALING", "QUEUED"}
                 THEN [lead EXCEPT ![l].status = "DISPOSITIONED"] ELSE lead
      /\ UNCHANGED <<agent, att, leg, proc, tickLock, client, busy, enabled>>
    BY DEF PressNine
<1> HIDE DEF l
<1>3. LeadsOK(lead')
    BY <1>1, <1>2, StatusType DEF DialerInv, LeadStatus
<1>4. NoneClaimed(lead') /\ lead'[l].status # "DIALING"
    BY <1>1, <1>2 DEF DialerInv, LeadsOK, NoneClaimed, LeadRow
<1> QED BY <1>1, <1>2, <1>3, <1>4, FadedSame DEF DialerInv, PersonStep, OthersOK

LEMMA JoinStep ==
    ASSUME DialerInv, NEW a \in Agents, Join(a) PROVE PersonStep
<1>1. AgentsOK([agent EXCEPT ![a].status = "AVAILABLE"])
    BY DEF DialerInv, AgentsOK, AgentRow
<1>2. NoneClaimed(lead)
    BY DEF NoneClaimed
<1>3. LeadsOK(lead') /\ AgentsOK(agent') /\ NoneClaimed(lead')
    BY <1>1, <1>2, AssignClaims DEF Join, DialerInv
<1> QED BY <1>3, FadedSame DEF Join, Others, DialerInv, PersonStep, OthersOK

\* What an agent lets go of is not claimed.
LEMMA ReleaseHeldClaims ==
    ASSUME LeadsOK(lead), NEW a PROVE NoneClaimed(ReleaseHeld(a))
BY DEF LeadsOK, ReleaseHeld, LeadRow, NoneClaimed

LEMMA LeaveStep ==
    ASSUME DialerInv, NEW a \in Agents, Leave(a) PROVE PersonStep
<1>1. AgentsOK([agent EXCEPT ![a].status = "OFFLINE", ![a].current = NoLead, ![a].ready = FALSE])
    BY ZenonT(30) DEF DialerInv, AgentsOK, AgentRow
<1>2. LeadsOK(ReleaseHeld(a)) /\ NoneClaimed(ReleaseHeld(a))
    BY ReleaseHeldType, ReleaseHeldClaims DEF DialerInv
<1>3. LeadsOK(lead') /\ AgentsOK(agent') /\ NoneClaimed(lead')
    BY <1>1, <1>2, AssignClaims DEF Leave
<1> QED BY <1>3, FadedSame DEF Leave, Others, DialerInv, PersonStep, OthersOK

LEMMA StartBreakStep ==
    ASSUME DialerInv, NEW a \in Agents, StartBreak(a) PROVE PersonStep
<1>1. AgentsOK([agent EXCEPT ![a].status = "AWAY", ![a].current = NoLead])
    BY DEF DialerInv, AgentsOK, AgentRow
<1>2. LeadsOK(ReleaseHeld(a)) /\ NoneClaimed(ReleaseHeld(a))
    BY ReleaseHeldType, ReleaseHeldClaims DEF DialerInv
<1>3. LeadsOK(lead') /\ AgentsOK(agent') /\ NoneClaimed(lead')
    BY <1>1, <1>2, AssignClaims DEF StartBreak
<1> QED BY <1>3, FadedSame DEF StartBreak, Others, DialerInv, PersonStep, OthersOK

LEMMA AcceptStep ==
    ASSUME DialerInv, NEW a \in Agents, NEW l \in Leads, Accept(a, l) PROVE PersonStep
<1>1. AgentsOK(agent')
    <2>1. agent' = [agent EXCEPT ![a].status = "ON_CALL", ![a].current = l]
        BY DEF Accept
    <2> QED BY <2>1 DEF DialerInv, AgentsOK, AgentRow
<1>2. LeadsOK(lead')
    BY StatusType DEF Accept, DialerInv, LeadStatus
<1>3. NoneClaimed(lead')
    BY DEF Accept, DialerInv, LeadsOK, LeadRow, NoneClaimed
<1> QED BY <1>1, <1>2, <1>3, FadedSame DEF Accept, Others, DialerInv, PersonStep, OthersOK

\* A lead that becomes something else is not claimed by that.
LEMMA SetLeadClaims ==
    ASSUME LeadsOK(lead), NEW l \in Leads, NEW s \in LeadStatus \ {"READY_TO_CALL", "DIALING"},
           NEW o \in Agents \cup {NoAgent}
    PROVE  LeadsOK(SetLead(lead, l, s, o)) /\ NoneClaimed(SetLead(lead, l, s, o))
<1>1. LeadsOK(SetLead(lead, l, s, o))
    BY SetLeadType
<1>2. NoneClaimed(SetLead(lead, l, s, o))
    BY DEF LeadsOK, LeadRow, SetLead, NoneClaimed
<1> QED BY <1>1, <1>2

LEMMA PassStep ==
    ASSUME DialerInv, NEW a \in Agents, NEW l \in Leads, Pass(a, l) PROVE PersonStep
<1>1. AgentsOK([agent EXCEPT ![a].current = NoLead])
    BY DEF DialerInv, AgentsOK, AgentRow
<1>2. LeadsOK(SetLead(lead, l, "QUEUED", NoAgent)) /\ NoneClaimed(SetLead(lead, l, "QUEUED", NoAgent))
    BY SetLeadClaims DEF DialerInv, LeadStatus
<1>3. LeadsOK(lead') /\ AgentsOK(agent') /\ NoneClaimed(lead')
    BY <1>1, <1>2, AssignClaims DEF Pass
<1> QED BY <1>3, FadedSame DEF Pass, Others, DialerInv, PersonStep, OthersOK

LEMMA FreedType ==
    ASSUME DialerInv, NEW a \in Agents
    PROVE  AgentsOK([agent EXCEPT ![a].status = "AVAILABLE", ![a].current = NoLead])
BY DEF DialerInv, AgentsOK, AgentRow

LEMMA DispositionStep ==
    ASSUME DialerInv, NEW a \in Agents, NEW l \in Leads, NEW suppress \in BOOLEAN,
           Disposition(a, l, suppress)
    PROVE  PersonStep
<1> DEFINE L == [lead EXCEPT ![l].status = "DISPOSITIONED"]
           closed == EndLiveCalls(att, CallsOf(l))
<1>1. LeadsOK(L) /\ NoneClaimed(L) /\ L[l].status = "DISPOSITIONED"
    <2>1. LeadsOK(L)
        BY StatusType DEF DialerInv, LeadStatus
    <2> QED BY <2>1 DEF DialerInv, LeadsOK, LeadRow, NoneClaimed
<1>2. CallsOK(closed) /\ Faded(att, closed)
    BY EndType DEF DialerInv
<1>3. /\ Assign(1, L, [agent EXCEPT ![a].status = "AVAILABLE", ![a].current = NoLead], closed)
      /\ dnc' = IF suppress THEN dnc \cup {l} ELSE dnc
      /\ att' = closed /\ UNCHANGED Others
    BY DEF Disposition
<1> HIDE DEF L, closed
<1>4. LeadsOK(lead') /\ AgentsOK(agent') /\ NoneClaimed(lead') /\ Offers(L)
    BY <1>1, <1>3, FreedType, AssignClaims
<1>5. \A k \in dnc' \ dnc : lead'[k].status # "DIALING"
    BY <1>1, <1>3, <1>4 DEF Offers
<1> QED BY <1>2, <1>3, <1>4, <1>5 DEF Others, DialerInv, PersonStep, OthersOK

LEMMA VoicemailStep ==
    ASSUME DialerInv, NEW a \in Agents, NEW l \in Leads, Voicemail(a, l) PROVE PersonStep
<1> DEFINE again == SetLead(lead, l, "DIALING", NoAgent)
           L == Missed(again, l)
           closed == EndLiveCalls(att, CallsOf(l))
<1>1. LeadsOK(L) /\ NoneClaimed(L)
    <2>1. LeadsOK(again)
        BY SetLeadType DEF DialerInv, LeadStatus
    <2>2. \A k \in Leads \ {l} : again[k] = lead[k]
        BY DEF DialerInv, LeadsOK, SetLead
    <2> HIDE DEF again
    <2>3. LeadsOK(L) /\ L[l].status # "DIALING" /\ \A k \in Leads \ {l} : L[k] = lead[k]
        BY <2>1, <2>2, MissedType, MissedLeaves
    <2> HIDE DEF L
    <2> QED BY <2>3 DEF NoneClaimed
<1>2. CallsOK(closed) /\ Faded(att, closed)
    BY EndType DEF DialerInv
<1>3. /\ \E n : Assign(n, L, [agent EXCEPT ![a].status = "AVAILABLE", ![a].current = NoLead], closed)
      /\ att' = closed /\ UNCHANGED <<dnc, Others>>
    BY DEF Voicemail
<1> HIDE DEF L, closed
<1>4. LeadsOK(lead') /\ AgentsOK(agent') /\ NoneClaimed(lead')
    BY <1>1, <1>3, FreedType, AssignClaims
<1> QED BY <1>2, <1>3, <1>4 DEF Others, DialerInv, PersonStep, OthersOK

LEMMA ManagerDispositionStep ==
    ASSUME DialerInv, NEW l \in Leads, ManagerDisposition(l) PROVE PersonStep
<1> DEFINE L == SetLead(lead, l, "DISPOSITIONED", NoAgent)
           closed == EndLiveCalls(att, CallsOf(l))
<1>1. LeadsOK(L) /\ NoneClaimed(L) /\ L[l].status = "DISPOSITIONED"
    <2>1. LeadsOK(L) /\ NoneClaimed(L)
        BY SetLeadClaims DEF DialerInv, LeadStatus
    <2> QED BY <2>1 DEF DialerInv, LeadsOK, LeadRow, SetLead
<1>2. CallsOK(closed) /\ Faded(att, closed)
    BY EndType DEF DialerInv
<1>3. /\ Assign(1, L, Detach(agent, l), closed)
      /\ dnc' = dnc \cup {l} /\ att' = closed /\ UNCHANGED Others
    BY DEF ManagerDisposition
<1> HIDE DEF L, closed
<1>4. LeadsOK(lead') /\ AgentsOK(agent') /\ NoneClaimed(lead') /\ Offers(L)
    BY <1>1, <1>3, DetachType, AssignClaims DEF DialerInv
<1>5. \A k \in dnc' \ dnc : lead'[k].status # "DIALING"
    BY <1>1, <1>3, <1>4 DEF Offers
<1> QED BY <1>2, <1>3, <1>4, <1>5 DEF Others, DialerInv, PersonStep, OthersOK

LEMMA ReassignStep ==
    ASSUME DialerInv, NEW l \in Leads, NEW a \in Agents, Reassign(l, a) PROVE PersonStep
<1>1. LeadsOK(lead') /\ NoneClaimed(lead')
    BY SetLeadClaims DEF Reassign, DialerInv, LeadStatus
<1>2. AgentsOK(agent')
    <2> DEFINE A == Detach(agent, l)
    <2>1. AgentsOK(A) /\ agent' = [A EXCEPT ![a].current = l]
        BY DetachType DEF Reassign, DialerInv
    <2> HIDE DEF A
    <2> QED BY <2>1 DEF AgentsOK, AgentRow
<1> QED BY <1>1, <1>2, FadedSame DEF Reassign, Others, DialerInv, PersonStep, OthersOK

LEMMA LineStep ==
    ASSUME DialerInv, NEW a \in Agents,
           OnAgentLine(a) \/ OnAgentLineEnded(a) \/ \E on \in BOOLEAN : SetReady(a, on)
    PROVE  PersonStep
<1>1. AgentsOK(agent') /\ UNCHANGED <<lead, att, dnc, leg, proc, tickLock, client, busy, enabled>>
    <2>1. agent \in [Agents -> AgentRow]
        BY DEF DialerInv, AgentsOK
    <2>2. CASE OnAgentLine(a)
        BY <2>1, <2>2 DEF OnAgentLine, AgentsOK, AgentRow, Others
    <2>3. CASE OnAgentLineEnded(a)
        BY <2>1, <2>3 DEF OnAgentLineEnded, AgentsOK, AgentRow, Others
    <2>4. ASSUME NEW on \in BOOLEAN, SetReady(a, on)
          PROVE  AgentsOK(agent') /\ UNCHANGED <<lead, att, dnc, leg, proc, tickLock, client, busy, enabled>>
        <3> DEFINE v == on /\ agent[a].line
        <3>1. agent' = [agent EXCEPT ![a].ready = on, ![a].line = v] /\ v \in BOOLEAN
            BY <2>1, <2>4 DEF SetReady
        <3> HIDE DEF v
        <3>2. AgentsOK(agent')
            BY <2>1, <3>1 DEF AgentsOK, AgentRow
        <3> QED BY <2>4, <3>2 DEF SetReady, Others
    <2> QED BY <2>2, <2>3, <2>4
<1> QED BY <1>1, FadedSame DEF NoneClaimed, DialerInv, PersonStep, OthersOK

LEMMA HandCallStep ==
    ASSUME DialerInv, NEW a \in Agents, EndHandCall(a) \/ \E l \in Leads : StartHandCall(a, l)
    PROVE  PersonStep
<1>1. CASE EndHandCall(a)
    BY <1>1, FadedSame DEF EndHandCall, NoneClaimed, DialerInv, PersonStep, OthersOK
<1>2. ASSUME NEW l \in Leads, StartHandCall(a, l) PROVE PersonStep
    <2>1. AgentsOK(agent')
        BY <1>2, ZenonT(30) DEF StartHandCall, DialerInv, AgentsOK, AgentRow
    <2>2. client' \in [Leads -> Agents \cup {NoAgent}]
        BY <1>2 DEF StartHandCall, DialerInv, OthersOK
    <2>3. \A b \in busy' \ busy : ~ \E c \in Calls : att[c].agent = b /\ att[c].status = "CONNECTED"
        BY <1>2 DEF StartHandCall
    <2>4. UNCHANGED <<lead, att, dnc, leg, proc, tickLock, enabled>> /\ busy' = busy \cup {a}
        BY <1>2 DEF StartHandCall
    <2> QED BY <2>1, <2>2, <2>3, <2>4, FadedSame DEF NoneClaimed, DialerInv, PersonStep, OthersOK
<1> QED BY <1>1, <1>2

LEMMA ToggleStep == ASSUME DialerInv, Toggle PROVE PersonStep
BY FadedSame DEF Toggle, NoneClaimed, DialerInv, PersonStep, OthersOK

LEMMA PeopleStep == ASSUME DialerInv, People PROVE PersonStep
<1>1. CASE \E l \in Leads, clear \in BOOLEAN : TextYes(l, clear)
    BY <1>1, TextYesStep
<1>2. CASE \E a \in Agents : Join(a) \/ OnAgentLine(a) \/ SetReady(a, TRUE)
    BY <1>2, JoinStep, LineStep
<1>3. CASE \/ \E l \in Leads : TextStop(l)
           \/ \E c \in Calls : PressNine(c)
    BY <1>3, TextStopStep, PressNineStep
<1>4. CASE \E a \in Agents : StartBreak(a) \/ Leave(a)
    BY <1>4, StartBreakStep, LeaveStep
<1>5. CASE \E a \in Agents, l \in Leads : Accept(a, l) \/ Pass(a, l)
    BY <1>5, AcceptStep, PassStep
<1>6. CASE \E a \in Agents, l \in Leads, suppress \in BOOLEAN : Disposition(a, l, suppress)
    BY <1>6, DispositionStep
<1>7. CASE \E a \in Agents, l \in Leads : Voicemail(a, l)
    BY <1>7, VoicemailStep
<1>8. CASE \E l \in Leads : ManagerDisposition(l) \/ \E a \in Agents : Reassign(l, a)
    BY <1>8, ManagerDispositionStep, ReassignStep
<1>9. CASE \E a \in Agents : OnAgentLineEnded(a) \/ SetReady(a, FALSE)
    BY <1>9, LineStep
<1>10. CASE \E a \in Agents : EndHandCall(a) \/ \E l \in Leads : StartHandCall(a, l)
    BY <1>10, HandCallStep
<1>11. CASE Toggle
    BY <1>11, ToggleStep
<1> QED BY <1>1, <1>2, <1>3, <1>4, <1>5, <1>6, <1>7, <1>8, <1>9, <1>10, <1>11 DEF People

\* Such a step keeps the types.
LEMMA PersonType == ASSUME DialerInv, PersonStep PROVE DialerInv'
<1>1. \A c \in Calls : att[c].status # "NONE" => att'[c].status # "NONE"
    BY DEF PersonStep, Faded
<1>2. HandlersOK(proc, att')
    BY <1>1, HandlersKeep DEF DialerInv
<1>3. proc' = proc
    BY DEF PersonStep
<1>4. HandlersOK(proc', att')
    BY <1>2, <1>3
<1>5. OthersOK'
    BY DEF PersonStep, DialerInv, OthersOK
<1> QED BY <1>4, <1>5 DEF PersonStep, DialerInv, LeadsOK, AgentsOK, CallsOK, HandlersOK, RowOK

-----------------------------------------------------------------------------
(* What the carrier's events and the handlers do to calls. *)

\* No call begins and none is bridged: a call stays, is answered, or is over.
Settled(C, E) ==
    \A c \in Calls :
        /\ E[c].lead = C[c].lead
        /\ \/ /\ E[c].status = C[c].status /\ E[c].agent = C[c].agent
              /\ C[c].human => E[c].human
           \/ C[c].status = "DIALING" /\ E[c].status = "ANSWERED" /\ E[c].agent = C[c].agent
           \/ C[c].status # "NONE" /\ E[c].status \in {"CLOSED", "ABANDONED"}

LEMMA ClosedSettles ==
    ASSUME NEW C, CallsOK(C), NEW D, \A c \in Calls \cap D : C[c].status # "NONE"
    PROVE  CallsOK(Closed(C, D)) /\ Settled(C, Closed(C, D))
<1>1. \A c \in Calls : IF c \in D THEN Closed(C, D)[c].status = "CLOSED" /\ Closed(C, D)[c].lead = C[c].lead
                                  ELSE Closed(C, D)[c] = C[c]
    BY ClosedType
<1>2. ASSUME NEW c \in Calls
      PROVE  /\ Closed(C, D)[c].lead = C[c].lead
             /\ \/ Closed(C, D)[c] = C[c]
                \/ C[c].status # "NONE" /\ Closed(C, D)[c].status \in {"CLOSED", "ABANDONED"}
    BY <1>1
<1> QED BY <1>2, ClosedType DEF Settled

LEMMA FadedSettles ==
    ASSUME Faded(att, att') PROVE Settled(att, att')
BY DEF Faded, Settled

LEMMA SettledLive ==
    ASSUME NEW C, NEW E, Settled(C, E)
    PROVE  \A c \in Calls : C[c].status # "NONE" => E[c].status # "NONE"
BY DEF Settled

LEMMA SettledHandlers ==
    ASSUME HandlersOK(proc, att), Settled(att, att'), UNCHANGED proc
    PROVE  HandlersOK(proc', att')
<1>1. HandlersOK(proc, att')
    BY SettledLive, HandlersKeep
<1> QED BY <1>1

\* Event rows: answered, and known to be a human.
LEMMA EventRows ==
    ASSUME CallsOK(att), NEW c \in Calls, att[c].status # "NONE",
           NEW E, \/ E = [att EXCEPT ![c].status = IF @ = "DIALING" THEN "ANSWERED" ELSE @]
                  \/ E = [att EXCEPT ![c].human = TRUE]
    PROVE  CallsOK(E) /\ Settled(att, E)
<1>0. att[c] \in CallRow /\ att \in [Calls -> CallRow]
    BY DEF CallsOK
<1>1. PICK s \in CallStatus, h \in BOOLEAN :
        /\ E = [att EXCEPT ![c] = [att[c] EXCEPT !.status = s, !.human = h]]
        /\ s = att[c].status \/ (att[c].status = "DIALING" /\ s = "ANSWERED")
        /\ att[c].human => h
    <2>1. CASE E = [att EXCEPT ![c].status = IF @ = "DIALING" THEN "ANSWERED" ELSE @]
        <3> DEFINE s == IF att[c].status = "DIALING" THEN "ANSWERED" ELSE att[c].status
        <3>1. s \in CallStatus /\ att[c].human \in BOOLEAN
            BY <1>0 DEF CallRow, CallStatus
        <3>2. s = att[c].status \/ (att[c].status = "DIALING" /\ s = "ANSWERED")
            OBVIOUS
        <3>3. E = [att EXCEPT ![c] = [att[c] EXCEPT !.status = s]]
            BY <2>1
        <3> HIDE DEF s
        <3>4. [att[c] EXCEPT !.status = s] = [att[c] EXCEPT !.status = s, !.human = att[c].human]
            BY <1>0 DEF CallRow
        <3> QED BY <3>1, <3>2, <3>3, <3>4
    <2>2. CASE E = [att EXCEPT ![c].human = TRUE]
        <3>1. [att[c] EXCEPT !.human = TRUE] = [att[c] EXCEPT !.status = att[c].status, !.human = TRUE]
            BY <1>0 DEF CallRow
        <3>2. att[c].status \in CallStatus
            BY <1>0 DEF CallRow
        <3> QED BY <2>2, <3>1, <3>2
    <2> QED BY <2>1, <2>2
<1> DEFINE r == [att[c] EXCEPT !.status = s, !.human = h]
<1>2. r \in CallRow /\ r.status = s /\ r.lead = att[c].lead /\ r.agent = att[c].agent /\ r.human = h
    BY <1>0 DEF CallRow
<1>3. E = [att EXCEPT ![c] = r]
    BY <1>1
<1> HIDE DEF r
<1> QED BY <1>0, <1>1, <1>2, <1>3 DEF CallsOK, Settled

LEMMA ReadCallSettles ==
    ASSUME NEW C, CallsOK(C), Settled(att, C), NEW x, NEW c \in Calls,
           C[c].status # "NONE", NEW early, NEW back, ReadCall(x, c, early, back, C)
    PROVE  Settled(att, att')
<1>1. CASE att' = C
    BY <1>1
<1>2. CASE att' = Closed(C, {c})
    <2>1. Settled(C, att')
        BY <1>2, ClosedSettles
    <2> QED BY <2>1 DEF Settled
<1> QED BY <1>1, <1>2 DEF ReadCall

\* A step of a handler or an event: it keeps the types and settles calls.
CallStep == DialerInv' /\ Settled(att, att')

\* What it takes for the types to be kept.
LEMMA InvStep ==
    ASSUME DialerInv, LeadsOK(lead'), AgentsOK(agent'), CallsOK(att'), HandlersOK(proc', att'),
           leg' \in [Calls -> SUBSET LegEvents], tickLock' \in Handlers \cup {NoHandler},
           dnc' \subseteq Leads, client' \in [Leads -> Agents \cup {NoAgent}],
           busy' \subseteq Agents, enabled' \in BOOLEAN
    PROVE  DialerInv'
BY DEF DialerInv, LeadsOK, AgentsOK, CallsOK, HandlersOK, RowOK, OthersOK

LEMMA ReadCallStep ==
    ASSUME DialerInv, NEW x \in Handlers, NEW c \in Calls, att[c].status # "NONE",
           NEW C, CallsOK(C), Settled(att, C), NEW early \in BOOLEAN, NEW back \in {"idle", "grace"},
           ReadCall(x, c, early, back, C),
           UNCHANGED <<lead, agent, leg, tickLock, dnc, client, busy, enabled>>
    PROVE  CallStep
<1>1. C[c].status # "NONE" /\ HandlersOK(proc, C)
    BY SettledLive, HandlersKeep DEF DialerInv
<1>2. CallsOK(att') /\ HandlersOK(proc', att') /\ Settled(att, att')
    BY <1>1, ReadCallType, ReadCallSettles
<1>3. DialerInv'
    BY <1>2, InvStep DEF DialerInv, OthersOK
<1> QED BY <1>2, <1>3 DEF CallStep

LEMMA EventStep ==
    ASSUME DialerInv, NEW x \in Handlers, NEW c \in Calls,
           AnswerUrl(x, c) \/ AnsweredEvent(x, c) \/ HumanEvent(x, c) \/ GraceOver(x, c)
    PROVE  CallStep
<1> DEFINE answered == [att EXCEPT ![c].status = IF @ = "DIALING" THEN "ANSWERED" ELSE @]
           human == [att EXCEPT ![c].human = TRUE]
<1>1. att[c].status # "NONE"
    BY DEF AnswerUrl, AnsweredEvent, HumanEvent, GraceOver, IN_FLIGHT
<1>2. CallsOK(answered) /\ Settled(att, answered) /\ CallsOK(human) /\ Settled(att, human)
    BY <1>1, EventRows DEF DialerInv
<1>3. CallsOK(att) /\ Settled(att, att)
    BY DEF DialerInv, Settled
<1>4. UNCHANGED <<lead, agent, leg, tickLock, dnc, client, busy, enabled>>
    BY DEF AnswerUrl, AnsweredEvent, HumanEvent, GraceOver
<1>5. \/ (att' = answered \/ att' = human) /\ UNCHANGED proc
      \/ ReadCall(x, c, MachineDetection, "idle", att)
      \/ ReadCall(x, c, TRUE, "idle", answered)
      \/ ReadCall(x, c, FALSE, "idle", att)
      \/ ReadCall(x, c, FALSE, "grace", att)
    BY DEF AnswerUrl, AnsweredEvent, HumanEvent, GraceOver
<1> HIDE DEF answered, human
<1>6. CASE (att' = answered \/ att' = human) /\ UNCHANGED proc
    <2>1. CallsOK(att') /\ Settled(att, att')
        BY <1>2, <1>6
    <2>2. HandlersOK(proc', att')
        BY <1>6, <2>1, SettledHandlers DEF DialerInv
    <2>3. DialerInv'
        BY <1>4, <2>1, <2>2, InvStep DEF DialerInv, OthersOK
    <2> QED BY <2>1, <2>3 DEF CallStep
<1>7. MachineDetection \in BOOLEAN
    BY SettingsAssumption
<1> QED BY <1>1, <1>2, <1>3, <1>4, <1>5, <1>6, <1>7, ReadCallStep

LEMMA LegChange ==
    ASSUME DialerInv, NEW c \in Calls, NEW e \in LegEvents, LegStep(c, e) PROVE CallStep
<1>1. leg' \in [Calls -> SUBSET LegEvents]
    BY DEF LegStep, DialerInv, OthersOK
<1>2. UNCHANGED <<lead, agent, att, dnc, client, busy, enabled, proc, tickLock>>
    BY DEF LegStep, tables
<1>3. HandlersOK(proc', att') /\ LeadsOK(lead') /\ AgentsOK(agent') /\ CallsOK(att')
    BY <1>2 DEF DialerInv
<1>4. DialerInv'
    BY <1>1, <1>2, <1>3, InvStep DEF DialerInv, OthersOK
<1> QED BY <1>2, <1>4 DEF CallStep, Settled

LEMMA CloseSettles ==
    ASSUME DialerInv, NEW c \in Calls, att[c].status # "NONE"
    PROVE  CallsOK(Close(c)) /\ Settled(att, Close(c))
BY ClosedSettles DEF DialerInv, Close

LEMMA EndedStep ==
    ASSUME DialerInv, NEW c \in Calls, EndedEvent(c) PROVE CallStep
<1>1. att[c].status # "NONE" /\ att' = Close(c) /\ UNCHANGED <<leg, proc, tickLock, dnc, client, busy, enabled>>
    BY DEF EndedEvent, IN_FLIGHT
<1>2. CallsOK(att') /\ Settled(att, att')
    BY <1>1, CloseSettles
<1>3. HandlersOK(proc', att')
    BY <1>1, <1>2, SettledHandlers DEF DialerInv
<1>4. LeadsOK(lead') /\ AgentsOK(agent')
    BY RequeueOutcome DEF EndedEvent, DialerInv
<1>5. DialerInv'
    BY <1>1, <1>2, <1>3, <1>4, InvStep DEF DialerInv, OthersOK
<1> QED BY <1>2, <1>5 DEF CallStep

LEMMA MachineStep ==
    ASSUME DialerInv, NEW x \in Handlers, NEW c \in Calls, MachineEvent(x, c) PROVE CallStep
<1> DEFINE a == att[c].agent
           l == att[c].lead
           early == att[c].status = "CONNECTED"
           r == [Idle EXCEPT !.pc = "requeue", !.call = c]
<1>1. /\ att[c].status # "NONE" /\ att' = Close(c) /\ proc' = [proc EXCEPT ![x] = r]
      /\ lead' = IF early /\ lead[l].status = "IN_PROGRESS"
                 THEN SetLead(lead, l, "DIALING", NoAgent) ELSE lead
      /\ agent' = IF ~early THEN agent
                  ELSE [agent EXCEPT ![a].current = IF @ = l THEN NoLead ELSE @,
                                     ![a].status = IF @ = "ON_CALL" THEN "AVAILABLE" ELSE @]
      /\ UNCHANGED <<leg, tickLock, dnc, client, busy, enabled>>
    BY DEF MachineEvent, IN_FLIGHT
<1>2. CallsOK(att') /\ Settled(att, att')
    BY <1>1, CloseSettles
<1>3. RowOK(r, att')
    <2>1. Idle \in ProcRow
        BY IdleOK DEF RowOK
    <2>2. r \in ProcRow /\ r.pc = "requeue" /\ r.call = c
        BY <2>1 DEF ProcRow, Pcs
    <2>3. r.back = "idle"
        BY DEF Idle
    <2>4. att'[c].status # "NONE"
        BY <1>1, <1>2 DEF Settled
    <2> HIDE DEF r
    <2> QED BY <2>2, <2>3, <2>4 DEF RowOK
<1> HIDE DEF r
<1>4. HandlersOK(proc', att')
    <2>1. HandlersOK(proc, att')
        BY <1>2, SettledLive, HandlersKeep DEF DialerInv
    <2> QED BY <1>1, <1>3, <2>1, HandlersSet
<1>5. LeadsOK(lead')
    BY <1>1, SetLeadType DEF DialerInv, LeadStatus
<1>6. AgentsOK(agent')
    <2>1. CASE early /\ a \in Agents
        <3> DEFINE cur == IF agent[a].current = l THEN NoLead ELSE agent[a].current
                   st == IF agent[a].status = "ON_CALL" THEN "AVAILABLE" ELSE agent[a].status
        <3>1. agent[a] \in AgentRow
            BY <2>1 DEF DialerInv, AgentsOK
        <3>2. cur \in Leads \cup {NoLead} /\ st \in {"AVAILABLE", "ON_CALL", "AWAY", "OFFLINE"}
            BY <3>1 DEF AgentRow
        <3>3. agent' = [agent EXCEPT ![a].current = cur, ![a].status = st]
            BY <1>1, <2>1 DEF DialerInv, AgentsOK
        <3> HIDE DEF cur, st, a
        <3> QED BY <2>1, <3>2, <3>3 DEF DialerInv, AgentsOK, AgentRow
    <2>2. CASE ~early \/ a \notin Agents
        <3>1. agent' = agent
            BY <1>1, <2>2 DEF DialerInv, AgentsOK
        <3> QED BY <3>1 DEF DialerInv
    <2> QED BY <2>1, <2>2
<1>7. DialerInv'
    BY <1>1, <1>2, <1>4, <1>5, <1>6, InvStep DEF DialerInv, OthersOK
<1> QED BY <1>2, <1>7 DEF CallStep

\* A handler at work has a call with a customer.
LEMMA HandlerCall ==
    ASSUME DialerInv, NEW x \in Handlers, proc[x].pc \in AtWork
    PROVE  /\ proc[x].call \in Calls /\ att[proc[x].call].status # "NONE"
           /\ att[proc[x].call].lead \in Leads
BY DEF DialerInv, HandlersOK, RowOK, CallsOK

LEMMA AbandonStep ==
    ASSUME DialerInv, NEW x \in Handlers, Abandon(x) PROVE CallStep
<1> DEFINE c == proc[x].call
<1>1. c \in Calls /\ att[c].status # "NONE"
    BY HandlerCall DEF Abandon, AtWork, Pcs
<1>2. att' = [att EXCEPT ![c].status = "ABANDONED"] /\ Goto(x, "requeue")
      /\ UNCHANGED <<lead, agent, leg, tickLock, dnc, client, busy, enabled>>
    BY DEF Abandon
<1> HIDE DEF c
<1>3. CallsOK(att') /\ Settled(att, att')
    BY <1>1, <1>2 DEF DialerInv, CallsOK, CallRow, CallStatus, Settled
<1>4. HandlersOK(proc', att')
    <2>1. HandlersOK(proc, att')
        BY <1>3, SettledLive, HandlersKeep DEF DialerInv
    <2>2. proc[x].pc \in AtWork /\ "requeue" \in Pcs
        BY DEF Abandon, AtWork, Pcs
    <2> QED BY <1>2, <2>1, <2>2, GotoOK
<1>5. DialerInv'
    BY <1>2, <1>3, <1>4, InvStep DEF DialerInv, OthersOK
<1> QED BY <1>3, <1>5 DEF CallStep

LEMMA RequeueLaterStep ==
    ASSUME DialerInv, NEW x \in Handlers, RequeueLater(x) PROVE CallStep
<1>1. LeadsOK(lead') /\ AgentsOK(agent')
    BY RequeueOutcome DEF RequeueLater, DialerInv
<1>2. UNCHANGED <<att, leg, tickLock, dnc, client, busy, enabled>> /\ Return(x)
    BY DEF RequeueLater
<1>3. HandlersOK(proc', att)
    BY <1>2, ReturnOK DEF DialerInv
<1>4. HandlersOK(proc', att') /\ CallsOK(att')
    BY <1>2, <1>3 DEF DialerInv
<1>5. DialerInv'
    BY <1>1, <1>2, <1>4, InvStep DEF DialerInv, OthersOK
<1> QED BY <1>2, <1>5 DEF CallStep, Settled

LEMMA BridgedStep ==
    ASSUME DialerInv, NEW x \in Handlers, Bridged(x) PROVE CallStep
<1>1. UNCHANGED <<lead, agent, att, leg, tickLock, dnc, busy, enabled>> /\ Return(x)
    BY DEF Bridged
<1>2. HandlersOK(proc', att)
    BY <1>1, ReturnOK DEF DialerInv
<1>3. HandlersOK(proc', att') /\ CallsOK(att') /\ LeadsOK(lead') /\ AgentsOK(agent')
    BY <1>1, <1>2 DEF DialerInv
<1>4. client' \in [Leads -> Agents \cup {NoAgent}]
    BY DEF Bridged, DialerInv, HandlersOK, ProcRow, OthersOK
<1>5. DialerInv'
    BY <1>1, <1>3, <1>4, InvStep DEF DialerInv, OthersOK
<1> QED BY <1>1, <1>5 DEF CallStep, Settled

LEMMA BridgeFailsStep ==
    ASSUME DialerInv, NEW x \in Handlers, BridgeFails(x) PROVE CallStep
<1> DEFINE c == proc[x].call
           L == SetLead(lead, att[c].lead, "DIALING", NoAgent)
           A == [agent EXCEPT ![proc[x].agent].current = NoLead, ![proc[x].agent].status = "AVAILABLE"]
<1>1. c \in Calls /\ att[c].status # "NONE"
    BY HandlerCall DEF BridgeFails, AtWork, Pcs
<1>2. att' = Close(c) /\ Requeue(att[c].lead, L, A, Close(c)) /\ Return(x)
      /\ UNCHANGED <<leg, tickLock, dnc, client, busy, enabled>>
    BY DEF BridgeFails
<1>3. LeadsOK(L)
    BY SetLeadType DEF DialerInv, LeadStatus
<1>4. AgentsOK(A)
    BY ZenonT(30) DEF DialerInv, AgentsOK, AgentRow
<1> HIDE DEF c, L, A
<1>5. LeadsOK(lead') /\ AgentsOK(agent')
    BY <1>2, <1>3, <1>4, RequeueOutcome
<1>6. CallsOK(att') /\ Settled(att, att')
    BY <1>1, <1>2, CloseSettles
<1>7. HandlersOK(proc', att')
    <2>1. HandlersOK(proc, att')
        BY <1>6, SettledLive, HandlersKeep DEF DialerInv
    <2> QED BY <1>2, <2>1, ReturnOK
<1>8. DialerInv'
    BY <1>2, <1>5, <1>6, <1>7, InvStep DEF DialerInv, OthersOK
<1> QED BY <1>6, <1>8 DEF CallStep

\* What a handler makes of itself: the row it leaves is a proper one.
LEMMA RowChange ==
    ASSUME DialerInv, Settled(att, att'), NEW x \in Handlers, NEW r,
           proc' = [proc EXCEPT ![x] = r], RowOK(r, att)
    PROVE  HandlersOK(proc', att')
<1>1. HandlersOK([proc EXCEPT ![x] = r], att)
    BY HandlersSet DEF DialerInv
<1>2. HandlersOK([proc EXCEPT ![x] = r], att')
    BY <1>1, SettledLive, HandlersKeep
<1> QED BY <1>2

LEMMA SettledSame == ASSUME UNCHANGED att PROVE Settled(att, att')
BY DEF Settled

\* Nothing but the handler's own row changes.
LEMMA OwnRowStep ==
    ASSUME DialerInv, NEW x \in Handlers, NEW r, proc' = [proc EXCEPT ![x] = r], RowOK(r, att),
           UNCHANGED <<tables, leg>>, tickLock' \in Handlers \cup {NoHandler}
    PROVE  CallStep
<1>1. Settled(att, att') /\ HandlersOK(proc', att')
    BY SettledSame, RowChange DEF tables
<1>2. LeadsOK(lead') /\ AgentsOK(agent') /\ CallsOK(att')
    BY DEF tables, DialerInv
<1>3. DialerInv'
    BY <1>1, <1>2, InvStep DEF DialerInv, OthersOK, tables
<1> QED BY <1>1, <1>3 DEF CallStep

LEMMA DiesStep == ASSUME DialerInv, NEW x \in Handlers, Dies(x) \/ TickEnds(x) PROVE CallStep
<1>1. proc' = [proc EXCEPT ![x] = Idle] /\ UNCHANGED <<tables, leg>>
      /\ tickLock' \in Handlers \cup {NoHandler}
    BY DEF Dies, TickEnds, DialerInv, OthersOK
<1> QED BY <1>1, IdleOK, OwnRowStep

LEMMA LockRunsOutStep == ASSUME DialerInv, LockRunsOut PROVE CallStep
<1>1. UNCHANGED <<tables, leg, proc>> /\ tickLock' \in Handlers \cup {NoHandler}
    BY DEF LockRunsOut
<1>2. LeadsOK(lead') /\ AgentsOK(agent') /\ CallsOK(att') /\ HandlersOK(proc', att')
    BY <1>1 DEF tables, DialerInv
<1>3. DialerInv'
    BY <1>1, <1>2, InvStep DEF DialerInv, OthersOK, tables
<1> QED BY <1>1, <1>3, SettledSame DEF CallStep, tables

\* A tick that has looked at a customer is done with them; it keeps the rest.
LEMMA LookedOK ==
    ASSUME DialerInv, NEW x \in Handlers, proc[x].pc = "dial", NEW l
    PROVE  RowOK([proc[x] EXCEPT !.cand = @ \ {l}], att)
<1>1. proc[x] \in ProcRow /\ RowOK(proc[x], att)
    BY DEF DialerInv, HandlersOK
<1> DEFINE r == [proc[x] EXCEPT !.cand = @ \ {l}]
<1>2. r \in ProcRow /\ r.pc = "dial" /\ r.back = proc[x].back
    BY <1>1 DEF ProcRow
<1> HIDE DEF r
<1>3. RowOK(r, att)
    BY <1>1, <1>2 DEF RowOK, AtWork
<1> QED BY <1>3 DEF r

LEMMA NotNowStep == ASSUME DialerInv, NEW x \in Handlers, NEW l, NotNow(x, l) PROVE CallStep
<1> DEFINE r == [proc[x] EXCEPT !.cand = @ \ {l}]
<1>1. proc' = [proc EXCEPT ![x] = r] /\ UNCHANGED <<tables, leg, tickLock>> /\ proc[x].pc = "dial"
    BY DEF NotNow, DialerInv, HandlersOK
<1>2. RowOK(r, att)
    BY <1>1, LookedOK
<1> HIDE DEF r
<1> QED BY <1>1, <1>2, OwnRowStep DEF DialerInv, OthersOK

LEMMA OptedOutSinceStep ==
    ASSUME DialerInv, NEW x \in Handlers, NEW l \in Leads, OptedOutSince(x, l) PROVE CallStep
<1> DEFINE r == [proc[x] EXCEPT !.cand = @ \ {l}]
<1>1. /\ proc' = [proc EXCEPT ![x] = r] /\ proc[x].pc = "dial"
      /\ lead' = [lead EXCEPT ![l].status = "DISPOSITIONED"]
      /\ UNCHANGED <<agent, att, leg, tickLock, dnc, client, busy, enabled>>
    BY DEF OptedOutSince, DialerInv, HandlersOK
<1>2. RowOK(r, att)
    BY <1>1, LookedOK
<1> HIDE DEF r
<1>3. LeadsOK(lead')
    BY <1>1, StatusType DEF DialerInv, LeadStatus
<1>4. Settled(att, att') /\ HandlersOK(proc', att')
    BY <1>1, <1>2, SettledSame, RowChange
<1>5. DialerInv'
    BY <1>1, <1>3, <1>4, InvStep DEF DialerInv, OthersOK
<1> QED BY <1>4, <1>5 DEF CallStep

LEMMA CallPlacedStep == ASSUME DialerInv, NEW x \in Handlers, CallPlaced(x) PROVE CallStep
<1> DEFINE r == [proc[x] EXCEPT !.pc = "dial", !.call = NoCall, !.cap = @ - 1]
<1>1. /\ proc' = [proc EXCEPT ![x] = r] /\ proc[x].pc = "calling" /\ UNCHANGED <<tables, leg, tickLock>>
    BY DEF CallPlaced, DialerInv, HandlersOK
<1>2. proc[x] \in ProcRow /\ RowOK(proc[x], att)
    BY DEF DialerInv, HandlersOK
<1>3. proc[x].cap - 1 \in 0..MaxCallsPerTick
    BY <1>1, <1>2, SettingsAssumption DEF RowOK, ProcRow
<1>4. r \in ProcRow /\ r.pc = "dial" /\ r.back = proc[x].back
    BY <1>2, <1>3 DEF ProcRow, Pcs, TickPhases
<1> HIDE DEF r
<1>5. RowOK(r, att)
    BY <1>2, <1>4 DEF RowOK, AtWork
<1> QED BY <1>1, <1>5, OwnRowStep DEF DialerInv, OthersOK

LEMMA CallFailsStep == ASSUME DialerInv, NEW x \in Handlers, CallFails(x) PROVE CallStep
<1> DEFINE c == proc[x].call
           r == [proc[x] EXCEPT !.pc = "dial", !.call = NoCall]
<1>1. /\ proc' = [proc EXCEPT ![x] = r] /\ att' = Close(c)
      /\ Requeue(att[c].lead, lead, agent, Close(c))
      /\ UNCHANGED <<leg, tickLock, dnc, client, busy, enabled>>
    BY DEF CallFails, DialerInv, HandlersOK
<1>2. proc[x] \in ProcRow /\ RowOK(proc[x], att)
    BY DEF DialerInv, HandlersOK
<1>3. r \in ProcRow /\ r.pc = "dial" /\ r.back = proc[x].back
    BY <1>2 DEF ProcRow, Pcs, TickPhases
<1>4. c \in Calls /\ att[c].status # "NONE"
    BY HandlerCall DEF CallFails, AtWork, Pcs, TickPhases
<1> HIDE DEF r, c
<1>5. RowOK(r, att)
    BY <1>2, <1>3 DEF RowOK, AtWork
<1>6. CallsOK(att') /\ Settled(att, att')
    BY <1>1, <1>4, CloseSettles
<1>7. HandlersOK(proc', att')
    BY <1>1, <1>5, <1>6, RowChange
<1>8. LeadsOK(lead') /\ AgentsOK(agent')
    BY <1>1, RequeueOutcome DEF DialerInv
<1>9. DialerInv'
    BY <1>1, <1>6, <1>7, <1>8, InvStep DEF DialerInv, OthersOK
<1> QED BY <1>6, <1>9 DEF CallStep

LEMMA TickStartsStep ==
    ASSUME DialerInv, NEW x \in Handlers, NEW S \in SUBSET Agents, TickStarts(x, S) PROVE CallStep
<1> DEFINE L == [l \in Leads |-> IF /\ lead[l].status \in {"ASSIGNED", "IN_PROGRESS"}
                                    /\ \E a \in S : agent[a].current = l
                                 THEN [lead[l] EXCEPT !.status = "QUEUED", !.owner = NoAgent]
                                 ELSE lead[l]]
           A == [a \in Agents |-> IF a \in S THEN [agent[a] EXCEPT !.status = "OFFLINE",
                                                      !.current = NoLead, !.ready = FALSE]
                                  ELSE agent[a]]
           r == [Idle EXCEPT !.pc = "grace"]
<1>1. /\ proc' = [proc EXCEPT ![x] = r] /\ tickLock' = x
      /\ Assign(IF S = {} THEN 0 ELSE Cardinality(Agents), L, A, att)
      /\ UNCHANGED <<att, leg, dnc, client, busy, enabled>>
    BY DEF TickStarts, ReapStaleAgents
<1>2. LeadsOK(L)
    <2>1. \A l \in Leads : lead[l] \in LeadRow /\ (lead[l].status = "READY_TO_CALL" => lead[l].tries < MaxTotal)
        BY DEF DialerInv, LeadsOK
    <2> QED BY <2>1, ZenonT(30) DEF LeadsOK, LeadRow, LeadStatus
<1>3. AgentsOK(A)
    BY DEF DialerInv, AgentsOK, AgentRow
<1>4. RowOK(r, att)
    <2>1. Idle \in ProcRow /\ Idle.back = "idle"
        BY IdleOK DEF RowOK, Idle
    <2>2. r \in ProcRow /\ r.pc = "grace" /\ r.back = "idle"
        BY <2>1 DEF ProcRow, Pcs, TickPhases
    <2> HIDE DEF r
    <2> QED BY <2>2 DEF RowOK, AtWork
<1> HIDE DEF L, A, r
<1>5. LeadsOK(lead') /\ AgentsOK(agent')
    BY <1>1, <1>2, <1>3, AssignOutcome
<1>6. Settled(att, att') /\ HandlersOK(proc', att')
    BY <1>1, <1>4, SettledSame, RowChange
<1>7. DialerInv'
    BY <1>1, <1>5, <1>6, InvStep DEF DialerInv, OthersOK
<1> QED BY <1>6, <1>7 DEF CallStep

\* A sweep over the leads that were not reached is a miss for each of them.
LEMMA SweepType ==
    ASSUME DialerInv, NEW U
    PROVE  LeadsOK([l \in Leads |-> IF l \in U THEN Missed(lead, l)[l] ELSE lead[l]])
<1> DEFINE L == [l \in Leads |-> IF l \in U THEN Missed(lead, l)[l] ELSE lead[l]]
<1>1. \A l \in Leads : LeadsOK(Missed(lead, l)) /\ LeadsOK(lead)
    BY MissedType DEF DialerInv
<1>2. \A l \in Leads : L[l] \in LeadRow /\ (L[l].status = "READY_TO_CALL" => L[l].tries < MaxTotal)
    BY <1>1 DEF LeadsOK
<1>3. L \in [Leads -> LeadRow]
    BY <1>2
<1> HIDE DEF L
<1>4. LeadsOK(L)
    BY <1>2, <1>3 DEF LeadsOK
<1> QED BY <1>4 DEF L

LEMMA HouseStep ==
    ASSUME DialerInv, NEW x \in Handlers, NEW lost \in SUBSET Calls, NEW old \in SUBSET Calls,
           House(x, lost, old)
    PROVE  CallStep
<1> DEFINE D == {c \in Calls : c \in lost \cup old \/ Stray(c)}
           U == {l \in Leads : \E c \in lost : att[c].lead = l}
           n == Cardinality({l \in U : lead[l].status = "DIALING" /\ lead[l].tries >= MaxTotal})
           L == [l \in Leads |-> IF l \in U THEN Missed(lead, l)[l] ELSE lead[l]]
           A == [a \in Agents |-> IF agent[a].status = "OFFLINE"
                                  THEN [agent[a] EXCEPT !.line = FALSE] ELSE agent[a]]
<1>1. /\ att' = Closed(att, D) /\ Assign(n, L, A, Closed(att, D)) /\ Goto(x, "serve")
      /\ UNCHANGED <<leg, tickLock, dnc, client, busy, enabled>>
    BY DEF House
<1>2. \A c \in Calls \cap D : att[c].status # "NONE"
    BY DEF House, Stray
<1>3. LeadsOK(L)
    BY SweepType
<1>4. AgentsOK(A)
    BY DEF DialerInv, AgentsOK, AgentRow
<1> HIDE DEF D, U, L, A, n
<1>5. LeadsOK(lead') /\ AgentsOK(agent')
    BY <1>1, <1>3, <1>4, AssignOutcome
<1>6. CallsOK(att') /\ Settled(att, att')
    BY <1>1, <1>2, ClosedSettles DEF DialerInv
<1>7. HandlersOK(proc', att')
    <2>1. HandlersOK(proc, att')
        BY <1>6, SettledLive, HandlersKeep DEF DialerInv
    <2>2. "serve" \in Pcs \ {"calling"} /\ "serve" \notin AtWork
        BY DEF Pcs, TickPhases, AtWork
    <2> QED BY <1>1, <2>1, <2>2, GotoOK
<1>8. DialerInv'
    BY <1>1, <1>5, <1>6, <1>7, InvStep DEF DialerInv, OthersOK
<1> QED BY <1>6, <1>8 DEF CallStep

LEMMA CapacityType == ASSUME NEW A PROVE Capacity(A) \in 0..MaxCallsPerTick
<1>1. ReadyAgents(A) \subseteq Agents /\ {c \in Calls : att[c].status \in IN_FLIGHT} \subseteq Calls
    BY DEF ReadyAgents
<1>2. Cardinality(ReadyAgents(A)) \in Nat /\ Cardinality({c \in Calls : att[c].status \in IN_FLIGHT}) \in Nat
    BY <1>1, FiniteAssumption, FS_Subset, FS_CardinalityType
<1> QED BY <1>2, SettingsAssumption DEF Capacity

LEMMA PlanStep ==
    ASSUME DialerInv, NEW x \in Handlers, NEW due \in SUBSET Leads, Plan(x, due) PROVE CallStep
<1> DEFINE Back(back, A) ==
               /\ agent' = A
               /\ lead' = [l \in Leads |-> IF \E a \in back : agent[a].current = l
                              THEN [lead[l] EXCEPT !.status = "QUEUED", !.owner = NoAgent]
                              ELSE lead[l]]
               /\ proc' = [proc EXCEPT ![x].pc = "dial", ![x].cap = Capacity(A),
                                       ![x].cand = {l \in due : ~InFlight(att, l)}]
           Freed(back) == [a \in Agents |-> IF a \in back THEN [agent[a] EXCEPT !.current = NoLead]
                                            ELSE agent[a]]
<1>1. PICK back \in {{}, IF Capacity(agent) = 0 THEN Reclaimable ELSE {}} : Back(back, Freed(back))
    BY DEF Plan
<1>2. UNCHANGED <<att, leg, tickLock, dnc, client, busy, enabled>> /\ proc[x].pc = "serve"
    BY DEF Plan
<1> DEFINE r == [proc[x] EXCEPT !.pc = "dial", !.cap = Capacity(Freed(back)),
                                !.cand = {l \in due : ~InFlight(att, l)}]
<1>3. AgentsOK(Freed(back))
    BY DEF DialerInv, AgentsOK, AgentRow
<1>4. LeadsOK(lead')
    <2>1. \A l \in Leads : lead[l] \in LeadRow /\ (lead[l].status = "READY_TO_CALL" => lead[l].tries < MaxTotal)
        BY DEF DialerInv, LeadsOK
    <2> QED BY <1>1, <2>1, ZenonT(30) DEF LeadsOK, LeadRow, LeadStatus
<1>5. RowOK(r, att)
    <2> DEFINE k == Capacity(Freed(back))
               free == {l \in due : ~InFlight(att, l)}
    <2>1. proc[x] \in ProcRow /\ RowOK(proc[x], att)
        BY DEF DialerInv, HandlersOK
    <2>2. k \in 0..MaxCallsPerTick /\ free \in SUBSET Leads
        BY CapacityType
    <2>3. r = [proc[x] EXCEPT !.pc = "dial", !.cap = k, !.cand = free]
        OBVIOUS
    <2> HIDE DEF k, free, r
    <2>4. r \in ProcRow /\ r.pc = "dial" /\ r.back = proc[x].back
        BY <2>1, <2>2, <2>3 DEF ProcRow, Pcs, TickPhases
    <2> QED BY <2>1, <2>4 DEF RowOK, AtWork
<1>6. proc' = [proc EXCEPT ![x] = r] /\ agent' = Freed(back)
    BY <1>1 DEF DialerInv, HandlersOK
<1> HIDE DEF r, Freed
<1>7. Settled(att, att') /\ HandlersOK(proc', att')
    BY <1>2, <1>5, <1>6, SettledSame, RowChange
<1>8. DialerInv'
    BY <1>2, <1>3, <1>4, <1>6, <1>7, InvStep DEF DialerInv, OthersOK
<1> QED BY <1>7, <1>8 DEF CallStep

-----------------------------------------------------------------------------
(* The two steps that begin and bridge a call. *)

\* Call c is put through to agent a, who is on no hand-dialed call; whoever was in
\* the agent's room is out, and the other calls are as they were.
Moved(C, E, c, a) ==
    \A d \in Calls \ {c} :
        /\ E[d] = C[d] \/ (C[d].status = "CONNECTED" /\ E[d].status = "CLOSED"
                           /\ E[d].lead = C[d].lead)
        /\ ~(E[d].status = "CONNECTED" /\ E[d].agent = a)

PutThroughTo(c, a) ==
    /\ c \in Calls /\ a \in Agents \ busy
    /\ att'[c].status = "CONNECTED" /\ att'[c].agent = a
    /\ Moved(att, att', c, a)

Emptied(C, a) == EndLiveCalls(C, {d \in Calls : C[d].agent = a})
Filled(C, a, c, r) == [Emptied(C, a) EXCEPT ![c] = r]

\* The room of agent a, with call c put into it.
LEMMA RoomRows ==
    ASSUME NEW C, CallsOK(C), NEW c \in Calls, NEW a \in Agents, NEW r \in CallRow,
           r.status = "CONNECTED", r.agent = a, r.lead \in Leads
    PROVE  /\ CallsOK(Filled(C, a, c, r)) /\ Filled(C, a, c, r)[c] = r
           /\ Moved(C, Filled(C, a, c, r), c, a)
<1> DEFINE F == Emptied(C, a)
           E == Filled(C, a, c, r)
<1>1. CallsOK(F) /\ Faded(C, F)
    BY EndType DEF Emptied
<1>2. \A d \in Calls : ~(F[d].status = "CONNECTED" /\ F[d].agent = a)
    <2> DEFINE S == {d \in {d \in Calls : C[d].agent = a} : C[d].status = "CONNECTED"}
    <2>1. \A d \in Calls \cap S : C[d].status # "NONE"
        OBVIOUS
    <2>2. F = Closed(C, S)
        BY DEF EndLiveCalls, Emptied
    <2>3. \A d \in Calls : d \in S <=> C[d].agent = a /\ C[d].status = "CONNECTED"
        OBVIOUS
    <2> HIDE DEF F, S
    <2>4. \A d \in Calls : IF d \in S THEN F[d].status = "CLOSED" ELSE F[d] = C[d]
        BY <2>1, <2>2, ClosedType
    <2> QED BY <2>3, <2>4
<1>3. E = [F EXCEPT ![c] = r]
    BY DEF Filled
<1> HIDE DEF E, F
<1>4. CallsOK(E) /\ E[c] = r /\ \A d \in Calls \ {c} : E[d] = F[d]
    BY <1>1, <1>3 DEF CallsOK
<1>5. CallsOK(E) /\ E[c] = r /\ Moved(C, E, c, a)
    BY <1>1, <1>2, <1>4 DEF Faded, Moved
<1> QED BY <1>5 DEF E

LEMMA ConnectAgentStep ==
    ASSUME DialerInv, NEW x \in Handlers, NEW a \in Agents, ConnectAgent(x, a)
    PROVE  DialerInv' /\ PutThroughTo(proc[x].call, a) /\ att'[proc[x].call].lead = att[proc[x].call].lead
<1> DEFINE c == proc[x].call
           l == att[c].lead
           F == Emptied(att, a)
           h == F[c].human \/ ~proc[x].early
           q == [F[c] EXCEPT !.status = "CONNECTED", !.agent = a, !.human = h]
           r == [proc[x] EXCEPT !.pc = "bridge", !.agent = a]
<1>1. c \in Calls /\ att[c].status # "NONE" /\ l \in Leads
    BY HandlerCall DEF ConnectAgent, AtWork, Pcs, TickPhases
<1>2. /\ agent' = [agent EXCEPT ![a].current = l, ![a].status = "ON_CALL"]
      /\ lead' = SetLead(lead, l, "IN_PROGRESS", a)
      /\ att' = [F EXCEPT ![c].status = "CONNECTED", ![c].agent = a,
                          ![c].human = @ \/ ~proc[x].early]
      /\ proc' = [proc EXCEPT ![x] = r]
      /\ proc[x].pc = "connect" /\ UNCHANGED <<leg, tickLock, dnc, client, busy, enabled>>
    BY DEF ConnectAgent, CallsWith, Emptied, DialerInv, HandlersOK
<1>3. a \notin busy
    BY DEF ConnectAgent, Claimable, ReadyAgents
<1>4. CallsOK(F) /\ Faded(att, F)
    BY EndType DEF DialerInv, Emptied
<1>5. proc[x] \in ProcRow /\ RowOK(proc[x], att)
    BY DEF DialerInv, HandlersOK
<1>6. q \in CallRow /\ q.status = "CONNECTED" /\ q.agent = a /\ q.lead = l
    <2>1. F[c] \in CallRow
        BY <1>1, <1>4 DEF CallsOK
    <2>2. h \in BOOLEAN
        BY <2>1, <1>5 DEF CallRow, ProcRow
    <2>3. F[c].lead = l
        BY <1>1, <1>4 DEF Faded
    <2> HIDE DEF h, F, c
    <2> QED BY <2>1, <2>2, <2>3 DEF CallRow, CallStatus
<1>7. att' = [F EXCEPT ![c] = q]
    <2> HIDE DEF F
    <2>1. att' = [F EXCEPT ![c].status = "CONNECTED", ![c].agent = a, ![c].human = h]
        BY <1>1, <1>2, <1>4 DEF CallsOK
    <2> HIDE DEF h
    <2> QED BY <1>1, <1>4, <2>1 DEF CallsOK
<1>8. r \in ProcRow /\ r.pc = "bridge" /\ r.back = proc[x].back /\ r.call = c
    BY <1>5 DEF ProcRow, Pcs, TickPhases
<1> HIDE DEF q, r, h
<1>9. CallsOK(att') /\ att'[c] = q /\ Moved(att, att', c, a)
    <2> HIDE DEF c, l
    <2>1. CallsOK(att) /\ c \in Calls /\ q.lead \in Leads /\ q \in CallRow
          /\ q.status = "CONNECTED" /\ q.agent = a
        BY <1>1, <1>6 DEF DialerInv
    <2>2. att' = Filled(att, a, c, q)
        BY <1>7 DEF Filled
    <2> HIDE DEF F
    <2> QED BY <2>1, <2>2, RoomRows
<1>10. HandlersOK(proc', att')
    <2>1. \A d \in Calls : att[d].status # "NONE" => att'[d].status # "NONE"
        BY <1>6, <1>9 DEF Moved
    <2>2. HandlersOK(proc, att')
        BY <2>1, HandlersKeep DEF DialerInv
    <2>3. RowOK(r, att')
        BY <1>1, <1>5, <1>8, <2>1 DEF RowOK
    <2> QED BY <1>2, <2>2, <2>3, HandlersSet
<1>11. LeadsOK(lead')
    BY <1>2, SetLeadType DEF DialerInv, LeadStatus
<1>12. AgentsOK(agent')
    BY <1>1, <1>2, ZenonT(30) DEF DialerInv, AgentsOK, AgentRow
<1>13. DialerInv'
    BY <1>2, <1>9, <1>10, <1>11, <1>12, InvStep DEF DialerInv, OthersOK
<1> QED BY <1>1, <1>3, <1>6, <1>9, <1>13 DEF PutThroughTo

\* A call is dialed on an unused row; every other call is as it was.
LEMMA DialStep ==
    ASSUME DialerInv, NEW x \in Handlers, NEW l \in Leads, NEW c \in Calls, Dial(x, l, c)
    PROVE  /\ DialerInv'
           /\ att'[c].status = "DIALING" /\ att'[c].lead = l
           /\ \A d \in Calls \ {c} : att'[d] = att[d]
<1> DEFINE q == [status |-> "DIALING", lead |-> l, agent |-> NoAgent, human |-> FALSE]
           r == [proc[x] EXCEPT !.pc = "calling", !.call = c, !.cand = @ \ {l}]
<1>1. /\ lead' = [lead EXCEPT ![l].status = "DIALING", ![l].tries = @ + 1]
      /\ att' = [att EXCEPT ![c] = q] /\ leg' = [leg EXCEPT ![c] = {}]
      /\ proc' = [proc EXCEPT ![x] = r]
      /\ UNCHANGED <<agent, tickLock, dnc, client, busy, enabled>>
      /\ proc[x].cap > 0 /\ lead[l].status = "READY_TO_CALL"
    BY DEF Dial, DialerInv, HandlersOK
<1>2. q \in CallRow /\ q.status = "DIALING" /\ q.lead = l
    BY DEF CallRow, CallStatus
<1>3. proc[x] \in ProcRow /\ RowOK(proc[x], att)
    BY DEF DialerInv, HandlersOK
<1>4. r \in ProcRow /\ r.pc = "calling" /\ r.back = proc[x].back /\ r.call = c /\ r.cap = proc[x].cap
    BY <1>3 DEF ProcRow, Pcs, TickPhases
<1> HIDE DEF q, r
<1>5. CallsOK(att') /\ att'[c] = q /\ \A d \in Calls \ {c} : att'[d] = att[d]
    BY <1>1, <1>2 DEF DialerInv, CallsOK
<1>6. LeadsOK(lead')
    <2>0. lead[l] \in LeadRow /\ lead[l].tries \in 0..MaxTotal /\ lead[l].tries < MaxTotal
        BY <1>1 DEF DialerInv, LeadsOK, LeadRow
    <2>1. lead[l] \in LeadRow /\ lead[l].tries + 1 \in 0..MaxTotal
        BY <2>0, SettingsAssumption
    <2> DEFINE k == lead[l].tries + 1
               w == [lead[l] EXCEPT !.status = "DIALING", !.tries = k]
    <2>2. w \in LeadRow /\ w.status = "DIALING"
        BY <2>1 DEF LeadRow, LeadStatus
    <2>3. lead' = [lead EXCEPT ![l] = w]
        BY <1>1 DEF DialerInv, LeadsOK
    <2> HIDE DEF w, k
    <2> QED BY <2>2, <2>3 DEF DialerInv, LeadsOK
<1>7. HandlersOK(proc', att')
    <2>1. \A d \in Calls : att[d].status # "NONE" => att'[d].status # "NONE"
        BY <1>2, <1>5
    <2>2. HandlersOK(proc, att')
        BY <2>1, HandlersKeep DEF DialerInv
    <2>3. RowOK(r, att')
        BY <1>1, <1>2, <1>3, <1>4, <1>5 DEF RowOK
    <2> QED BY <1>1, <2>2, <2>3, HandlersSet
<1>8. leg' \in [Calls -> SUBSET LegEvents] /\ AgentsOK(agent')
    BY <1>1 DEF DialerInv, OthersOK
<1>9. DialerInv'
    BY <1>1, <1>5, <1>6, <1>7, <1>8, InvStep DEF DialerInv, OthersOK
<1> QED BY <1>2, <1>5, <1>9

-----------------------------------------------------------------------------
(* All steps together, and the type invariant. *)

LEMMA StutterStep == ASSUME DialerInv, UNCHANGED vars PROVE CallStep
<1>1. LeadsOK(lead') /\ AgentsOK(agent') /\ CallsOK(att') /\ HandlersOK(proc', att')
    BY DEF vars, DialerInv
<1>2. DialerInv'
    BY <1>1, InvStep DEF vars, DialerInv, OthersOK
<1> QED BY <1>2, SettledSame DEF CallStep, vars

LEMMA HandlerStep == ASSUME DialerInv, NEW x \in Handlers, Handler(x) PROVE CallStep
BY RequeueLaterStep, BridgedStep, BridgeFailsStep, EventStep, MachineStep DEF Handler

LEMMA TickStep ==
    ASSUME DialerInv, NEW x \in Handlers, Tick(x)
    PROVE  CallStep \/ \E l \in Leads, c \in Calls : Dial(x, l, c)
BY TickStartsStep, EventStep, HouseStep, PlanStep, NotNowStep, OptedOutSinceStep, CallPlacedStep,
   CallFailsStep, DiesStep DEF Tick

LEMMA CarrierStep == ASSUME DialerInv, Carrier PROVE CallStep
<1>1. {"answered", "ended", "human", "machine"} = LegEvents
    BY DEF LegEvents
<1> QED BY <1>1, LegChange, EndedStep DEF Carrier, CustomerPicksUp, LegEnds, DetectionDecides

\* Only people begin and end hand-dialed calls.
LEMMA BusyKept == ASSUME [Next]_vars, ~People PROVE UNCHANGED busy
<1>1. CASE UNCHANGED vars
    BY <1>1 DEF vars
<1>2. CASE Carrier
    BY <1>2 DEF Carrier, CustomerPicksUp, DetectionDecides, LegEnds, LegStep, EndedEvent, tables
<1>3. CASE LockRunsOut
    BY <1>3 DEF LockRunsOut, tables
<1>4. ASSUME NEW x \in Handlers, Handler(x) PROVE UNCHANGED busy
    BY <1>4 DEF Handler, RequeueLater, Bridged, BridgeFails, AnswerUrl, AnsweredEvent, HumanEvent,
                MachineEvent
<1>5. ASSUME NEW x \in Handlers, Tick(x) PROVE UNCHANGED busy
    BY <1>5 DEF Tick, TickStarts, GraceOver, House, Plan, NotNow, OptedOutSince, Dial, CallPlaced,
                CallFails, TickEnds, tables
<1>6. ASSUME NEW x \in Handlers, Connect(x) \/ Dies(x) PROVE UNCHANGED busy
    BY <1>6 DEF Connect, Abandon, ConnectAgent, Dies, tables
<1> QED BY <1>1, <1>2, <1>3, <1>4, <1>5, <1>6 DEF Next

\* A step is somebody's, or settles calls, or bridges one, or begins one.
LEMMA StepKinds ==
    ASSUME DialerInv, [Next]_vars
    PROVE  \/ PersonStep \/ CallStep
           \/ \E x \in Handlers, a \in Agents : ConnectAgent(x, a)
           \/ \E x \in Handlers, l \in Leads, c \in Calls : Dial(x, l, c)
<1>1. CASE UNCHANGED vars
    BY <1>1, StutterStep
<1>2. CASE People
    BY <1>2, PeopleStep
<1>3. CASE Carrier
    BY <1>3, CarrierStep
<1>4. CASE LockRunsOut
    BY <1>4, LockRunsOutStep
<1>5. CASE \E x \in Handlers : Handler(x)
    BY <1>5, HandlerStep
<1>6. CASE \E x \in Handlers : Tick(x)
    BY <1>6, TickStep
<1>7. CASE \E x \in Handlers : Connect(x)
    BY <1>7, AbandonStep DEF Connect
<1>8. CASE \E x \in Handlers : Dies(x)
    BY <1>8, DiesStep
<1> QED BY <1>1, <1>2, <1>3, <1>4, <1>5, <1>6, <1>7, <1>8 DEF Next

LEMMA DialerSteps ==
    ASSUME DialerInv, [Next]_vars
    PROVE  \/ PersonStep \/ (CallStep /\ UNCHANGED busy)
           \/ \E x \in Handlers, a \in Agents : ConnectAgent(x, a)
           \/ \E x \in Handlers, l \in Leads, c \in Calls : Dial(x, l, c)
BY StepKinds, PeopleStep, BusyKept

LEMMA DialerInit == Init => DialerInv
<1> SUFFICES ASSUME Init PROVE DialerInv
    OBVIOUS
<1>1. LeadsOK(lead)
    BY SettingsAssumption DEF Init, LeadsOK, LeadRow, LeadStatus
<1>2. AgentsOK(agent)
    BY DEF Init, AgentsOK, AgentRow
<1>3. CallsOK(att)
    BY DEF Init, CallsOK, CallRow, CallStatus
<1>4. HandlersOK(proc, att)
    <2>1. proc = [x \in Handlers |-> Idle] /\ RowOK(Idle, att)
        BY IdleOK DEF Init
    <2> QED BY <2>1 DEF HandlersOK, RowOK
<1>5. OthersOK
    BY DEF Init, OthersOK
<1> QED BY <1>1, <1>2, <1>3, <1>4, <1>5 DEF DialerInv

LEMMA DialerNext == DialerInv /\ [Next]_vars => DialerInv'
<1> SUFFICES ASSUME DialerInv, [Next]_vars PROVE DialerInv'
    OBVIOUS
<1>1. CASE PersonStep
    BY <1>1, PersonType
<1>2. CASE CallStep
    BY <1>2 DEF CallStep
<1>3. CASE \E x \in Handlers, a \in Agents : ConnectAgent(x, a)
    BY <1>3, ConnectAgentStep
<1>4. CASE \E x \in Handlers, l \in Leads, c \in Calls : Dial(x, l, c)
    BY <1>4, DialStep
<1> QED BY <1>1, <1>2, <1>3, <1>4, DialerSteps

LEMMA DialerInvariant == Spec => []DialerInv
BY DialerInit, DialerNext, PTL DEF Spec

\* Rows and processes keep their shape: no lead is dialed more often than the settings
\* allow, the capacity of a tick never goes below zero, and no handler works on a row
\* that is not there.
THEOREM DialerTypes == Spec => []TypeOK
BY DialerInvariant, InvTypes, PTL

-----------------------------------------------------------------------------
(* No two strangers in one room. *)

\* Who stays in the room was in it before.
LEMMA KeptRooms ==
    ASSUME \A c \in Calls : att'[c].status = "CONNECTED"
               => att[c].status = "CONNECTED" /\ att'[c].agent = att[c].agent,
           \A a \in busy' \ busy : ~ \E c \in Calls : att[c].agent = a /\ att[c].status = "CONNECTED",
           NoTwoCustomersInOneRoom
    PROVE  NoTwoCustomersInOneRoom'
BY DEF NoTwoCustomersInOneRoom

LEMMA SettledRooms ==
    ASSUME Settled(att, att'), NoTwoCustomersInOneRoom,
           \A a \in busy' \ busy : ~ \E c \in Calls : att[c].agent = a /\ att[c].status = "CONNECTED"
    PROVE  NoTwoCustomersInOneRoom'
<1>1. \A c \in Calls : att'[c].status = "CONNECTED" => att[c].status = "CONNECTED" /\ att'[c].agent = att[c].agent
    BY DEF Settled
<1> QED BY <1>1, KeptRooms

\* Whoever is put through finds the room empty.
LEMMA PutThroughRooms ==
    ASSUME NEW c, NEW a, PutThroughTo(c, a), busy' = busy, NoTwoCustomersInOneRoom
    PROVE  NoTwoCustomersInOneRoom'
<1>1. \A d \in Calls \ {c} : att'[d].status = "CONNECTED" => att'[d] = att[d] /\ att'[d].agent # a
    BY DEF PutThroughTo, Moved
<1>2. att'[c].agent = a /\ a \notin busy' /\ c \in Calls
    BY DEF PutThroughTo
<1> QED BY <1>1, <1>2 DEF NoTwoCustomersInOneRoom

LEMMA RoomsNext ==
    ASSUME DialerInv, NoTwoCustomersInOneRoom, [Next]_vars PROVE NoTwoCustomersInOneRoom'
<1>1. CASE PersonStep
    <2>1. Settled(att, att')
        BY <1>1, FadedSettles DEF PersonStep
    <2> QED BY <1>1, <2>1, SettledRooms DEF PersonStep
<1>2. CASE CallStep /\ UNCHANGED busy
    BY <1>2, SettledRooms DEF CallStep
<1>3. CASE \E x \in Handlers, a \in Agents : ConnectAgent(x, a)
    <2>1. PICK x \in Handlers, a \in Agents : ConnectAgent(x, a)
        BY <1>3
    <2>2. PutThroughTo(proc[x].call, a) /\ busy' = busy
        BY <2>1, ConnectAgentStep DEF ConnectAgent
    <2> QED BY <2>2, PutThroughRooms
<1>4. CASE \E x \in Handlers, l \in Leads, c \in Calls : Dial(x, l, c)
    <2>1. PICK x \in Handlers, l \in Leads, c \in Calls : Dial(x, l, c)
        BY <1>4
    <2>2. att'[c].status = "DIALING" /\ \A d \in Calls \ {c} : att'[d] = att[d]
        BY <2>1, DialStep
    <2>3. busy' = busy
        BY <2>1 DEF Dial
    <2> QED BY <2>2, <2>3 DEF NoTwoCustomersInOneRoom
<1> QED BY <1>1, <1>2, <1>3, <1>4, DialerSteps

\* Whatever results, reassignments, breaks, hand-dialed calls, failed bridges, crashes
\* and expired locks come in between, an agent has one customer in the room at most,
\* and none while on a hand-dialed call.
THEOREM DialerRooms == Spec => []NoTwoCustomersInOneRoom
<1>1. Init => NoTwoCustomersInOneRoom
    BY DEF Init, NoTwoCustomersInOneRoom
<1>2. DialerInv /\ NoTwoCustomersInOneRoom /\ [Next]_vars => NoTwoCustomersInOneRoom'
    BY RoomsNext
<1> QED BY <1>1, <1>2, DialerInvariant, PTL DEF Spec

-----------------------------------------------------------------------------
(* Never two calls to one customer, as long as a tick ends before its lock does. *)

Ticks(r) == r.pc \in TickPhases \/ r.back \in TickPhases

\* Outside of dialing, no handler has customers to dial.
NoneToDial == \A x \in Handlers : proc[x].cand # {} => proc[x].pc \in {"dial", "calling"}

\* A tick holds the lock, only it has customers to dial, and none of them is in a call.
TickInv ==
    /\ \A x \in Handlers : Ticks(proc[x]) => tickLock = x
    /\ NoneToDial
    /\ \A x \in Handlers : \A l \in proc[x].cand : ~InFlight(att, l)
    /\ OneCallPerCustomer

\* A handler does not begin to tick and finds nobody new to dial.
RowKept(q, r) ==
    \/ r = q
    \/ /\ Ticks(r) => Ticks(q)
       /\ r.cand \subseteq q.cand
       /\ r.cand # {} => r.pc \in {"dial", "calling"}

RowsKept == \A x \in Handlers : RowKept(proc[x], proc'[x])

\* No call begins.
FlightsKept ==
    \A c \in Calls : att'[c].status \in IN_FLIGHT
        => att[c].status \in IN_FLIGHT /\ att'[c].lead = att[c].lead

LEMMA KeptFlights ==
    ASSUME FlightsKept, NEW l PROVE InFlight(att', l) => InFlight(att, l)
BY DEF FlightsKept, InFlight

LEMMA OneCallKept ==
    ASSUME FlightsKept, OneCallPerCustomer PROVE OneCallPerCustomer'
<1> SUFFICES ASSUME NEW c \in Calls, NEW d \in Calls,
                    {att'[c].status, att'[d].status} \subseteq IN_FLIGHT, att'[c].lead = att'[d].lead
             PROVE  c = d
    BY DEF OneCallPerCustomer
<1>1. {att[c].status, att[d].status} \subseteq IN_FLIGHT /\ att[c].lead = att[d].lead
    BY DEF FlightsKept
<1>2. InFlight(att, att[c].lead)
    BY <1>1 DEF InFlight
<1> QED BY <1>1, <1>2 DEF OneCallPerCustomer

LEMMA TickKept ==
    ASSUME TickInv, RowsKept, FlightsKept, UNCHANGED tickLock PROVE TickInv'
<1>1. ASSUME NEW x \in Handlers
      PROVE  /\ Ticks(proc'[x]) => tickLock' = x
             /\ proc'[x].cand # {} => proc'[x].pc \in {"dial", "calling"}
             /\ \A l \in proc'[x].cand : ~InFlight(att', l)
    BY KeptFlights DEF TickInv, NoneToDial, RowsKept, RowKept
<1>2. OneCallPerCustomer'
    BY OneCallKept DEF TickInv
<1> QED BY <1>1, <1>2 DEF TickInv, NoneToDial, Ticks

LEMMA SettledFlights == ASSUME Settled(att, att') PROVE FlightsKept
BY DEF Settled, FlightsKept, IN_FLIGHT

LEMMA SameRows == ASSUME UNCHANGED proc PROVE RowsKept
BY DEF RowsKept, RowKept

LEMMA OwnRow ==
    ASSUME NEW x \in Handlers, NEW r, proc' = [proc EXCEPT ![x] = r], DialerInv, RowKept(proc[x], r)
    PROVE  RowsKept
BY DEF RowsKept, RowKept, DialerInv, HandlersOK

\* A handler that serves one call and is done with it dials nobody meanwhile.
LEMMA ReturnRow ==
    ASSUME DialerInv, NoneToDial, NEW x \in Handlers, Return(x), proc[x].pc \notin {"dial", "calling"}
    PROVE  RowsKept
<1> DEFINE r == IF proc[x].back = "idle" THEN Idle
                ELSE [proc[x] EXCEPT !.pc = proc[x].back, !.back = "idle", !.call = NoCall,
                                     !.agent = NoAgent, !.early = FALSE]
<1>1. proc' = [proc EXCEPT ![x] = r]
    BY DEF Return
<1>2. proc[x].cand = {} /\ proc[x] \in ProcRow
    BY DEF NoneToDial, DialerInv, HandlersOK
<1>3. r.cand = {} /\ (Ticks(r) => Ticks(proc[x]))
    <2>1. CASE proc[x].back = "idle"
        BY <2>1 DEF Idle, Ticks, TickPhases
    <2>2. CASE proc[x].back # "idle"
        BY <1>2, <2>2 DEF Ticks, TickPhases, ProcRow
    <2> QED BY <2>1, <2>2
<1> HIDE DEF r
<1>4. RowKept(proc[x], r)
    BY <1>3 DEF RowKept
<1> QED BY <1>1, <1>4, OwnRow

LEMMA GotoRow ==
    ASSUME DialerInv, NoneToDial, NEW x \in Handlers, NEW pc, Goto(x, pc),
           proc[x].pc \notin {"dial", "calling"}, pc \in TickPhases => proc[x].pc \in TickPhases
    PROVE  RowsKept
<1> DEFINE r == [proc[x] EXCEPT !.pc = pc]
<1>1. proc' = [proc EXCEPT ![x] = r]
    BY DEF Goto, DialerInv, HandlersOK
<1>2. proc[x].cand = {} /\ proc[x] \in ProcRow
    BY DEF NoneToDial, DialerInv, HandlersOK
<1>3. r.cand = {} /\ r.pc = pc /\ r.back = proc[x].back
    BY <1>2 DEF ProcRow
<1> HIDE DEF r
<1>4. RowKept(proc[x], r)
    BY <1>3 DEF RowKept, Ticks
<1> QED BY <1>1, <1>4, OwnRow

\* An event is handled apart from any tick, or by the tick that finds its grace over.
LEMMA ReadRow ==
    ASSUME DialerInv, NEW x \in Handlers, NEW c, NEW early, NEW back, NEW C,
           ReadCall(x, c, early, back, C),
           back = "idle" \/ (back = "grace" /\ proc[x].pc = "grace")
    PROVE  RowsKept
<1> DEFINE r == [Idle EXCEPT !.pc = "connect", !.call = c, !.early = early, !.back = back]
<1>1. CASE proc' = [proc EXCEPT ![x] = r]
    <2>1. r.cand = {} /\ r.pc = "connect" /\ r.back = back
        BY DEF Idle
    <2> HIDE DEF r
    <2>2. RowKept(proc[x], r)
        BY <2>1 DEF RowKept, Ticks, TickPhases
    <2> QED BY <1>1, <2>2, OwnRow
<1> QED BY <1>1, SameRows DEF ReadCall

\* The handlers' own steps, apart from the tick's.
LEMMA HandlerRows ==
    ASSUME DialerInv, NoneToDial, NEW x \in Handlers, Handler(x) \/ Connect(x) \/ \E c \in Calls : GraceOver(x, c)
    PROVE  RowsKept
<1>1. CASE RequeueLater(x) \/ Bridged(x) \/ BridgeFails(x)
    <2>1. Return(x) /\ proc[x].pc \notin {"dial", "calling"}
        BY <1>1 DEF RequeueLater, Bridged, BridgeFails
    <2> QED BY <2>1, ReturnRow
<1>2. ASSUME NEW c \in Calls, AnswerUrl(x, c) \/ AnsweredEvent(x, c) \/ HumanEvent(x, c) \/ GraceOver(x, c)
      PROVE  RowsKept
    <2> DEFINE answered == [att EXCEPT ![c].status = IF @ = "DIALING" THEN "ANSWERED" ELSE @]
    <2>1. \/ UNCHANGED proc
          \/ ReadCall(x, c, MachineDetection, "idle", att)
          \/ ReadCall(x, c, TRUE, "idle", answered)
          \/ ReadCall(x, c, FALSE, "idle", att)
          \/ ReadCall(x, c, FALSE, "grace", att) /\ proc[x].pc = "grace"
        BY <1>2 DEF AnswerUrl, AnsweredEvent, HumanEvent, GraceOver
    <2> HIDE DEF answered
    <2> QED BY <2>1, SameRows, ReadRow
<1>3. ASSUME NEW c \in Calls, MachineEvent(x, c) PROVE RowsKept
    <2> DEFINE r == [Idle EXCEPT !.pc = "requeue", !.call = c]
    <2>1. proc' = [proc EXCEPT ![x] = r]
        BY <1>3 DEF MachineEvent
    <2>2. r.cand = {} /\ r.pc = "requeue" /\ r.back = "idle"
        BY DEF Idle
    <2> HIDE DEF r
    <2>3. RowKept(proc[x], r)
        BY <2>2 DEF RowKept, Ticks, TickPhases
    <2> QED BY <2>1, <2>3, OwnRow
<1>4. CASE Abandon(x)
    BY <1>4, GotoRow DEF Abandon, TickPhases
<1>5. ASSUME NEW a \in Agents, ConnectAgent(x, a) PROVE RowsKept
    <2> DEFINE r == [proc[x] EXCEPT !.pc = "bridge", !.agent = a]
    <2>1. proc' = [proc EXCEPT ![x] = r]
        BY <1>5 DEF ConnectAgent, DialerInv, HandlersOK
    <2>2. proc[x].cand = {} /\ proc[x] \in ProcRow
        BY <1>5 DEF ConnectAgent, NoneToDial, DialerInv, HandlersOK
    <2>3. r.cand = {} /\ r.pc = "bridge" /\ r.back = proc[x].back
        BY <2>2 DEF ProcRow
    <2> HIDE DEF r
    <2>4. RowKept(proc[x], r)
        BY <2>3 DEF RowKept, Ticks, TickPhases
    <2> QED BY <2>1, <2>4, OwnRow
<1> QED BY <1>1, <1>2, <1>3, <1>4, <1>5 DEF Handler, Connect

LEMMA IdleRow ==
    ASSUME DialerInv, NEW x \in Handlers, proc' = [proc EXCEPT ![x] = Idle] PROVE RowsKept
<1>1. RowKept(proc[x], Idle)
    BY DEF RowKept, Idle, Ticks, TickPhases
<1> QED BY <1>1, OwnRow

\* The tick's steps, apart from those that take the lock, plan and dial.
LEMMA TickRows ==
    ASSUME DialerInv, NoneToDial, NEW x \in Handlers,
           \/ \E lost, old \in SUBSET Calls : House(x, lost, old)
           \/ \E l \in Leads : NotNow(x, l) \/ OptedOutSince(x, l)
           \/ CallPlaced(x) \/ CallFails(x) \/ Dies(x) \/ TickEnds(x)
    PROVE  RowsKept
<1>0. proc[x] \in ProcRow /\ proc \in [Handlers -> ProcRow]
    BY DEF DialerInv, HandlersOK
<1>1. CASE \E lost, old \in SUBSET Calls : House(x, lost, old)
    <2>1. Goto(x, "serve") /\ proc[x].pc = "grace"
        BY <1>1 DEF House
    <2> QED BY <2>1, GotoRow DEF TickPhases
<1>2. ASSUME NEW l \in Leads, NotNow(x, l) \/ OptedOutSince(x, l) PROVE RowsKept
    <2> DEFINE r == [proc[x] EXCEPT !.cand = @ \ {l}]
    <2>1. proc' = [proc EXCEPT ![x] = r] /\ proc[x].pc = "dial"
        BY <1>0, <1>2 DEF NotNow, OptedOutSince
    <2>2. r.cand \subseteq proc[x].cand /\ r.pc = "dial"
        BY <1>0, <2>1 DEF ProcRow
    <2> HIDE DEF r
    <2>3. RowKept(proc[x], r)
        BY <2>1, <2>2 DEF RowKept, Ticks, TickPhases
    <2> QED BY <2>1, <2>3, OwnRow
<1>3. CASE CallPlaced(x) \/ CallFails(x)
    <2>1. PICK r : /\ proc' = [proc EXCEPT ![x] = r] /\ proc[x].pc = "calling"
                   /\ r.cand = proc[x].cand /\ r.pc = "dial"
        <3>1. CASE CallPlaced(x)
            <4> DEFINE r == [proc[x] EXCEPT !.pc = "dial", !.call = NoCall, !.cap = @ - 1]
            <4>1. proc' = [proc EXCEPT ![x] = r] /\ proc[x].pc = "calling"
                BY <1>0, <3>1 DEF CallPlaced
            <4>2. r.cand = proc[x].cand /\ r.pc = "dial"
                BY <1>0 DEF ProcRow
            <4> QED BY <4>1, <4>2
        <3>2. CASE CallFails(x)
            <4> DEFINE r == [proc[x] EXCEPT !.pc = "dial", !.call = NoCall]
            <4>1. proc' = [proc EXCEPT ![x] = r] /\ proc[x].pc = "calling"
                BY <1>0, <3>2 DEF CallFails
            <4>2. r.cand = proc[x].cand /\ r.pc = "dial"
                BY <1>0 DEF ProcRow
            <4> QED BY <4>1, <4>2
        <3> QED BY <1>3, <3>1, <3>2
    <2>2. RowKept(proc[x], r)
        BY <2>1 DEF RowKept, Ticks, TickPhases
    <2> QED BY <2>1, <2>2, OwnRow
<1>4. CASE Dies(x) \/ TickEnds(x)
    BY <1>4, IdleRow DEF Dies, TickEnds
<1> QED BY <1>1, <1>2, <1>3, <1>4

\* A tick takes the lock when nobody ticks.
LEMMA TickStartsInv ==
    ASSUME DialerInv, TickInv, NEW x \in Handlers, NEW S \in SUBSET Agents, TickStarts(x, S)
    PROVE  TickInv'
<1> DEFINE r == [Idle EXCEPT !.pc = "grace"]
<1>1. /\ tickLock = NoHandler /\ tickLock' = x /\ UNCHANGED att
      /\ proc' = [proc EXCEPT ![x] = r]
    BY DEF TickStarts
<1>2. r.cand = {} /\ r.pc = "grace"
    BY DEF Idle
<1> HIDE DEF r
<1>3. proc'[x] = r /\ \A y \in Handlers \ {x} : proc'[y] = proc[y] /\ ~Ticks(proc[y])
    BY <1>1, NullsAssumption DEF DialerInv, HandlersOK, TickInv
<1>4. OneCallPerCustomer'
    BY <1>1 DEF TickInv, OneCallPerCustomer, InFlight
<1>5. \A l : InFlight(att', l) <=> InFlight(att, l)
    BY <1>1
<1>6. ASSUME NEW y \in Handlers
      PROVE  /\ Ticks(proc'[y]) => tickLock' = y
             /\ proc'[y].cand # {} => proc'[y].pc \in {"dial", "calling"}
             /\ \A l \in proc'[y].cand : ~InFlight(att', l)
    BY <1>1, <1>2, <1>3, <1>5 DEF TickInv, NoneToDial
<1> QED BY <1>4, <1>6 DEF TickInv, NoneToDial, Ticks

\* A lock that runs out is nobody's; one that a tick deletes is its own.
LEMMA UnlockInv ==
    ASSUME DialerInv, TickInv, ~LockExpires, LockRunsOut \/ \E x \in Handlers : TickEnds(x)
    PROVE  TickInv'
<1>0. NoneToDial
    BY DEF TickInv
<1>1. RowsKept /\ UNCHANGED att
    BY <1>0, TickRows, SameRows DEF LockRunsOut, TickEnds, tables
<1>2. FlightsKept
    BY <1>1 DEF FlightsKept
<1>3. \A x \in Handlers : ~Ticks(proc'[x])
    <2>1. CASE LockRunsOut
        BY <2>1 DEF LockRunsOut, Ticking, Ticks, TickInv
    <2>2. ASSUME NEW x \in Handlers, TickEnds(x) PROVE \A y \in Handlers : ~Ticks(proc'[y])
        <3>1. Ticks(proc[x]) /\ proc' = [proc EXCEPT ![x] = Idle]
            BY <2>2 DEF TickEnds, Ticks, TickPhases
        <3>2. \A y \in Handlers \ {x} : ~Ticks(proc[y])
            BY <3>1 DEF TickInv, NoneToDial
        <3>3. ~Ticks(Idle)
            BY DEF Ticks, Idle, TickPhases
        <3> QED BY <3>1, <3>2, <3>3 DEF DialerInv, HandlersOK
    <2> QED BY <2>1, <2>2
<1>4. ASSUME NEW x \in Handlers
      PROVE  /\ proc'[x].cand # {} => proc'[x].pc \in {"dial", "calling"}
             /\ \A l \in proc'[x].cand : ~InFlight(att', l)
    BY <1>1, <1>2, KeptFlights DEF TickInv, NoneToDial, RowsKept, RowKept
<1>5. OneCallPerCustomer'
    BY <1>2, OneCallKept DEF TickInv
<1> QED BY <1>3, <1>4, <1>5 DEF TickInv, NoneToDial, Ticks

\* The customers a tick plans to dial are in no call.
LEMMA PlanInv ==
    ASSUME DialerInv, TickInv, NEW x \in Handlers, NEW due \in SUBSET Leads, Plan(x, due)
    PROVE  TickInv'
<1>1. /\ UNCHANGED <<att, tickLock>> /\ proc[x].pc = "serve"
      /\ \E k : proc' = [proc EXCEPT ![x].pc = "dial", ![x].cap = k,
                                     ![x].cand = {l \in due : ~InFlight(att, l)}]
    BY DEF Plan
<1>2. /\ proc'[x].pc = "dial" /\ proc'[x].back = proc[x].back
      /\ proc'[x].cand = {l \in due : ~InFlight(att, l)}
      /\ \A y \in Handlers \ {x} : proc'[y] = proc[y]
    <2> DEFINE free == {l \in due : ~InFlight(att, l)}
    <2>1. PICK k : proc' = [proc EXCEPT ![x].pc = "dial", ![x].cap = k, ![x].cand = free]
        BY <1>1
    <2> HIDE DEF free
    <2>2. proc \in [Handlers -> ProcRow]
        BY DEF DialerInv, HandlersOK
    <2>3. /\ proc'[x].pc = "dial" /\ proc'[x].back = proc[x].back /\ proc'[x].cand = free
          /\ \A y \in Handlers \ {x} : proc'[y] = proc[y]
        BY <2>1, <2>2 DEF ProcRow
    <2> QED BY <2>3 DEF free
<1>3. OneCallPerCustomer'
    BY <1>1 DEF TickInv, OneCallPerCustomer, InFlight
<1>4. \A l : InFlight(att', l) <=> InFlight(att, l)
    BY <1>1
<1>5. Ticks(proc[x])
    BY <1>1 DEF Ticks, TickPhases
<1>6. ASSUME NEW y \in Handlers
      PROVE  /\ Ticks(proc'[y]) => tickLock' = y
             /\ proc'[y].cand # {} => proc'[y].pc \in {"dial", "calling"}
             /\ \A l \in proc'[y].cand : ~InFlight(att', l)
    BY <1>1, <1>2, <1>4, <1>5 DEF TickInv, NoneToDial
<1> QED BY <1>3, <1>6 DEF TickInv, NoneToDial, Ticks

\* Only the tick that holds the lock dials, and it is done with the customer it dials.
LEMMA DialInv ==
    ASSUME DialerInv, TickInv, NEW x \in Handlers, NEW l \in Leads, NEW c \in Calls, Dial(x, l, c)
    PROVE  TickInv'
<1>1. att'[c].status = "DIALING" /\ att'[c].lead = l /\ \A d \in Calls \ {c} : att'[d] = att[d]
    BY DialStep
<1>2. /\ proc[x].pc = "dial" /\ l \in proc[x].cand /\ UNCHANGED tickLock
      /\ proc' = [proc EXCEPT ![x].pc = "calling", ![x].call = c, ![x].cand = @ \ {l}]
    BY DEF Dial
<1>3. /\ proc'[x].pc = "calling" /\ proc'[x].back = proc[x].back /\ proc'[x].cand = proc[x].cand \ {l}
      /\ \A y \in Handlers \ {x} : proc'[y] = proc[y]
    BY <1>2 DEF DialerInv, HandlersOK, ProcRow
<1>4. Ticks(proc[x]) /\ ~InFlight(att, l)
    BY <1>2 DEF Ticks, TickPhases, TickInv, NoneToDial
<1>5. \A y \in Handlers \ {x} : proc[y].cand = {}
    BY <1>4 DEF TickInv, NoneToDial, Ticks, TickPhases
<1>6. \A k : k # l /\ InFlight(att', k) => InFlight(att, k)
    BY <1>1 DEF InFlight
<1>7. ASSUME NEW y \in Handlers
      PROVE  /\ Ticks(proc'[y]) => tickLock' = y
             /\ proc'[y].cand # {} => proc'[y].pc \in {"dial", "calling"}
             /\ \A k \in proc'[y].cand : ~InFlight(att', k)
    BY <1>2, <1>3, <1>4, <1>5, <1>6 DEF TickInv, NoneToDial
<1>8. OneCallPerCustomer'
    <2>1. \A d \in Calls \ {c} : att[d].status \in IN_FLIGHT => att[d].lead # l
        BY <1>4 DEF InFlight
    <2> SUFFICES ASSUME NEW d \in Calls, NEW e \in Calls,
                        {att'[d].status, att'[e].status} \subseteq IN_FLIGHT, att'[d].lead = att'[e].lead
                 PROVE  d = e
        BY DEF OneCallPerCustomer
    <2>2. CASE d = c \/ e = c
        BY <1>1, <2>1, <2>2
    <2>3. CASE d # c /\ e # c
        BY <1>1, <2>3 DEF TickInv, OneCallPerCustomer, InFlight
    <2> QED BY <2>2, <2>3
<1> QED BY <1>7, <1>8 DEF TickInv, NoneToDial, Ticks

LEMMA PutThroughFlights ==
    ASSUME NEW c, NEW a, PutThroughTo(c, a) PROVE FlightsKept
BY DEF PutThroughTo, Moved, FlightsKept, IN_FLIGHT

\* Every step keeps it that the lock is one tick's at a time.
LEMMA TickNext ==
    ASSUME DialerInv, TickInv, ~LockExpires, [Next]_vars PROVE TickInv'
<1>0. NoneToDial
    BY DEF TickInv
<1>1. ASSUME Settled(att, att'), RowsKept, UNCHANGED tickLock PROVE TickInv'
    BY <1>1, SettledFlights, TickKept
<1>2. CASE People
    <2>1. Settled(att, att') /\ UNCHANGED <<proc, tickLock>>
        BY <1>2, PeopleStep, FadedSettles DEF PersonStep
    <2> QED BY <1>1, <2>1, SameRows
<1>3. CASE Carrier \/ UNCHANGED vars
    <2>1. Settled(att, att')
        BY <1>3, CarrierStep, StutterStep DEF CallStep
    <2>2. UNCHANGED <<proc, tickLock>>
        BY <1>3 DEF Carrier, CustomerPicksUp, DetectionDecides, LegEnds, LegStep, EndedEvent, vars
    <2> QED BY <1>1, <2>1, <2>2, SameRows
<1>4. CASE LockRunsOut \/ \E x \in Handlers : TickEnds(x)
    BY <1>4, UnlockInv
<1>5. ASSUME NEW x \in Handlers, Handler(x) \/ Connect(x) \/ \E c \in Calls : GraceOver(x, c)
      PROVE  TickInv'
    <2>1. RowsKept
        BY <1>0, <1>5, HandlerRows
    <2>2. UNCHANGED tickLock
        BY <1>5 DEF Handler, Connect, RequeueLater, Bridged, BridgeFails, AnswerUrl, AnsweredEvent,
                    HumanEvent, MachineEvent, GraceOver, Abandon, ConnectAgent
    <2>3. CASE \E a \in Agents : ConnectAgent(x, a)
        BY <2>1, <2>2, <2>3, ConnectAgentStep, PutThroughFlights, TickKept
    <2>4. CASE Handler(x) \/ Abandon(x) \/ \E c \in Calls : GraceOver(x, c)
        <3>1. Settled(att, att')
            BY <2>4, HandlerStep, AbandonStep, EventStep DEF CallStep
        <3> QED BY <1>1, <2>1, <2>2, <3>1
    <2> QED BY <1>5, <2>3, <2>4 DEF Connect
<1>6. ASSUME NEW x \in Handlers,
             \/ \E lost, old \in SUBSET Calls : House(x, lost, old)
             \/ \E l \in Leads : NotNow(x, l) \/ OptedOutSince(x, l)
             \/ CallPlaced(x) \/ CallFails(x) \/ Dies(x)
      PROVE  TickInv'
    <2>1. RowsKept
        BY <1>0, <1>6, TickRows
    <2>2. UNCHANGED tickLock
        BY <1>6 DEF House, NotNow, OptedOutSince, CallPlaced, CallFails, Dies
    <2>3. Settled(att, att')
        BY <1>6, HouseStep, NotNowStep, OptedOutSinceStep, CallPlacedStep, CallFailsStep, DiesStep
        DEF CallStep
    <2> QED BY <1>1, <2>1, <2>2, <2>3
<1>7. ASSUME NEW x \in Handlers,
             \/ \E S \in SUBSET Agents : TickStarts(x, S)
             \/ \E due \in SUBSET Leads : Plan(x, due)
             \/ \E l \in Leads, c \in Calls : Dial(x, l, c)
      PROVE  TickInv'
    BY <1>7, TickStartsInv, PlanInv, DialInv
<1> QED BY <1>2, <1>3, <1>4, <1>5, <1>6, <1>7 DEF Next, Tick

\* Whatever happens, only a tick that dials has customers to dial.
LEMMA NoneKept == ASSUME NoneToDial, RowsKept PROVE NoneToDial'
BY DEF NoneToDial, RowsKept, RowKept

LEMMA NoneNext == ASSUME DialerInv, NoneToDial, [Next]_vars PROVE NoneToDial'
<1>0. proc \in [Handlers -> ProcRow]
    BY DEF DialerInv, HandlersOK
<1>1. CASE People \/ Carrier \/ LockRunsOut \/ UNCHANGED vars
    <2>1. People => UNCHANGED proc
        BY PeopleStep DEF PersonStep
    <2>2. UNCHANGED proc
        BY <1>1, <2>1 DEF Carrier, CustomerPicksUp, DetectionDecides, LegEnds, LegStep, EndedEvent,
                          LockRunsOut, vars
    <2> QED BY <2>2, SameRows, NoneKept
<1>2. ASSUME NEW x \in Handlers,
             \/ Handler(x) \/ Connect(x) \/ \E c \in Calls : GraceOver(x, c)
             \/ \E lost, old \in SUBSET Calls : House(x, lost, old)
             \/ \E l \in Leads : NotNow(x, l) \/ OptedOutSince(x, l)
             \/ CallPlaced(x) \/ CallFails(x) \/ Dies(x) \/ TickEnds(x)
      PROVE  NoneToDial'
    BY <1>2, HandlerRows, TickRows, NoneKept
<1>3. ASSUME NEW x \in Handlers, NEW S \in SUBSET Agents, TickStarts(x, S) PROVE NoneToDial'
    BY <1>0, <1>3 DEF TickStarts, NoneToDial, Idle
<1>4. ASSUME NEW x \in Handlers, NEW due \in SUBSET Leads, Plan(x, due) PROVE NoneToDial'
    <2>1. PICK k, free : proc' = [proc EXCEPT ![x].pc = "dial", ![x].cap = k, ![x].cand = free]
        BY <1>4 DEF Plan
    <2> QED BY <1>0, <2>1 DEF NoneToDial, ProcRow
<1>5. ASSUME NEW x \in Handlers, NEW l \in Leads, NEW c \in Calls, Dial(x, l, c) PROVE NoneToDial'
    BY <1>0, <1>5 DEF Dial, NoneToDial, ProcRow
<1> QED BY <1>1, <1>2, <1>3, <1>4, <1>5 DEF Next, Tick

LEMMA TickInit == ASSUME Init PROVE TickInv
<1>1. \A x \in Handlers : proc[x] = Idle
    BY DEF Init
<1>2. Idle.cand = {} /\ ~Ticks(Idle)
    BY DEF Idle, Ticks, TickPhases
<1>3. OneCallPerCustomer
    BY DEF Init, OneCallPerCustomer, IN_FLIGHT
<1> QED BY <1>1, <1>2, <1>3 DEF TickInv, NoneToDial

\* As long as no tick outlives its lock, no customer is ever called twice at once:
\* not by two ticks that planned the same lead, nor by a tick that reads a lead put
\* back on the list while its first call still rings.
THEOREM DialerCalls ==
    ASSUME ~LockExpires PROVE Spec => []OneCallPerCustomer
<1>1. Init => TickInv
    BY TickInit
<1>2. DialerInv /\ TickInv /\ [Next]_vars => TickInv'
    BY TickNext
<1>3. TickInv => OneCallPerCustomer
    BY DEF TickInv
<1> QED BY <1>1, <1>2, <1>3, DialerInvariant, PTL DEF Spec

-----------------------------------------------------------------------------
(* A claimed customer is never forgotten, as long as no process dies. *)

AtRequeue(l) == \E x \in Handlers : proc[x].pc = "requeue" /\ att[proc[x].call].lead = l

Tracked(l) == InFlight(att, l) \/ AtRequeue(l)

\* A step that claims nobody, and keeps track of whoever it leaves claimed.
LEMMA TrackKept ==
    ASSUME ClaimedIsTracked,
           \A l \in Leads : lead'[l].status = "DIALING" =>
               \/ Tracked(l)'
               \/ lead[l].status = "DIALING" /\ (InFlight(att, l) => Tracked(l)') /\ (AtRequeue(l) => Tracked(l)')
    PROVE  ClaimedIsTracked'
BY DEF ClaimedIsTracked, Tracked, AtRequeue

\* Who is claimed after an assignment was claimed before it.
LEMMA OffersClaim ==
    ASSUME NEW L, Offers(L), NEW l \in Leads, lead'[l].status = "DIALING"
    PROVE  L[l].status = "DIALING"
BY DEF Offers

\* A customer who was not reached is not claimed after the requeue, and nobody else newly.
LEMMA RequeueClaims ==
    ASSUME NEW C, NEW L, NEW A, LeadsOK(L), AgentsOK(A), NEW k \in Leads, Requeue(k, L, A, C),
           NEW l \in Leads, lead'[l].status = "DIALING"
    PROVE  l # k /\ L[l].status = "DIALING"
<1>1. Offers(Missed(L, k))
    BY RequeueOutcome
<1>2. Missed(L, k)[l].status = "DIALING"
    BY <1>1, OffersClaim
<1> QED BY <1>2, MissedLeaves

\* The calls of handlers at work keep their customers.
LEMMA LeadsStay ==
    ASSUME DialerInv, \A c \in Calls : att'[c].lead = att[c].lead
    PROVE  \A y \in Handlers : proc[y].pc = "requeue" => att'[proc[y].call].lead = att[proc[y].call].lead
<1>1. \A y \in Handlers : proc[y].pc = "requeue" => proc[y].call \in Calls
    BY HandlerCall DEF AtWork, Pcs, TickPhases
<1> QED BY <1>1

\* A step that leaves the flights and the leads alone, of a handler that puts nobody back.
LEMMA TrackPlain ==
    ASSUME DialerInv, ClaimedIsTracked, NEW x,
           \A y \in Handlers \ {x} : proc'[y] = proc[y],
           x \in Handlers => proc[x].pc # "requeue" \/ proc'[x] = proc[x],
           \A c \in Calls : att'[c].lead = att[c].lead,
           \A c \in Calls : att[c].status \in IN_FLIGHT => att'[c].status \in IN_FLIGHT,
           NoneClaimed(lead')
    PROVE  ClaimedIsTracked'
<1>1. \A l : InFlight(att, l) => InFlight(att', l)
    BY DEF InFlight
<1>2. \A l : AtRequeue(l) => AtRequeue(l)'
    BY LeadsStay DEF AtRequeue
<1> QED BY <1>1, <1>2, TrackKept DEF NoneClaimed, Tracked

\* The same, of a step that ends call c, whose customer is not claimed afterwards.
LEMMA TrackEnds ==
    ASSUME DialerInv, ClaimedIsTracked, NEW x, NEW c \in Calls, att[c].lead \in Leads,
           \A y \in Handlers \ {x} : proc'[y] = proc[y],
           x \in Handlers => proc[x].pc # "requeue" \/ proc'[x] = proc[x] \/ att[proc[x].call].lead = att[c].lead,
           \A d \in Calls : att'[d].lead = att[d].lead,
           \A d \in Calls \ {c} : att[d].status \in IN_FLIGHT => att'[d].status \in IN_FLIGHT,
           \A l \in Leads : l = att[c].lead => lead'[l].status # "DIALING" \/ Tracked(l)',
           \A l \in Leads \ {att[c].lead} : lead'[l].status = "DIALING" => lead[l].status = "DIALING"
    PROVE  ClaimedIsTracked'
<1>1. ASSUME NEW l \in Leads, l # att[c].lead PROVE InFlight(att, l) => InFlight(att', l)
    BY <1>1 DEF InFlight
<1>2. ASSUME NEW l \in Leads, l # att[c].lead PROVE AtRequeue(l) => AtRequeue(l)'
    BY <1>2, LeadsStay DEF AtRequeue
<1> QED BY <1>1, <1>2, TrackKept DEF Tracked

\* An event whose call is read again: it goes on, or its customer is claimed no more.
LEMMA ReadTracked ==
    ASSUME DialerInv, ClaimedIsTracked, NEW x \in Handlers, proc[x].pc # "requeue", NEW c \in Calls,
           att[c].status # "NONE", NEW C, CallsOK(C), Settled(att, C),
           \A d \in Calls : att[d].status \in IN_FLIGHT => C[d].status \in IN_FLIGHT,
           NEW early, NEW back, ReadCall(x, c, early, back, C), UNCHANGED lead
    PROVE  ClaimedIsTracked'
<1>1. \A d \in Calls : C[d].lead = att[d].lead
    BY DEF Settled
<1>2. CASE att' = C /\ \E r : proc' = [proc EXCEPT ![x] = r]
    <2>1. \A y \in Handlers \ {x} : proc'[y] = proc[y]
        BY <1>2 DEF DialerInv, HandlersOK
    <2> QED BY <1>1, <1>2, <2>1, TrackPlain DEF NoneClaimed
<1>3. CASE lead[C[c].lead].status # "DIALING" /\ att' = Closed(C, {c}) /\ UNCHANGED proc
    <2>1. C[c].status # "NONE"
        BY SettledLive
    <2>2. \A d \in Calls : att'[d].lead = C[d].lead /\ (d # c => att'[d] = C[d])
        BY <1>3, <2>1, ClosedType
    <2>3. att[c].lead \in Leads
        BY DEF DialerInv, CallsOK
    <2>4. \A d \in Calls : att'[d].lead = att[d].lead
        BY <1>1, <2>2
    <2>5. \A d \in Calls \ {c} : att[d].status \in IN_FLIGHT => att'[d].status \in IN_FLIGHT
        BY <2>2
    <2>6. \A l \in Leads : lead'[l].status = lead[l].status
        OBVIOUS
    <2>7. lead'[att[c].lead].status # "DIALING"
        BY <1>1, <1>3, <2>3, <2>6
    <2>8. \A y \in Handlers : proc'[y] = proc[y]
        BY <1>3
    <2> QED BY <2>3, <2>4, <2>5, <2>6, <2>7, <2>8, TrackEnds
<1> QED BY <1>2, <1>3 DEF ReadCall

LEMMA EventTracked ==
    ASSUME DialerInv, ClaimedIsTracked, NEW x \in Handlers, NEW c \in Calls,
           AnswerUrl(x, c) \/ AnsweredEvent(x, c) \/ HumanEvent(x, c) \/ GraceOver(x, c)
    PROVE  ClaimedIsTracked'
<1> DEFINE answered == [att EXCEPT ![c].status = IF @ = "DIALING" THEN "ANSWERED" ELSE @]
           human == [att EXCEPT ![c].human = TRUE]
<1>1. att[c].status # "NONE" /\ proc[x].pc \in {"idle", "grace"}
    BY DEF AnswerUrl, AnsweredEvent, HumanEvent, GraceOver, IN_FLIGHT
<1>2. CallsOK(answered) /\ Settled(att, answered) /\ CallsOK(human) /\ Settled(att, human)
    BY <1>1, EventRows DEF DialerInv
<1>3. CallsOK(att) /\ Settled(att, att)
    BY DEF DialerInv, Settled
<1>4. /\ \A d \in Calls : att[d].status \in IN_FLIGHT => answered[d].status \in IN_FLIGHT
      /\ \A d \in Calls : att[d].status \in IN_FLIGHT => human[d].status \in IN_FLIGHT
    <2>1. att \in [Calls -> CallRow]
        BY DEF DialerInv, CallsOK
    <2>2. \A d \in Calls : human[d].status = att[d].status
        BY <2>1 DEF CallRow
    <2>3. \A d \in Calls : answered[d].status = att[d].status \/ answered[d].status = "ANSWERED"
        BY <2>1 DEF CallRow
    <2> QED BY <2>2, <2>3 DEF IN_FLIGHT
<1>5. UNCHANGED lead
    BY DEF AnswerUrl, AnsweredEvent, HumanEvent, GraceOver
<1>6. \/ (att' = answered \/ att' = human) /\ UNCHANGED proc
      \/ ReadCall(x, c, MachineDetection, "idle", att)
      \/ ReadCall(x, c, TRUE, "idle", answered)
      \/ ReadCall(x, c, FALSE, "idle", att)
      \/ ReadCall(x, c, FALSE, "grace", att)
    BY DEF AnswerUrl, AnsweredEvent, HumanEvent, GraceOver
<1> HIDE DEF answered, human
<1>7. CASE (att' = answered \/ att' = human) /\ UNCHANGED proc
    <2>1. \A d \in Calls : att'[d].lead = att[d].lead
        BY <1>2, <1>7 DEF Settled
    <2>2. \A d \in Calls : att[d].status \in IN_FLIGHT => att'[d].status \in IN_FLIGHT
        BY <1>4, <1>7
    <2> QED BY <1>5, <1>7, <2>1, <2>2, TrackPlain DEF NoneClaimed
<1> QED BY <1>1, <1>2, <1>3, <1>4, <1>5, <1>6, <1>7, ReadTracked

\* Closing call c: the other calls stay.
LEMMA CloseOthers ==
    ASSUME DialerInv, NEW c \in Calls, att[c].status # "NONE", att' = Close(c)
    PROVE  \A d \in Calls : att'[d].lead = att[d].lead /\ (d # c => att'[d] = att[d])
BY ClosedType DEF DialerInv, Close

\* A call that ends with the requeue of its customer.
LEMMA EndTracked ==
    ASSUME DialerInv, ClaimedIsTracked, NEW c \in Calls, att[c].status # "NONE", att' = Close(c),
           NEW L, LeadsOK(L), \A l \in Leads \ {att[c].lead} : L[l] = lead[l],
           NEW A, AgentsOK(A), NEW C, Requeue(att[c].lead, L, A, C),
           NEW x, \A y \in Handlers \ {x} : proc'[y] = proc[y],
           x \in Handlers => proc[x].pc # "requeue"
    PROVE  ClaimedIsTracked'
<1>1. att[c].lead \in Leads
    BY DEF DialerInv, CallsOK
<1>2. \A l \in Leads : lead'[l].status = "DIALING" => l # att[c].lead /\ lead[l].status = "DIALING"
    BY <1>1, RequeueClaims
<1>3. \A d \in Calls : att'[d].lead = att[d].lead /\ (d # c => att'[d] = att[d])
    BY CloseOthers
<1> QED BY <1>1, <1>2, <1>3, TrackEnds

LEMMA EndedTracked ==
    ASSUME DialerInv, ClaimedIsTracked, NEW c \in Calls, EndedEvent(c) PROVE ClaimedIsTracked'
<1>1. att' = Close(c) /\ UNCHANGED proc /\ att[c].status # "NONE" /\ LeadsOK(lead) /\ AgentsOK(agent)
    BY DEF EndedEvent, IN_FLIGHT, DialerInv
<1>2. CASE att[c].status = "CONNECTED" /\ UNCHANGED lead
    <2>1. \A d \in Calls : att'[d].lead = att[d].lead /\ (d # c => att'[d] = att[d])
        BY <1>1, CloseOthers
    <2> QED BY <1>1, <1>2, <2>1, TrackPlain DEF NoneClaimed, IN_FLIGHT
<1>3. CASE Requeue(att[c].lead, lead, agent, Close(c))
    <2>1. NoHandler \notin Handlers
        BY NullsAssumption
    <2> QED BY <1>1, <1>3, <2>1, EndTracked
<1> QED BY <1>2, <1>3 DEF EndedEvent

LEMMA MachineTracked ==
    ASSUME DialerInv, ClaimedIsTracked, NEW x \in Handlers, NEW c \in Calls, MachineEvent(x, c)
    PROVE  ClaimedIsTracked'
<1> DEFINE r == [Idle EXCEPT !.pc = "requeue", !.call = c]
<1>0. PICK l \in Leads : l = att[c].lead
    BY DEF MachineEvent, IN_FLIGHT, DialerInv, CallsOK
<1>1. /\ att[c].status # "NONE" /\ att' = Close(c) /\ proc' = [proc EXCEPT ![x] = r]
      /\ proc[x].pc = "idle" /\ (lead' = SetLead(lead, l, "DIALING", NoAgent) \/ lead' = lead)
    BY <1>0 DEF MachineEvent, IN_FLIGHT
<1>2. \A d \in Calls : att'[d].lead = att[d].lead /\ (d # c => att'[d] = att[d])
    BY <1>1, CloseOthers
<1>3. r.pc = "requeue" /\ r.call = c
    BY DEF Idle
<1> HIDE DEF r
<1>4. proc'[x] = r /\ \A y \in Handlers \ {x} : proc'[y] = proc[y]
    BY <1>1 DEF DialerInv, HandlersOK
<1>5. Tracked(l)'
    BY <1>0, <1>2, <1>3, <1>4 DEF Tracked, AtRequeue
<1>6. l \in Leads /\ \A k \in Leads \ {l} : lead'[k] = lead[k]
    BY <1>1 DEF DialerInv, CallsOK, LeadsOK, SetLead
<1> QED BY <1>0, <1>1, <1>2, <1>4, <1>5, <1>6, TrackEnds

\* Nobody is free: the customer is put back next.
LEMMA AbandonTracked ==
    ASSUME DialerInv, ClaimedIsTracked, NEW x \in Handlers, Abandon(x) PROVE ClaimedIsTracked'
<1> DEFINE c == proc[x].call
<1>1. c \in Calls /\ att[c].status # "NONE" /\ att[c].lead \in Leads /\ proc[x].pc = "connect"
    BY HandlerCall DEF Abandon, AtWork, Pcs, TickPhases
<1>2. att' = [att EXCEPT ![c].status = "ABANDONED"] /\ Goto(x, "requeue") /\ UNCHANGED lead
    BY DEF Abandon
<1>3. /\ proc'[x].pc = "requeue" /\ proc'[x].call = c /\ \A y \in Handlers \ {x} : proc'[y] = proc[y]
    BY <1>2 DEF Goto, DialerInv, HandlersOK, ProcRow
<1> HIDE DEF c
<1>4. \A d \in Calls : att'[d].lead = att[d].lead /\ (d # c => att'[d] = att[d])
    BY <1>1, <1>2 DEF DialerInv, CallsOK, CallRow
<1>5. ASSUME NEW l \in Leads, l = att[c].lead PROVE Tracked(l)'
    BY <1>1, <1>3, <1>4, <1>5 DEF Tracked, AtRequeue
<1> QED BY <1>1, <1>2, <1>3, <1>4, <1>5, TrackEnds

LEMMA ConnectTracked ==
    ASSUME DialerInv, ClaimedIsTracked, NEW x \in Handlers, NEW a \in Agents, ConnectAgent(x, a)
    PROVE  ClaimedIsTracked'
<1> DEFINE c == proc[x].call
           l == att[c].lead
<1>1. c \in Calls /\ l \in Leads /\ proc[x].pc = "connect"
    BY HandlerCall DEF ConnectAgent, AtWork, Pcs, TickPhases
<1>2. lead' = SetLead(lead, l, "IN_PROGRESS", a) /\ \A y \in Handlers \ {x} : proc'[y] = proc[y]
    BY DEF ConnectAgent, DialerInv, HandlersOK
<1>3. PutThroughTo(c, a) /\ att'[c].lead = l
    BY ConnectAgentStep
<1>4. \A d \in Calls : att'[d].lead = att[d].lead
    BY <1>3 DEF PutThroughTo, Moved
<1>5. \A d \in Calls \ {c} : att[d].status \in IN_FLIGHT => att'[d].status \in IN_FLIGHT
    BY <1>3 DEF PutThroughTo, Moved, IN_FLIGHT
<1>6. /\ lead'[l].status = "IN_PROGRESS" /\ \A k \in Leads \ {l} : lead'[k] = lead[k]
    BY <1>1, <1>2 DEF DialerInv, LeadsOK, SetLead, LeadRow
<1>7. att[c].lead = l
    OBVIOUS
<1> HIDE DEF l, c
<1> QED BY <1>1, <1>2, <1>4, <1>5, <1>6, <1>7, TrackEnds

\* The handler that puts a customer back, and the one whose bridge fails.
LEMMA RequeueTracked ==
    ASSUME DialerInv, ClaimedIsTracked, NEW x \in Handlers, RequeueLater(x) PROVE ClaimedIsTracked'
<1> DEFINE c == proc[x].call
           l == att[c].lead
<1>1. c \in Calls /\ l \in Leads /\ proc[x].pc = "requeue"
    BY HandlerCall DEF RequeueLater, AtWork, Pcs, TickPhases
<1>2. Requeue(l, lead, agent, att) /\ UNCHANGED att /\ \A y \in Handlers \ {x} : proc'[y] = proc[y]
    BY DEF RequeueLater, Return, DialerInv, HandlersOK
<1>3. \A k \in Leads : lead'[k].status = "DIALING" => k # l /\ lead[k].status = "DIALING"
    <2> HIDE DEF l
    <2> QED BY <1>1, <1>2, RequeueClaims DEF DialerInv
<1>4. att[c].lead = l
    OBVIOUS
<1> HIDE DEF l
<1> QED BY <1>1, <1>2, <1>3, <1>4, TrackEnds

LEMMA BridgeFailsTracked ==
    ASSUME DialerInv, ClaimedIsTracked, NEW x \in Handlers, BridgeFails(x) PROVE ClaimedIsTracked'
<1> DEFINE c == proc[x].call
           l == att[c].lead
           L == SetLead(lead, l, "DIALING", NoAgent)
           A == [agent EXCEPT ![proc[x].agent].current = NoLead, ![proc[x].agent].status = "AVAILABLE"]
<1>1. c \in Calls /\ att[c].status # "NONE" /\ l \in Leads /\ proc[x].pc = "bridge"
    BY HandlerCall DEF BridgeFails, AtWork, Pcs, TickPhases
<1>2. att' = Close(c) /\ Requeue(l, L, A, Close(c)) /\ \A y \in Handlers \ {x} : proc'[y] = proc[y]
    BY DEF BridgeFails, Return, DialerInv, HandlersOK
<1>3. LeadsOK(L) /\ \A k \in Leads \ {l} : L[k] = lead[k]
    <2>1. LeadsOK(L)
        BY SetLeadType DEF DialerInv, LeadStatus
    <2> QED BY <2>1 DEF SetLead, DialerInv, LeadsOK
<1>4. AgentsOK(A)
    BY DEF DialerInv, AgentsOK, AgentRow
<1>5. att[c].lead = l
    OBVIOUS
<1> HIDE DEF L, A, l, c
<1> QED BY <1>1, <1>2, <1>3, <1>4, <1>5, EndTracked

\* What people do keeps the flights, and no handler moves.
LEMMA PersonTracked ==
    ASSUME DialerInv, ClaimedIsTracked, PersonStep PROVE ClaimedIsTracked'
<1>1. \A c \in Calls : att'[c].lead = att[c].lead
    BY DEF PersonStep, Faded
<1>2. \A c \in Calls : att[c].status \in IN_FLIGHT => att'[c].status \in IN_FLIGHT
    BY DEF PersonStep, Faded, IN_FLIGHT
<1> QED BY <1>1, <1>2, TrackPlain DEF PersonStep

\* The steps that touch no call and claim nobody.
LEMMA IdleTracked ==
    ASSUME DialerInv, ClaimedIsTracked, UNCHANGED att, NEW x \in Handlers, proc[x].pc # "requeue",
           NEW r, proc' = [proc EXCEPT ![x] = r], NoneClaimed(lead')
    PROVE  ClaimedIsTracked'
<1>1. \A y \in Handlers \ {x} : proc'[y] = proc[y]
    BY DEF DialerInv, HandlersOK
<1> QED BY <1>1, TrackPlain

\* The reaper, the sweep and the plan claim nobody.
LEMMA TickStartsClaims ==
    ASSUME DialerInv, NEW x \in Handlers, NEW S \in SUBSET Agents, TickStarts(x, S)
    PROVE  NoneClaimed(lead')
<1> DEFINE L == [l \in Leads |-> IF /\ lead[l].status \in {"ASSIGNED", "IN_PROGRESS"}
                                    /\ \E a \in S : agent[a].current = l
                                 THEN [lead[l] EXCEPT !.status = "QUEUED", !.owner = NoAgent]
                                 ELSE lead[l]]
           A == [a \in Agents |-> IF a \in S THEN [agent[a] EXCEPT !.status = "OFFLINE",
                                                      !.current = NoLead, !.ready = FALSE]
                                  ELSE agent[a]]
<1>1. Assign(IF S = {} THEN 0 ELSE Cardinality(Agents), L, A, att)
    BY DEF TickStarts, ReapStaleAgents
<1>2. LeadsOK(L) /\ NoneClaimed(L)
    <2>1. \A l \in Leads : lead[l] \in LeadRow /\ (lead[l].status = "READY_TO_CALL" => lead[l].tries < MaxTotal)
        BY DEF DialerInv, LeadsOK
    <2> QED BY <2>1, ZenonT(30) DEF LeadsOK, LeadRow, LeadStatus, NoneClaimed
<1>3. AgentsOK(A)
    BY DEF DialerInv, AgentsOK, AgentRow
<1> HIDE DEF L, A
<1> QED BY <1>1, <1>2, <1>3, AssignClaims

LEMMA TickStartsTracked ==
    ASSUME DialerInv, ClaimedIsTracked, NEW x \in Handlers, NEW S \in SUBSET Agents, TickStarts(x, S)
    PROVE  ClaimedIsTracked'
<1>1. proc[x].pc = "idle" /\ UNCHANGED att /\ \E r : proc' = [proc EXCEPT ![x] = r]
    BY DEF TickStarts
<1> QED BY <1>1, TickStartsClaims, IdleTracked

\* Whom the sweep leaves claimed, it did not find lost.
LEMMA HouseClaims ==
    ASSUME DialerInv, NEW x \in Handlers, NEW lost \in SUBSET Calls, NEW old \in SUBSET Calls,
           House(x, lost, old), NEW l \in Leads, lead'[l].status = "DIALING"
    PROVE  lead[l].status = "DIALING" /\ \A c \in lost : att[c].lead # l
<1> DEFINE U == {k \in Leads : \E c \in lost : att[c].lead = k}
           C == Closed(att, {c \in Calls : c \in lost \cup old \/ Stray(c)})
           n == Cardinality({k \in U : lead[k].status = "DIALING" /\ lead[k].tries >= MaxTotal})
           L == [k \in Leads |-> IF k \in U THEN Missed(lead, k)[k] ELSE lead[k]]
           A == [a \in Agents |-> IF agent[a].status = "OFFLINE"
                                  THEN [agent[a] EXCEPT !.line = FALSE] ELSE agent[a]]
<1>1. Assign(n, L, A, C)
    BY DEF House
<1>2. LeadsOK(L)
    BY SweepType
<1>3. AgentsOK(A)
    BY DEF DialerInv, AgentsOK, AgentRow
<1>4. L[l].status = "DIALING" => lead[l].status = "DIALING" /\ l \notin U
    BY MissedLeaves DEF DialerInv
<1>5. l \notin U => \A c \in lost : att[c].lead # l
    OBVIOUS
<1> HIDE DEF U, C, L, A, n
<1>6. Offers(L)
    BY <1>1, <1>2, <1>3, AssignOutcome
<1> QED BY <1>4, <1>5, <1>6, OffersClaim

LEMMA HouseTracked ==
    ASSUME DialerInv, ClaimedIsTracked, NEW x \in Handlers, NEW lost \in SUBSET Calls,
           NEW old \in SUBSET Calls, House(x, lost, old)
    PROVE  ClaimedIsTracked'
<1> DEFINE D == {c \in Calls : c \in lost \cup old \/ Stray(c)}
<1>1. att' = Closed(att, D) /\ Goto(x, "serve") /\ proc[x].pc = "grace"
    BY DEF House
<1>2. \A c \in Calls \cap D : att[c].status # "NONE"
    BY DEF House, Stray
<1>3. \A c \in Calls : c \in D /\ att[c].status \in IN_FLIGHT => c \in lost
    BY DEF House, Stray, IN_FLIGHT
<1> HIDE DEF D
<1>4. \A l \in Leads : lead'[l].status = "DIALING" => lead[l].status = "DIALING" /\ \A c \in lost : att[c].lead # l
    BY HouseClaims
<1>5. \A c \in Calls : att'[c].lead = att[c].lead /\ (c \notin D => att'[c] = att[c])
    BY <1>1, <1>2, ClosedType DEF DialerInv
<1>6. ASSUME NEW l \in Leads, \A c \in lost : att[c].lead # l, InFlight(att, l) PROVE InFlight(att', l)
    BY <1>3, <1>5, <1>6 DEF InFlight
<1>7. \A y \in Handlers \ {x} : proc'[y] = proc[y]
    BY <1>1 DEF Goto, DialerInv, HandlersOK
<1>8. ASSUME NEW l \in Leads, AtRequeue(l) PROVE AtRequeue(l)'
    BY <1>1, <1>5, <1>7, <1>8, LeadsStay DEF AtRequeue
<1> QED BY <1>4, <1>6, <1>8, TrackKept DEF Tracked

LEMMA PlanClaims ==
    ASSUME DialerInv, NEW x \in Handlers, NEW due \in SUBSET Leads, Plan(x, due)
    PROVE  NoneClaimed(lead')
<1> DEFINE Back(back, A) ==
               /\ agent' = A
               /\ lead' = [l \in Leads |-> IF \E a \in back : agent[a].current = l
                              THEN [lead[l] EXCEPT !.status = "QUEUED", !.owner = NoAgent]
                              ELSE lead[l]]
               /\ proc' = [proc EXCEPT ![x].pc = "dial", ![x].cap = Capacity(A),
                                       ![x].cand = {l \in due : ~InFlight(att, l)}]
           Freed(back) == [a \in Agents |-> IF a \in back THEN [agent[a] EXCEPT !.current = NoLead]
                                            ELSE agent[a]]
<1>1. PICK back \in {{}, IF Capacity(agent) = 0 THEN Reclaimable ELSE {}} : Back(back, Freed(back))
    BY DEF Plan
<1>2. lead' = [l \in Leads |-> IF \E a \in back : agent[a].current = l
              THEN [lead[l] EXCEPT !.status = "QUEUED", !.owner = NoAgent]
              ELSE lead[l]]
    BY <1>1
<1> QED BY <1>2 DEF NoneClaimed, DialerInv, LeadsOK, LeadRow

LEMMA PlanTracked ==
    ASSUME DialerInv, ClaimedIsTracked, NEW x \in Handlers, NEW due \in SUBSET Leads, Plan(x, due)
    PROVE  ClaimedIsTracked'
<1> DEFINE free == {l \in due : ~InFlight(att, l)}
<1>1. \E k : proc' = [proc EXCEPT ![x].pc = "dial", ![x].cap = k, ![x].cand = free]
    BY DEF Plan
<1>2. UNCHANGED att /\ proc[x].pc = "serve"
    BY DEF Plan
<1> HIDE DEF free
<1>3. \A y \in Handlers \ {x} : proc'[y] = proc[y]
    BY <1>1 DEF DialerInv, HandlersOK
<1> QED BY <1>2, <1>3, PlanClaims, TrackPlain

\* A call begins with the claim; its row was nobody's.
LEMMA DialTracked ==
    ASSUME DialerInv, ClaimedIsTracked, NEW x \in Handlers, NEW l \in Leads, NEW c \in Calls,
           Dial(x, l, c)
    PROVE  ClaimedIsTracked'
<1>1. att'[c].status = "DIALING" /\ att'[c].lead = l /\ \A d \in Calls \ {c} : att'[d] = att[d]
    BY DialStep
<1>2. /\ proc[x].pc = "dial" /\ Unused(c)
      /\ lead' = [lead EXCEPT ![l].status = "DIALING", ![l].tries = @ + 1]
      /\ \A y \in Handlers \ {x} : proc'[y] = proc[y]
    BY DEF Dial, DialerInv, HandlersOK
<1>3. InFlight(att', l)
    BY <1>1 DEF InFlight, IN_FLIGHT
<1>4. \A k \in Leads \ {l} : lead'[k] = lead[k]
    BY <1>2 DEF DialerInv, LeadsOK
<1>5. att[c].status \notin IN_FLIGHT /\ \A y \in Handlers : proc[y].pc = "requeue" => proc[y].call # c
    BY <1>2, HandlerCall DEF Unused, IN_FLIGHT, AtWork, Pcs, TickPhases
<1>6. ASSUME NEW k \in Leads, InFlight(att, k) PROVE InFlight(att', k)
    BY <1>1, <1>5, <1>6 DEF InFlight
<1>7. \A y \in Handlers : proc[y].pc = "requeue" => proc[y].call \in Calls \ {c}
    BY <1>5, HandlerCall DEF AtWork, Pcs, TickPhases
<1>8. ASSUME NEW k \in Leads, AtRequeue(k) PROVE AtRequeue(k)'
    BY <1>1, <1>2, <1>7, <1>8 DEF AtRequeue
<1> QED BY <1>3, <1>4, <1>6, <1>8, TrackKept DEF Tracked

LEMMA CallFailsTracked ==
    ASSUME DialerInv, ClaimedIsTracked, NEW x \in Handlers, CallFails(x) PROVE ClaimedIsTracked'
<1> DEFINE c == proc[x].call
<1>1. c \in Calls /\ att[c].status # "NONE" /\ proc[x].pc = "calling"
    BY HandlerCall DEF CallFails, AtWork, Pcs, TickPhases
<1>2. att' = Close(c) /\ Requeue(att[c].lead, lead, agent, Close(c))
      /\ \A y \in Handlers \ {x} : proc'[y] = proc[y]
    BY DEF CallFails, DialerInv, HandlersOK
<1>3. LeadsOK(lead) /\ AgentsOK(agent)
    BY DEF DialerInv
<1> HIDE DEF c
<1> QED BY <1>1, <1>2, <1>3, EndTracked

\* The rest of the tick, and the handler whose bridge is through.
LEMMA OthersTracked ==
    ASSUME DialerInv, ClaimedIsTracked, NEW x \in Handlers,
           \/ \E l \in Leads : NotNow(x, l) \/ OptedOutSince(x, l)
           \/ CallPlaced(x) \/ TickEnds(x) \/ Bridged(x)
    PROVE  ClaimedIsTracked'
<1>1. UNCHANGED att /\ proc[x].pc # "requeue"
    BY DEF NotNow, OptedOutSince, CallPlaced, TickEnds, Bridged, tables
<1>2. \A y \in Handlers \ {x} : proc'[y] = proc[y]
    BY DEF NotNow, OptedOutSince, CallPlaced, TickEnds, Bridged, Return, DialerInv, HandlersOK
<1>3. NoneClaimed(lead')
    BY DEF NotNow, OptedOutSince, CallPlaced, TickEnds, Bridged, tables, NoneClaimed, DialerInv,
           LeadsOK, LeadRow
<1> QED BY <1>1, <1>2, <1>3, TrackPlain

LEMMA TrackedNext ==
    ASSUME DialerInv, ClaimedIsTracked, ~Crashes, [Next]_vars PROVE ClaimedIsTracked'
<1>1. CASE People
    BY <1>1, PeopleStep, PersonTracked
<1>2. CASE UNCHANGED vars \/ LockRunsOut \/ \E c \in Calls : CustomerPicksUp(c) \/ LegEnds(c)
                  \/ \E v \in {"human", "machine"} : DetectionDecides(c, v)
    <2>1. UNCHANGED <<lead, att, proc>>
        BY <1>2 DEF vars, LockRunsOut, CustomerPicksUp, LegEnds, DetectionDecides, LegStep, tables
    <2> QED BY <2>1, TrackPlain DEF NoneClaimed
<1>3. CASE \E c \in Calls : EndedEvent(c)
    BY <1>3, EndedTracked
<1>4. ASSUME NEW x \in Handlers, Handler(x) PROVE ClaimedIsTracked'
    BY <1>4, RequeueTracked, OthersTracked, BridgeFailsTracked, EventTracked, MachineTracked DEF Handler
<1>5. ASSUME NEW x \in Handlers, Connect(x) PROVE ClaimedIsTracked'
    BY <1>5, AbandonTracked, ConnectTracked DEF Connect
<1>6. ASSUME NEW x \in Handlers, Tick(x) PROVE ClaimedIsTracked'
    BY <1>6, TickStartsTracked, EventTracked, HouseTracked, PlanTracked, OthersTracked, DialTracked,
       CallFailsTracked DEF Tick
<1>7. ~ \E x \in Handlers : Dies(x)
    BY DEF Dies
<1> QED BY <1>1, <1>2, <1>3, <1>4, <1>5, <1>6, <1>7 DEF Next, Carrier

\* As long as no process dies between two of its commits, a customer whose lead is
\* claimed for a call has one in flight or a handler about to put them back: no
\* event, sweep, failed bridge, voicemail or refused call forgets them.
THEOREM DialerTracks ==
    ASSUME ~Crashes PROVE Spec => []ClaimedIsTracked
<1>1. Init => ClaimedIsTracked
    BY DEF Init, ClaimedIsTracked
<1>2. DialerInv /\ ClaimedIsTracked /\ [Next]_vars => ClaimedIsTracked'
    BY TrackedNext
<1> QED BY <1>1, <1>2, DialerInvariant, PTL DEF Spec

-----------------------------------------------------------------------------
(* Nobody who opted out is bridged, when no call is bridged before the verdict. *)

\* One handler at a time is between connect_human's read and its commit; the customer
\* it connects is claimed, and nobody who opted out is.  Who is bridged is a human.
ConnectInv ==
    /\ \A x, y \in Handlers : proc[x].pc = "connect" /\ proc[y].pc = "connect" => x = y
    /\ \A x \in Handlers : proc[x].pc = "connect" =>
          lead[att[proc[x].call].lead].status = "DIALING" /\ ~proc[x].early
    /\ \A c \in Calls : att[c].status = "CONNECTED" => att[c].human
    /\ \A l \in dnc : lead[l].status # "DIALING"

\* A bridged early, or a voicemail found on such a bridge, is what the settings exclude.
NoEarlyBridge == ~(MachineDetection /\ ConnectOnAnswer)

\* Every step but a dial and an early voicemail leaves unclaimed who was unclaimed.
LEMMA HandlerClaims ==
    ASSUME DialerInv, NEW x \in Handlers,
           \/ RequeueLater(x) \/ BridgeFails(x) \/ CallFails(x)
           \/ \E c \in Calls : EndedEvent(c)
           \/ \E a \in Agents : ConnectAgent(x, a)
    PROVE  NoneClaimed(lead')
<1>0. LeadsOK(lead) /\ AgentsOK(agent) /\ NoneClaimed(lead)
    BY DEF DialerInv, NoneClaimed
<1>1. ASSUME NEW L, LeadsOK(L), NEW A, AgentsOK(A), NEW k \in Leads, NEW C, Requeue(k, L, A, C),
             \A l \in Leads \ {k} : L[l] = lead[l]
      PROVE  NoneClaimed(lead')
    <2>1. ASSUME NEW l \in Leads, lead'[l].status = "DIALING" PROVE lead[l].status = "DIALING"
        <3>1. l # k /\ L[l].status = "DIALING"
            BY <1>1, <2>1, RequeueClaims
        <3> QED BY <1>1, <3>1
    <2> QED BY <2>1 DEF NoneClaimed
<1>2. CASE RequeueLater(x)
    <2>1. att[proc[x].call].lead \in Leads
        BY <1>2, HandlerCall DEF RequeueLater, AtWork, Pcs, TickPhases
    <2> QED BY <1>0, <1>1, <1>2, <2>1 DEF RequeueLater
<1>3. CASE BridgeFails(x)
    <2> DEFINE l == att[proc[x].call].lead
               L == SetLead(lead, l, "DIALING", NoAgent)
               A == [agent EXCEPT ![proc[x].agent].current = NoLead, ![proc[x].agent].status = "AVAILABLE"]
    <2>1. l \in Leads
        BY <1>3, HandlerCall DEF BridgeFails, AtWork, Pcs, TickPhases
    <2>2. Requeue(l, L, A, Close(proc[x].call))
        BY <1>3 DEF BridgeFails
    <2>3. LeadsOK(L) /\ \A k \in Leads \ {l} : L[k] = lead[k]
        <3>1. LeadsOK(L)
            BY <1>0, SetLeadType DEF LeadStatus
        <3> QED BY <1>0, <3>1 DEF SetLead, LeadsOK
    <2>4. AgentsOK(A)
        BY ZenonT(30) DEF DialerInv, AgentsOK, AgentRow
    <2> HIDE DEF L, A, l
    <2> QED BY <1>1, <2>1, <2>2, <2>3, <2>4
<1>4. CASE CallFails(x)
    <2>1. att[proc[x].call].lead \in Leads
        BY <1>4, HandlerCall DEF CallFails, AtWork, Pcs, TickPhases
    <2> QED BY <1>0, <1>1, <1>4, <2>1 DEF CallFails
<1>5. ASSUME NEW c \in Calls, EndedEvent(c) PROVE NoneClaimed(lead')
    <2>1. att[c].lead \in Leads /\ (UNCHANGED lead \/ Requeue(att[c].lead, lead, agent, Close(c)))
        BY <1>5 DEF EndedEvent, IN_FLIGHT, DialerInv, CallsOK
    <2> QED BY <1>0, <1>1, <2>1
<1>6. ASSUME NEW a \in Agents, ConnectAgent(x, a) PROVE NoneClaimed(lead')
    <2> DEFINE l == att[proc[x].call].lead
    <2>1. lead' = SetLead(lead, l, "IN_PROGRESS", a)
        BY <1>6 DEF ConnectAgent
    <2> HIDE DEF l
    <2>2. \A k \in Leads : lead'[k].status \in {lead[k].status, "IN_PROGRESS"}
        BY <2>1 DEF DialerInv, LeadsOK, SetLead, LeadRow
    <2> QED BY <2>2 DEF NoneClaimed
<1> QED BY <1>2, <1>3, <1>4, <1>5, <1>6

\* Who is unclaimed stays so, in any step but a dial, what people do, and an early voicemail.
LEMMA ClaimsKept ==
    ASSUME DialerInv, [Next]_vars, ~People,
           ~ \E x \in Handlers, l \in Leads, c \in Calls : Dial(x, l, c),
           \A c \in Calls : att[c].status = "CONNECTED" => att[c].human
    PROVE  NoneClaimed(lead') /\ UNCHANGED dnc
<1>1. CASE UNCHANGED vars \/ LockRunsOut
    BY <1>1 DEF vars, LockRunsOut, tables, NoneClaimed
<1>2. CASE Carrier
    <2>1. CASE \E c \in Calls : EndedEvent(c)
        <3>1. PICK c \in Calls : EndedEvent(c)
            BY <2>1
        <3>2. att[c].lead \in Leads /\ (UNCHANGED lead \/ Requeue(att[c].lead, lead, agent, Close(c)))
            BY <3>1 DEF EndedEvent, IN_FLIGHT, DialerInv, CallsOK
        <3>3. NoneClaimed(lead')
            BY <3>2, RequeueClaims DEF NoneClaimed, DialerInv
        <3> QED BY <3>1, <3>3 DEF EndedEvent
    <2>2. CASE \E c \in Calls : CustomerPicksUp(c) \/ LegEnds(c)
                   \/ \E v \in {"human", "machine"} : DetectionDecides(c, v)
        BY <2>2 DEF CustomerPicksUp, LegEnds, DetectionDecides, LegStep, tables, NoneClaimed
    <2> QED BY <1>2, <2>1, <2>2 DEF Carrier
<1>3. ASSUME NEW x \in Handlers, Handler(x) PROVE NoneClaimed(lead') /\ UNCHANGED dnc
    <2>1. CASE RequeueLater(x) \/ BridgeFails(x)
        BY <2>1, HandlerClaims DEF RequeueLater, BridgeFails
    <2>2. ASSUME NEW c \in Calls, MachineEvent(x, c) PROVE UNCHANGED <<lead, dnc>>
        BY <2>2 DEF MachineEvent, IN_FLIGHT
    <2>3. CASE Bridged(x) \/ \E c \in Calls : AnswerUrl(x, c) \/ AnsweredEvent(x, c) \/ HumanEvent(x, c)
        BY <2>3 DEF Bridged, AnswerUrl, AnsweredEvent, HumanEvent, NoneClaimed
    <2> QED BY <1>3, <2>1, <2>2, <2>3 DEF Handler, NoneClaimed
<1>4. ASSUME NEW x \in Handlers, Connect(x) \/ Dies(x) PROVE NoneClaimed(lead') /\ UNCHANGED dnc
    <2>1. CASE \E a \in Agents : ConnectAgent(x, a)
        BY <2>1, HandlerClaims DEF ConnectAgent
    <2>2. CASE Abandon(x) \/ Dies(x)
        BY <2>2 DEF Abandon, Dies, tables, NoneClaimed
    <2> QED BY <1>4, <2>1, <2>2 DEF Connect
<1>5. ASSUME NEW x \in Handlers, Tick(x) PROVE NoneClaimed(lead') /\ UNCHANGED dnc
    <2>1. CASE \E S \in SUBSET Agents : TickStarts(x, S)
        BY <2>1, TickStartsClaims DEF TickStarts
    <2>2. CASE \E lost, old \in SUBSET Calls : House(x, lost, old)
        <3>1. NoneClaimed(lead')
            BY <2>2, HouseClaims DEF NoneClaimed
        <3> QED BY <2>2, <3>1 DEF House
    <2>3. CASE \E due \in SUBSET Leads : Plan(x, due)
        BY <2>3, PlanClaims DEF Plan
    <2>4. CASE CallFails(x)
        BY <2>4, HandlerClaims DEF CallFails
    <2>5. CASE \/ \E c \in Calls : GraceOver(x, c)
               \/ \E l \in Leads : NotNow(x, l) \/ OptedOutSince(x, l)
               \/ CallPlaced(x) \/ TickEnds(x)
        BY <2>5, ZenonT(30) DEF GraceOver, NotNow, OptedOutSince, CallPlaced, TickEnds, tables, NoneClaimed,
                    DialerInv, LeadsOK, LeadRow
    <2> QED BY <1>5, <2>1, <2>2, <2>3, <2>4, <2>5 DEF Tick
<1> QED BY <1>1, <1>2, <1>3, <1>4, <1>5 DEF Next

\* Nobody who opted out is claimed.
LEMMA OptOutsNext ==
    ASSUME DialerInv, ConnectInv, [Next]_vars
    PROVE  \A l \in dnc' : lead'[l].status # "DIALING"
<1>1. CASE People
    <2>1. PersonStep
        BY <1>1, PeopleStep
    <2> QED BY <2>1 DEF PersonStep, NoneClaimed, ConnectInv, DialerInv, OthersOK
<1>2. CASE \E x \in Handlers, l \in Leads, c \in Calls : Dial(x, l, c)
    BY <1>2 DEF Dial, ConnectInv, DialerInv, OthersOK, LeadsOK
<1>3. CASE ~People /\ ~ \E x \in Handlers, l \in Leads, c \in Calls : Dial(x, l, c)
    <2>1. NoneClaimed(lead') /\ UNCHANGED dnc
        BY <1>3, ClaimsKept DEF ConnectInv
    <2> QED BY <2>1 DEF NoneClaimed, ConnectInv, DialerInv, OthersOK
<1> QED BY <1>1, <1>2, <1>3

\* A handler comes to read a call by an event, and only while nobody else has read one.
ReadStep(x) ==
    /\ \A y \in Handlers \ {x} : proc'[y] = proc[y]
    /\ UNCHANGED lead
    /\ proc'[x] = proc[x] \/ proc'[x].pc = "connect"
    /\ proc'[x].pc = "connect" /\ proc'[x].pc # proc[x].pc =>
          lead[att'[proc'[x].call].lead].status = "DIALING" /\ (proc'[x].early => ~NoEarlyBridge)

LEMMA EventReads ==
    ASSUME DialerInv, NEW x \in Handlers, NEW c \in Calls,
           AnswerUrl(x, c) \/ AnsweredEvent(x, c) \/ HumanEvent(x, c) \/ GraceOver(x, c)
    PROVE  ReadStep(x)
<1> DEFINE answered == [att EXCEPT ![c].status = IF @ = "DIALING" THEN "ANSWERED" ELSE @]
<1>1. UNCHANGED lead
    BY DEF AnswerUrl, AnsweredEvent, HumanEvent, GraceOver
<1>2. \/ UNCHANGED proc
      \/ ReadCall(x, c, MachineDetection, "idle", att) /\ (MachineDetection => ConnectOnAnswer)
      \/ ReadCall(x, c, TRUE, "idle", answered) /\ MachineDetection /\ ConnectOnAnswer
      \/ ReadCall(x, c, FALSE, "idle", att)
      \/ ReadCall(x, c, FALSE, "grace", att)
    BY DEF AnswerUrl, AnsweredEvent, HumanEvent, GraceOver
<1> HIDE DEF answered
<1>3. ASSUME NEW C, NEW early, NEW back, ReadCall(x, c, early, back, C), early => ~NoEarlyBridge
      PROVE  ReadStep(x)
    <2> DEFINE r == [Idle EXCEPT !.pc = "connect", !.call = c, !.early = early, !.back = back]
    <2>1. CASE proc' = [proc EXCEPT ![x] = r] /\ att' = C /\ lead[C[c].lead].status = "DIALING"
        <3>1. r.call = c /\ r.early = early /\ r.pc = "connect"
            BY DEF Idle
        <3> HIDE DEF r
        <3>2. proc'[x] = r /\ \A y \in Handlers \ {x} : proc'[y] = proc[y]
            BY <2>1 DEF DialerInv, HandlersOK
        <3> QED BY <1>1, <1>3, <2>1, <3>1, <3>2 DEF ReadStep
    <2>2. CASE UNCHANGED proc
        BY <1>1, <2>2 DEF ReadStep
    <2> QED BY <1>3, <2>1, <2>2 DEF ReadCall
<1>4. CASE UNCHANGED proc
    BY <1>1, <1>4 DEF ReadStep
<1>5. MachineDetection \in BOOLEAN /\ ConnectOnAnswer \in BOOLEAN
    BY SettingsAssumption
<1> QED BY <1>2, <1>3, <1>4, <1>5 DEF NoEarlyBridge

\* No other step brings a handler to connect_human's commit, or to a held caller.
Entries == {"connect", "locked", "missed", "ibridge"}

LEMMA NoNewEntries ==
    ASSUME DialerInv, [Next]_vars,
           ~ \E x \in Handlers, c \in Calls : AnswerUrl(x, c) \/ AnsweredEvent(x, c) \/ HumanEvent(x, c)
                                              \/ GraceOver(x, c)
    PROVE  \A y \in Handlers : proc'[y].pc \in Entries => proc'[y] = proc[y]
<1>0. proc \in [Handlers -> ProcRow] /\ \A y \in Handlers : proc[y].back \notin Entries
    BY DEF DialerInv, HandlersOK, RowOK, Entries
<1>1. ASSUME NEW x \in Handlers, NEW r, proc' = [proc EXCEPT ![x] = r], r.pc \notin Entries
      PROVE  \A y \in Handlers : proc'[y].pc \in Entries => proc'[y] = proc[y]
    BY <1>0, <1>1
<1>2. ASSUME NEW x \in Handlers, Return(x)
      PROVE  \A y \in Handlers : proc'[y].pc \in Entries => proc'[y] = proc[y]
    <2> DEFINE r == IF proc[x].back = "idle" THEN Idle
                    ELSE [proc[x] EXCEPT !.pc = proc[x].back, !.back = "idle", !.call = NoCall,
                                         !.agent = NoAgent, !.early = FALSE]
    <2>1. proc' = [proc EXCEPT ![x] = r]
        BY <1>2 DEF Return
    <2>2. r.pc \notin Entries
        BY <1>0 DEF Idle, ProcRow, Entries
    <2> HIDE DEF r
    <2> QED BY <1>1, <2>1, <2>2
<1>3. CASE UNCHANGED proc
    BY <1>3
<1>4. CASE People
    BY <1>3, <1>4, PeopleStep DEF PersonStep
<1>5. CASE Carrier \/ LockRunsOut \/ UNCHANGED vars
    <2>1. UNCHANGED proc
        BY <1>5 DEF Carrier, CustomerPicksUp, DetectionDecides, LegEnds, LegStep, EndedEvent,
                    LockRunsOut, vars
    <2> QED BY <1>3, <2>1
<1>6. ASSUME NEW x \in Handlers, RequeueLater(x) \/ Bridged(x) \/ BridgeFails(x)
      PROVE  \A y \in Handlers : proc'[y].pc \in Entries => proc'[y] = proc[y]
    <2>1. Return(x)
        BY <1>6 DEF RequeueLater, Bridged, BridgeFails
    <2> QED BY <1>2, <2>1
<1>7. ASSUME NEW x \in Handlers,
             \/ \E c \in Calls : MachineEvent(x, c)
             \/ \E S \in SUBSET Agents : TickStarts(x, S)
             \/ TickEnds(x) \/ Dies(x)
      PROVE  \A y \in Handlers : proc'[y].pc \in Entries => proc'[y] = proc[y]
    <2>1. PICK r : proc' = [proc EXCEPT ![x] = r] /\ r.pc \notin Entries
        <3>1. CASE \E c \in Calls : MachineEvent(x, c)
            <4>1. PICK c \in Calls : proc' = [proc EXCEPT ![x] = [Idle EXCEPT !.pc = "requeue", !.call = c]]
                BY <3>1 DEF MachineEvent
            <4>2. [Idle EXCEPT !.pc = "requeue", !.call = c].pc = "requeue"
                BY DEF Idle
            <4> QED BY <4>1, <4>2 DEF Entries
        <3>2. CASE \E S \in SUBSET Agents : TickStarts(x, S)
            <4>1. proc' = [proc EXCEPT ![x] = [Idle EXCEPT !.pc = "grace"]]
                BY <3>2 DEF TickStarts
            <4>2. [Idle EXCEPT !.pc = "grace"].pc = "grace"
                BY DEF Idle
            <4> QED BY <4>1, <4>2 DEF Entries
        <3>3. CASE TickEnds(x) \/ Dies(x)
            <4>1. proc' = [proc EXCEPT ![x] = Idle]
                BY <3>3 DEF TickEnds, Dies
            <4>2. Idle.pc \notin Entries
                BY DEF Idle, Entries
            <4> QED BY <4>1, <4>2
        <3> QED BY <1>7, <3>1, <3>2, <3>3
    <2> QED BY <1>1, <2>1
<1>8. ASSUME NEW x \in Handlers,
             \/ Connect(x)
             \/ \E lost, old \in SUBSET Calls : House(x, lost, old)
             \/ \E due \in SUBSET Leads : Plan(x, due)
             \/ \E l \in Leads : NotNow(x, l) \/ OptedOutSince(x, l) \/ \E c \in Calls : Dial(x, l, c)
             \/ CallPlaced(x) \/ CallFails(x)
      PROVE  \A y \in Handlers : proc'[y].pc \in Entries => proc'[y] = proc[y]
    <2>1. \A y \in Handlers \ {x} : proc'[y] = proc[y]
        BY <1>8 DEF Connect, Abandon, Goto, ConnectAgent, House, Plan, NotNow, OptedOutSince, Dial,
                    CallPlaced, CallFails, DialerInv, HandlersOK
    <2>2. proc'[x].pc \notin Entries
        <3>1. CASE Connect(x) \/ \E lost, old \in SUBSET Calls : House(x, lost, old)
            <4>1. CASE Abandon(x) \/ \E lost, old \in SUBSET Calls : House(x, lost, old)
                <5>1. Goto(x, "requeue") \/ Goto(x, "serve")
                    BY <4>1 DEF Abandon, House
                <5> QED BY <1>0, <5>1 DEF Goto, ProcRow, Entries
            <4>2. ASSUME NEW a \in Agents, ConnectAgent(x, a) PROVE proc'[x].pc \notin Entries
                <5>1. proc' = [proc EXCEPT ![x].pc = "bridge", ![x].agent = a]
                    BY <4>2 DEF ConnectAgent
                <5> QED BY <1>0, <5>1 DEF ProcRow, Entries
            <4> QED BY <3>1, <4>1, <4>2 DEF Connect
        <3>2. CASE \E due \in SUBSET Leads : Plan(x, due)
            <4>1. PICK due \in SUBSET Leads : Plan(x, due)
                BY <3>2
            <4> DEFINE free == {l \in due : ~InFlight(att, l)}
            <4>2. \E k : proc' = [proc EXCEPT ![x].pc = "dial", ![x].cap = k, ![x].cand = free]
                BY <4>1 DEF Plan
            <4> HIDE DEF free
            <4> QED BY <1>0, <4>2 DEF ProcRow, Entries
        <3>3. CASE \/ \E l \in Leads : NotNow(x, l) \/ OptedOutSince(x, l) \/ \E c \in Calls : Dial(x, l, c)
                   \/ CallPlaced(x) \/ CallFails(x)
            <4>1. ASSUME NEW l \in Leads, NotNow(x, l) \/ OptedOutSince(x, l) PROVE proc'[x].pc \notin Entries
                <5>1. proc[x].pc = "dial" /\ proc' = [proc EXCEPT ![x].cand = @ \ {l}]
                    BY <4>1 DEF NotNow, OptedOutSince
                <5> QED BY <1>0, <5>1 DEF ProcRow, Entries
            <4>2. ASSUME NEW l \in Leads, NEW c \in Calls, Dial(x, l, c) PROVE proc'[x].pc \notin Entries
                <5>1. proc' = [proc EXCEPT ![x].pc = "calling", ![x].call = c, ![x].cand = @ \ {l}]
                    BY <4>2 DEF Dial
                <5> QED BY <1>0, <5>1 DEF ProcRow, Entries
            <4>3. CASE CallPlaced(x)
                <5>1. proc' = [proc EXCEPT ![x].pc = "dial", ![x].call = NoCall, ![x].cap = @ - 1]
                    BY <4>3 DEF CallPlaced
                <5> QED BY <1>0, <5>1 DEF ProcRow, Entries
            <4>4. CASE CallFails(x)
                <5>1. proc' = [proc EXCEPT ![x].pc = "dial", ![x].call = NoCall]
                    BY <4>4 DEF CallFails
                <5> QED BY <1>0, <5>1 DEF ProcRow, Entries
            <4> QED BY <3>3, <4>1, <4>2, <4>3, <4>4
        <3> QED BY <1>8, <3>1, <3>2, <3>3
    <2> QED BY <2>1, <2>2
<1> QED BY <1>4, <1>5, <1>6, <1>7, <1>8 DEF Next, Handler, Tick

\* Who is bridged when is a human.
LEMMA HumansNext ==
    ASSUME DialerInv, ConnectInv, [Next]_vars
    PROVE  \A c \in Calls : att'[c].status = "CONNECTED" => att'[c].human
<1>1. CASE PersonStep
    BY <1>1 DEF PersonStep, Faded, ConnectInv
<1>2. CASE CallStep
    BY <1>2 DEF CallStep, Settled, ConnectInv
<1>3. CASE \E x \in Handlers, a \in Agents : ConnectAgent(x, a)
    <2>1. PICK x \in Handlers, a \in Agents : ConnectAgent(x, a)
        BY <1>3
    <2> DEFINE c == proc[x].call
    <2>2. c \in Calls /\ ~proc[x].early
        BY <2>1, HandlerCall DEF ConnectAgent, ConnectInv, AtWork, Pcs, TickPhases
    <2>3. att'[c].human
        <3> DEFINE F == EndLiveCalls(att, CallsWith(a))
        <3>1. att' = [F EXCEPT ![c].status = "CONNECTED", ![c].agent = a, ![c].human = @ \/ ~proc[x].early]
            BY <2>1 DEF ConnectAgent
        <3>2. CallsOK(F)
            BY EndType DEF DialerInv
        <3> HIDE DEF F, c
        <3> DEFINE h == F[c].human \/ ~proc[x].early
        <3>3. h
            BY <2>2 DEF c
        <3>4. att'[c].human = h
            BY <2>2, <3>1, <3>2 DEF CallsOK, CallRow
        <3> QED BY <3>3, <3>4
    <2>4. \A d \in Calls \ {c} : att'[d].status = "CONNECTED" => att'[d] = att[d]
        BY <2>1, ConnectAgentStep DEF PutThroughTo, Moved
    <2> QED BY <2>3, <2>4 DEF ConnectInv
<1>4. CASE \E x \in Handlers, l \in Leads, c \in Calls : Dial(x, l, c)
    <2>1. PICK x \in Handlers, l \in Leads, c \in Calls : Dial(x, l, c)
        BY <1>4
    <2>2. att'[c].status = "DIALING" /\ \A d \in Calls \ {c} : att'[d] = att[d]
        BY <2>1, DialStep
    <2> QED BY <2>2 DEF ConnectInv
<1> QED BY <1>1, <1>2, <1>3, <1>4, StepKinds

\* The handler that connects is done reading; one that dies leaves the others as they are.
LEMMA ConnectLeaves ==
    ASSUME DialerInv, NEW x \in Handlers, Connect(x) \/ Dies(x)
    PROVE  /\ \A y \in Handlers \ {x} : proc'[y] = proc[y]
           /\ proc'[x].pc # "connect"
<1>0. proc \in [Handlers -> ProcRow]
    BY DEF DialerInv, HandlersOK
<1>1. CASE Abandon(x)
    <2>1. Goto(x, "requeue")
        BY <1>1 DEF Abandon
    <2> QED BY <1>0, <2>1 DEF Goto, ProcRow
<1>2. ASSUME NEW a \in Agents, ConnectAgent(x, a)
      PROVE  (\A y \in Handlers \ {x} : proc'[y] = proc[y]) /\ proc'[x].pc # "connect"
    <2>1. proc' = [proc EXCEPT ![x].pc = "bridge", ![x].agent = a]
        BY <1>2 DEF ConnectAgent
    <2> QED BY <1>0, <2>1 DEF ProcRow
<1>3. CASE Dies(x)
    <2>1. proc' = [proc EXCEPT ![x] = Idle] /\ Idle.pc # "connect"
        BY <1>3 DEF Dies, Idle
    <2> QED BY <1>0, <2>1
<1> QED BY <1>1, <1>2, <1>3 DEF Connect

LEMMA ConnectNext ==
    ASSUME DialerInv, ConnectInv, ~Overlap, NoEarlyBridge, [Next]_vars PROVE ConnectInv'
<1> DEFINE Reads ==
        /\ \A x, y \in Handlers : proc'[x].pc = "connect" /\ proc'[y].pc = "connect" => x = y
        /\ \A x \in Handlers : proc'[x].pc = "connect" =>
              lead'[att'[proc'[x].call].lead].status = "DIALING" /\ ~proc'[x].early
<1>1. (\A c \in Calls : att'[c].status = "CONNECTED" => att'[c].human)
      /\ \A l \in dnc' : lead'[l].status # "DIALING"
    BY HumansNext, OptOutsNext
<1>2. ASSUME Quiet, Next PROVE Reads
    <2>0. \A x \in Handlers : proc[x].pc # "connect"
        BY <1>2 DEF Quiet
    <2>1. CASE \E x \in Handlers, c \in Calls : AnswerUrl(x, c) \/ AnsweredEvent(x, c) \/ HumanEvent(x, c)
                                                 \/ GraceOver(x, c)
        <3>1. PICK x \in Handlers : ReadStep(x)
            BY <2>1, EventReads
        <3>2. proc'[x].pc = "connect" => proc'[x].pc # proc[x].pc
            BY <2>0
        <3>3. \A y \in Handlers \ {x} : proc'[y].pc # "connect"
            BY <2>0, <3>1 DEF ReadStep
        <3> QED BY <3>1, <3>2, <3>3 DEF ReadStep
    <2>2. CASE ~ \E x \in Handlers, c \in Calls : AnswerUrl(x, c) \/ AnsweredEvent(x, c) \/ HumanEvent(x, c)
                                                   \/ GraceOver(x, c)
        BY <1>2, <2>0, <2>2, NoNewEntries DEF Entries
    <2> QED BY <2>1, <2>2
<1>3. ASSUME NEW x \in Handlers, Connect(x) PROVE Reads
    <2>1. proc[x].pc = "connect"
        BY <1>3 DEF Connect, Abandon, ConnectAgent
    <2>2. \A y \in Handlers \ {x} : proc[y].pc # "connect"
        BY <2>1 DEF ConnectInv
    <2> QED BY <1>3, <2>2, ConnectLeaves
<1>4. ASSUME NEW x \in Handlers, Dies(x) PROVE Reads
    <2>1. UNCHANGED <<lead, att>>
        BY <1>4 DEF Dies, tables
    <2>2. \A y \in Handlers : proc'[y].pc = "connect" => proc'[y] = proc[y]
        BY <1>4, ConnectLeaves
    <2> QED BY <2>1, <2>2 DEF ConnectInv
<1>5. ASSUME UNCHANGED vars PROVE Reads
    BY <1>5 DEF vars, ConnectInv
<1>6. Reads
    BY <1>2, <1>3, <1>4, <1>5 DEF Next
<1> QED BY <1>1, <1>6 DEF ConnectInv

LEMMA ConnectInit == ASSUME Init PROVE ConnectInv
<1>1. \A x \in Handlers : proc[x].pc = "idle"
    BY DEF Init, Idle
<1> QED BY <1>1 DEF Init, ConnectInv

\* The step that bridges a call finds its customer claimed.
LEMMA BridgesNoOptOut ==
    ASSUME DialerInv, ConnectInv, [Next]_vars
    PROVE  \A c \in Calls : att'[c].status = "CONNECTED" /\ att[c].status \in IN_FLIGHT
               => att[c].lead \notin dnc
<1>1. CASE PersonStep \/ CallStep
    BY <1>1 DEF PersonStep, Faded, CallStep, Settled, IN_FLIGHT
<1>2. CASE \E x \in Handlers, a \in Agents : ConnectAgent(x, a)
    <2>1. PICK x \in Handlers, a \in Agents : ConnectAgent(x, a)
        BY <1>2
    <2>2. PutThroughTo(proc[x].call, a)
        BY <2>1, ConnectAgentStep
    <2>3. lead[att[proc[x].call].lead].status = "DIALING"
        BY <2>1 DEF ConnectInv, ConnectAgent
    <2> QED BY <2>2, <2>3 DEF PutThroughTo, Moved, ConnectInv, IN_FLIGHT
<1>3. CASE \E x \in Handlers, l \in Leads, c \in Calls : Dial(x, l, c)
    <2>1. PICK x \in Handlers, l \in Leads, c \in Calls : Dial(x, l, c)
        BY <1>3
    <2>2. att'[c].status = "DIALING" /\ \A d \in Calls \ {c} : att'[d] = att[d]
        BY <2>1, DialStep
    <2> QED BY <2>2 DEF IN_FLIGHT
<1> QED BY <1>1, <1>2, <1>3, StepKinds

\* When a request commits before the next one reads, and no call is bridged before the
\* machine detection has decided, nobody who opted out is put through to an agent: not
\* the customer whose phone rings as they text STOP, nor one whom a manager closes and
\* reopens meanwhile.
THEOREM DialerOptOuts ==
    ASSUME ~Overlap, NoEarlyBridge PROVE Spec => OptedOutNotBridged
<1>1. Init => ConnectInv
    BY ConnectInit
<1>2. DialerInv /\ ConnectInv /\ [Next]_vars => ConnectInv'
    BY ConnectNext
<1>3. DialerInv /\ ConnectInv /\ [Next]_vars
        => [\A c \in Calls : att'[c].status = "CONNECTED" /\ att[c].status \in IN_FLIGHT
                => att[c].lead \notin dnc]_vars
    BY BridgesNoOptOut
<1> QED BY <1>1, <1>2, <1>3, DialerInvariant, PTL DEF Spec, OptedOutNotBridged

=============================================================================
