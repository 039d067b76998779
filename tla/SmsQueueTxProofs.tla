-------------------------- MODULE SmsQueueTxProofs --------------------------
(***************************************************************************)
(* Proofs, for any number of sessions and any interleaving of their        *)
(* transactions, that the tables keep their types and that no suppressing  *)
(* result is ever without its number on the Do-Not-Call list.              *)
(***************************************************************************)
EXTENDS SmsQueueTx, SmsQueueProofs

\* The inductive invariant: what is committed is listed because what is flushed is.
TxInv == TxTypeOK /\ SuppressionSticks /\ MarksListed

-----------------------------------------------------------------------------
(* Column writes *)

LEMMA LeadsWithType ==
    ASSUME NEW w \in [Leads -> LeadWrite],
           NEW L \in [Leads -> LeadRow]
    PROVE  LeadsWith(L, w) \in [Leads -> LeadRow]
BY DEF LeadsWith, Kept, LeadWrite, LeadRow, Written

LEMMA AgentsWithType ==
    ASSUME NEW w \in [Agents -> AgentWrite],
           NEW A \in [Agents -> AgentRow]
    PROVE  AgentsWith(A, w) \in [Agents -> AgentRow]
BY DEF AgentsWith, Kept, AgentWrite, AgentRow, Written

LEMMA LeadWritesOver ==
    ASSUME NEW w \in [Leads -> LeadWrite], NEW v \in [Leads -> LeadWrite]
    PROVE  LeadsWith(v, w) \in [Leads -> LeadWrite]
BY DEF LeadsWith, Kept, LeadWrite, Written

LEMMA AgentWritesOver ==
    ASSUME NEW w \in [Agents -> AgentWrite], NEW v \in [Agents -> AgentWrite]
    PROVE  AgentsWith(v, w) \in [Agents -> AgentWrite]
BY DEF AgentsWith, Kept, AgentWrite, Written

LEMMA LeadWritesType ==
    ASSUME NEW L \in [Leads -> LeadRow], NEW M \in [Leads -> LeadRow]
    PROVE  LeadWrites(L, M) \in [Leads -> LeadWrite]
BY DEF LeadWrites, Changed, LeadWrite, LeadRow, Written

LEMMA AgentWritesType ==
    ASSUME NEW A \in [Agents -> AgentRow], NEW B \in [Agents -> AgentRow]
    PROVE  AgentWrites(A, B) \in [Agents -> AgentWrite]
BY DEF AgentWrites, Changed, AgentWrite, AgentRow, Written

LEMMA NoWritesType ==
    NoLeadWrites \in [Leads -> LeadWrite] /\ NoAgentWrites \in [Agents -> AgentWrite]
BY DEF NoLeadWrites, NoAgentWrites, LeadWrite, AgentWrite, Written

LEMMA IdleType ==
    Idle \in Session
BY NoWritesType DEF Idle, Session

\* What is kept is no suppressing result.
LEMMA NothingMarked ==
    /\ Keep \notin DNC_DISPOSITIONS
    /\ \A l \in Leads : NoLeadWrites[l].disp = Keep
BY KeepAssumption DEF NoLeadWrites

-----------------------------------------------------------------------------
(* A step that changes one session and nothing that is committed *)

\* What a session may hold of suppressing results.
Listed(t) ==
    \A l \in Leads :
        t.lw[l].disp \in DNC_DISPOSITIONS \/ t.plw[l].disp \in DNC_DISPOSITIONS
            => PhoneOf[l] \in t.nums \cup dnc

LEMMA SessionStep ==
    ASSUME TxInv, NEW s \in Sessions, NEW t \in Session, Listed(t),
           tx' = [tx EXCEPT ![s] = t], UNCHANGED vars
    PROVE  TxInv'
<1>1. TypeOK' /\ SuppressionSticks'
  BY DEF TxInv, TxTypeOK, TypeOK, SuppressionSticks, vars
<1>2. tx' \in [Sessions -> Session]
  BY DEF TxInv, TxTypeOK
<1>3. MarksListed'
  <2> SUFFICES ASSUME NEW u \in Sessions, NEW l \in Leads,
                      \/ tx'[u].lw[l].disp \in DNC_DISPOSITIONS
                      \/ tx'[u].plw[l].disp \in DNC_DISPOSITIONS
               PROVE  PhoneOf[l] \in tx'[u].nums \cup dnc'
    BY DEF MarksListed
  <2>1. dnc' = dnc
    BY DEF vars
  <2>2. CASE u = s
    <3>1. tx'[u] = t
      BY <2>2 DEF TxInv, TxTypeOK
    <3>2. QED
      BY <2>1, <3>1 DEF Listed
  <2>3. CASE u # s
    <3>1. tx'[u] = tx[u]
      BY <2>3 DEF TxInv, TxTypeOK
    <3>2. QED
      BY <2>1, <3>1 DEF TxInv, MarksListed
  <2>4. QED
    BY <2>2, <2>3
<1>4. QED
  BY <1>1, <1>2, <1>3 DEF TxInv, TxTypeOK

\* The suppressing results among L are old, or their numbers are listed or in nums.
Marked(L, nums) ==
    \A l \in Leads : L[l].disp \in DNC_DISPOSITIONS =>
        L[l].disp = lead[l].disp \/ PhoneOf[l] \in nums \cup dnc

LEMMA BeginInv ==
    ASSUME TxInv, NEW s \in Sessions, NEW op,
           NEW L \in [Leads -> LeadRow], NEW A \in [Agents -> AgentRow],
           NEW ps \in SUBSET (Agents \X Leads), NEW nums \in SUBSET Phones,
           NEW tail \in {"none", "one", "all"},
           Marked(L, nums), Begin(s, op, L, A, ps, nums, tail)
    PROVE  TxInv'
<1> DEFINE w == LeadWrites(lead, L)
           v == AgentWrites(agent, A)
           t == [Idle EXCEPT !.pc = "loaded", !.op = op, !.tail = tail,
                             !.plw = w, !.paw = v, !.ps = ps, !.nums = nums]
<1>1. w \in [Leads -> LeadWrite] /\ v \in [Agents -> AgentWrite]
  BY LeadWritesType, AgentWritesType DEF TxInv, TxTypeOK, TypeOK
<1>2. op \in Ops /\ tx' = [tx EXCEPT ![s] = t] /\ UNCHANGED vars
  BY DEF Begin
<1>3. ASSUME NEW l \in Leads, w[l].disp \in DNC_DISPOSITIONS
      PROVE  PhoneOf[l] \in nums \cup dnc
  <2>1. w[l].disp = Changed(lead[l].disp, L[l].disp)
    BY DEF LeadWrites
  <2>2. L[l].disp # lead[l].disp /\ L[l].disp \in DNC_DISPOSITIONS
    BY <1>3, <2>1, NothingMarked DEF Changed
  <2>3. QED
    BY <2>2 DEF Marked
<1>4. t.lw = NoLeadWrites /\ t.plw = w /\ t.nums = nums
  BY DEF Idle
<1>5. t \in Session
  <2> HIDE DEF w, v
  <2>1. QED
    BY <1>1, <1>2, IdleType DEF Session
<1>6. Listed(t)
  <2> HIDE DEF w, t
  <2>1. QED
    BY <1>3, <1>4, NothingMarked DEF Listed
<1>7. QED
  <2> HIDE DEF t
  <2>1. QED
    BY <1>2, <1>5, <1>6, SessionStep

-----------------------------------------------------------------------------
(* What the operations make of the tables they read *)

\* An operation that leaves all results alone.
LEMMA UnmarkedBegin ==
    ASSUME TxInv, NEW s \in Sessions, NEW op,
           NEW L \in [Leads -> LeadRow], NEW A \in [Agents -> AgentRow],
           NEW ps \in SUBSET (Agents \X Leads), NEW tail \in {"none", "one", "all"},
           \A l \in Leads : L[l].disp = lead[l].disp,
           Begin(s, op, L, A, ps, {}, tail)
    PROVE  TxInv'
BY BeginInv DEF Marked

LEMMA ReleaseKeepsResults ==
    ASSUME NEW L \in [Leads -> LeadRow], NEW S
    PROVE  \A l \in Leads : /\ Requeue(L, S)[l].disp = L[l].disp
                            /\ CountPass(L, S)[l].disp = L[l].disp
BY DEF Requeue, CountPass, LeadRow

\* One lead's status and result written, and its number listed if the result suppresses.
LEMMA MarkedBy ==
    ASSUME NEW L \in [Leads -> LeadRow], NEW l \in Leads, NEW d,
           \A m \in Leads \ {l} : L[m].disp = lead[m].disp, L[l].disp = d
    PROVE  Marked(L, AddToDnc(l, d) \ dnc)
BY DEF Marked, AddToDnc

LEMMA BeginIngestInv ==
    ASSUME TxInv, NEW s \in Sessions, NEW l \in Leads, NEW blocked \in BOOLEAN,
           BeginIngest(s, l, blocked)
    PROVE  TxInv'
<1> DEFINE L == NewReplyRow(l, blocked)
<1>1. TypeOK /\ lead \in [Leads -> LeadRow] /\ agent \in [Agents -> AgentRow]
  BY DEF TxInv, TxTypeOK, TypeOK
<1>2. L \in [Leads -> LeadRow]
  BY <1>1, NewReplyRowType
<1>3. /\ \A m \in Leads \ {l} : L[m].disp = lead[m].disp
      /\ L[l].disp = IF blocked THEN "UNQUALIFIED" ELSE NoDisp
  BY <1>1 DEF NewReplyRow, LeadRow
<1>4. CASE blocked
  <2>1. Marked(L, AddToDnc(l, "UNQUALIFIED") \ dnc)
    BY <1>2, <1>3, <1>4, MarkedBy
  <2>2. AddToDnc(l, "UNQUALIFIED") \ dnc \in SUBSET Phones
    BY <1>1, AddToDncType
  <2>3. Begin(s, "ingest", L, agent, {}, AddToDnc(l, "UNQUALIFIED") \ dnc, "none")
    BY <1>4 DEF BeginIngest
  <2>4. QED
    BY <1>1, <1>2, <2>1, <2>2, <2>3, BeginInv
<1>5. CASE ~blocked
  <2>1. Marked(L, {})
    BY <1>2, <1>3, <1>5, NullsAssumption DEF Marked, DNC_DISPOSITIONS
  <2>2. Begin(s, "ingest", L, agent, {}, {}, "none")
    BY <1>5 DEF BeginIngest
  <2>3. QED
    BY <1>1, <1>2, <2>1, <2>2, BeginInv
<1>6. QED
  BY <1>4, <1>5

LEMMA BeginAppendInv ==
    ASSUME TxInv, NEW s \in Sessions, NEW l \in Leads, NEW blocked \in BOOLEAN,
           BeginAppend(s, l, blocked)
    PROVE  TxInv'
<1>1. TypeOK /\ lead \in [Leads -> LeadRow] /\ agent \in [Agents -> AgentRow]
  BY DEF TxInv, TxTypeOK, TypeOK
<1>2. ASSUME NEW L, L = [lead EXCEPT ![l].status = "DISPOSITIONED", ![l].disp = "UNQUALIFIED"],
             Begin(s, "append", L, agent, {}, AddToDnc(l, "UNQUALIFIED") \ dnc, "none")
      PROVE  TxInv'
  <2>1. L \in [Leads -> LeadRow]
    BY <1>1, <1>2, NullsAssumption DEF LeadRow, LeadStatus
  <2>2. Marked(L, AddToDnc(l, "UNQUALIFIED") \ dnc)
    <3>1. L[l].disp = "UNQUALIFIED" /\ \A m \in Leads \ {l} : L[m].disp = lead[m].disp
      BY <1>1, <1>2 DEF LeadRow
    <3>2. QED
      BY <2>1, <3>1, MarkedBy
  <2>3. AddToDnc(l, "UNQUALIFIED") \ dnc \in SUBSET Phones
    BY <1>1, AddToDncType
  <2>4. QED
    BY <1>1, <1>2, <2>1, <2>2, <2>3, BeginInv
<1>3. ASSUME NEW L, L = [lead EXCEPT ![l].status = "QUEUED", ![l].disp = NoDisp],
             Begin(s, "append", L, agent, {}, {}, "none")
      PROVE  TxInv'
  <2>1. L \in [Leads -> LeadRow]
    BY <1>1, <1>3 DEF LeadRow, LeadStatus
  <2>2. Marked(L, {})
    BY <1>1, <1>3, NullsAssumption DEF Marked, LeadRow, DNC_DISPOSITIONS
  <2>3. QED
    BY <1>1, <1>3, <2>1, <2>2, BeginInv
<1>4. QED
  BY <1>2, <1>3 DEF BeginAppend

\* Joining, leaving and breaks.
LEMMA BeginLifecycleInv ==
    ASSUME TxInv, NEW s \in Sessions, NEW a \in Agents,
           BeginJoin(s, a) \/ BeginLeave(s, a) \/ BeginBreak(s, a) \/ BeginEndBreak(s, a)
    PROVE  TxInv'
<1>1. lead \in [Leads -> LeadRow] /\ agent \in [Agents -> AgentRow] /\ 0 \in 0..MissLimit
  BY NoMisses DEF TxInv, TxTypeOK, TypeOK
<1>2. /\ Requeue(lead, HeldBy(a)) \in [Leads -> LeadRow]
      /\ \A l \in Leads : Requeue(lead, HeldBy(a))[l].disp = lead[l].disp
  BY <1>1, RequeueType, ReleaseKeepsResults
<1>3. CASE BeginJoin(s, a)
  <2>1. [agent EXCEPT ![a].status = "AVAILABLE", ![a].misses = 0] \in [Agents -> AgentRow]
    BY <1>1 DEF AgentRow, AgentStatus
  <2>2. QED
    BY <1>1, <1>3, <2>1, UnmarkedBegin DEF BeginJoin
<1>4. CASE BeginLeave(s, a)
  <2>1. [agent EXCEPT ![a].current = NoLead, ![a].status = "OFFLINE"] \in [Agents -> AgentRow]
    BY <1>1 DEF AgentRow, AgentStatus
  <2>2. QED
    BY <1>2, <1>4, <2>1, UnmarkedBegin DEF BeginLeave
<1>5. CASE BeginBreak(s, a)
  <2>1. [agent EXCEPT ![a].current = NoLead, ![a].status = "AWAY"] \in [Agents -> AgentRow]
    BY <1>1 DEF AgentRow, AgentStatus
  <2>2. QED
    BY <1>2, <1>5, <2>1, UnmarkedBegin DEF BeginBreak
<1>6. CASE BeginEndBreak(s, a)
  <2>1. [agent EXCEPT ![a].status = "AVAILABLE"] \in [Agents -> AgentRow]
    BY <1>1 DEF AgentRow, AgentStatus
  <2>2. QED
    BY <1>1, <1>6, <2>1, UnmarkedBegin DEF BeginEndBreak
<1>7. QED
  BY <1>3, <1>4, <1>5, <1>6

LEMMA BeginAcceptInv ==
    ASSUME TxInv, NEW s \in Sessions, NEW a \in Agents, NEW l \in Leads, BeginAccept(s, a, l)
    PROVE  TxInv'
<1> DEFINE L == [lead EXCEPT ![l].status = "IN_PROGRESS"]
           A == [agent EXCEPT ![a].status = "ON_CALL", ![a].current = l, ![a].misses = 0]
<1>1. lead \in [Leads -> LeadRow] /\ agent \in [Agents -> AgentRow]
  BY DEF TxInv, TxTypeOK, TypeOK
<1>2. L \in [Leads -> LeadRow] /\ \A m \in Leads : L[m].disp = lead[m].disp
  BY <1>1 DEF LeadRow, LeadStatus
<1>3. A \in [Agents -> AgentRow]
  BY <1>1, NoMisses DEF AgentRow, AgentStatus
<1>4. Begin(s, "accept", L, A, {}, {}, "none")
  BY DEF BeginAccept
<1>5. QED
  <2> HIDE DEF L, A
  <2>1. QED
    BY <1>2, <1>3, <1>4, UnmarkedBegin

LEMMA BeginPassInv ==
    ASSUME TxInv, NEW s \in Sessions, NEW a \in Agents, NEW l \in Leads, BeginPass(s, a, l)
    PROVE  TxInv'
<1> DEFINE back == IF Offered(a, l) THEN {l} ELSE {}
           L == CountPass(Requeue(lead, back), back)
           A == [agent EXCEPT ![a].current = NoLead, ![a].misses = 0]
<1>1. lead \in [Leads -> LeadRow] /\ agent \in [Agents -> AgentRow]
  BY DEF TxInv, TxTypeOK, TypeOK
<1>2. Requeue(lead, back) \in [Leads -> LeadRow]
  BY <1>1, RequeueType
<1>3. L \in [Leads -> LeadRow] /\ \A m \in Leads : L[m].disp = lead[m].disp
  <2> HIDE DEF back
  <2>1. QED
    BY <1>1, <1>2, CountPassType, ReleaseKeepsResults
<1>4. A \in [Agents -> AgentRow]
  BY <1>1, NoMisses DEF AgentRow
<1>5. {a} \X back \in SUBSET (Agents \X Leads)
  OBVIOUS
<1>6. Begin(s, "pass", L, A, {a} \X back, {}, "one")
  BY DEF BeginPass
<1>7. QED
  <2> HIDE DEF back, L, A
  <2>1. QED
    BY <1>3, <1>4, <1>5, <1>6, UnmarkedBegin

LEMMA BeginDispositionInv ==
    ASSUME TxInv, NEW s \in Sessions, NEW a \in Agents, NEW l \in Leads, NEW d \in Dispositions,
           BeginDisposition(s, a, l, d)
    PROVE  TxInv'
<1> DEFINE L == [lead EXCEPT ![l].status = "DISPOSITIONED", ![l].disp = d]
           A == [agent EXCEPT ![a].current = NoLead, ![a].status = "AVAILABLE"]
<1>1. TypeOK /\ lead \in [Leads -> LeadRow] /\ agent \in [Agents -> AgentRow]
  BY DEF TxInv, TxTypeOK, TypeOK
<1>2. L \in [Leads -> LeadRow] /\ A \in [Agents -> AgentRow]
  <2>1. L \in [Leads -> LeadRow]
    BY <1>1 DEF LeadRow, LeadStatus
  <2>2. A \in [Agents -> AgentRow]
    BY <1>1 DEF AgentRow, AgentStatus
  <2>3. QED
    BY <2>1, <2>2
<1>3. L[l].disp = d /\ \A m \in Leads \ {l} : L[m].disp = lead[m].disp
  BY <1>1 DEF LeadRow
<1>4. Begin(s, "disposition", L, A, {}, AddToDnc(l, d) \ dnc, "one")
  BY DEF BeginDisposition
<1>5. QED
  <2> HIDE DEF L, A
  <2>1. Marked(L, AddToDnc(l, d) \ dnc)
    BY <1>2, <1>3, MarkedBy
  <2>2. AddToDnc(l, d) \ dnc \in SUBSET Phones
    BY <1>1, AddToDncType
  <2>3. QED
    BY <1>2, <1>4, <2>1, <2>2, BeginInv

LEMMA BeginReassignInv ==
    ASSUME TxInv, NEW s \in Sessions, NEW a \in Agents, NEW l \in Leads, BeginReassign(s, l, a)
    PROVE  TxInv'
<1> DEFINE L == [lead EXCEPT ![l].owner = a, ![l].status = "ASSIGNED"]
           A == [Detach(agent, lead, {l}) EXCEPT ![a].current = l]
<1>1. lead \in [Leads -> LeadRow] /\ agent \in [Agents -> AgentRow]
  BY DEF TxInv, TxTypeOK, TypeOK
<1>2. L \in [Leads -> LeadRow] /\ \A m \in Leads : L[m].disp = lead[m].disp
  BY <1>1 DEF LeadRow, LeadStatus
<1>3. A \in [Agents -> AgentRow]
  <2>1. Detach(agent, lead, {l}) \in [Agents -> AgentRow]
    BY <1>1, DetachType
  <2>2. QED
    BY <2>1 DEF AgentRow
<1>4. Begin(s, "reassign", L, A, {}, {}, "none")
  BY DEF BeginReassign
<1>5. QED
  <2> HIDE DEF L, A
  <2>1. QED
    BY <1>2, <1>3, <1>4, UnmarkedBegin

LEMMA BeginManagerDispositionInv ==
    ASSUME TxInv, NEW s \in Sessions, NEW l \in Leads, NEW d \in Dispositions,
           BeginManagerDisposition(s, l, d)
    PROVE  TxInv'
<1> DEFINE row == [lead[l] EXCEPT !.status = "DISPOSITIONED", !.disp = d, !.owner = NoAgent]
           L == [lead EXCEPT ![l].status = "DISPOSITIONED", ![l].disp = d, ![l].owner = NoAgent]
           A == Detach(agent, lead, {l})
<1>1. TypeOK /\ lead \in [Leads -> LeadRow] /\ lead[l] \in LeadRow /\ agent \in [Agents -> AgentRow]
  BY DEF TxInv, TxTypeOK, TypeOK
<1>2. row \in LeadRow /\ row.disp = d
  BY <1>1 DEF LeadRow, LeadStatus
<1>3. L = [lead EXCEPT ![l] = row]
  BY <1>1
<1>4. A \in [Agents -> AgentRow]
  BY <1>1, DetachType
<1>5. Begin(s, "manager disposition", L, A, {}, AddToDnc(l, d) \ dnc, "one")
  BY DEF BeginManagerDisposition
<1>6. QED
  <2> HIDE DEF row, L, A
  <2>1. L \in [Leads -> LeadRow] /\ L[l].disp = d
    BY <1>1, <1>2, <1>3
  <2>2. \A m \in Leads \ {l} : L[m].disp = lead[m].disp
    BY <1>1, <1>3
  <2>3. Marked(L, AddToDnc(l, d) \ dnc)
    BY <2>1, <2>2, MarkedBy
  <2>4. AddToDnc(l, d) \ dnc \in SUBSET Phones
    BY <1>1, AddToDncType
  <2>5. QED
    BY <1>4, <1>5, <2>1, <2>3, <2>4, BeginInv

LEMMA BeginRestoreInv ==
    ASSUME TxInv, NEW s \in Sessions, NEW l \in Leads, BeginRestore(s, l)
    PROVE  TxInv'
<1> DEFINE row == [status |-> "QUEUED", owner |-> NoAgent, disp |-> NoDisp, passes |-> 0]
           L == [lead EXCEPT ![l] = row]
<1>1. lead \in [Leads -> LeadRow] /\ agent \in [Agents -> AgentRow]
  BY DEF TxInv, TxTypeOK, TypeOK
<1>2. row \in LeadRow
  BY ConstantsAssumption DEF LeadRow, LeadStatus
<1>3. L \in [Leads -> LeadRow] /\ Marked(L, {})
  BY <1>1, <1>2, NullsAssumption DEF Marked, DNC_DISPOSITIONS
<1>4. Begin(s, "restore", L, agent, {}, {}, "none")
  BY DEF BeginRestore
<1>5. QED
  <2> HIDE DEF L
  <2>1. QED
    BY <1>1, <1>3, <1>4, BeginInv

\* The sweeps and the assign button.
LEMMA BeginSweepInv ==
    ASSUME TxInv, NEW s \in Sessions, BeginAssignNext(s) \/ BeginDistribute(s)
    PROVE  TxInv'
<1>1. lead \in [Leads -> LeadRow] /\ agent \in [Agents -> AgentRow]
  BY DEF TxInv, TxTypeOK, TypeOK
<1>2. QED
  BY <1>1, UnmarkedBegin DEF BeginAssignNext, BeginDistribute

LEMMA BeginRebroadcastInv ==
    ASSUME TxInv, NEW s \in Sessions, NEW S \in SUBSET Leads, BeginRebroadcast(s, S)
    PROVE  TxInv'
<1> DEFINE counted == {l \in S : lead[l].owner # NoAgent}
           L == CountPass(Requeue(lead, S), counted)
           A == [a \in Agents |-> Parked(a, S)]
<1>1. TypeOK /\ lead \in [Leads -> LeadRow]
  BY DEF TxInv, TxTypeOK, TypeOK
<1>2. Requeue(lead, S) \in [Leads -> LeadRow]
  BY <1>1, RequeueType
<1>3. L \in [Leads -> LeadRow] /\ \A m \in Leads : L[m].disp = lead[m].disp
  BY <1>1, <1>2, CountPassType, ReleaseKeepsResults
<1>4. A \in [Agents -> AgentRow]
  BY <1>1, ParkedType
<1>5. Begin(s, "rebroadcast", L, A, {}, {}, "all")
  BY DEF BeginRebroadcast
<1>6. QED
  <2> HIDE DEF L, A
  <2>1. QED
    BY <1>3, <1>4, <1>5, UnmarkedBegin

LEMMA BeginReapInv ==
    ASSUME TxInv, NEW s \in Sessions, NEW S \in SUBSET Agents, BeginReap(s, S)
    PROVE  TxInv'
<1> DEFINE L == CountPass(Requeue(lead, CurrentOf(S)), CurrentOf(S))
<1>1. TypeOK /\ lead \in [Leads -> LeadRow]
  BY DEF TxInv, TxTypeOK, TypeOK
<1>2. Requeue(lead, CurrentOf(S)) \in [Leads -> LeadRow]
  BY <1>1, RequeueType
<1>3. L \in [Leads -> LeadRow] /\ \A m \in Leads : L[m].disp = lead[m].disp
  BY <1>1, <1>2, CountPassType, ReleaseKeepsResults
<1>4. Offline(S) \in [Agents -> AgentRow]
  BY <1>1, OfflineType
<1>5. Begin(s, "reap", L, Offline(S), {}, {}, "all")
  BY DEF BeginReap
<1>6. QED
  <2> HIDE DEF L
  <2>1. QED
    BY <1>3, <1>4, <1>5, UnmarkedBegin

LEMMA BeginSomeInv ==
    ASSUME TxInv, NEW s \in Sessions, BeginSome(s)
    PROVE  TxInv'
<1>1. ASSUME NEW l \in Leads, NEW blocked \in BOOLEAN,
             BeginIngest(s, l, blocked) \/ BeginAppend(s, l, blocked)
      PROVE  TxInv'
  BY <1>1, BeginIngestInv, BeginAppendInv
<1>2. ASSUME NEW a \in Agents,
             BeginJoin(s, a) \/ BeginLeave(s, a) \/ BeginBreak(s, a) \/ BeginEndBreak(s, a)
      PROVE  TxInv'
  BY <1>2, BeginLifecycleInv
<1>3. ASSUME NEW a \in Agents, NEW l \in Leads,
             \/ BeginAccept(s, a, l) \/ BeginPass(s, a, l) \/ BeginReassign(s, l, a)
             \/ \E d \in Dispositions : BeginDisposition(s, a, l, d)
      PROVE  TxInv'
  BY <1>3, BeginAcceptInv, BeginPassInv, BeginReassignInv, BeginDispositionInv
<1>4. ASSUME NEW l \in Leads,
             \/ BeginRestore(s, l)
             \/ \E d \in MANAGER_DISPOSITIONS \cap Dispositions : BeginManagerDisposition(s, l, d)
      PROVE  TxInv'
  BY <1>4, BeginRestoreInv, BeginManagerDispositionInv
<1>5. CASE BeginAssignNext(s) \/ BeginDistribute(s)
  BY <1>5, BeginSweepInv
<1>6. ASSUME NEW S \in SUBSET Leads, BeginRebroadcast(s, S)
      PROVE  TxInv'
  BY <1>6, BeginRebroadcastInv
<1>7. ASSUME NEW S \in SUBSET Agents, BeginReap(s, S)
      PROVE  TxInv'
  BY <1>7, BeginReapInv
<1>8. QED
  BY <1>1, <1>2, <1>3, <1>4, <1>5, <1>6, <1>7 DEF BeginSome

-----------------------------------------------------------------------------
(* The rest of a transaction *)

LEMMA FlushInv ==
    ASSUME TxInv, NEW s \in Sessions, Flush(s)
    PROVE  TxInv'
<1> DEFINE lw == LeadsWith(tx[s].lw, tx[s].plw)
           aw == AgentsWith(tx[s].aw, tx[s].paw)
           t == [tx[s] EXCEPT !.pc = "open", !.lw = lw, !.plw = NoLeadWrites,
                              !.aw = aw, !.paw = NoAgentWrites]
<1>1. tx \in [Sessions -> Session] /\ tx[s] \in Session
  BY DEF TxInv, TxTypeOK
<1>2. lw \in [Leads -> LeadWrite] /\ aw \in [Agents -> AgentWrite]
  BY <1>1, LeadWritesOver, AgentWritesOver DEF Session
<1>3. UNCHANGED vars /\ tx' = [tx EXCEPT ![s] = t]
  <2>1. UNCHANGED vars
    BY DEF Flush
  <2>2. tx' = [tx EXCEPT ![s].pc = "open", ![s].lw = lw, ![s].plw = NoLeadWrites,
                         ![s].aw = aw, ![s].paw = NoAgentWrites]
    BY <1>1 DEF Flush, Session
  <2>3. QED
    <3> HIDE DEF lw, aw
    <3>1. QED
      BY <1>1, <2>1, <2>2 DEF Session
<1>4. t \in Session /\ t.lw = lw /\ t.plw = NoLeadWrites /\ t.nums = tx[s].nums
  <2> HIDE DEF lw, aw
  <2>1. QED
    BY <1>1, <1>2, NoWritesType DEF Session
<1>5. Listed(t)
  <2> SUFFICES ASSUME NEW l \in Leads, lw[l].disp \in DNC_DISPOSITIONS
               PROVE  PhoneOf[l] \in tx[s].nums \cup dnc
    <3> HIDE DEF t, lw
    <3>1. QED
      BY <1>4, NothingMarked DEF Listed
  <2>1. lw[l].disp = Kept(tx[s].plw[l].disp, tx[s].lw[l].disp)
    BY DEF LeadsWith
  <2>2. lw[l].disp \in {tx[s].plw[l].disp, tx[s].lw[l].disp}
    BY <2>1 DEF Kept
  <2>3. QED
    BY <2>2 DEF TxInv, MarksListed
<1>6. QED
  <2> HIDE DEF t
  <2>1. QED
    BY <1>3, <1>4, <1>5, SessionStep

LEMMA PickInv ==
    ASSUME TxInv, NEW s \in Sessions, Pick(s)
    PROVE  TxInv'
<1>1. tx \in [Sessions -> Session] /\ tx[s] \in Session
  BY DEF TxInv, TxTypeOK
<1>2. UNCHANGED vars /\ Listed(tx[s])
  BY DEF Pick, TxInv, MarksListed, Listed
<1>3. CASE tx' = [tx EXCEPT ![s].tail = "none"]
  <2> DEFINE t == [tx[s] EXCEPT !.tail = "none"]
  <2>1. tx' = [tx EXCEPT ![s] = t] /\ t \in Session /\ Listed(t)
    BY <1>1, <1>2, <1>3 DEF Session, Listed
  <2>2. QED
    <3> HIDE DEF t
    <3>1. QED
      BY <1>2, <2>1, SessionStep
<1>4. ASSUME NEW a \in Agents, NEW l \in Leads,
             Offering(s, LeadsWith(lead, tx[s].lw), AgentsWith(agent, tx[s].aw), a, l)
      PROVE  TxInv'
  <2> DEFINE L == LeadsWith(lead, tx[s].lw)
             M == [L EXCEPT ![l].status = "ASSIGNED", ![l].owner = a]
             A == AgentsWith(agent, tx[s].aw)
             B == [A EXCEPT ![a].current = l]
             plw == LeadWrites(L, M)
             paw == AgentWrites(A, B)
             n == IF tx[s].tail = "one" THEN "none" ELSE tx[s].tail
             t == [tx[s] EXCEPT !.pc = "offering", !.tail = n, !.plw = plw, !.paw = paw]
  <2>1. L \in [Leads -> LeadRow] /\ A \in [Agents -> AgentRow]
    BY <1>1, LeadsWithType, AgentsWithType DEF TxInv, TxTypeOK, TypeOK, Session
  <2>2. M \in [Leads -> LeadRow] /\ \A m \in Leads : M[m].disp = L[m].disp
    <3> HIDE DEF L
    <3>1. QED
      BY <2>1 DEF LeadRow, LeadStatus
  <2>3. B \in [Agents -> AgentRow]
    <3> HIDE DEF A
    <3>1. QED
      BY <2>1 DEF AgentRow
  <2>4. plw \in [Leads -> LeadWrite] /\ paw \in [Agents -> AgentWrite]
    <3> HIDE DEF L, M, A, B
    <3>1. QED
      BY <2>1, <2>2, <2>3, LeadWritesType, AgentWritesType
  <2>5. \A m \in Leads : plw[m].disp = Keep
    <3> HIDE DEF L, M
    <3>1. QED
      BY <2>2 DEF LeadWrites, Changed
  <2>6. n \in {"none", "one", "all"}
    BY <1>1 DEF Session
  <2>7. tx' = [tx EXCEPT ![s] = t]
    <3>1. tx' = [tx EXCEPT ![s].pc = "offering", ![s].tail = n, ![s].plw = plw, ![s].paw = paw]
      BY <1>1, <1>4 DEF Offering, Session
    <3>2. QED
      <4> HIDE DEF plw, paw, n
      <4>1. QED
        BY <1>1, <3>1 DEF Session
  <2>8. t \in Session /\ t.lw = tx[s].lw /\ t.plw = plw /\ t.nums = tx[s].nums
    <3> HIDE DEF plw, paw, n
    <3>1. QED
      BY <1>1, <2>4, <2>6 DEF Session
  <2>9. Listed(t)
    <3> HIDE DEF plw, t
    <3>1. QED
      BY <1>2, <2>5, <2>8, NothingMarked DEF Listed
  <2>10. QED
    <3> HIDE DEF t
    <3>1. QED
      BY <1>2, <2>7, <2>8, <2>9, SessionStep
<1>5. \/ tx' = [tx EXCEPT ![s].tail = "none"]
      \/ \E a \in Agents, l \in Leads :
            Offering(s, LeadsWith(lead, tx[s].lw), AgentsWith(agent, tx[s].aw), a, l)
  BY DEF Pick, AvailableAgents
<1>6. QED
  BY <1>3, <1>4, <1>5

LEMMA RollbackInv ==
    ASSUME TxInv, NEW s \in Sessions, Rollback(s)
    PROVE  TxInv'
<1>1. Listed(Idle)
  BY NothingMarked DEF Listed, Idle
<1>2. QED
  BY <1>1, IdleType, SessionStep DEF Rollback

LEMMA CommitInv ==
    ASSUME TxInv, NEW s \in Sessions, Commit(s)
    PROVE  TxInv'
<1>1. /\ TypeOK /\ tx \in [Sessions -> Session] /\ tx[s] \in Session
      /\ lead \in [Leads -> LeadRow] /\ agent \in [Agents -> AgentRow]
  BY DEF TxInv, TxTypeOK, TypeOK
<1>2. dnc' = dnc \cup tx[s].nums
  BY DEF Commit
<1>3. TypeOK'
  <2>1. lead' \in [Leads -> LeadRow] /\ agent' \in [Agents -> AgentRow]
    BY <1>1, LeadsWithType, AgentsWithType DEF Commit, Session
  <2>2. QED
    BY <1>1, <2>1 DEF Commit, Session, TypeOK
<1>4. ASSUME NEW u \in Sessions
      PROVE  /\ tx'[u] \in Session
             /\ \/ tx'[u] = Idle
                \/ /\ tx'[u].lw = tx[u].lw /\ tx'[u].plw = tx[u].plw
                   /\ tx'[u].nums = tx[u].nums
  <2> DEFINE t == [tx[u] EXCEPT !.late = @ \cup LeadRows(tx[s].lw)]
  <2>1. tx'[u] = Idle \/ tx'[u] = t
    BY DEF Commit
  <2>2. tx[u] \in Session /\ LeadRows(tx[s].lw) \subseteq Leads
    BY <1>1 DEF LeadRows
  <2>3. t \in Session /\ t.lw = tx[u].lw /\ t.plw = tx[u].plw /\ t.nums = tx[u].nums
    BY <2>2 DEF Session
  <2>4. QED
    <3> HIDE DEF t
    <3>1. QED
      BY <2>1, <2>3, IdleType
<1>5. tx' \in [Sessions -> Session]
  BY <1>4 DEF Commit
<1>6. SuppressionSticks'
  <2> SUFFICES ASSUME NEW l \in Leads, lead'[l].disp \in DNC_DISPOSITIONS
               PROVE  PhoneOf[l] \in dnc'
    BY DEF SuppressionSticks
  <2>1. lead'[l].disp = Kept(tx[s].lw[l].disp, lead[l].disp)
    BY DEF Commit, LeadsWith
  <2>2. lead'[l].disp \in {tx[s].lw[l].disp, lead[l].disp}
    BY <2>1 DEF Kept
  <2>3. QED
    BY <1>2, <2>2 DEF TxInv, MarksListed, SuppressionSticks
<1>7. MarksListed'
  <2> SUFFICES ASSUME NEW u \in Sessions, NEW l \in Leads,
                      \/ tx'[u].lw[l].disp \in DNC_DISPOSITIONS
                      \/ tx'[u].plw[l].disp \in DNC_DISPOSITIONS
               PROVE  PhoneOf[l] \in tx'[u].nums \cup dnc'
    BY DEF MarksListed
  <2>1. tx'[u] # Idle
    BY NothingMarked DEF Idle
  <2>2. QED
    BY <1>2, <1>4, <2>1 DEF TxInv, MarksListed
<1>8. QED
  BY <1>3, <1>5, <1>6, <1>7 DEF TxInv, TxTypeOK

LEMMA PassAgesInv ==
    ASSUME TxInv, PassAges
    PROVE  TxInv'
<1>1. PICK a \in Agents, l \in Leads : CooldownEnds(a, l) /\ UNCHANGED tx
  BY DEF PassAges
<1>2. TypeOK'
  BY <1>1 DEF TxInv, TxTypeOK, TypeOK, CooldownEnds
<1>3. QED
  BY <1>1, <1>2 DEF TxInv, TxTypeOK, SuppressionSticks, MarksListed, CooldownEnds

-----------------------------------------------------------------------------
(* The theorems *)

LEMMA TxInit_TxInv ==
    TxInit => TxInv
<1> SUFFICES ASSUME TxInit
             PROVE  TxInv
  OBVIOUS
<1>1. TypeOK /\ tx \in [Sessions -> Session]
  BY InitType, IdleType DEF TxInit
<1>2. SuppressionSticks
  BY NullsAssumption DEF TxInit, Init, SuppressionSticks, DNC_DISPOSITIONS
<1>3. MarksListed
  BY NothingMarked DEF TxInit, MarksListed, Idle
<1>4. QED
  BY <1>1, <1>2, <1>3 DEF TxInv, TxTypeOK

LEMMA TxNext_TxInv ==
    TxInv /\ [TxNext]_txVars => TxInv'
<1>1. TxInv /\ TxNext => TxInv'
  BY BeginSomeInv, FlushInv, PickInv, CommitInv, RollbackInv, PassAgesInv DEF TxNext
<1>2. TxInv /\ UNCHANGED txVars => TxInv'
  BY DEF txVars, TxInv, TxTypeOK, TypeOK, SuppressionSticks, MarksListed
<1>3. QED
  BY <1>1, <1>2

LEMMA TxInvariant ==
    TxSpec => []TxInv
<1>1. QED
  BY TxInit_TxInv, TxNext_TxInv, PTL DEF TxSpec

\* Column by column writes of any overlapping transactions leave the tables well-typed.
THEOREM TxTypeCorrect ==
    TxSpec => []TxTypeOK
<1>1. TxInv => TxTypeOK
  BY DEF TxInv
<1>2. QED
  BY <1>1, TxInvariant, PTL

\* Of all the invariants of SmsQueue this one needs no isolation: the result and the
\* number are inserted by one transaction, and no other one takes the number away.
THEOREM TxSuppressionIsListed ==
    TxSpec => [](SuppressionSticks /\ MarksListed)
<1>1. TxInv => SuppressionSticks /\ MarksListed
  BY DEF TxInv
<1>2. QED
  BY <1>1, TxInvariant, PTL

=============================================================================
