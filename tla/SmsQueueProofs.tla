--------------------------- MODULE SmsQueueProofs ---------------------------
(***************************************************************************)
(* Proofs, for every value of the constants, of the safety properties of   *)
(* SmsQueue.  Nearly every operation ends by assigning from tables it has  *)
(* just changed; AssignerOutcome says what that leaves, whatever the       *)
(* tables, and the operations are argued from it.                          *)
(***************************************************************************)
EXTENDS SmsQueue, FiniteSetTheorems, TLAPS

-----------------------------------------------------------------------------
(* The tables keep their types *)

LEMMA RequeueType ==
    ASSUME NEW L \in [Leads -> LeadRow], NEW S
    PROVE  Requeue(L, S) \in [Leads -> LeadRow]
BY DEF Requeue, LeadRow, LeadStatus

LEMMA CountPassType ==
    ASSUME NEW L \in [Leads -> LeadRow], NEW S
    PROVE  CountPass(L, S) \in [Leads -> LeadRow]
<1>1. ASSUME NEW l \in Leads
      PROVE  Capped(L[l].passes + 1, PassCap) \in 0..PassCap
  BY ConstantsAssumption DEF Capped, LeadRow
<1>2. QED
  BY <1>1 DEF CountPass, LeadRow

LEMMA TombstoneType ==
    ASSUME NEW L \in [Leads -> LeadRow], NEW S
    PROVE  Tombstone(L, S) \in [Leads -> LeadRow]
BY ConstantsAssumption DEF Tombstone, LeadRow, LeadStatus

LEMMA DetachType ==
    ASSUME NEW A \in [Agents -> AgentRow], NEW L, NEW S
    PROVE  Detach(A, L, S) \in [Agents -> AgentRow]
BY DEF Detach, AgentRow

\* What an assignment leaves of the tables L and A, when it skips the passes P and
\* the paused lists of B: each lead is as it was, or was in the pool and is now the
\* offer, and the current lead, of an available agent who had not passed it; of
\* an agent only the current lead changes.
AssignerOutcome(L, A, P, B) ==
    /\ lead' \in [Leads -> LeadRow]
    /\ agent' \in [Agents -> AgentRow]
    /\ \A l \in Leads :
          \/ lead'[l] = L[l]
          \/ \E a \in AvailableAgents(A) :
                /\ l \in Choices(a, L, P, B)
                /\ lead'[l] = [L[l] EXCEPT !.status = "ASSIGNED", !.owner = a]
                /\ agent'[a].current = l
    /\ \A a \in Agents : agent'[a].status = A[a].status

\* Handing leads of the agents' choice to available agents has that outcome.
LEMMA HandOutcome ==
    ASSUME NEW L \in [Leads -> LeadRow], NEW A \in [Agents -> AgentRow], NEW P, NEW B,
           NEW D \in SUBSET AvailableAgents(A), NEW m \in [D -> Leads],
           \A a \in D : m[a] \in Choices(a, L, P, B),
           Hand(m, L, A)
    PROVE  AssignerOutcome(L, A, P, B)
<1> D \subseteq Agents
  BY DEF AvailableAgents
<1>1. agent' = [a \in Agents |-> IF a \in D THEN [A[a] EXCEPT !.current = m[a]] ELSE A[a]]
  BY DEF Hand
<1>2. agent' \in [Agents -> AgentRow]
  BY <1>1 DEF AgentRow
<1>3. \A a \in Agents : agent'[a].status = A[a].status
  BY <1>1 DEF AgentRow
<1>4. ASSUME NEW l \in Leads, ~\E a \in D : m[a] = l
      PROVE  lead'[l] = L[l]
  BY <1>4 DEF Hand
<1>5. ASSUME NEW l \in Leads, NEW b \in D, m[b] = l
      PROVE  \E a \in D : /\ l \in Choices(a, L, P, B)
                          /\ lead'[l] = [L[l] EXCEPT !.status = "ASSIGNED", !.owner = a]
                          /\ agent'[a].current = l
  <2> DEFINE a == CHOOSE x \in D : m[x] = l
  <2>1. a \in D /\ m[a] = l
    BY <1>5
  <2>2. lead'[l] = [L[l] EXCEPT !.status = "ASSIGNED", !.owner = a]
    BY <1>5 DEF Hand
  <2>3. agent'[a].current = l
    BY <2>1, <1>1 DEF AgentRow
  <2>4. QED
    BY <2>1, <2>2, <2>3
<1>6. ASSUME NEW l \in Leads
      PROVE  lead'[l] \in LeadRow
  <2>1. CASE \E b \in D : m[b] = l
    <3>1. PICK a \in D : lead'[l] = [L[l] EXCEPT !.status = "ASSIGNED", !.owner = a]
      BY <2>1, <1>5
    <3>2. a \in Agents /\ L[l] \in LeadRow
      OBVIOUS
    <3>3. QED
      BY <3>1, <3>2 DEF LeadRow, LeadStatus
  <2>2. CASE ~\E b \in D : m[b] = l
    BY <2>2, <1>4
  <2>3. QED
    BY <2>1, <2>2
<1>7. lead' \in [Leads -> LeadRow]
  <2>1. lead' = [l \in Leads |-> lead'[l]]
    BY DEF Hand
  <2>2. QED
    BY <2>1, <1>6
<1>8. QED
  BY <1>2, <1>3, <1>4, <1>5, <1>7 DEF AssignerOutcome

LEMMA TryAssignOutcome ==
    ASSUME NEW L \in [Leads -> LeadRow], NEW A \in [Agents -> AgentRow], NEW P, NEW B,
           TryAssign(L, A, P, B)
    PROVE  AssignerOutcome(L, A, P, B)
<1>1. CASE lead' = L /\ agent' = A
  BY <1>1 DEF AssignerOutcome
<1>2. CASE \E a \in AvailableAgents(A), l \in Leads :
              FirstOf(l, Choices(a, L, P, B)) /\ Hand([x \in {a} |-> l], L, A)
  <2>1. PICK a \in AvailableAgents(A), l \in Leads :
              FirstOf(l, Choices(a, L, P, B)) /\ Hand([x \in {a} |-> l], L, A)
    BY <1>2
  <2>2. [x \in {a} |-> l] \in [{a} -> Leads] /\ {a} \in SUBSET AvailableAgents(A)
    OBVIOUS
  <2>3. \A x \in {a} : [y \in {a} |-> l][x] \in Choices(x, L, P, B)
    BY <2>1 DEF FirstOf
  <2>4. QED
    BY <2>1, <2>2, <2>3, HandOutcome
<1>3. QED
  BY <1>1, <1>2 DEF TryAssign

LEMMA TryAssignAllOutcome ==
    ASSUME NEW L \in [Leads -> LeadRow], NEW A \in [Agents -> AgentRow], NEW P, NEW B,
           TryAssignAll(L, A, P, B)
    PROVE  AssignerOutcome(L, A, P, B)
<1>0. PICK D \in SUBSET AvailableAgents(A) :
              \E m \in [D -> Leads] : Deal(m, L, A, P, B) /\ Hand(m, L, A)
  BY DEF TryAssignAll
<1>1. PICK m \in [D -> Leads] : Deal(m, L, A, P, B) /\ Hand(m, L, A)
  BY <1>0
<1>2. \A a \in D : m[a] \in Choices(a, L, P, B)
  BY <1>1 DEF Deal, FirstOf
<1>3. QED
  BY <1>1, <1>2, HandOutcome

-----------------------------------------------------------------------------
(* Type correctness *)

\* An offer missed, and the row of the agent who missed it.
LEMMA ParkedType ==
    ASSUME TypeOK, NEW a \in Agents, NEW S \in SUBSET Leads
    PROVE  Parked(a, S) \in AgentRow
<1> DEFINE c == Cardinality(MissedBy(a, S))
           n == Capped(agent[a].misses + c, MissLimit)
           row == [agent[a] EXCEPT !.misses = n,
                                   !.current = IF agent[a].current \in MissedBy(a, S)
                                               THEN NoLead ELSE agent[a].current]
<1>1. c \in Nat
  <2>1. IsFiniteSet(MissedBy(a, S))
    BY FiniteAssumption, FS_Subset DEF MissedBy
  <2>2. QED
    BY <2>1, FS_CardinalityType
<1>2. agent[a] \in AgentRow
  BY DEF TypeOK
<1>3. n \in 0..MissLimit
  <2>1. agent[a].misses \in Nat /\ MissLimit \in Nat
    BY <1>2, ConstantsAssumption DEF AgentRow
  <2>2. QED
    BY <1>1, <2>1 DEF Capped
<1>4. row \in AgentRow
  BY <1>2, <1>3 DEF AgentRow
<1>5. [row EXCEPT !.status = "AWAY"] \in AgentRow
  BY <1>4 DEF AgentRow, AgentStatus
<1>6. Parked(a, S) = IF MissedBy(a, S) # {} /\ n >= MissLimit /\ row.status = "AVAILABLE"
                     THEN [row EXCEPT !.status = "AWAY"] ELSE row
  BY DEF Parked
<1>7. QED
  BY <1>4, <1>5, <1>6

LEMMA OfflineType ==
    ASSUME TypeOK, NEW S
    PROVE  Offline(S) \in [Agents -> AgentRow]
BY DEF Offline, TypeOK, AgentRow, AgentStatus

LEMMA NewReplyRowType ==
    ASSUME TypeOK, NEW l \in Leads, NEW blocked \in BOOLEAN
    PROVE  NewReplyRow(l, blocked) \in [Leads -> LeadRow]
<1> DEFINE status == IF blocked THEN "DISPOSITIONED" ELSE "QUEUED"
           disp   == IF blocked THEN "UNQUALIFIED" ELSE NoDisp
           row    == [lead[l] EXCEPT !.status = status, !.disp = disp]
<1>1. lead \in [Leads -> LeadRow] /\ lead[l] \in LeadRow
  BY DEF TypeOK
<1>2. status \in LeadStatus /\ disp \in Dispositions \cup {NoDisp}
  BY NullsAssumption DEF LeadStatus
<1>3. row \in LeadRow
  <2> HIDE DEF status, disp
  <2>1. QED
    BY <1>1, <1>2 DEF LeadRow
<1>4. NewReplyRow(l, blocked) = [lead EXCEPT ![l] = row]
  <2> HIDE DEF status, disp
  <2>1. NewReplyRow(l, blocked) = [lead EXCEPT ![l].status = status, ![l].disp = disp]
    BY DEF NewReplyRow, status, disp
  <2>2. QED
    BY <1>1, <2>1
<1>5. QED
  <2> HIDE DEF row
  <2>1. QED
    BY <1>1, <1>3, <1>4

LEMMA AddToDncType ==
    ASSUME TypeOK, NEW l \in Leads, NEW d
    PROVE  AddToDnc(l, d) \subseteq Phones /\ dnc \subseteq AddToDnc(l, d)
BY ConstantsAssumption DEF AddToDnc, TypeOK

-----------------------------------------------------------------------------
(* The shape of a step: every operation makes of the tables some L and A,  *)
(* and assigns from those (an operation that does not assign makes lead'   *)
(* and agent' of them).  What the properties need is what it may make.     *)

\* Nobody comes to hold a lead by it, but for the agent a manager names.
KeepsHolders(L) ==
    \A l \in Leads : L[l].status \in Held =>
        \/ L[l].owner = lead[l].owner /\ lead[l].status \in {"ASSIGNED", L[l].status}
        \/ \E a \in Agents : Reassign(l, a) /\ L[l].owner = a

\* A suppressing result is as old as the row, or its number is listed now.
KeepsSuppression(L) ==
    /\ dnc \subseteq dnc'
    /\ \A l \in Leads : L[l].disp \in DNC_DISPOSITIONS =>
          L[l].disp = lead[l].disp \/ PhoneOf[l] \in dnc'

\* A lead parked with one is queued for a reply, or its number was not listed.
KeepsParked(L) ==
    \A l \in Leads :
        /\ lead[l].status = "DISPOSITIONED" /\ lead[l].disp \in DNC_DISPOSITIONS
        /\ L[l].status = "QUEUED"
        => MirrorAppend(l, FALSE) \/ PhoneOf[l] \notin dnc

StepFrom(L, A) ==
    /\ AssignerOutcome(L, A, passed', batch')
    /\ KeepsHolders(L) /\ KeepsSuppression(L) /\ KeepsParked(L)

StepShape ==
    /\ TypeOK'
    /\ \E L \in [Leads -> LeadRow], A \in [Agents -> AgentRow] : StepFrom(L, A)

\* The leads of L are as they were, but for those released from whoever held them.
Releases(L) ==
    \A l \in Leads :
        /\ L[l].disp = lead[l].disp
        /\ \/ L[l].status = lead[l].status /\ L[l].owner = lead[l].owner
           \/ lead[l].status \in Held /\ L[l].status = "QUEUED"

LEMMA ReleaseShape ==
    ASSUME TypeOK, NEW L \in [Leads -> LeadRow], NEW A \in [Agents -> AgentRow],
           Releases(L), AssignerOutcome(L, A, passed', batch'),
           passed' \subseteq Agents \X Leads, batch' \in [Batches -> BatchRow],
           handCall' \subseteq Agents, dnc' = dnc
    PROVE  StepShape
<1>1. KeepsHolders(L)
  BY DEF Releases, KeepsHolders, Held
<1>2. KeepsSuppression(L)
  BY DEF Releases, KeepsSuppression
<1>3. KeepsParked(L)
  BY DEF Releases, KeepsParked, Held
<1>4. TypeOK'
  BY DEF TypeOK, AssignerOutcome
<1>5. QED
  BY <1>1, <1>2, <1>3, <1>4 DEF StepShape, StepFrom

LEMMA RequeueReleases ==
    ASSUME TypeOK, NEW S, \A l \in S : lead[l].status \in Held
    PROVE  Releases(Requeue(lead, S))
BY DEF Releases, Requeue, TypeOK, LeadRow

LEMMA CountPassReleases ==
    ASSUME TypeOK, NEW L \in [Leads -> LeadRow], Releases(L), NEW S
    PROVE  Releases(CountPass(L, S))
BY DEF Releases, CountPass, LeadRow

-----------------------------------------------------------------------------
(* Operations that only release leads *)

LEMMA NoMisses ==
    0 \in 0..MissLimit
BY ConstantsAssumption

LEMMA UntouchedReleases ==
    Releases(lead)
BY DEF Releases

LEMMA LifecycleShape ==
    ASSUME TypeOK, NEW a \in Agents, Join(a) \/ Leave(a) \/ StartBreak(a) \/ EndBreak(a)
    PROVE  StepShape
<1>1. lead \in [Leads -> LeadRow] /\ agent \in [Agents -> AgentRow]
  BY DEF TypeOK
<1>2. Requeue(lead, HeldBy(a)) \in [Leads -> LeadRow] /\ Releases(Requeue(lead, HeldBy(a)))
  BY <1>1, RequeueType, RequeueReleases DEF HeldBy
<1>3. CASE Join(a)
  <2> DEFINE A == [agent EXCEPT ![a].status = "AVAILABLE", ![a].misses = 0]
  <2>1. A \in [Agents -> AgentRow]
    BY <1>1, NoMisses DEF AgentRow, AgentStatus
  <2>2. AssignerOutcome(lead, A, passed', batch')
    BY <1>1, <1>3, <2>1, TryAssignOutcome DEF Join
  <2>3. QED
    BY <1>1, <1>3, <2>1, <2>2, UntouchedReleases, ReleaseShape DEF Join, TypeOK
<1>4. CASE Leave(a)
  <2> DEFINE A == [agent EXCEPT ![a].current = NoLead, ![a].status = "OFFLINE"]
  <2>1. A \in [Agents -> AgentRow]
    BY <1>1 DEF AgentRow, AgentStatus
  <2>2. AssignerOutcome(Requeue(lead, HeldBy(a)), A, passed', batch')
    BY <1>2, <1>4, <2>1, TryAssignOutcome DEF Leave
  <2>3. QED
    BY <1>2, <1>4, <2>1, <2>2, ReleaseShape DEF Leave, TypeOK
<1>5. CASE StartBreak(a)
  <2> DEFINE A == [agent EXCEPT ![a].current = NoLead, ![a].status = "AWAY"]
  <2>1. A \in [Agents -> AgentRow]
    BY <1>1 DEF AgentRow, AgentStatus
  <2>2. AssignerOutcome(Requeue(lead, HeldBy(a)), A, passed', batch')
    BY <1>2, <1>5, <2>1, TryAssignOutcome DEF StartBreak
  <2>3. QED
    BY <1>2, <1>5, <2>1, <2>2, ReleaseShape DEF StartBreak, TypeOK
<1>6. CASE EndBreak(a)
  <2> DEFINE A == [agent EXCEPT ![a].status = "AVAILABLE"]
  <2>1. A \in [Agents -> AgentRow]
    BY <1>1 DEF AgentRow, AgentStatus
  <2>2. AssignerOutcome(lead, A, passed', batch')
    BY <1>1, <1>6, <2>1, TryAssignOutcome DEF EndBreak
  <2>3. QED
    BY <1>1, <1>6, <2>1, <2>2, UntouchedReleases, ReleaseShape DEF EndBreak, TypeOK
<1>7. QED
  BY <1>3, <1>4, <1>5, <1>6

\* An operation that does not assign is one whose assigner found nobody.
LEMMA UnassignedOutcome ==
    ASSUME NEW L \in [Leads -> LeadRow], NEW A \in [Agents -> AgentRow], NEW P, NEW B,
           lead' = L, agent' = A
    PROVE  AssignerOutcome(L, A, P, B)
BY DEF AssignerOutcome

LEMMA LeaveSmsQueueShape ==
    ASSUME TypeOK, NEW a \in Agents, LeaveSmsQueue(a)
    PROVE  StepShape
<1> DEFINE L == Requeue(lead, {l \in HeldBy(a) : lead[l].status = "ASSIGNED"})
           A == [agent EXCEPT ![a].current = NoLead, ![a].status = "OFFLINE"]
<1>1. lead \in [Leads -> LeadRow] /\ agent \in [Agents -> AgentRow]
  BY DEF TypeOK
<1>2. L \in [Leads -> LeadRow] /\ Releases(L)
  BY <1>1, RequeueType, RequeueReleases DEF HeldBy
<1>3. A \in [Agents -> AgentRow]
  BY <1>1 DEF AgentRow, AgentStatus
<1>4. lead' = L /\ agent' = A /\ UNCHANGED <<passed, dnc, batch, handCall>>
  BY DEF LeaveSmsQueue
<1>5. QED
  <2> HIDE DEF L, A
  <2>1. AssignerOutcome(L, A, passed', batch')
    BY <1>2, <1>3, <1>4, UnassignedOutcome
  <2>2. QED
    BY <1>2, <1>3, <1>4, <2>1, ReleaseShape DEF TypeOK

LEMMA PassShape ==
    ASSUME TypeOK, NEW a \in Agents, NEW l \in Leads, Pass(a, l)
    PROVE  StepShape
<1> DEFINE mine == lead[l].status = "ASSIGNED" /\ lead[l].owner = a
           back == IF mine THEN {l} ELSE {}
           passing == passed \cup ({a} \X back)
           L == CountPass(Requeue(lead, back), back)
           A == [agent EXCEPT ![a].current = NoLead, ![a].misses = 0]
<1>1. lead \in [Leads -> LeadRow] /\ agent \in [Agents -> AgentRow]
  BY DEF TypeOK
<1>2. L \in [Leads -> LeadRow]
  BY <1>1, RequeueType, CountPassType
<1>3. Releases(L)
  <2>1. Requeue(lead, back) \in [Leads -> LeadRow]
    BY <1>1, RequeueType
  <2>2. Releases(Requeue(lead, back))
    BY RequeueReleases DEF Held
  <2>3. QED
    BY <2>1, <2>2, CountPassReleases
<1>4. A \in [Agents -> AgentRow]
  BY <1>1, NoMisses DEF AgentRow
<1>5. passed' = passing /\ passing \subseteq Agents \X Leads
  BY DEF Pass, TypeOK
<1>6. AssignerOutcome(L, A, passed', batch')
  <2>1. TryAssign(L, A, passed', batch')
    BY <1>5 DEF Pass
  <2>2. QED
    BY <1>2, <1>4, <2>1, TryAssignOutcome
<1>7. QED
  BY <1>2, <1>3, <1>4, <1>5, <1>6, ReleaseShape DEF Pass, TypeOK

\* Operations that leave both tables alone.
LEMMA QuietShape ==
    ASSUME TypeOK, UNCHANGED <<lead, agent, dnc>>,
           passed' \subseteq Agents \X Leads, batch' \in [Batches -> BatchRow],
           handCall' \subseteq Agents
    PROVE  StepShape
<1>1. lead \in [Leads -> LeadRow] /\ agent \in [Agents -> AgentRow]
  BY DEF TypeOK
<1>2. AssignerOutcome(lead, agent, passed', batch')
  BY <1>1 DEF AssignerOutcome
<1>3. QED
  BY <1>1, <1>2, UntouchedReleases, ReleaseShape

LEMMA PauseBatchShape ==
    ASSUME TypeOK, NEW b \in Batches, PauseBatch(b)
    PROVE  StepShape
BY QuietShape DEF PauseBatch, TypeOK, BatchRow

LEMMA HandCallShape ==
    ASSUME TypeOK, NEW a \in Agents, StartHandCall(a) \/ EndHandCall(a)
    PROVE  StepShape
BY QuietShape DEF StartHandCall, EndHandCall, TypeOK

LEMMA CooldownEndsShape ==
    ASSUME TypeOK, NEW a \in Agents, NEW l \in Leads, CooldownEnds(a, l)
    PROVE  StepShape
BY QuietShape DEF CooldownEnds, TypeOK

LEMMA ResumeBatchShape ==
    ASSUME TypeOK, NEW b \in Batches, ResumeBatch(b)
    PROVE  StepShape
<1>1. lead \in [Leads -> LeadRow] /\ agent \in [Agents -> AgentRow]
  BY DEF TypeOK
<1>2. batch' \in [Batches -> BatchRow]
  BY DEF ResumeBatch, TypeOK, BatchRow
<1>3. TryAssignAll(lead, agent, passed', batch')
  BY DEF ResumeBatch
<1>4. AssignerOutcome(lead, agent, passed', batch')
  BY <1>1, <1>3, TryAssignAllOutcome
<1>5. QED
  BY <1>1, <1>2, <1>4, UntouchedReleases, ReleaseShape DEF ResumeBatch, TypeOK

LEMMA AssignShape ==
    ASSUME TypeOK, AssignNext \/ DistributeAll
    PROVE  StepShape
<1>1. lead \in [Leads -> LeadRow] /\ agent \in [Agents -> AgentRow]
  BY DEF TypeOK
<1>2. \/ TryAssign(lead, agent, passed', batch')
      \/ TryAssignAll(lead, agent, passed', batch')
  BY DEF AssignNext, DistributeAll
<1>3. AssignerOutcome(lead, agent, passed', batch')
  BY <1>1, <1>2, TryAssignOutcome, TryAssignAllOutcome
<1>4. QED
  BY <1>1, <1>3, UntouchedReleases, ReleaseShape DEF AssignNext, DistributeAll, TypeOK

LEMMA RebroadcastShape ==
    ASSUME TypeOK, NEW S \in SUBSET Leads, Rebroadcast(S)
    PROVE  StepShape
<1> DEFINE counted == {l \in S : lead[l].owner # NoAgent}
           L == CountPass(Requeue(lead, S), counted)
           A == [a \in Agents |-> Parked(a, S)]
<1>1. Requeue(lead, S) \in [Leads -> LeadRow]
  BY RequeueType DEF TypeOK
<1>2. Releases(Requeue(lead, S))
  BY RequeueReleases DEF Rebroadcast, Held
<1>3. L \in [Leads -> LeadRow] /\ Releases(L)
  BY <1>1, <1>2, CountPassType, CountPassReleases
<1>4. A \in [Agents -> AgentRow]
  BY ParkedType
<1>5. TryAssignAll(L, A, passed', batch')
  BY DEF Rebroadcast
<1>6. AssignerOutcome(L, A, passed', batch')
  BY <1>3, <1>4, <1>5, TryAssignAllOutcome
<1>7. QED
  BY <1>3, <1>4, <1>6, ReleaseShape DEF Rebroadcast, TypeOK

LEMMA ReapShape ==
    ASSUME TypeOK, NEW S \in SUBSET Agents, ReapStaleAgents(S)
    PROVE  StepShape
<1> DEFINE L == CountPass(Requeue(lead, CurrentOf(S)), CurrentOf(S))
<1>1. Requeue(lead, CurrentOf(S)) \in [Leads -> LeadRow]
  BY RequeueType DEF TypeOK
<1>2. Releases(Requeue(lead, CurrentOf(S)))
  BY RequeueReleases DEF CurrentOf
<1>3. L \in [Leads -> LeadRow] /\ Releases(L)
  BY <1>1, <1>2, CountPassType, CountPassReleases
<1>4. Offline(S) \in [Agents -> AgentRow]
  BY OfflineType
<1>5. TryAssignAll(L, Offline(S), passed', batch')
  BY DEF ReapStaleAgents
<1>6. AssignerOutcome(L, Offline(S), passed', batch')
  BY <1>3, <1>4, <1>5, TryAssignAllOutcome
<1>7. QED
  BY <1>3, <1>4, <1>6, ReleaseShape DEF ReapStaleAgents, TypeOK

LEMMA KickAllShape ==
    ASSUME TypeOK, KickAll
    PROVE  StepShape
<1> DEFINE online == {a \in Agents : agent[a].status # "OFFLINE"}
           L == Requeue(lead, CurrentOf(online))
<1>1. L \in [Leads -> LeadRow]
  BY RequeueType DEF TypeOK
<1>2. Releases(L)
  BY RequeueReleases DEF CurrentOf
<1>3. Offline(online) \in [Agents -> AgentRow]
  BY OfflineType
<1>4. TryAssign(L, Offline(online), passed', batch')
  BY DEF KickAll
<1>5. AssignerOutcome(L, Offline(online), passed', batch')
  BY <1>1, <1>3, <1>4, TryAssignOutcome
<1>6. QED
  BY <1>1, <1>2, <1>3, <1>5, ReleaseShape DEF KickAll, TypeOK

-----------------------------------------------------------------------------
(* Operations that set rows and do not assign *)

LEMMA DirectShape ==
    ASSUME TypeOK', KeepsHolders(lead'), KeepsSuppression(lead'), KeepsParked(lead')
    PROVE  StepShape
<1>1. lead' \in [Leads -> LeadRow] /\ agent' \in [Agents -> AgentRow]
  BY DEF TypeOK
<1>2. AssignerOutcome(lead', agent', passed', batch')
  BY <1>1 DEF AssignerOutcome
<1>3. QED
  BY <1>1, <1>2 DEF StepShape, StepFrom

LEMMA IngestReplyShape ==
    ASSUME TypeOK, NEW l \in Leads, NEW blocked \in BOOLEAN, IngestReply(l, blocked)
    PROVE  StepShape
<1>1. TypeOK'
  BY NewReplyRowType, AddToDncType DEF IngestReply, TypeOK
<1>2. KeepsHolders(lead')
  BY DEF IngestReply, KeepsHolders, NewReplyRow, TypeOK, LeadRow, Held
<1>3. KeepsSuppression(lead')
  BY NullsAssumption, AddToDncType DEF IngestReply, KeepsSuppression, NewReplyRow, AddToDnc, TypeOK, LeadRow,
        DNC_DISPOSITIONS
<1>4. KeepsParked(lead')
  BY DEF IngestReply, KeepsParked, NewReplyRow, TypeOK, LeadRow
<1>5. QED
  BY <1>1, <1>2, <1>3, <1>4, DirectShape

LEMMA MirrorAppendShape ==
    ASSUME TypeOK, NEW l \in Leads, NEW blocked \in BOOLEAN, MirrorAppend(l, blocked)
    PROVE  StepShape
<1>1. TypeOK'
  BY NullsAssumption, AddToDncType DEF MirrorAppend, TypeOK, LeadRow, LeadStatus
<1>2. KeepsHolders(lead')
  BY DEF MirrorAppend, KeepsHolders, TypeOK, LeadRow, Held
<1>3. KeepsSuppression(lead')
  BY AddToDncType, NullsAssumption DEF MirrorAppend, KeepsSuppression, AddToDnc, TypeOK, LeadRow, DNC_DISPOSITIONS
<1>4. KeepsParked(lead')
  BY DEF MirrorAppend, KeepsParked, TypeOK, LeadRow
<1>5. QED
  BY <1>1, <1>2, <1>3, <1>4, DirectShape

LEMMA IngestCsvShape ==
    ASSUME TypeOK, NEW b \in Batches, IngestCsv(b)
    PROVE  StepShape
<1>1. TypeOK'
  BY DEF IngestCsv, TypeOK, LeadRow, LeadStatus, BatchRow
<1>2. KeepsHolders(lead')
  BY DEF IngestCsv, KeepsHolders, TypeOK, LeadRow, Held
<1>3. KeepsSuppression(lead')
  BY DEF IngestCsv, KeepsSuppression, TypeOK, LeadRow
<1>4. KeepsParked(lead')
  BY DEF IngestCsv, KeepsParked, TypeOK, LeadRow
<1>5. QED
  BY <1>1, <1>2, <1>3, <1>4, DirectShape

LEMMA AcceptShape ==
    ASSUME TypeOK, NEW a \in Agents, NEW l \in Leads, Accept(a, l)
    PROVE  StepShape
<1>1. TypeOK'
  <2>1. lead' \in [Leads -> LeadRow]
    BY DEF Accept, TypeOK, LeadRow, LeadStatus
  <2>2. agent' \in [Agents -> AgentRow]
    <3>1. agent \in [Agents -> AgentRow]
      BY DEF TypeOK
    <3>2. agent' = [agent EXCEPT ![a].status = "ON_CALL", ![a].current = l, ![a].misses = 0]
      BY DEF Accept
    <3>3. QED
      BY <3>1, <3>2, NoMisses DEF AgentRow, AgentStatus
  <2>3. QED
    BY <2>1, <2>2 DEF Accept, TypeOK
<1>2. KeepsHolders(lead')
  BY DEF Accept, KeepsHolders, TypeOK, LeadRow, Held
<1>3. KeepsSuppression(lead')
  BY DEF Accept, KeepsSuppression, TypeOK, LeadRow
<1>4. KeepsParked(lead')
  BY DEF Accept, KeepsParked, TypeOK, LeadRow
<1>5. QED
  BY <1>1, <1>2, <1>3, <1>4, DirectShape

LEMMA ReassignShape ==
    ASSUME TypeOK, NEW l \in Leads, NEW a \in Agents, Reassign(l, a)
    PROVE  StepShape
<1>1. TypeOK'
  <2>1. Detach(agent, lead, {l}) \in [Agents -> AgentRow]
    BY DetachType DEF TypeOK
  <2>2. agent' \in [Agents -> AgentRow]
    BY <2>1 DEF Reassign, AgentRow
  <2>3. lead' \in [Leads -> LeadRow]
    BY DEF Reassign, TypeOK, LeadRow, LeadStatus
  <2>4. QED
    BY <2>2, <2>3 DEF Reassign, TypeOK
<1>2. KeepsHolders(lead')
  <2>1. lead'[l].owner = a
    BY DEF Reassign, TypeOK, LeadRow
  <2>2. \A m \in Leads \ {l} : lead'[m] = lead[m]
    BY DEF Reassign, TypeOK
  <2>3. QED
    BY <2>1, <2>2 DEF KeepsHolders
<1>3. KeepsSuppression(lead')
  BY DEF Reassign, KeepsSuppression, TypeOK, LeadRow
<1>4. KeepsParked(lead')
  BY DEF Reassign, KeepsParked, TypeOK, LeadRow
<1>5. QED
  BY <1>1, <1>2, <1>3, <1>4, DirectShape

LEMMA RestoreParkedShape ==
    ASSUME TypeOK, NEW l \in Leads, RestoreParked(l)
    PROVE  StepShape
<1>1. TypeOK'
  BY ConstantsAssumption DEF RestoreParked, TypeOK, LeadRow, LeadStatus
<1>2. KeepsHolders(lead')
  BY DEF RestoreParked, KeepsHolders, TypeOK, LeadRow, Held
<1>3. KeepsSuppression(lead')
  BY NullsAssumption DEF RestoreParked, KeepsSuppression, TypeOK, LeadRow, DNC_DISPOSITIONS
<1>4. KeepsParked(lead')
  BY DEF RestoreParked, KeepsParked, TypeOK, LeadRow
<1>5. QED
  BY <1>1, <1>2, <1>3, <1>4, DirectShape

\* Tombstones, whoever puts them.
LEMMA TombstoneShape ==
    ASSUME TypeOK, NEW S, lead' = Tombstone(lead, S),
           agent' \in [Agents -> AgentRow], passed' \subseteq Agents \X Leads,
           batch' \in [Batches -> BatchRow], handCall' \subseteq Agents, dnc' = dnc
    PROVE  StepShape
<1>1. TypeOK'
  BY TombstoneType DEF TypeOK
<1>2. KeepsHolders(lead')
  BY DEF KeepsHolders, Tombstone, Held
<1>3. KeepsSuppression(lead')
  BY NullsAssumption DEF KeepsSuppression, Tombstone, DNC_DISPOSITIONS
<1>4. KeepsParked(lead')
  BY DEF KeepsParked, Tombstone
<1>5. QED
  BY <1>1, <1>2, <1>3, <1>4, DirectShape

LEMMA DeleteLeadShape ==
    ASSUME TypeOK, NEW l \in Leads, DeleteLead(l)
    PROVE  StepShape
BY DetachType, TombstoneShape DEF DeleteLead, TypeOK

LEMMA DeleteBatchShape ==
    ASSUME TypeOK, NEW b \in Batches, DeleteBatch(b)
    PROVE  StepShape
<1> DEFINE removed == {m \in Leads : BatchOf[m] = b /\ lead[m].status \in {"QUEUED", "ASSIGNED"}}
<1>1. lead' = Tombstone(lead, removed) /\ agent' = Detach(agent, lead, removed)
  BY DEF DeleteBatch
<1>2. agent' \in [Agents -> AgentRow]
  BY <1>1, DetachType DEF TypeOK
<1>3. batch' \in [Batches -> BatchRow]
  BY DEF DeleteBatch, TypeOK, BatchRow
<1>4. UNCHANGED <<passed, dnc, handCall>>
  BY DEF DeleteBatch
<1>5. QED
  BY <1>1, <1>2, <1>3, <1>4, TombstoneShape DEF TypeOK

LEMMA BulkDeleteShape ==
    ASSUME TypeOK, NEW c \in Categories, BulkDelete(c)
    PROVE  StepShape
BY TombstoneShape DEF BulkDelete, TypeOK

-----------------------------------------------------------------------------
(* Operations that set a row, then assign *)

LEMMA MirrorNewShape ==
    ASSUME TypeOK, NEW l \in Leads, NEW blocked \in BOOLEAN, MirrorNew(l, blocked)
    PROVE  StepShape
<1>1. CASE blocked
  BY <1>1, IngestReplyShape DEF MirrorNew, IngestReply
<1>2. CASE ~blocked
  <2> DEFINE L == NewReplyRow(l, FALSE)
  <2>1. L \in [Leads -> LeadRow] /\ agent \in [Agents -> AgentRow]
    BY NewReplyRowType DEF TypeOK
  <2>2. UNCHANGED <<dnc, passed, batch, handCall>> /\ TryAssign(L, agent, passed', batch')
    BY <1>2 DEF MirrorNew
  <2>3. AssignerOutcome(L, agent, passed', batch')
    BY <2>1, <2>2, TryAssignOutcome
  <2>4. KeepsHolders(L)
    BY DEF KeepsHolders, NewReplyRow, TypeOK, LeadRow, Held
  <2>5. KeepsSuppression(L)
    BY <2>2, NullsAssumption DEF KeepsSuppression, NewReplyRow, TypeOK, LeadRow, DNC_DISPOSITIONS
  <2>6. KeepsParked(L)
    BY DEF MirrorNew, KeepsParked, NewReplyRow, TypeOK, LeadRow
  <2>7. TypeOK'
    BY <2>2, <2>3 DEF TypeOK, AssignerOutcome
  <2>8. QED
    BY <2>1, <2>3, <2>4, <2>5, <2>6, <2>7 DEF StepShape, StepFrom
<1>3. QED
  BY <1>1, <1>2

LEMMA DispositionShape ==
    ASSUME TypeOK, NEW a \in Agents, NEW l \in Leads, NEW d \in Dispositions, Disposition(a, l, d)
    PROVE  StepShape
<1> DEFINE L == [lead EXCEPT ![l].status = "DISPOSITIONED", ![l].disp = d]
           A == [agent EXCEPT ![a].current = NoLead, ![a].status = "AVAILABLE"]
<1>1. L \in [Leads -> LeadRow]
  BY DEF TypeOK, LeadRow, LeadStatus
<1>2. A \in [Agents -> AgentRow]
  BY DEF TypeOK, AgentRow, AgentStatus
<1>3. dnc' = AddToDnc(l, d) /\ UNCHANGED <<passed, batch, handCall>> /\ TryAssign(L, A, passed', batch')
  BY DEF Disposition
<1>4. AssignerOutcome(L, A, passed', batch')
  BY <1>1, <1>2, <1>3, TryAssignOutcome
<1>5. KeepsHolders(L)
  BY DEF KeepsHolders, TypeOK, LeadRow, Held
<1>6. KeepsSuppression(L)
  BY <1>3, AddToDncType DEF KeepsSuppression, AddToDnc, TypeOK, LeadRow
<1>7. KeepsParked(L)
  BY DEF KeepsParked, TypeOK, LeadRow
<1>8. TypeOK'
  BY <1>3, <1>4, AddToDncType DEF TypeOK, AssignerOutcome
<1>9. QED
  BY <1>1, <1>2, <1>4, <1>5, <1>6, <1>7, <1>8 DEF StepShape, StepFrom

LEMMA ManagerDispositionShape ==
    ASSUME TypeOK, NEW l \in Leads, NEW d \in Dispositions, ManagerDisposition(l, d)
    PROVE  StepShape
<1> DEFINE L == [lead EXCEPT ![l].status = "DISPOSITIONED", ![l].disp = d, ![l].owner = NoAgent]
           A == Detach(agent, lead, {l})
<1>1. L \in [Leads -> LeadRow]
  <2> DEFINE row == [lead[l] EXCEPT !.status = "DISPOSITIONED", !.disp = d, !.owner = NoAgent]
  <2>1. lead \in [Leads -> LeadRow] /\ lead[l] \in LeadRow
    BY DEF TypeOK
  <2>2. row \in LeadRow
    BY <2>1 DEF LeadRow, LeadStatus
  <2>3. L = [lead EXCEPT ![l] = row]
    BY <2>1
  <2>4. QED
    <3> HIDE DEF row, L
    <3>1. QED
      BY <2>1, <2>2, <2>3
<1>2. A \in [Agents -> AgentRow]
  BY DetachType DEF TypeOK
<1>3. dnc' = AddToDnc(l, d) /\ UNCHANGED <<passed, batch, handCall>> /\ TryAssign(L, A, passed', batch')
  BY DEF ManagerDisposition
<1>4. AssignerOutcome(L, A, passed', batch')
  BY <1>1, <1>2, <1>3, TryAssignOutcome
<1>5. KeepsHolders(L)
  BY DEF KeepsHolders, TypeOK, LeadRow, Held
<1>6. KeepsSuppression(L)
  BY <1>3, AddToDncType DEF KeepsSuppression, AddToDnc, TypeOK, LeadRow
<1>7. KeepsParked(L)
  BY DEF KeepsParked, TypeOK, LeadRow
<1>8. TypeOK'
  BY <1>3, <1>4, AddToDncType DEF TypeOK, AssignerOutcome
<1>9. QED
  BY <1>1, <1>2, <1>4, <1>5, <1>6, <1>7, <1>8 DEF StepShape, StepFrom

-----------------------------------------------------------------------------
(* Every step has that shape *)

LEMMA NextShape ==
    TypeOK /\ Next => StepShape
<1> SUFFICES ASSUME TypeOK, Next PROVE StepShape
  OBVIOUS
<1>1. CASE \E l \in Leads, blocked \in BOOLEAN :
              IngestReply(l, blocked) \/ MirrorNew(l, blocked) \/ MirrorAppend(l, blocked)
  BY <1>1, IngestReplyShape, MirrorNewShape, MirrorAppendShape
<1>2. CASE \E b \in Batches : IngestCsv(b) \/ PauseBatch(b) \/ ResumeBatch(b) \/ DeleteBatch(b)
  BY <1>2, IngestCsvShape, PauseBatchShape, ResumeBatchShape, DeleteBatchShape
<1>3. CASE \E a \in Agents : \/ Join(a) \/ Leave(a) \/ StartBreak(a) \/ EndBreak(a)
                             \/ LeaveSmsQueue(a) \/ StartHandCall(a) \/ EndHandCall(a)
  BY <1>3, LifecycleShape, LeaveSmsQueueShape, HandCallShape
<1>4. CASE \E a \in Agents, l \in Leads :
              \/ Accept(a, l) \/ Pass(a, l) \/ CooldownEnds(a, l) \/ Reassign(l, a)
              \/ \E d \in Dispositions : Disposition(a, l, d)
  BY <1>4, AcceptShape, PassShape, CooldownEndsShape, ReassignShape, DispositionShape
<1>5. CASE \E l \in Leads :
              \/ DeleteLead(l) \/ RestoreParked(l)
              \/ \E d \in MANAGER_DISPOSITIONS \cap Dispositions : ManagerDisposition(l, d)
  BY <1>5, DeleteLeadShape, RestoreParkedShape, ManagerDispositionShape
<1>6. CASE \E c \in Categories : BulkDelete(c)
  BY <1>6, BulkDeleteShape
<1>7. CASE AssignNext \/ DistributeAll \/ KickAll
  BY <1>7, AssignShape, KickAllShape
<1>8. CASE \E S \in SUBSET Leads : Rebroadcast(S)
  BY <1>8, RebroadcastShape
<1>9. CASE \E S \in SUBSET Agents : ReapStaleAgents(S)
  BY <1>9, ReapShape
<1>10. QED
  BY <1>1, <1>2, <1>3, <1>4, <1>5, <1>6, <1>7, <1>8, <1>9 DEF Next

-----------------------------------------------------------------------------
(* The theorems *)

\* An assignment changes a row's status and owner at most.
LEMMA OutcomeRow ==
    ASSUME NEW L \in [Leads -> LeadRow], NEW A, NEW P, NEW B, NEW l \in Leads,
           AssignerOutcome(L, A, P, B)
    PROVE  lead'[l].disp = L[l].disp /\ lead'[l].status \in {L[l].status, "ASSIGNED"}
<1>1. L[l] \in LeadRow
  OBVIOUS
<1>2. CASE lead'[l] = L[l]
  BY <1>2
<1>3. ASSUME NEW a \in AvailableAgents(A), lead'[l] = [L[l] EXCEPT !.status = "ASSIGNED", !.owner = a]
      PROVE  lead'[l].disp = L[l].disp /\ lead'[l].status = "ASSIGNED"
  BY <1>1, <1>3 DEF LeadRow
<1>4. lead'[l] = L[l] \/ \E a \in AvailableAgents(A) :
                              lead'[l] = [L[l] EXCEPT !.status = "ASSIGNED", !.owner = a]
  BY DEF AssignerOutcome
<1>5. QED
  BY <1>2, <1>3, <1>4, Zenon

LEMMA InitType ==
    Init => TypeOK
BY ConstantsAssumption DEF Init, TypeOK, LeadRow, LeadStatus, AgentRow, AgentStatus, BatchRow

LEMMA NextType ==
    TypeOK /\ [Next]_vars => TypeOK'
<1>1. TypeOK /\ Next => TypeOK'
  BY NextShape DEF StepShape
<1>2. TypeOK /\ UNCHANGED vars => TypeOK'
  BY DEF vars, TypeOK
<1>3. QED
  BY <1>1, <1>2

\* Every table keeps the shape it declares, whatever operations run.
THEOREM TypeCorrect ==
    Spec => []TypeOK
<1>1. QED
  BY InitType, NextType, PTL DEF Spec

LEMMA NextHeld ==
    TypeOK /\ HeldLeadHasOwner /\ [Next]_vars => HeldLeadHasOwner'
<1> SUFFICES ASSUME TypeOK, HeldLeadHasOwner, [Next]_vars, NEW l \in Leads,
                    lead'[l].status \in Held
             PROVE  lead'[l].owner # NoAgent
  BY DEF HeldLeadHasOwner
<1>1. CASE Next
  <2>1. PICK L \in [Leads -> LeadRow], A \in [Agents -> AgentRow] : StepFrom(L, A)
    BY <1>1, NextShape DEF StepShape
  <2>2. CASE lead'[l] = L[l]
    <3>1. \/ L[l].owner = lead[l].owner /\ lead[l].status \in {"ASSIGNED", L[l].status}
          \/ \E a \in Agents : L[l].owner = a
      BY <2>1, <2>2 DEF StepFrom, KeepsHolders
    <3>2. QED
      BY <2>2, <3>1, NullsAssumption DEF HeldLeadHasOwner, Held
  <2>3. CASE \E a \in AvailableAgents(A) :
                lead'[l] = [L[l] EXCEPT !.status = "ASSIGNED", !.owner = a]
    BY <2>3, NullsAssumption DEF AvailableAgents, LeadRow
  <2>4. QED
    BY <2>1, <2>2, <2>3 DEF StepFrom, AssignerOutcome
<1>2. CASE UNCHANGED vars
  BY <1>2 DEF vars, HeldLeadHasOwner
<1>3. QED
  BY <1>1, <1>2

\* No release, hand-over or restore leaves a lead in hand and nobody's.
THEOREM HeldLeadsHaveOwners ==
    Spec => []HeldLeadHasOwner
<1>1. Init => HeldLeadHasOwner
  BY DEF Init, HeldLeadHasOwner, Held
<1>2. QED
  BY <1>1, NextHeld, TypeCorrect, PTL DEF Spec

LEMMA NextSuppression ==
    TypeOK /\ SuppressionSticks /\ [Next]_vars => SuppressionSticks'
<1> SUFFICES ASSUME TypeOK, SuppressionSticks, [Next]_vars, NEW l \in Leads,
                    lead'[l].disp \in DNC_DISPOSITIONS
             PROVE  PhoneOf[l] \in dnc'
  BY DEF SuppressionSticks
<1>1. CASE Next
  <2>1. PICK L \in [Leads -> LeadRow], A \in [Agents -> AgentRow] : StepFrom(L, A)
    BY <1>1, NextShape DEF StepShape
  <2>2. lead'[l].disp = L[l].disp
    BY <2>1, OutcomeRow DEF StepFrom
  <2>3. QED
    BY <2>1, <2>2 DEF StepFrom, KeepsSuppression, SuppressionSticks
<1>2. CASE UNCHANGED vars
  BY <1>2 DEF vars, SuppressionSticks
<1>3. QED
  BY <1>1, <1>2

\* A suppressing result and the Do-Not-Call list never part, whoever set it.
THEOREM SuppressionIsListed ==
    Spec => []SuppressionSticks
<1>1. Init => SuppressionSticks
  BY NullsAssumption DEF Init, SuppressionSticks, DNC_DISPOSITIONS
<1>2. QED
  BY <1>1, NextSuppression, TypeCorrect, PTL DEF Spec

\* A suppressed lead is queued again only by the customer writing: restore_parked,
\* which looks at the number and not at the lead, cannot, because of the above.
THEOREM ParkedStaysParked ==
    Spec => ParkedReturnsOnlyByReply
<1>1. TypeOK /\ SuppressionSticks /\ [Next]_vars =>
        [\A l \in Leads :
           /\ lead[l].status = "DISPOSITIONED" /\ lead[l].disp \in DNC_DISPOSITIONS
           /\ lead'[l].status = "QUEUED"
           => MirrorAppend(l, FALSE)]_vars
  <2> SUFFICES ASSUME TypeOK, SuppressionSticks, Next, NEW l \in Leads,
                      lead[l].status = "DISPOSITIONED", lead[l].disp \in DNC_DISPOSITIONS,
                      lead'[l].status = "QUEUED"
               PROVE  MirrorAppend(l, FALSE)
    OBVIOUS
  <2>1. PICK L \in [Leads -> LeadRow], A \in [Agents -> AgentRow] : StepFrom(L, A)
    BY NextShape DEF StepShape
  <2>2. L[l].status = "QUEUED"
    BY <2>1, OutcomeRow DEF StepFrom
  <2>3. PhoneOf[l] \in dnc
    BY DEF SuppressionSticks
  <2>4. QED
    BY <2>1, <2>2, <2>3 DEF StepFrom, KeepsParked
<1>2. QED
  BY <1>1, TypeCorrect, SuppressionIsListed, PTL DEF Spec, ParkedReturnsOnlyByReply

\* An offer that appears is a pool lead on an available agent who had not passed it,
\* if it is not a manager's reassignment: the ground of the next three theorems.
LEMMA NewOfferIsAssigned ==
    ASSUME TypeOK, Next, NEW a \in Agents, NEW l \in Leads, NewOffer(a, l)
    PROVE  \E L \in [Leads -> LeadRow], A \in [Agents -> AgentRow] :
              /\ AssignerOutcome(L, A, passed', batch')
              /\ a \in AvailableAgents(A)
              /\ l \in Choices(a, L, passed', batch')
              /\ agent'[a].current = l
<1>1. PICK L \in [Leads -> LeadRow], A \in [Agents -> AgentRow] : StepFrom(L, A)
  BY NextShape DEF StepShape
<1>2. lead'[l].status = "ASSIGNED" /\ lead'[l].owner = a
  BY DEF NewOffer, Offered
<1>3. ASSUME lead'[l] = L[l]
      PROVE  FALSE
  <2>1. \/ L[l].owner = lead[l].owner /\ lead[l].status = "ASSIGNED"
        \/ \E b \in Agents : Reassign(l, b) /\ L[l].owner = b
    BY <1>1, <1>2, <1>3 DEF StepFrom, KeepsHolders, Held
  <2>2. QED
    BY <1>2, <1>3, <2>1 DEF NewOffer, Offered
<1>4. PICK b \in AvailableAgents(A) :
          /\ l \in Choices(b, L, passed', batch')
          /\ lead'[l] = [L[l] EXCEPT !.status = "ASSIGNED", !.owner = b]
          /\ agent'[b].current = l
  BY <1>1, <1>3 DEF StepFrom, AssignerOutcome
<1>5. a = b
  BY <1>2, <1>4 DEF LeadRow
<1>6. QED
  BY <1>1, <1>4, <1>5 DEF StepFrom

\* The assigner offers leads only to agents at work, in any combination of releases,
\* breaks, calls and sweeps.
THEOREM OffersReachWorkers ==
    Spec => OffersGoToWorkers
<1>1. TypeOK /\ [Next]_vars =>
        [\A a \in Agents, l \in Leads : NewOffer(a, l) =>
           /\ a \notin Admins /\ a \notin handCall
           /\ agent'[a].status = "AVAILABLE" /\ agent'[a].current = l]_vars
  <2> SUFFICES ASSUME TypeOK, Next, NEW a \in Agents, NEW l \in Leads, NewOffer(a, l)
               PROVE  /\ a \notin Admins /\ a \notin handCall
                      /\ agent'[a].status = "AVAILABLE" /\ agent'[a].current = l
    OBVIOUS
  <2>1. PICK L \in [Leads -> LeadRow], A \in [Agents -> AgentRow] :
              /\ AssignerOutcome(L, A, passed', batch')
              /\ a \in AvailableAgents(A)
              /\ agent'[a].current = l
    BY NewOfferIsAssigned
  <2>2. QED
    BY <2>1 DEF AvailableAgents, AssignerOutcome
<1>2. QED
  BY <1>1, TypeCorrect, PTL DEF Spec, OffersGoToWorkers

\* Only a pass adds to the passes on record.
LEMMA OnlyPassGrows ==
    ASSUME Next, NEW a \in Agents, NEW l \in Leads, <<a, l>> \in passed', <<a, l>> \notin passed
    PROVE  Pass(a, l)
<1>1. ASSUME NEW m \in Leads, NEW blocked \in BOOLEAN,
             IngestReply(m, blocked) \/ MirrorNew(m, blocked) \/ MirrorAppend(m, blocked)
      PROVE  FALSE
  BY <1>1 DEF IngestReply, MirrorNew, MirrorAppend
<1>2. ASSUME NEW b \in Batches, IngestCsv(b) \/ PauseBatch(b) \/ ResumeBatch(b) \/ DeleteBatch(b)
      PROVE  FALSE
  BY <1>2 DEF IngestCsv, PauseBatch, ResumeBatch, DeleteBatch
<1>3. ASSUME NEW b \in Agents, \/ Join(b) \/ Leave(b) \/ StartBreak(b) \/ EndBreak(b)
                                \/ LeaveSmsQueue(b) \/ StartHandCall(b) \/ EndHandCall(b)
      PROVE  FALSE
  BY <1>3 DEF Join, Leave, StartBreak, EndBreak, LeaveSmsQueue, StartHandCall, EndHandCall
<1>4. ASSUME NEW b \in Agents, NEW m \in Leads,
             \/ Accept(b, m) \/ CooldownEnds(b, m) \/ Reassign(m, b)
             \/ \E d \in Dispositions : Disposition(b, m, d)
      PROVE  FALSE
  BY <1>4 DEF Accept, CooldownEnds, Reassign, Disposition
<1>5. ASSUME NEW b \in Agents, NEW m \in Leads, Pass(b, m)
      PROVE  Pass(a, l)
  BY <1>5 DEF Pass
<1>6. ASSUME NEW m \in Leads,
             \/ DeleteLead(m) \/ RestoreParked(m)
             \/ \E d \in MANAGER_DISPOSITIONS \cap Dispositions : ManagerDisposition(m, d)
      PROVE  FALSE
  BY <1>6 DEF DeleteLead, RestoreParked, ManagerDisposition
<1>7. ASSUME \/ \E c \in Categories : BulkDelete(c)
             \/ AssignNext \/ DistributeAll \/ KickAll
      PROVE  FALSE
  BY <1>7 DEF BulkDelete, AssignNext, DistributeAll, KickAll
<1>8. ASSUME \/ \E S \in SUBSET Leads : Rebroadcast(S)
             \/ \E S \in SUBSET Agents : ReapStaleAgents(S)
      PROVE  FALSE
  BY <1>8 DEF Rebroadcast, ReapStaleAgents
<1>9. QED
  BY <1>1, <1>2, <1>3, <1>4, <1>5, <1>6, <1>7, <1>8 DEF Next

\* A lead in its cooldown does not come back to the agent who passed it.
THEOREM PassedLeadsMoveOn ==
    Spec => NotBouncedBack
<1>1. TypeOK /\ [Next]_vars =>
        [\A a \in Agents, l \in Leads :
           <<a, l>> \in passed' /\ Offered(a, l)' =>
             (<<a, l>> \in passed /\ Offered(a, l)) \/ Reassign(l, a)]_vars
  <2> SUFFICES ASSUME TypeOK, Next, NEW a \in Agents, NEW l \in Leads,
                      <<a, l>> \in passed', Offered(a, l)', ~Reassign(l, a)
               PROVE  <<a, l>> \in passed /\ Offered(a, l)
    OBVIOUS
  <2>1. Offered(a, l)
    BY NewOfferIsAssigned DEF NewOffer, Choices
  <2>2. ASSUME <<a, l>> \notin passed
        PROVE  FALSE
    <3>1. Pass(a, l)
      BY <2>2, OnlyPassGrows
    <3> DEFINE L == CountPass(Requeue(lead, {l}), {l})
               A == [agent EXCEPT ![a].current = NoLead, ![a].misses = 0]
    <3>2. TryAssign(L, A, passed', batch')
      BY <2>1, <3>1 DEF Pass, Offered
    <3>3. L \in [Leads -> LeadRow]
      BY RequeueType, CountPassType DEF TypeOK
    <3>4. A \in [Agents -> AgentRow]
      BY NoMisses DEF TypeOK, AgentRow
    <3>5. AssignerOutcome(L, A, passed', batch')
      BY <3>2, <3>3, <3>4, TryAssignOutcome
    <3>6. L[l].status = "QUEUED"
      <4>1. Requeue(lead, {l})[l].status = "QUEUED"
        BY DEF Requeue, TypeOK, LeadRow
      <4>2. Requeue(lead, {l})[l] \in LeadRow
        BY RequeueType DEF TypeOK
      <4>3. QED
        BY <4>1, <4>2 DEF CountPass, LeadRow
    <3>7. PICK b \in Agents : /\ <<b, l>> \notin passed'
                              /\ lead'[l] = [L[l] EXCEPT !.status = "ASSIGNED", !.owner = b]
      BY <3>5, <3>6 DEF AssignerOutcome, Offered, Choices, AvailableAgents
    <3>8. b = a
      BY <3>3, <3>7 DEF Offered, LeadRow
    <3>9. QED
      BY <3>7, <3>8
  <2>3. QED
    BY <2>1, <2>2
<1>2. QED
  BY <1>1, TypeCorrect, PTL DEF Spec, NotBouncedBack

\* No offer of an uploaded lead whose number has a dispositioned row.
THEOREM WorkedNumbersAreNotOffered ==
    Spec => NoRepopOfWorkedNumber
<1>1. TypeOK /\ [Next]_vars =>
        [\A a \in Agents, l \in Leads :
           NewOffer(a, l) /\ IsCsv(l) => ~AlreadyWorked(l, lead')]_vars
  <2> SUFFICES ASSUME TypeOK, Next, NEW a \in Agents, NEW l \in Leads,
                      NewOffer(a, l), IsCsv(l), AlreadyWorked(l, lead')
               PROVE  FALSE
    OBVIOUS
  <2>1. PICK L \in [Leads -> LeadRow], A \in [Agents -> AgentRow] :
              /\ AssignerOutcome(L, A, passed', batch')
              /\ l \in Choices(a, L, passed', batch')
    BY NewOfferIsAssigned
  <2>2. ~AlreadyWorked(l, L)
    BY <2>1 DEF Choices, InPool
  <2>3. PICK m \in Leads \ {l} : PhoneOf[m] = PhoneOf[l] /\ lead'[m].status = "DISPOSITIONED"
    BY DEF AlreadyWorked
  <2>4. L[m].status = "DISPOSITIONED"
    BY <2>1, <2>3, OutcomeRow
  <2>5. QED
    BY <2>2, <2>3, <2>4 DEF AlreadyWorked
<1>2. QED
  BY <1>1, TypeCorrect, PTL DEF Spec, NoRepopOfWorkedNumber

=============================================================================
