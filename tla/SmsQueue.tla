------------------------------ MODULE SmsQueue ------------------------------
(***************************************************************************)
(* The agent queue of app/sms_queue: the shared pool of leads, the agents  *)
(* who work it, and every operation of services/queue_service.py,          *)
(* services/pool_ingest.py, services/inbound_sync.py and                   *)
(* services/lead_ingest.py that changes who holds which lead, and what an  *)
(* admin's suspension of a user does to them.                              *)
(*                                                                         *)
(* One action is one service call: each of them runs in one database       *)
(* transaction, and this module takes that transaction as atomic (module   *)
(* SmsQueueTx opens it up).  The tenant's auto dialer is off: the          *)
(* READY_TO_CALL and DIALING statuses belong to module VoiceDialer.        *)
(* Clocks are not modelled: an offer, a heartbeat or a cooldown may be     *)
(* found past its limit whenever somebody looks.                           *)
(***************************************************************************)
EXTENDS Integers, FiniteSets

CONSTANTS
    Agents,         \* users with a row in sms_queue_agents
    Admins,         \* those among them whose role is in ADMIN_ROLES, or disabled users
    HandDialers,    \* agents who may be on a hand-dialed call (bound)
    Leads,          \* rows of sms_leads, existing or to come
    Phones,
    PhoneOf,        \* [Leads -> Phones]
    Batches,        \* uploaded lists (sms_pool_batches)
    NoBatch,
    BatchOf,        \* [Leads -> Batches \cup {NoBatch}]: NoBatch is a REPLY lead
    Rank,           \* [Leads -> Nat]: the pool_order sort key, without ties
    Dispositions,   \* results an agent may set
    NoAgent, NoLead, NoDisp,
    MissLimit,      \* MISS_AWAY_LIMIT
    RejectedAt,     \* pass_count from which a lead is in category rejected_blocked (2)
    AttemptedAt,    \* and, once ATTEMPTED, in category attempted_3plus (3)
    PassCap         \* bound: pass_count is counted up to this value

ASSUME FiniteAssumption == IsFiniteSet(Agents) /\ IsFiniteSet(Leads)
ASSUME ConstantsAssumption ==
    /\ Admins \subseteq Agents
    /\ HandDialers \subseteq Agents
    /\ PhoneOf \in [Leads -> Phones]
    /\ BatchOf \in [Leads -> Batches \cup {NoBatch}]
    /\ Rank \in [Leads -> Nat]
    /\ \A l, m \in Leads : Rank[l] = Rank[m] => l = m
    /\ MissLimit \in Nat \ {0}
    /\ {RejectedAt, AttemptedAt, PassCap} \subseteq Nat
ASSUME NullsAssumption ==
    /\ NoAgent \notin Agents
    /\ NoLead \notin Leads
    /\ NoBatch \notin Batches
    /\ NoDisp \notin Dispositions \cup {"WRONG_NUMBER", "UNQUALIFIED", "NOT_INTERESTED"}
    /\ "UNQUALIFIED" \in Dispositions
\* One uploaded file: ingest_csv keeps the first row of each number.
ASSUME OneRowPerNumberInAFile ==
    \A l, m \in Leads :
        BatchOf[l] = BatchOf[m] /\ BatchOf[l] # NoBatch /\ PhoneOf[l] = PhoneOf[m]
            => l = m

VARIABLES
    lead,       \* sms_leads: status, assigned_agent_id, disposition, pass_count
    agent,      \* sms_queue_agents: status, current_lead_id, consecutive_misses
    passed,     \* <<agent, lead>>: a PASS action younger than the cooldown
    dnc,        \* sms_do_not_call
    batch,      \* sms_pool_batches: uploaded or deleted, and paused_at
    handCall    \* agents on a hand-dialed call or listening in on one

vars == <<lead, agent, passed, dnc, batch, handCall>>

-----------------------------------------------------------------------------
(* Types *)

LeadStatus == {"NONE", "QUEUED", "ASSIGNED", "IN_PROGRESS", "DISPOSITIONED", "DELETED"}
AgentStatus == {"AVAILABLE", "ON_CALL", "AWAY", "OFFLINE"}
Held == {"ASSIGNED", "IN_PROGRESS"}

DNC_DISPOSITIONS == {"WRONG_NUMBER", "UNQUALIFIED", "NOT_INTERESTED"}
MANAGER_DISPOSITIONS == {"WRONG_NUMBER", "UNQUALIFIED"}
Categories == {"wrong_number", "couldnt_sell", "rejected_blocked", "attempted_3plus"}

LeadRow == [status : LeadStatus,
            owner  : Agents \cup {NoAgent},
            disp   : Dispositions \cup {NoDisp},
            passes : 0..PassCap]
AgentRow == [status  : AgentStatus,
             current : Leads \cup {NoLead},
             misses  : 0..MissLimit]
BatchRow == [state : {"none", "live", "deleted"}, paused : BOOLEAN]

(* The type invariant: every row keeps the shape its table declares. *)
TypeOK ==
    /\ lead \in [Leads -> LeadRow]
    /\ agent \in [Agents -> AgentRow]
    /\ passed \subseteq Agents \X Leads
    /\ dnc \subseteq Phones
    /\ batch \in [Batches -> BatchRow]
    /\ handCall \subseteq Agents

Init ==
    /\ lead = [l \in Leads |-> [status |-> "NONE", owner |-> NoAgent,
                                disp |-> NoDisp, passes |-> 0]]
    /\ agent = [a \in Agents |-> [status |-> "OFFLINE", current |-> NoLead,
                                  misses |-> 0]]
    /\ passed = {}
    /\ dnc = {}
    /\ batch = [b \in Batches |-> [state |-> "none", paused |-> FALSE]]
    /\ handCall = {}

-----------------------------------------------------------------------------
(* The pool and the assigner.  The operators take the tables as arguments  *)
(* because every operation below ends by assigning from the tables it has  *)
(* just changed.                                                           *)

IsCsv(l) == BatchOf[l] # NoBatch

AlreadyWorked(l, L) ==
    \E m \in Leads \ {l} : PhoneOf[m] = PhoneOf[l] /\ L[m].status = "DISPOSITIONED"

\* Mutant: overlapping lists re-pop worked numbers.
InPool_overlap(l, L, B) ==
    /\ L[l].status = "QUEUED"
    /\ IsCsv(l) => ~B[BatchOf[l]].paused

InPool(l, L, B) ==
    /\ L[l].status = "QUEUED"
    /\ IsCsv(l) => ~AlreadyWorked(l, L) /\ ~B[BatchOf[l]].paused

\* Mutant: hand-dialed calls are not looked at.
AvailableAgents_onCall(A) ==
    {a \in Agents : A[a].status = "AVAILABLE" /\ A[a].current = NoLead /\ a \notin Admins}

AvailableAgents(A) ==
    {a \in Agents : /\ A[a].status = "AVAILABLE"
                    /\ A[a].current = NoLead
                    /\ a \notin Admins
                    /\ a \notin handCall}

\* Mutant: passes are not remembered.
Choices_passed(a, L, P, B) == {l \in Leads : InPool(l, L, B)}

Choices(a, L, P, B) == {l \in Leads : InPool(l, L, B) /\ <<a, l>> \notin P}

FirstOf(l, S) == l \in S /\ \A m \in S : Rank[l] <= Rank[m]

\* An assignment m hands lead m[a] to each agent a of its domain.
Hand(m, L, A) ==
    /\ lead' = [l \in Leads |->
                  IF \E a \in DOMAIN m : m[a] = l
                  THEN [L[l] EXCEPT !.status = "ASSIGNED",
                                    !.owner = CHOOSE a \in DOMAIN m : m[a] = l]
                  ELSE L[l]]
    /\ agent' = [a \in Agents |-> IF a \in DOMAIN m THEN [A[a] EXCEPT !.current = m[a]]
                                                    ELSE A[a]]

\* Idle time orders the agents; it is left open, so any of them may come first.
TryAssign(L, A, P, B) ==
    LET takers == {a \in AvailableAgents(A) : Choices(a, L, P, B) # {}}
    IN  \/ takers = {} /\ lead' = L /\ agent' = A
        \/ \E a \in takers, l \in Leads :
              /\ FirstOf(l, Choices(a, L, P, B))
              /\ Hand([x \in {a} |-> l], L, A)

\* _try_assign repeated until it finds no pair: each agent, at their turn, takes
\* the first lead of theirs that is left, and nobody goes without who could have one.
Deal(m, L, A, P, B) ==
    LET D == DOMAIN m
        Taken(S) == {m[b] : b \in S}
    IN  /\ \A a \in AvailableAgents(A) \ D : Choices(a, L, P, B) \subseteq Taken(D)
        /\ \E turn \in [D -> 1..Cardinality(D)] :
              /\ \A a, b \in D : turn[a] = turn[b] => a = b
              /\ \A a \in D :
                    FirstOf(m[a], Choices(a, L, P, B) \ Taken({b \in D : turn[b] < turn[a]}))

TryAssignAll(L, A, P, B) ==
    \E D \in SUBSET AvailableAgents(A) : \E m \in [D -> Leads] :
        Deal(m, L, A, P, B) /\ Hand(m, L, A)

Capped(n, cap) == IF n > cap THEN cap ELSE n

\* Mutant: the owner is cleared, the status forgotten.
Requeue_ownerOnly(L, S) ==
    [l \in Leads |-> IF l \in S THEN [L[l] EXCEPT !.owner = NoAgent] ELSE L[l]]

\* The rows of S back in the pool, with nobody holding them.
Requeue(L, S) ==
    [l \in Leads |-> IF l \in S THEN [L[l] EXCEPT !.status = "QUEUED", !.owner = NoAgent]
                                ELSE L[l]]

CountPass(L, S) ==
    [l \in Leads |-> IF l \in S THEN [L[l] EXCEPT !.passes = Capped(L[l].passes + 1, PassCap)]
                                ELSE L[l]]

\* The tombstone of delete_lead, bulk_delete and delete_batch.
Tombstone(L, S) ==
    [l \in Leads |-> IF l \in S THEN [status |-> "DELETED", owner |-> NoAgent,
                                      disp |-> NoDisp, passes |-> 0]
                                ELSE L[l]]

\* current_lead_id cleared on the agents whose lead in S is both theirs and current.
Detach(A, L, S) ==
    [a \in Agents |-> IF \E l \in S : L[l].owner = a /\ A[a].current = l
                      THEN [A[a] EXCEPT !.current = NoLead] ELSE A[a]]

AddToDnc(l, d) == IF d \in DNC_DISPOSITIONS THEN dnc \cup {PhoneOf[l]} ELSE dnc

-----------------------------------------------------------------------------
(* Leads enter: replies and uploaded lists *)

\* The lead of a reply seen for the first time: parked and suppressed when the
\* reply is an opt-out, queued otherwise.
NewReplyRow(l, blocked) ==
    [lead EXCEPT ![l].status = IF blocked THEN "DISPOSITIONED" ELSE "QUEUED",
                 ![l].disp   = IF blocked THEN "UNQUALIFIED" ELSE NoDisp]

\* The 60s batch.
IngestReply(l, blocked) ==
    /\ lead[l].status = "NONE" /\ ~IsCsv(l)
    /\ lead' = NewReplyRow(l, blocked)
    /\ dnc' = IF blocked THEN AddToDnc(l, "UNQUALIFIED") ELSE dnc
    /\ UNCHANGED <<agent, passed, batch, handCall>>

\* The webhook or the poll, which also offers the new lead at once.
MirrorNew(l, blocked) ==
    /\ lead[l].status = "NONE" /\ ~IsCsv(l)
    /\ IF blocked
       THEN lead' = NewReplyRow(l, TRUE) /\ dnc' = AddToDnc(l, "UNQUALIFIED") /\ UNCHANGED agent
       ELSE TryAssign(NewReplyRow(l, FALSE), agent, passed, batch) /\ UNCHANGED dnc
    /\ UNCHANGED <<passed, batch, handCall>>

\* A later reply of a lead that already has a row.
MirrorAppend(l, blocked) ==
    /\ \/ /\ blocked /\ lead[l].status = "QUEUED"
          /\ lead' = [lead EXCEPT ![l].status = "DISPOSITIONED", ![l].disp = "UNQUALIFIED"]
          /\ dnc' = AddToDnc(l, "UNQUALIFIED")
       \/ /\ ~blocked /\ lead[l].status = "DISPOSITIONED" /\ lead[l].disp \in DNC_DISPOSITIONS
          /\ lead' = [lead EXCEPT ![l].status = "QUEUED", ![l].disp = NoDisp]
          /\ UNCHANGED dnc
    /\ UNCHANGED <<agent, passed, batch, handCall>>

IngestCsv(b) ==
    LET taken == {PhoneOf[l] : l \in {m \in Leads :
                    lead[m].status \in {"QUEUED", "ASSIGNED", "IN_PROGRESS", "DISPOSITIONED"}}}
        imported == {l \in Leads : BatchOf[l] = b /\ PhoneOf[l] \notin taken \cup dnc}
    IN  /\ batch[b].state = "none"
        /\ imported # {}
        /\ lead' = [l \in Leads |-> IF l \in imported THEN [lead[l] EXCEPT !.status = "QUEUED"]
                                                      ELSE lead[l]]
        /\ batch' = [batch EXCEPT ![b].state = "live"]
        /\ UNCHANGED <<agent, passed, dnc, handCall>>

PauseBatch(b) ==
    /\ batch[b].state = "live"
    /\ batch' = [batch EXCEPT ![b].paused = TRUE]
    /\ UNCHANGED <<lead, agent, passed, dnc, handCall>>

ResumeBatch(b) ==
    LET resumed == [batch EXCEPT ![b].paused = FALSE]
    IN  /\ batch[b].state = "live"
        /\ batch' = resumed
        /\ TryAssignAll(lead, agent, passed, resumed)
        /\ UNCHANGED <<passed, dnc, handCall>>

DeleteBatch(b) ==
    LET removed == {l \in Leads : BatchOf[l] = b /\ lead[l].status \in {"QUEUED", "ASSIGNED"}}
    IN  /\ batch[b].state = "live"
        /\ batch' = [batch EXCEPT ![b].state = "deleted"]
        /\ lead' = Tombstone(lead, removed)
        /\ agent' = Detach(agent, lead, removed)
        /\ UNCHANGED <<passed, dnc, handCall>>

-----------------------------------------------------------------------------
(* Agent lifecycle *)

\* The join endpoint turns admins away, but a logged deal joins the credited agent
\* unasked (free_agent_after_deal), so any agent may be joined.
Join(a) ==
    /\ TryAssign(lead, [agent EXCEPT ![a].status = "AVAILABLE", ![a].misses = 0], passed, batch)
    /\ UNCHANGED <<passed, dnc, batch, handCall>>

\* _release_held_leads goes by assigned_agent_id.
HeldBy(a) == {l \in Leads : lead[l].owner = a /\ lead[l].status \in Held}

Leave(a) ==
    /\ TryAssign(Requeue(lead, HeldBy(a)),
                 [agent EXCEPT ![a].current = NoLead, ![a].status = "OFFLINE"],
                 passed, batch)
    /\ UNCHANGED <<passed, dnc, batch, handCall>>

\* Mutant: a status of its own for breaks.
StartBreak_status(a) ==
    /\ TryAssign(Requeue(lead, HeldBy(a)),
                 [agent EXCEPT ![a].current = NoLead, ![a].status = "ON_BREAK"],
                 passed, batch)
    /\ UNCHANGED <<passed, dnc, batch, handCall>>

StartBreak(a) ==
    /\ TryAssign(Requeue(lead, HeldBy(a)),
                 [agent EXCEPT ![a].current = NoLead, ![a].status = "AWAY"],
                 passed, batch)
    /\ UNCHANGED <<passed, dnc, batch, handCall>>

EndBreak(a) ==
    /\ TryAssign(lead, [agent EXCEPT ![a].status = "AVAILABLE"], passed, batch)
    /\ UNCHANGED <<passed, dnc, batch, handCall>>

\* The user is suspended or deleted by an admin: offers go back, a lead being worked
\* stays theirs.  (Who joins again has been reactivated.)
LeaveSmsQueue(a) ==
    /\ lead' = Requeue(lead, {l \in HeldBy(a) : lead[l].status = "ASSIGNED"})
    /\ agent' = [agent EXCEPT ![a].current = NoLead, ![a].status = "OFFLINE"]
    /\ UNCHANGED <<passed, dnc, batch, handCall>>

\* External to the queue: a hand-dialed call, or listening in on one, and its end.
StartHandCall(a) ==
    /\ a \in HandDialers \ handCall
    /\ handCall' = handCall \cup {a}
    /\ UNCHANGED <<lead, agent, passed, dnc, batch>>

EndHandCall(a) ==
    /\ a \in handCall
    /\ handCall' = handCall \ {a}
    /\ UNCHANGED <<lead, agent, passed, dnc, batch>>

-----------------------------------------------------------------------------
(* What an agent does with a lead *)

Accept(a, l) ==
    /\ lead[l].status = "ASSIGNED" /\ lead[l].owner = a
    /\ lead' = [lead EXCEPT ![l].status = "IN_PROGRESS"]
    /\ agent' = [agent EXCEPT ![a].status = "ON_CALL", ![a].current = l, ![a].misses = 0]
    /\ UNCHANGED <<passed, dnc, batch, handCall>>

\* Mutant: assigns before the pass is on record.
Pass_unrecorded(a, l) ==
    LET mine == lead[l].status = "ASSIGNED" /\ lead[l].owner = a
        back == IF mine THEN {l} ELSE {}
    IN  /\ lead[l].status # "NONE"
        /\ passed' = passed \cup ({a} \X back)
        /\ TryAssign(CountPass(Requeue(lead, back), back),
                     [agent EXCEPT ![a].current = NoLead, ![a].misses = 0],
                     passed, batch)
        /\ UNCHANGED <<dnc, batch, handCall>>

\* Passing something that is not one's offer still clears the agent's row.
Pass(a, l) ==
    LET mine == lead[l].status = "ASSIGNED" /\ lead[l].owner = a
        back == IF mine THEN {l} ELSE {}
        passing == passed \cup ({a} \X back)
    IN  /\ lead[l].status # "NONE"
        /\ passed' = passing
        /\ TryAssign(CountPass(Requeue(lead, back), back),
                     [agent EXCEPT ![a].current = NoLead, ![a].misses = 0],
                     passing, batch)
        /\ UNCHANGED <<dnc, batch, handCall>>

\* The result of a lead, set by any agent whatever the lead's state; the row
\* keeps its assigned_agent_id.
Disposition(a, l, d) ==
    /\ lead[l].status # "NONE"
    /\ dnc' = AddToDnc(l, d)
    /\ TryAssign([lead EXCEPT ![l].status = "DISPOSITIONED", ![l].disp = d],
                 [agent EXCEPT ![a].current = NoLead, ![a].status = "AVAILABLE"],
                 passed, batch)
    /\ UNCHANGED <<passed, batch, handCall>>

\* Mutant: a lead once passed is never offered to that agent again.
CooldownEnds_never(a, l) == FALSE /\ UNCHANGED vars

\* The PASS action grows older than PASS_COOLDOWN_MINUTES.
CooldownEnds(a, l) ==
    /\ <<a, l>> \in passed
    /\ passed' = passed \ {<<a, l>>}
    /\ UNCHANGED <<lead, agent, dnc, batch, handCall>>

-----------------------------------------------------------------------------
(* Manager operations *)

Reassign(l, a) ==
    LET detached == Detach(agent, lead, {l})
    IN  /\ lead[l].status # "NONE"
        /\ lead' = [lead EXCEPT ![l].owner = a, ![l].status = "ASSIGNED"]
        /\ agent' = [detached EXCEPT ![a].current = l]
        /\ UNCHANGED <<passed, dnc, batch, handCall>>

\* Mutant: the manager's result does not reach the Do-Not-Call list.
ManagerDisposition_unlisted(l, d) ==
    /\ lead[l].status # "NONE"
    /\ TryAssign([lead EXCEPT ![l].status = "DISPOSITIONED", ![l].disp = d, ![l].owner = NoAgent],
                 Detach(agent, lead, {l}), passed, batch)
    /\ UNCHANGED <<passed, dnc, batch, handCall>>

ManagerDisposition(l, d) ==
    /\ lead[l].status # "NONE"
    /\ dnc' = AddToDnc(l, d)
    /\ TryAssign([lead EXCEPT ![l].status = "DISPOSITIONED", ![l].disp = d, ![l].owner = NoAgent],
                 Detach(agent, lead, {l}), passed, batch)
    /\ UNCHANGED <<passed, batch, handCall>>

DeleteLead(l) ==
    /\ lead[l].status # "NONE"
    /\ lead' = Tombstone(lead, {l})
    /\ agent' = Detach(agent, lead, {l})
    /\ passed' = passed \ (Agents \X {l})
    /\ UNCHANGED <<dnc, batch, handCall>>

\* Mutant: parked numbers restored like any other.
RestoreParked_unchecked(l) ==
    /\ lead[l].status # "NONE"
    /\ lead' = [lead EXCEPT ![l] = [status |-> "QUEUED", owner |-> NoAgent,
                                    disp |-> NoDisp, passes |-> 0]]
    /\ UNCHANGED <<agent, passed, dnc, batch, handCall>>

RestoreParked(l) ==
    /\ lead[l].status # "NONE"
    /\ PhoneOf[l] \notin dnc
    /\ lead' = [lead EXCEPT ![l] = [status |-> "QUEUED", owner |-> NoAgent,
                                    disp |-> NoDisp, passes |-> 0]]
    /\ UNCHANGED <<agent, passed, dnc, batch, handCall>>

InCategory(l, c) ==
    /\ lead[l].status \notin {"NONE", "DELETED"}
    /\ CASE c = "wrong_number"     -> lead[l].disp = "WRONG_NUMBER"
         [] c = "couldnt_sell"     -> lead[l].disp = "COULDNT_SELL"
         [] c = "rejected_blocked" -> \/ lead[l].passes >= RejectedAt
                                      \/ lead[l].disp \in {"DNC", "UNQUALIFIED", "NOT_INTERESTED"}
         [] c = "attempted_3plus"  -> lead[l].disp = "ATTEMPTED" /\ lead[l].passes >= AttemptedAt

\* Agents keep their current_lead_id here.
BulkDelete(c) ==
    LET gone == {l \in Leads : InCategory(l, c)}
    IN  /\ gone # {}
        /\ lead' = Tombstone(lead, gone)
        /\ passed' = passed \ (Agents \X gone)
        /\ UNCHANGED <<agent, dnc, batch, handCall>>

-----------------------------------------------------------------------------
(* Sweeps: the auto_assign_queue task every 10s, and the manager's buttons *)

AssignNext ==
    /\ TryAssign(lead, agent, passed, batch)
    /\ UNCHANGED <<passed, dnc, batch, handCall>>

DistributeAll ==
    /\ TryAssignAll(lead, agent, passed, batch)
    /\ UNCHANGED <<passed, dnc, batch, handCall>>

\* S: the offers older than the limit.  Each one is a miss of the agent it is on.
MissedBy(a, S) == {l \in S : lead[l].owner = a}

\* Mutant: misses are counted, nobody is parked for them.
Parked_never(a, S) ==
    [agent[a] EXCEPT !.misses = Capped(agent[a].misses + Cardinality(MissedBy(a, S)), MissLimit),
                     !.current = IF agent[a].current \in MissedBy(a, S)
                                 THEN NoLead ELSE agent[a].current]

Parked(a, S) ==
    LET n == Capped(agent[a].misses + Cardinality(MissedBy(a, S)), MissLimit)
        row == [agent[a] EXCEPT !.misses = n,
                                !.current = IF agent[a].current \in MissedBy(a, S)
                                            THEN NoLead ELSE agent[a].current]
    IN  IF MissedBy(a, S) # {} /\ n >= MissLimit /\ row.status = "AVAILABLE"
        THEN [row EXCEPT !.status = "AWAY"] ELSE row

Rebroadcast(S) ==
    /\ \A l \in S : lead[l].status = "ASSIGNED"
    /\ TryAssignAll(CountPass(Requeue(lead, S), {l \in S : lead[l].owner # NoAgent}),
                    [a \in Agents |-> Parked(a, S)], passed, batch)
    /\ UNCHANGED <<passed, dnc, batch, handCall>>

\* The leads that the agents of S have as current_lead_id, whoever holds them.
CurrentOf(S) ==
    {l \in Leads : lead[l].status \in Held /\ \E a \in S : agent[a].current = l}

Offline(S) ==
    [a \in Agents |-> IF a \in S THEN [agent[a] EXCEPT !.current = NoLead, !.status = "OFFLINE"]
                                 ELSE agent[a]]

\* S: the agents whose heartbeat is stale and who are not on the Add Deal form.
ReapStaleAgents(S) ==
    /\ S # {} /\ \A a \in S : agent[a].status # "OFFLINE"
    /\ TryAssignAll(CountPass(Requeue(lead, CurrentOf(S)), CurrentOf(S)), Offline(S), passed, batch)
    /\ UNCHANGED <<passed, dnc, batch, handCall>>

KickAll ==
    LET online == {a \in Agents : agent[a].status # "OFFLINE"}
    IN  /\ TryAssign(Requeue(lead, CurrentOf(online)), Offline(online), passed, batch)
        /\ UNCHANGED <<passed, dnc, batch, handCall>>

-----------------------------------------------------------------------------
Next ==
    \/ \E l \in Leads, blocked \in BOOLEAN :
          IngestReply(l, blocked) \/ MirrorNew(l, blocked) \/ MirrorAppend(l, blocked)
    \/ \E b \in Batches : IngestCsv(b) \/ PauseBatch(b) \/ ResumeBatch(b) \/ DeleteBatch(b)
    \/ \E a \in Agents :
          \/ Join(a) \/ Leave(a) \/ StartBreak(a) \/ EndBreak(a) \/ LeaveSmsQueue(a)
          \/ StartHandCall(a) \/ EndHandCall(a)
    \/ \E a \in Agents, l \in Leads :
          \/ Accept(a, l) \/ Pass(a, l) \/ CooldownEnds(a, l) \/ Reassign(l, a)
          \/ \E d \in Dispositions : Disposition(a, l, d)
    \/ \E l \in Leads :
          \/ DeleteLead(l) \/ RestoreParked(l)
          \/ \E d \in MANAGER_DISPOSITIONS \cap Dispositions : ManagerDisposition(l, d)
    \/ \E c \in Categories : BulkDelete(c)
    \/ AssignNext \/ DistributeAll \/ KickAll
    \/ \E S \in SUBSET Leads : Rebroadcast(S)
    \/ \E S \in SUBSET Agents : ReapStaleAgents(S)

Spec == Init /\ [][Next]_vars

\* Celery beat runs auto_assign_queue every 10s, whatever the agents do: the
\* pool is distributed, an offer nobody answers is found too old, and the clock
\* takes every PASS past its cooldown.  Nobody is made to act.
FairSpec ==
    /\ Spec
    /\ WF_vars(DistributeAll)
    /\ \A l \in Leads : WF_vars(\E S \in SUBSET Leads : l \in S /\ Rebroadcast(S))
    /\ \A a \in Agents, l \in Leads : WF_vars(CooldownEnds(a, l))

-----------------------------------------------------------------------------
(* Properties *)

\* A lead that is offered or being worked is on exactly one agent: no release,
\* reassignment or restore may leave it in hand and belonging to nobody, where
\* neither the agent's screen nor the sweep by owner would ever find it.
HeldLeadHasOwner ==
    \A l \in Leads : lead[l].status \in Held => lead[l].owner # NoAgent

\* A lead whose result suppresses the number has its number on the Do-Not-Call
\* list, whoever set the result and however the lead was moved since.
SuppressionSticks ==
    \A l \in Leads : lead[l].disp \in DNC_DISPOSITIONS => PhoneOf[l] \in dnc

\* A lead parked with a suppressing result returns to the pool by one way only:
\* the customer wrote again.  (restore_parked has no status check of its own: it
\* relies on the number being on the list.)
ParkedReturnsOnlyByReply ==
    [][\A l \in Leads :
          /\ lead[l].status = "DISPOSITIONED" /\ lead[l].disp \in DNC_DISPOSITIONS
          /\ lead'[l].status = "QUEUED"
          => MirrorAppend(l, FALSE)]_vars

Offered(a, l) == lead[l].status = "ASSIGNED" /\ lead[l].owner = a

\* The step gives lead l to agent a as an offer of the assigner.
NewOffer(a, l) ==
    Offered(a, l)' /\ ~Offered(a, l) /\ ~Reassign(l, a)

\* During the cooldown a lead is not bounced back to the agent who passed it,
\* neither by the pass itself nor by any release, reap or sweep after it.
NotBouncedBack ==
    [][\A a \in Agents, l \in Leads :
          <<a, l>> \in passed' /\ Offered(a, l)' =>
              (<<a, l>> \in passed /\ Offered(a, l)) \/ Reassign(l, a)]_vars

\* Whatever moves in the same step, the assigner hands leads only to agents who
\* come out of it at work: not an admin, not on a break, gone, parked for missed
\* offers or on a hand-dialed call, and with this lead as their current one.
OffersGoToWorkers ==
    [][\A a \in Agents, l \in Leads : NewOffer(a, l) =>
          /\ a \notin Admins /\ a \notin handCall
          /\ agent'[a].status = "AVAILABLE" /\ agent'[a].current = l]_vars

\* An uploaded lead is never offered while another row of its number is
\* dispositioned, not even by the very step that dispositions it.
NoRepopOfWorkedNumber ==
    [][\A a \in Agents, l \in Leads : NewOffer(a, l) /\ IsCsv(l) => ~AlreadyWorked(l, lead')]_vars

\* The pool never stalls: as long as a lead waits in it and some agent is free,
\* offers keep being made; passes only postpone them.
PoolNeverStalls ==
    \/ []<>(\A l \in Leads : ~InPool(l, lead, batch))
    \/ []<>(AvailableAgents(agent) = {})
    \/ []<><<\E a \in Agents, l \in Leads : NewOffer(a, l)>>_vars

\* What a person does to the row of agent a.
TouchedByHand(a) ==
    \/ Join(a) \/ EndBreak(a)
    \/ \E l \in Leads :
          \/ Accept(a, l) \/ Pass(a, l) \/ Reassign(l, a)
          \/ \E d \in Dispositions : Disposition(a, l, d)

\* An offer does not stay for ever on an agent who ignores it: it moves on, or
\* somebody keeps touching that agent's row.
IgnoredOfferMovesOn ==
    \A a \in Agents, l \in Leads :
        <>[]Offered(a, l) => []<><<TouchedByHand(a)>>_vars
=============================================================================
