----------------------------- MODULE SmsQueueTx -----------------------------
(***************************************************************************)
(* The operations of SmsQueue with their database transactions opened up.  *)
(* Web requests and the sweep task each have a session of their own.  A    *)
(* session (core/database.py: no autoflush, READ COMMITTED) reads rows,    *)
(* changes them in memory, flushes the columns that changed, which locks   *)
(* the rows until the end, lets the assigner read and write in the same    *)
(* way, and commits.  No query of the queue locks what it reads, so what   *)
(* a session writes may rest on values others have changed since.          *)
(*                                                                         *)
(* Uploaded lists, deletions, suspended users and hand-dialed calls are    *)
(* left out here.                                                          *)
(***************************************************************************)
EXTENDS SmsQueue

CONSTANTS
    Sessions,
    Ops,        \* the operations this instance lets sessions run
    Keep        \* a column that is not written

ASSUME KeepAssumption ==
    Keep \notin LeadStatus \cup AgentStatus \cup Agents \cup {NoAgent} \cup Leads \cup {NoLead}
                \cup Dispositions \cup DNC_DISPOSITIONS \cup {NoDisp} \cup Nat

VARIABLE tx

txVars == <<lead, agent, passed, dnc, batch, handCall, tx>>

-----------------------------------------------------------------------------
(* Column writes *)

Kept(v, old) == IF v = Keep THEN old ELSE v
Changed(old, new) == IF old = new THEN Keep ELSE new

\* The rows of L with the columns of w written.  (Applied to writes: w over L.)
LeadsWith(L, w) ==
    [l \in Leads |-> [status |-> Kept(w[l].status, L[l].status),
                      owner  |-> Kept(w[l].owner, L[l].owner),
                      disp   |-> Kept(w[l].disp, L[l].disp),
                      passes |-> Kept(w[l].passes, L[l].passes)]]

AgentsWith(A, w) ==
    [a \in Agents |-> [status  |-> Kept(w[a].status, A[a].status),
                       current |-> Kept(w[a].current, A[a].current),
                       misses  |-> Kept(w[a].misses, A[a].misses)]]

\* What a flush writes of rows read as L and now M in memory: an UPDATE names the
\* columns whose value differs from the one loaded.
LeadWrites(L, M) ==
    [l \in Leads |-> [status |-> Changed(L[l].status, M[l].status),
                      owner  |-> Changed(L[l].owner, M[l].owner),
                      disp   |-> Changed(L[l].disp, M[l].disp),
                      passes |-> Changed(L[l].passes, M[l].passes)]]

AgentWrites(A, B) ==
    [a \in Agents |-> [status  |-> Changed(A[a].status, B[a].status),
                       current |-> Changed(A[a].current, B[a].current),
                       misses  |-> Changed(A[a].misses, B[a].misses)]]

NoLeadWrites ==
    [l \in Leads |-> [status |-> Keep, owner |-> Keep, disp |-> Keep, passes |-> Keep]]
NoAgentWrites == [a \in Agents |-> [status |-> Keep, current |-> Keep, misses |-> Keep]]

LeadRows(w) == {l \in Leads : w[l] # NoLeadWrites[l]}
AgentRows(w) == {a \in Agents : w[a] # NoAgentWrites[a]}

-----------------------------------------------------------------------------
(* Sessions *)

\* pc: idle, loaded (nothing flushed yet), open (all flushed), offering (the assigner
\* has chosen, to be flushed).  lw, aw: flushed and not committed; plw, paw: to be
\* flushed; ps, nums: inserted PASS actions and Do-Not-Call numbers; tail: how often
\* the assigner still runs; late: the leads others have written since it began.
Idle == [pc |-> "idle", op |-> "none", tail |-> "none",
         lw |-> NoLeadWrites, aw |-> NoAgentWrites,
         plw |-> NoLeadWrites, paw |-> NoAgentWrites,
         ps |-> {}, nums |-> {}, late |-> {}]

Written(T) == T \cup {Keep}
LeadWrite == [status : Written(LeadStatus),
              owner  : Written(Agents \cup {NoAgent}),
              disp   : Written(Dispositions \cup {NoDisp}),
              passes : Written(0..PassCap)]
AgentWrite == [status  : Written(AgentStatus),
               current : Written(Leads \cup {NoLead}),
               misses  : Written(0..MissLimit)]
Session == [pc : {"idle", "loaded", "open", "offering"}, op : Ops \cup {"none"},
            tail : {"none", "one", "all"},
            lw : [Leads -> LeadWrite], aw : [Agents -> AgentWrite],
            plw : [Leads -> LeadWrite], paw : [Agents -> AgentWrite],
            ps : SUBSET (Agents \X Leads), nums : SUBSET Phones, late : SUBSET Leads]

\* The type invariant: the tables keep the types of their columns, and a session
\* writes only values that its columns can take.
TxTypeOK == TypeOK /\ tx \in [Sessions -> Session]

TxInit == Init /\ tx = [s \in Sessions |-> Idle]

\* Session s has read the committed tables and made of them L, A and the new rows.
Begin(s, op, L, A, ps, nums, tail) ==
    /\ op \in Ops
    /\ tx[s].pc = "idle"
    /\ tx' = [tx EXCEPT ![s] = [Idle EXCEPT !.pc = "loaded", !.op = op, !.tail = tail,
                                            !.plw = LeadWrites(lead, L),
                                            !.paw = AgentWrites(agent, A),
                                            !.ps = ps, !.nums = nums]]
    /\ UNCHANGED vars

\* Sessions that ingest one reply at once insert a row each: two members of Leads.
BeginIngest(s, l, blocked) ==
    /\ lead[l].status = "NONE" /\ ~IsCsv(l)
    /\ \A t \in Sessions : l \notin LeadRows(tx[t].plw) \cup LeadRows(tx[t].lw)
    /\ Begin(s, "ingest", NewReplyRow(l, blocked), agent, {},
             IF blocked THEN AddToDnc(l, "UNQUALIFIED") \ dnc ELSE {}, "none")

BeginAppend(s, l, blocked) ==
    \/ /\ blocked /\ lead[l].status = "QUEUED"
       /\ Begin(s, "append",
                [lead EXCEPT ![l].status = "DISPOSITIONED", ![l].disp = "UNQUALIFIED"],
                agent, {}, AddToDnc(l, "UNQUALIFIED") \ dnc, "none")
    \/ /\ ~blocked /\ lead[l].status = "DISPOSITIONED" /\ lead[l].disp \in DNC_DISPOSITIONS
       /\ Begin(s, "append", [lead EXCEPT ![l].status = "QUEUED", ![l].disp = NoDisp],
                agent, {}, {}, "none")

\* Mutant: a status the table does not know.
BeginJoin_status(s, a) ==
    Begin(s, "join", lead, [agent EXCEPT ![a].status = "WAITING", ![a].misses = 0],
          {}, {}, "one")

BeginJoin(s, a) ==
    Begin(s, "join", lead, [agent EXCEPT ![a].status = "AVAILABLE", ![a].misses = 0],
          {}, {}, "one")

BeginLeave(s, a) ==
    Begin(s, "leave", Requeue(lead, HeldBy(a)),
          [agent EXCEPT ![a].current = NoLead, ![a].status = "OFFLINE"], {}, {}, "one")

BeginBreak(s, a) ==
    Begin(s, "break", Requeue(lead, HeldBy(a)),
          [agent EXCEPT ![a].current = NoLead, ![a].status = "AWAY"], {}, {}, "one")

BeginEndBreak(s, a) ==
    Begin(s, "end break", lead, [agent EXCEPT ![a].status = "AVAILABLE"], {}, {}, "one")

BeginAccept(s, a, l) ==
    /\ Offered(a, l)
    /\ Begin(s, "accept", [lead EXCEPT ![l].status = "IN_PROGRESS"],
             [agent EXCEPT ![a].status = "ON_CALL", ![a].current = l, ![a].misses = 0],
             {}, {}, "none")

BeginPass(s, a, l) ==
    LET back == IF Offered(a, l) THEN {l} ELSE {}
    IN  /\ lead[l].status # "NONE"
        /\ Begin(s, "pass", CountPass(Requeue(lead, back), back),
                 [agent EXCEPT ![a].current = NoLead, ![a].misses = 0],
                 {a} \X back, {}, "one")

\* Mutant: the number is left to somebody else to list.
BeginDisposition_unlisted(s, a, l, d) ==
    /\ lead[l].status # "NONE"
    /\ Begin(s, "disposition",
             [lead EXCEPT ![l].status = "DISPOSITIONED", ![l].disp = d],
             [agent EXCEPT ![a].current = NoLead, ![a].status = "AVAILABLE"],
             {}, {}, "one")

BeginDisposition(s, a, l, d) ==
    /\ lead[l].status # "NONE"
    /\ Begin(s, "disposition",
             [lead EXCEPT ![l].status = "DISPOSITIONED", ![l].disp = d],
             [agent EXCEPT ![a].current = NoLead, ![a].status = "AVAILABLE"],
             {}, AddToDnc(l, d) \ dnc, "one")

BeginReassign(s, l, a) ==
    /\ lead[l].status # "NONE"
    /\ Begin(s, "reassign", [lead EXCEPT ![l].owner = a, ![l].status = "ASSIGNED"],
             [Detach(agent, lead, {l}) EXCEPT ![a].current = l], {}, {}, "none")

BeginManagerDisposition(s, l, d) ==
    /\ lead[l].status # "NONE"
    /\ Begin(s, "manager disposition",
             [lead EXCEPT ![l].status = "DISPOSITIONED", ![l].disp = d, ![l].owner = NoAgent],
             Detach(agent, lead, {l}), {}, AddToDnc(l, d) \ dnc, "one")

BeginRestore(s, l) ==
    /\ lead[l].status # "NONE"
    /\ PhoneOf[l] \notin dnc
    /\ Begin(s, "restore", [lead EXCEPT ![l] = [status |-> "QUEUED", owner |-> NoAgent,
                                                disp |-> NoDisp, passes |-> 0]],
             agent, {}, {}, "none")

BeginAssignNext(s) == Begin(s, "assign", lead, agent, {}, {}, "one")

BeginDistribute(s) == Begin(s, "distribute", lead, agent, {}, {}, "all")

\* An offer made while some session has been running is not old enough yet: a
\* transaction takes milliseconds, the limit is 20 or 90 seconds.
BeginRebroadcast(s, S) ==
    /\ \A l \in S : lead[l].status = "ASSIGNED"
    /\ \A t \in Sessions : S \cap tx[t].late = {}
    /\ Begin(s, "rebroadcast",
             CountPass(Requeue(lead, S), {l \in S : lead[l].owner # NoAgent}),
             [a \in Agents |-> Parked(a, S)], {}, {}, "all")

BeginReap(s, S) ==
    /\ S # {} /\ \A a \in S : agent[a].status # "OFFLINE"
    /\ Begin(s, "reap", CountPass(Requeue(lead, CurrentOf(S)), CurrentOf(S)), Offline(S),
             {}, {}, "all")

BeginSome(s) ==
    \/ \E l \in Leads, blocked \in BOOLEAN : BeginIngest(s, l, blocked) \/ BeginAppend(s, l, blocked)
    \/ \E a \in Agents : BeginJoin(s, a) \/ BeginLeave(s, a) \/ BeginBreak(s, a) \/ BeginEndBreak(s, a)
    \/ \E a \in Agents, l \in Leads :
          \/ BeginAccept(s, a, l) \/ BeginPass(s, a, l) \/ BeginReassign(s, l, a)
          \/ \E d \in Dispositions : BeginDisposition(s, a, l, d)
    \/ \E l \in Leads :
          \/ BeginRestore(s, l)
          \/ \E d \in MANAGER_DISPOSITIONS \cap Dispositions : BeginManagerDisposition(s, l, d)
    \/ BeginAssignNext(s) \/ BeginDistribute(s)
    \/ \E S \in SUBSET Leads : BeginRebroadcast(s, S)
    \/ \E S \in SUBSET Agents : BeginReap(s, S)

-----------------------------------------------------------------------------
(* The rest of a transaction *)

\* A flush waits for rows and numbers another session has flushed.
WaitsFor(s, t) ==
    /\ tx[s].pc \in {"loaded", "offering"} /\ tx[t].pc \in {"open", "offering"}
    /\ \/ LeadRows(tx[s].plw) \cap LeadRows(tx[t].lw) # {}
       \/ AgentRows(tx[s].paw) \cap AgentRows(tx[t].aw) # {}
       \/ tx[s].nums \cap tx[t].nums # {}

Blocked(s) == \E t \in Sessions \ {s} : WaitsFor(s, t)

Flush(s) ==
    /\ tx[s].pc \in {"loaded", "offering"} /\ ~Blocked(s)
    /\ tx[s].nums \cap dnc = {}
    /\ tx' = [tx EXCEPT ![s].pc = "open",
                        ![s].lw = LeadsWith(tx[s].lw, tx[s].plw), ![s].plw = NoLeadWrites,
                        ![s].aw = AgentsWith(tx[s].aw, tx[s].paw), ![s].paw = NoAgentWrites]
    /\ UNCHANGED vars

\* _try_assign's choice from the tables L and A: agent a gets lead l.
Offering(s, L, A, a, l) ==
    tx' = [tx EXCEPT ![s].pc = "offering",
                     ![s].tail = IF @ = "one" THEN "none" ELSE @,
                     ![s].plw = LeadWrites(L, [L EXCEPT ![l].status = "ASSIGNED", ![l].owner = a]),
                     ![s].paw = AgentWrites(A, [A EXCEPT ![a].current = l])]

\* Mutant: db.flush() forgotten before _try_assign: its queries miss the changes.
Pick_unflushed(s) ==
    LET takers == {a \in AvailableAgents(agent) : Choices(a, lead, passed, batch) # {}}
    IN  /\ tx[s].pc = "open" /\ tx[s].tail # "none"
        /\ \/ takers = {} /\ tx' = [tx EXCEPT ![s].tail = "none"]
           \/ \E a \in takers, l \in Leads :
                 FirstOf(l, Choices(a, lead, passed, batch)) /\ Offering(s, lead, agent, a, l)
        /\ UNCHANGED vars

\* One round of _try_assign: the queries see what is committed and the session's own writes.
Pick(s) ==
    LET L == LeadsWith(lead, tx[s].lw)
        A == AgentsWith(agent, tx[s].aw)
        P == passed \cup tx[s].ps
        takers == {a \in AvailableAgents(A) : Choices(a, L, P, batch) # {}}
    IN  /\ tx[s].pc = "open" /\ tx[s].tail # "none"
        /\ \/ takers = {} /\ tx' = [tx EXCEPT ![s].tail = "none"]
           \/ \E a \in takers, l \in Leads :
                 FirstOf(l, Choices(a, L, P, batch)) /\ Offering(s, L, A, a, l)
        /\ UNCHANGED vars

Commit(s) ==
    /\ tx[s].pc = "open" /\ tx[s].tail = "none"
    /\ lead' = LeadsWith(lead, tx[s].lw)
    /\ agent' = AgentsWith(agent, tx[s].aw)
    /\ passed' = passed \cup tx[s].ps
    /\ dnc' = dnc \cup tx[s].nums
    /\ tx' = [t \in Sessions |->
                CASE t = s               -> Idle
                  [] tx[t].pc = "idle"   -> Idle
                  [] OTHER               -> [tx[t] EXCEPT !.late = @ \cup LeadRows(tx[s].lw)]]
    /\ UNCHANGED <<batch, handCall>>

\* The database fails it (a number inserted twice, sessions that wait for each
\* other), or a connection or a process is lost.
Rollback(s) ==
    /\ tx[s].pc # "idle"
    /\ tx' = [tx EXCEPT ![s] = Idle]
    /\ UNCHANGED vars

\* A cooldown lasts minutes, a transaction milliseconds: none is split by one ending.
PassAges ==
    /\ \A s \in Sessions : tx[s].pc = "idle"
    /\ \E a \in Agents, l \in Leads : CooldownEnds(a, l)
    /\ UNCHANGED tx

TxNext ==
    \/ \E s \in Sessions : BeginSome(s) \/ Flush(s) \/ Pick(s) \/ Commit(s) \/ Rollback(s)
    \/ PassAges

TxSpec == TxInit /\ [][TxNext]_txVars

-----------------------------------------------------------------------------
(* Properties *)

\* Each transaction, when it commits alone, is one operation of SmsQueue: the
\* changes read, flushed and overlaid column by column, and the assigner's rounds
\* over them, come to the step that the operation is there.
ImplementsQueue == Spec

\* A suppressing result on its way to the table has its number on the list, or on
\* its way there by the same transaction.
MarksListed ==
    \A s \in Sessions, l \in Leads :
        tx[s].lw[l].disp \in DNC_DISPOSITIONS \/ tx[s].plw[l].disp \in DNC_DISPOSITIONS
            => PhoneOf[l] \in tx[s].nums \cup dnc

=============================================================================
