---------------------------- MODULE SendingProofs ----------------------------
(***************************************************************************)
(* Proofs about Sending, for any campaigns, numbers, leads, cycles and     *)
(* workers: the types; claims and released leads are accounted for; and,   *)
(* when no request times out after the carrier has taken the message,      *)
(* sending implements Outreach.                                            *)
(***************************************************************************)
EXTENDS Sending, TLAPS

-----------------------------------------------------------------------------
(* Types. *)

LEMMA TypeInit == ASSUME SendingAssumption, Init PROVE SendingTypeOK
<1>1. NoDrip \in DripRow /\ NoWork \in WorkerRow
    BY DEF NoDrip, DripRow, NoWork, WorkerRow, LeadStatus
<1>2. [send |-> "none", deleted |-> FALSE] \in CampRow
    BY DEF CampRow, SendState
<1>3. [pacing |-> "none", status |-> "new", deleted |-> FALSE] \in LeadRow
    BY DEF LeadRow, Pacing, LeadStatus
<1>4. queue \in Seq(Leads)
    BY DEF Init
<1>5. NoDrip.pc = "idle" /\ NoWork.pc = "idle"
    BY DEF NoDrip, NoWork
<1>6. drip \in [Drips -> DripRow] /\ worker \in [Workers -> WorkerRow]
    BY <1>1 DEF Init
<1>7. camp \in [Campaigns -> CampRow] /\ lead \in [Leads -> LeadRow]
    BY <1>2, <1>3 DEF Init
<1>8. \A d \in Drips : drip[d].pc = "idle"
    BY <1>5 DEF Init
<1>9. \A w \in Workers : worker[w].pc = "idle"
    BY <1>5 DEF Init
<1>10. texts \in [Campaigns \X Phones -> Nat]
    BY DEF Init
<1> QED BY <1>4, <1>6, <1>7, <1>8, <1>9, <1>10 DEF Init, SendingTypeOK

\* A claim belongs to a campaign and a number.
LEMMA KeyType == ASSUME SendingAssumption, NEW l \in Leads PROVE Key(l) \in Campaigns \X Phones
BY DEF SendingAssumption, Key

\* Another row of a cycle, of a worker or of a lead keeps their types.
LEMMA DripRows ==
    ASSUME SendingTypeOK, NEW d \in Drips, NEW row \in DripRow, row.pc # "idle" => row.camp \in Campaigns,
           drip' = [drip EXCEPT ![d] = row]
    PROVE  /\ drip' \in [Drips -> DripRow]
           /\ \A e \in Drips : drip'[e].pc # "idle" => drip'[e].camp \in Campaigns
BY DEF SendingTypeOK

LEMMA WorkerRows ==
    ASSUME SendingTypeOK, NEW w \in Workers, NEW row \in WorkerRow, row.pc # "idle" => row.lead \in Leads,
           worker' = [worker EXCEPT ![w] = row]
    PROVE  /\ worker' \in [Workers -> WorkerRow]
           /\ \A v \in Workers : worker'[v].pc # "idle" => worker'[v].lead \in Leads
BY DEF SendingTypeOK

LEMMA LeadRows ==
    ASSUME SendingTypeOK, NEW l \in Leads, NEW status \in LeadStatus,
           lead' = [lead EXCEPT ![l].status = status]
    PROVE  lead' \in [Leads -> LeadRow]
<1>1. [lead[l] EXCEPT !.status = status] \in LeadRow
    BY DEF SendingTypeOK, LeadRow
<1> QED BY <1>1 DEF SendingTypeOK

\* A worker that goes on with its job, and one that is idle again.
LEMMA GoesOn ==
    ASSUME SendingTypeOK, NEW w \in Workers, worker[w].pc # "idle",
           NEW pc \in {"post", "undo", "retry", "done"}, worker' = [worker EXCEPT ![w].pc = pc]
    PROVE  /\ worker' \in [Workers -> WorkerRow]
           /\ \A v \in Workers : worker'[v].pc # "idle" => worker'[v].lead \in Leads
<1> DEFINE row == [worker[w] EXCEPT !.pc = pc]
<1>1. row \in WorkerRow /\ row.lead = worker[w].lead
    BY DEF SendingTypeOK, WorkerRow
<1>2. worker[w].lead \in Leads
    BY DEF SendingTypeOK
<1>3. worker' = [worker EXCEPT ![w] = row]
    OBVIOUS
<1> HIDE DEF row
<1> QED BY <1>1, <1>2, <1>3, WorkerRows

LEMMA Rests ==
    ASSUME SendingTypeOK, NEW w \in Workers, worker' = [worker EXCEPT ![w] = NoWork]
    PROVE  /\ worker' \in [Workers -> WorkerRow]
           /\ \A v \in Workers : worker'[v].pc # "idle" => worker'[v].lead \in Leads
<1>1. NoWork \in WorkerRow /\ NoWork.pc = "idle"
    BY DEF NoWork, WorkerRow, LeadStatus
<1> QED BY <1>1, WorkerRows

LEMMA CycleRests ==
    ASSUME SendingTypeOK, NEW d \in Drips, drip' = [drip EXCEPT ![d] = NoDrip]
    PROVE  /\ drip' \in [Drips -> DripRow]
           /\ \A e \in Drips : drip'[e].pc # "idle" => drip'[e].camp \in Campaigns
<1>1. NoDrip \in DripRow /\ NoDrip.pc = "idle"
    BY DEF NoDrip, DripRow
<1> QED BY <1>1, DripRows

\* The campaigns page keeps the types.
LEMMA AdminType ==
    ASSUME SendingTypeOK, NEW c \in Campaigns, Admin(c) PROVE SendingTypeOK'
<1>1. CASE Upload(c)
    BY <1>1 DEF Upload, SendingTypeOK, CampRow, SendState
<1>2. CASE Imports(c)
    BY <1>2 DEF Imports, SendingTypeOK, LeadRow, Pacing
<1>3. CASE RunChecks(c)
    BY <1>3 DEF RunChecks, SendingTypeOK
<1>4. CASE RunCommits(c)
    BY <1>4 DEF RunCommits, SendingTypeOK, CampRow, SendState
<1>5. CASE Halt(c)
    BY <1>5 DEF Halt, SendingTypeOK, CampRow, SendState
<1>6. CASE Delete(c)
    <2>1. camp' \in [Campaigns -> CampRow]
        BY <1>6 DEF Delete, SendingTypeOK, CampRow, SendState
    <2>2. lead' \in [Leads -> LeadRow]
        BY <1>6 DEF Delete, SendingTypeOK, LeadRow
    <2> QED BY <1>6, <2>1, <2>2 DEF Delete, SendingTypeOK
<1> QED BY <1>1, <1>2, <1>3, <1>4, <1>5, <1>6 DEF Admin

\* So do the drip cycles.
LEMMA DripType ==
    ASSUME SendingTypeOK, NEW d \in Drips, DripStep(d) \/ DripDies(d) PROVE SendingTypeOK'
<1>1. CASE DripStarts(d)
    <2>1. \E row \in DripRow : row.camp \in Campaigns /\ drip' = [drip EXCEPT ![d] = row]
        <3>1. PICK c \in Campaigns :
                \/ drip' = [drip EXCEPT ![d] = [NoDrip EXCEPT !.pc = "drained", !.camp = c]]
                \/ \E wave \in SUBSET HeldLeads(c) :
                     drip' = [drip EXCEPT ![d] = [pc |-> "push", camp |-> c, wave |-> wave, todo |-> wave]]
            BY <1>1, ZenonT(30) DEF DripStarts
        <3>2. [NoDrip EXCEPT !.pc = "drained", !.camp = c] \in DripRow
            BY DEF NoDrip, DripRow
        <3>3. [NoDrip EXCEPT !.pc = "drained", !.camp = c].camp = c
            BY DEF NoDrip
        <3>4. ASSUME NEW wave \in SUBSET HeldLeads(c)
              PROVE  [pc |-> "push", camp |-> c, wave |-> wave, todo |-> wave] \in DripRow
            BY DEF DripRow, HeldLeads
        <3> QED BY <3>1, <3>2, <3>3, <3>4
    <2> QED BY <1>1, <2>1, DripRows DEF DripStarts, SendingTypeOK
<1>2. CASE DripPushes(d)
    <2>1. PICK l \in drip[d].todo :
            queue' = Append(queue, l) /\ drip' = [drip EXCEPT ![d].todo = @ \ {l}]
        BY <1>2 DEF DripPushes
    <2>2. l \in Leads /\ queue' \in Seq(Leads)
        BY <2>1 DEF SendingTypeOK, DripRow
    <2> DEFINE row == [drip[d] EXCEPT !.todo = @ \ {l}]
    <2>3. row \in DripRow /\ row.camp = drip[d].camp
        BY DEF SendingTypeOK, DripRow
    <2>4. drip[d].camp \in Campaigns
        BY <1>2 DEF DripPushes, SendingTypeOK
    <2>5. drip' = [drip EXCEPT ![d] = row]
        BY <2>1
    <2> HIDE DEF row
    <2> QED BY <1>2, <2>2, <2>3, <2>4, <2>5, DripRows DEF DripPushes, SendingTypeOK
<1>3. CASE DripCommits(d)
    <2>1. lead' \in [Leads -> LeadRow]
        BY <1>3 DEF DripCommits, SendingTypeOK, LeadRow, Pacing
    <2> QED BY <1>3, <2>1, CycleRests DEF DripCommits, SendingTypeOK
<1>4. CASE DripStops(d)
    <2>1. camp' \in [Campaigns -> CampRow]
        BY <1>4 DEF DripStops, SendingTypeOK, CampRow, SendState
    <2> QED BY <1>4, <2>1, CycleRests DEF DripStops, SendingTypeOK
<1>5. CASE DripDies(d)
    BY <1>5, CycleRests DEF DripDies, SendingTypeOK
<1> QED BY <1>1, <1>2, <1>3, <1>4, <1>5 DEF DripStep

\* So do the workers, whose jobs are leads.
LEMMA WorkerType ==
    ASSUME SendingAssumption, SendingTypeOK, NEW w \in Workers, WorkerStep(w) \/ WorkerDies(w)
    PROVE  SendingTypeOK'
<1>0. worker[w].pc # "idle" => worker[w].lead \in Leads /\ Key(worker[w].lead) \in Campaigns \X Phones
    BY KeyType DEF SendingTypeOK
<1>1. CASE WorkerPops(w)
    <2>1. Head(queue) \in Leads /\ Tail(queue) \in Seq(Leads)
        BY <1>1 DEF WorkerPops, SendingTypeOK
    <2>2. lead[Head(queue)].status \in LeadStatus
        BY <2>1 DEF SendingTypeOK, LeadRow
    <2> DEFINE row == [pc |-> IF lead[Head(queue)].status = "past" THEN "retry" ELSE "claim",
                       lead |-> Head(queue), saw |-> lead[Head(queue)].status]
    <2>3. row \in WorkerRow /\ row.lead \in Leads
        BY <2>1, <2>2 DEF WorkerRow
    <2>4. worker' = [worker EXCEPT ![w] = row]
        BY <1>1 DEF WorkerPops
    <2> HIDE DEF row
    <2> QED BY <1>1, <2>1, <2>3, <2>4, WorkerRows DEF WorkerPops, SendingTypeOK
<1>2. CASE WorkerClaims(w)
    <2>1. claimed' \subseteq Campaigns \X Phones
        BY <1>0, <1>2 DEF WorkerClaims, SendingTypeOK
    <2>2. \E pc \in {"post", "undo", "retry", "done"} : worker' = [worker EXCEPT ![w].pc = pc]
        BY <1>2 DEF WorkerClaims
    <2>3. worker[w].pc # "idle"
        BY <1>2 DEF WorkerClaims
    <2> QED BY <1>2, <2>1, <2>2, <2>3, GoesOn DEF WorkerClaims, SendingTypeOK
<1>3. CASE WorkerPosts(w)
    <2>1. texts' = texts \/ texts' = [texts EXCEPT ![Key(worker[w].lead)] = @ + 1]
        BY <1>3 DEF WorkerPosts
    <2>2. worker[w].pc # "idle"
        BY <1>3 DEF WorkerPosts
    <2>3. texts' \in [Campaigns \X Phones -> Nat]
        <3> DEFINE k == Key(worker[w].lead)
        <3>1. k \in Campaigns \X Phones
            BY <1>0, <2>2
        <3>2. texts' = texts \/ texts' = [texts EXCEPT ![k] = texts[k] + 1]
            BY <2>1
        <3>3. texts \in [Campaigns \X Phones -> Nat]
            BY DEF SendingTypeOK
        <3> HIDE DEF k
        <3>4. texts[k] + 1 \in Nat
            BY <3>1, <3>3
        <3> QED BY <3>2, <3>3, <3>4
    <2>4. \E pc \in {"post", "undo", "retry", "done"} : worker' = [worker EXCEPT ![w].pc = pc]
        BY <1>3 DEF WorkerPosts
    <2>5. swallowed' \subseteq Leads
        BY <1>0, <1>3, <2>2 DEF WorkerPosts, SendingTypeOK
    <2>6. /\ worker' \in [Workers -> WorkerRow]
          /\ \A v \in Workers : worker'[v].pc # "idle" => worker'[v].lead \in Leads
        BY <2>2, <2>4, GoesOn
    <2>7. UNCHANGED <<camp, running, lead, killed, queue, retries, claimed, drip, optedOut, lost>>
        BY <1>3 DEF WorkerPosts
    <2> QED BY <2>3, <2>5, <2>6, <2>7 DEF SendingTypeOK
<1>4. CASE WorkerUndoes(w)
    <2>1. worker[w].pc # "idle"
        BY <1>4 DEF WorkerUndoes
    <2> QED BY <1>4, <2>1, GoesOn DEF WorkerUndoes, SendingTypeOK
<1>5. CASE WorkerRetries(w)
    <2>1. worker[w].lead \in Leads
        BY <1>0, <1>5 DEF WorkerRetries
    <2> QED BY <1>5, <2>1, Rests DEF WorkerRetries, SendingTypeOK
<1>6. CASE WorkerCommits(w)
    <2>1. worker[w].lead \in Leads
        BY <1>0, <1>6 DEF WorkerCommits
    <2>2. lead[worker[w].lead].status \in LeadStatus /\ "contacted" \in LeadStatus
        BY <2>1 DEF SendingTypeOK, LeadRow, LeadStatus
    <2>3. \E status \in LeadStatus : lead' = [lead EXCEPT ![worker[w].lead].status = status]
        BY <1>6, <2>2 DEF WorkerCommits
    <2>4. lead' \in [Leads -> LeadRow]
        BY <2>1, <2>3, LeadRows
    <2> QED BY <1>6, <2>4, Rests DEF WorkerCommits, SendingTypeOK
<1>7. CASE WorkerDies(w)
    <2>1. worker[w].lead \in Leads
        BY <1>0, <1>7 DEF WorkerDies
    <2> QED BY <1>7, <2>1, Rests DEF WorkerDies, SendingTypeOK
<1> QED BY <1>1, <1>2, <1>3, <1>4, <1>5, <1>6, <1>7 DEF WorkerStep

\* So do the kill switch, the customers and the agents.
LEMMA OutsideType ==
    ASSUME SendingAssumption, SendingTypeOK,
           Switch \/ \E l \in Leads : Books(l) \/ \E stop \in BOOLEAN : Reply(l, stop)
    PROVE  SendingTypeOK'
<1>1. CASE Switch
    BY <1>1 DEF Switch, SendingTypeOK
<1>2. ASSUME NEW l \in Leads, Books(l) PROVE SendingTypeOK'
    <2>1. "past" \in LeadStatus
        BY DEF LeadStatus
    <2>2. lead' \in [Leads -> LeadRow]
        BY <1>2, <2>1, LeadRows DEF Books
    <2> QED BY <1>2, <2>2 DEF Books, SendingTypeOK
<1>3. ASSUME NEW l \in Leads, NEW stop \in BOOLEAN, Reply(l, stop) PROVE SendingTypeOK'
    <2>1. Replied(lead[l].status) \in LeadStatus /\ "past" \in LeadStatus
        BY DEF Replied, SendingTypeOK, LeadRow, LeadStatus
    <2>2. \E status \in LeadStatus : lead' = [lead EXCEPT ![l].status = status]
        BY <1>3, <2>1 DEF Reply
    <2>3. lead' \in [Leads -> LeadRow]
        BY <2>2, LeadRows
    <2>4. PhoneOf[l] \in Phones
        BY DEF SendingAssumption
    <2>5. optedOut' \subseteq Phones
        BY <1>3, <2>4 DEF Reply, SendingTypeOK
    <2> QED BY <1>3, <2>3, <2>5 DEF Reply, SendingTypeOK
<1> QED BY <1>1, <1>2, <1>3

LEMMA TypeStep == ASSUME SendingAssumption, SendingTypeOK, [Next]_vars PROVE SendingTypeOK'
<1>1. CASE UNCHANGED vars
    BY <1>1 DEF vars, SendingTypeOK
<1> QED BY <1>1, AdminType, DripType, WorkerType, OutsideType DEF Next

\* The rows of campaigns and leads, the jobs, the claims, the cycles and the
\* workers keep the shapes that their tables and Redis keys have.
THEOREM SendingTypes == Spec => []SendingTypeOK
<1>1. Init => SendingTypeOK BY SendingAssumption, TypeInit
<1>2. SendingTypeOK /\ [Next]_vars => SendingTypeOK' BY SendingAssumption, TypeStep
<1> QED BY <1>1, <1>2, PTL DEF Spec

-----------------------------------------------------------------------------
(* Claims. *)

\* What the carrier's answer, or its want, makes of the texts, and the worker.
LEMMA PostOutcome ==
    ASSUME SendingAssumption, SendingTypeOK, NEW w \in Workers, WorkerPosts(w),
           NEW key, key = Key(worker[w].lead)
    PROVE  /\ key \in Campaigns \X Phones /\ worker[w].lead \in Leads /\ worker[w].pc = "post"
           /\ UNCHANGED <<queue, retries, claimed, lost>>
           /\ worker'[w].lead = worker[w].lead /\ \A v \in Workers \ {w} : worker'[v] = worker[v]
           /\ \/ worker'[w].pc = "undo" /\ UNCHANGED <<texts, swallowed>>
              \/ /\ texts' = [texts EXCEPT ![key] = texts[key] + 1] /\ UNCHANGED swallowed
                 /\ worker'[w].pc = "done" \/ (Unsure /\ worker'[w].pc = "undo")
              \/ worker'[w].pc = "done" /\ swallowed' = swallowed \cup {worker[w].lead} /\ UNCHANGED texts
<1>1. worker \in [Workers -> WorkerRow] /\ worker[w].lead \in Leads /\ worker[w].pc = "post"
    BY DEF SendingTypeOK, WorkerPosts
<1>2. ASSUME NEW pc, worker' = [worker EXCEPT ![w].pc = pc]
      PROVE  /\ worker'[w].pc = pc /\ worker'[w].lead = worker[w].lead
             /\ \A v \in Workers \ {w} : worker'[v] = worker[v]
    BY <1>1, <1>2 DEF WorkerRow
<1>3. worker' = [worker EXCEPT ![w].pc = "undo"] \/ worker' = [worker EXCEPT ![w].pc = "done"]
    BY DEF WorkerPosts
<1>4. \/ worker'[w].pc = "undo" /\ UNCHANGED <<texts, swallowed>>
      \/ /\ texts' = [texts EXCEPT ![key] = texts[key] + 1] /\ UNCHANGED swallowed
         /\ worker'[w].pc = "done" \/ (Unsure /\ worker'[w].pc = "undo")
      \/ worker'[w].pc = "done" /\ swallowed' = swallowed \cup {worker[w].lead} /\ UNCHANGED texts
    BY <1>2 DEF WorkerPosts
<1>5. key \in Campaigns \X Phones
    BY <1>1, KeyType
<1> QED BY <1>1, <1>2, <1>3, <1>4, <1>5 DEF WorkerPosts

\* Texts are never taken back.
LEMMA TextsGrow ==
    ASSUME SendingAssumption, SendingTypeOK, NEW w \in Workers, WorkerPosts(w),
           NEW k \in Campaigns \X Phones, texts[k] > 0
    PROVE  texts'[k] > 0
<1>1. PICK key : key = Key(worker[w].lead)
    OBVIOUS
<1>2. key \in Campaigns \X Phones /\ (texts' = texts \/ texts' = [texts EXCEPT ![key] = texts[key] + 1])
    BY <1>1, PostOutcome
<1>3. texts \in [Campaigns \X Phones -> Nat]
    BY DEF SendingTypeOK
<1>4. CASE k = key
    BY <1>2, <1>3, <1>4
<1>5. CASE k # key
    BY <1>2, <1>3, <1>5
<1> QED BY <1>4, <1>5

\* The steps of a worker with a job: what its claim stands for stays, unless the
\* worker gives the claim back.
LEMMA WorkerStands ==
    ASSUME SendingAssumption, SendingTypeOK, NoClaimLeaks, NEW w \in Workers, WorkerStep(w) \/ WorkerDies(w)
    PROVE  NoClaimLeaks'
<1> DEFINE key == Key(worker[w].lead)
<1>0. \A k \in claimed : ClaimStands(k) /\ k \in Campaigns \X Phones
    BY DEF NoClaimLeaks, ClaimStands, SendingTypeOK
<1>a. SUFFICES ASSUME NEW k \in claimed' PROVE ClaimStands(k)'
    BY DEF NoClaimLeaks, ClaimStands
<1>b. worker \in [Workers -> WorkerRow]
    BY DEF SendingTypeOK
<1>1. CASE WorkerPops(w)
    <2>1. \A v \in Workers : worker[v].pc \in {"post", "undo"} => worker'[v] = worker[v]
        BY <1>1, <1>b DEF WorkerPops
    <2> QED BY <1>0, <1>1, <2>1 DEF WorkerPops, ClaimStands, Key
<1>2. CASE WorkerClaims(w)
    <2>1. \A v \in Workers : worker[v].pc \in {"post", "undo"} => worker'[v] = worker[v]
        BY <1>2, <1>b DEF WorkerClaims
    <2>2. CASE k \in claimed
        BY <1>0, <1>2, <2>1, <2>2 DEF WorkerClaims, ClaimStands, Key
    <2>3. CASE k \notin claimed
        <3>1. k = key /\ key \notin claimed
            BY <1>2, <2>3 DEF WorkerClaims
        <3>2. worker'[w].pc = "post" /\ worker'[w].lead = worker[w].lead
            BY <1>2, <1>b, <3>1 DEF WorkerClaims, WorkerRow
        <3> QED BY <3>1, <3>2 DEF ClaimStands, Key
    <2> QED BY <2>2, <2>3
<1>3. CASE WorkerPosts(w)
    <2>0. PICK j : j = key
        OBVIOUS
    <2>1. /\ k \in claimed /\ lost' = lost /\ j \in Campaigns \X Phones
          /\ worker'[w].lead = worker[w].lead /\ \A v \in Workers \ {w} : worker'[v] = worker[v]
        BY <1>3, <2>0, PostOutcome
    <2>2. ClaimStands(k) /\ k \in Campaigns \X Phones
        BY <1>0, <2>1
    <2>3. CASE worker'[w].pc = "undo" /\ UNCHANGED <<texts, swallowed>>
        BY <2>1, <2>2, <2>3 DEF ClaimStands, Key
    <2>4. CASE texts' = [texts EXCEPT ![j] = texts[j] + 1] /\ UNCHANGED swallowed
        <3>1. texts \in [Campaigns \X Phones -> Nat]
            BY DEF SendingTypeOK
        <3>2. CASE k = j
            <4>1. texts'[k] > 0
                BY <2>1, <2>4, <3>1, <3>2
            <4> QED BY <4>1 DEF ClaimStands
        <3>3. CASE k # j
            <4>1. texts'[k] = texts[k]
                BY <2>2, <2>4, <3>1, <3>3
            <4> QED BY <2>0, <2>1, <2>2, <2>4, <3>3, <4>1 DEF ClaimStands, Key
        <3> QED BY <3>2, <3>3
    <2>5. CASE swallowed' = swallowed \cup {worker[w].lead} /\ UNCHANGED texts
        BY <2>0, <2>1, <2>2, <2>5 DEF ClaimStands, Key
    <2> QED BY <1>3, <2>0, <2>3, <2>4, <2>5, PostOutcome
<1>4. CASE WorkerUndoes(w)
    <2>1. k \in claimed /\ k # key /\ texts' = texts /\ lost' = lost /\ swallowed' = swallowed
        BY <1>4 DEF WorkerUndoes
    <2>2. \A v \in Workers \ {w} : worker'[v] = worker[v]
        BY <1>4, <1>b DEF WorkerUndoes
    <2> QED BY <1>0, <2>1, <2>2 DEF ClaimStands, Key
<1>5. CASE WorkerRetries(w)
    <2>1. \A v \in Workers : worker[v].pc \in {"post", "undo"} => worker'[v] = worker[v]
        BY <1>5, <1>b DEF WorkerRetries
    <2> QED BY <1>0, <1>5, <2>1 DEF WorkerRetries, ClaimStands, Key
<1>6. CASE WorkerCommits(w)
    <2>1. \A v \in Workers : worker[v].pc \in {"post", "undo"} => worker'[v] = worker[v]
        BY <1>6, <1>b DEF WorkerCommits
    <2> QED BY <1>0, <1>6, <2>1 DEF WorkerCommits, ClaimStands, Key
<1>7. CASE WorkerDies(w)
    <2>1. k \in claimed /\ UNCHANGED <<texts, swallowed>> /\ lost' = lost \cup {worker[w].lead}
        BY <1>7 DEF WorkerDies
    <2>2. \A v \in Workers \ {w} : worker'[v] = worker[v]
        BY <1>7, <1>b DEF WorkerDies
    <2> QED BY <1>0, <2>1, <2>2 DEF ClaimStands, Key
<1> QED BY <1>1, <1>2, <1>3, <1>4, <1>5, <1>6, <1>7 DEF WorkerStep

LEMMA ClaimStep ==
    ASSUME SendingAssumption, SendingTypeOK, NoClaimLeaks, [Next]_vars PROVE NoClaimLeaks'
<1>1. CASE UNCHANGED <<claimed, texts, worker, lost, swallowed>>
    BY <1>1 DEF NoClaimLeaks, ClaimStands, Key
<1>2. ASSUME NEW c \in Campaigns, Admin(c) PROVE UNCHANGED <<claimed, texts, worker, lost, swallowed>>
    BY <1>2 DEF Admin, Upload, Imports, RunChecks, RunCommits, Halt, Delete
<1>3. ASSUME NEW d \in Drips, DripStep(d) \/ DripDies(d) PROVE UNCHANGED <<claimed, texts, worker, lost, swallowed>>
    <2>1. CASE DripStarts(d)
        BY <2>1 DEF DripStarts
    <2>2. CASE DripPushes(d) \/ DripCommits(d) \/ DripStops(d) \/ DripDies(d)
        BY <2>2 DEF DripPushes, DripCommits, DripStops, DripDies
    <2> QED BY <1>3, <2>1, <2>2 DEF DripStep
<1>4. ASSUME NEW l \in Leads, Books(l) \/ \E stop \in BOOLEAN : Reply(l, stop)
      PROVE  UNCHANGED <<claimed, texts, worker, lost, swallowed>>
    BY <1>4 DEF Books, Reply
<1>5. CASE Switch
    BY <1>1, <1>5 DEF Switch
<1>6. CASE UNCHANGED vars
    BY <1>1, <1>6 DEF vars
<1> QED BY <1>1, <1>2, <1>3, <1>4, <1>5, <1>6, WorkerStands DEF Next

\* A claim that is held stands for a text, a send in progress, a worker that died
\* or a refusal taken for a success, for any number of workers, whether or not
\* requests time out.
THEOREM ClaimsAccounted == Spec => []NoClaimLeaks
<1>1. Init => NoClaimLeaks BY DEF Init, NoClaimLeaks
<1>2. SendingTypeOK /\ NoClaimLeaks /\ [Next]_vars => NoClaimLeaks'
    BY SendingAssumption, ClaimStep
<1> QED BY <1>1, <1>2, SendingTypes, PTL DEF Spec

-----------------------------------------------------------------------------
(* Released leads. *)

\* What becomes of a number whose claim is held: it has been texted, or some job of
\* it still has to end, or has ended, elsewhere than among the sent.
Settled(k) ==
    \/ texts[k] > 0
    \/ \E w \in Workers : worker[w].pc \in {"post", "undo", "retry"} /\ Key(worker[w].lead) = k
    \/ \E m \in retries \cup lost \cup swallowed : Key(m) = k

\* The number has been texted, or somebody has a job of it.
Served(l) == texts[Key(l)] > 0 \/ \E m \in Leads : Key(m) = Key(l) /\ HasJob(m)

\* A cycle has pushed what it no longer has to push; a worker whose job counts as
\* sent can leave it, since the number is settled without it; an idle worker has
\* no job.
ReleaseInv ==
    /\ \A l \in Leads : lead[l].pacing = "released" => Served(l)
    /\ \A d \in Drips : drip[d].pc = "push" => \A l \in drip[d].wave \ drip[d].todo : Served(l)
    /\ \A w \in Workers : worker[w].pc = "done" => Settled(Key(worker[w].lead))
    /\ \A w \in Workers : worker[w].pc = "idle" => worker[w].lead = NoLead

LEMMA SettledServes ==
    ASSUME SendingTypeOK, NEW l \in Leads, Settled(Key(l)) PROVE Served(l)
BY DEF SendingTypeOK, Settled, Served, HasJob

LEMMA SettledServesNext ==
    ASSUME SendingTypeOK', NEW l \in Leads, NEW k, k = Key(l), Settled(k)' PROVE Served(l)'
BY DEF SendingTypeOK, Settled, Served, HasJob, Key

\* What the steps other than a worker's keep: the queue only grows.
Keeps ==
    /\ UNCHANGED <<worker, retries, lost, swallowed, texts>>
    /\ \A l \in Leads : InQueue(l) => InQueue(l)'

LEMMA KeepsServed == ASSUME Keeps, NEW l \in Leads, Served(l) PROVE Served(l)'
BY DEF Keeps, Served, HasJob, Key

LEMMA KeepsSettled == ASSUME Keeps, NEW k, Settled(k) PROVE Settled(k)'
BY DEF Keeps, Settled, Key

LEMMA OthersKeep ==
    ASSUME SendingTypeOK, [Next]_vars, \A w \in Workers : ~ WorkerStep(w) /\ ~ WorkerDies(w)
    PROVE  Keeps
<1>1. ASSUME NEW c \in Campaigns, Admin(c) PROVE Keeps
    <2>1. UNCHANGED <<queue, worker, retries, lost, swallowed, texts>>
        BY <1>1 DEF Admin, Upload, Imports, RunChecks, RunCommits, Halt, Delete
    <2> QED BY <2>1 DEF Keeps, InQueue
<1>2. ASSUME NEW d \in Drips, DripStep(d) \/ DripDies(d) PROVE Keeps
    <2>1. CASE DripStarts(d)
        BY <2>1 DEF DripStarts, Keeps, InQueue
    <2>2. CASE DripPushes(d)
        <3>1. PICK m \in drip[d].todo : queue' = Append(queue, m)
            BY <2>2 DEF DripPushes
        <3>2. queue \in Seq(Leads) /\ m \in Leads
            BY <3>1 DEF SendingTypeOK, DripRow
        <3>3. \A i \in 1..Len(queue) : i \in 1..Len(queue') /\ queue'[i] = queue[i]
            BY <3>1, <3>2
        <3>4. UNCHANGED <<worker, retries, lost, swallowed, texts>>
            BY <2>2 DEF DripPushes
        <3> QED BY <3>3, <3>4 DEF Keeps, InQueue
    <2>3. CASE DripCommits(d) \/ DripStops(d) \/ DripDies(d)
        BY <2>3 DEF DripCommits, DripStops, DripDies, Keeps, InQueue
    <2> QED BY <1>2, <2>1, <2>2, <2>3 DEF DripStep
<1>3. CASE Switch \/ UNCHANGED vars
    BY <1>3 DEF Switch, vars, Keeps, InQueue
<1>4. ASSUME NEW m \in Leads, Books(m) \/ \E stop \in BOOLEAN : Reply(m, stop) PROVE Keeps
    BY <1>4 DEF Books, Reply, Keeps, InQueue
<1> QED BY <1>1, <1>2, <1>3, <1>4 DEF Next

\* A settled number stays so: what is posted is texted, swallowed or given back,
\* and what is given back goes to the retries, or down with the worker.
LEMMA WorkerSettles ==
    ASSUME SendingAssumption, SendingTypeOK, NEW w \in Workers, WorkerStep(w) \/ WorkerDies(w),
           NEW k \in Campaigns \X Phones, Settled(k)
    PROVE  Settled(k)'
<1>b. worker \in [Workers -> WorkerRow]
    BY DEF SendingTypeOK
<1>1. CASE WorkerPops(w) \/ WorkerClaims(w) \/ WorkerCommits(w)
    <2>1. UNCHANGED <<texts, retries, lost, swallowed>>
        BY <1>1 DEF WorkerPops, WorkerClaims, WorkerCommits
    <2>2. \A v \in Workers : worker[v].pc \in {"post", "undo", "retry"} => worker'[v] = worker[v]
        BY <1>1, <1>b DEF WorkerPops, WorkerClaims, WorkerCommits
    <2> QED BY <2>1, <2>2 DEF Settled, Key
<1>2. CASE WorkerPosts(w)
    <2>1. PICK j : j = Key(worker[w].lead)
        OBVIOUS
    <2>2. /\ UNCHANGED <<retries, lost>> /\ worker'[w].lead = worker[w].lead
          /\ \A v \in Workers \ {w} : worker'[v] = worker[v]
          /\ j \in Campaigns \X Phones
        BY <1>2, <2>1, PostOutcome
    <2>3. texts[k] > 0 => texts'[k] > 0
        BY <1>2, TextsGrow
    <2>4. CASE worker'[w].pc = "undo" /\ UNCHANGED swallowed
        BY <2>2, <2>3, <2>4 DEF Settled, Key
    <2>5. CASE texts' = [texts EXCEPT ![j] = texts[j] + 1] /\ UNCHANGED swallowed
        <3>1. texts \in [Campaigns \X Phones -> Nat]
            BY DEF SendingTypeOK
        <3>2. texts'[j] > 0
            BY <2>2, <2>5, <3>1
        <3> QED BY <2>1, <2>2, <2>3, <2>5, <3>2 DEF Settled, Key
    <2>6. CASE swallowed' = swallowed \cup {worker[w].lead}
        BY <2>1, <2>2, <2>3, <2>6 DEF Settled, Key
    <2> QED BY <1>2, <2>1, <2>4, <2>5, <2>6, PostOutcome
<1>3. CASE WorkerUndoes(w)
    <2>1. UNCHANGED <<texts, retries, lost, swallowed>> /\ worker' = [worker EXCEPT ![w].pc = "retry"]
        BY <1>3 DEF WorkerUndoes
    <2>2. worker'[w].pc = "retry" /\ worker'[w].lead = worker[w].lead
        BY <1>b, <2>1 DEF WorkerRow
    <2>3. \A v \in Workers \ {w} : worker'[v] = worker[v]
        BY <1>b, <2>1
    <2> QED BY <2>1, <2>2, <2>3 DEF Settled, Key
<1>4. CASE WorkerRetries(w) \/ WorkerDies(w)
    <2>1. UNCHANGED <<texts, swallowed>> /\ retries \cup lost \cup {worker[w].lead} = retries' \cup lost'
        BY <1>4 DEF WorkerRetries, WorkerDies
    <2>2. \A v \in Workers \ {w} : worker'[v] = worker[v]
        BY <1>4, <1>b DEF WorkerRetries, WorkerDies
    <2> QED BY <2>1, <2>2 DEF Settled, Key
<1> QED BY <1>1, <1>2, <1>3, <1>4 DEF WorkerStep

\* A job that leaves the list is with the worker; one that leaves the worker is
\* settled without it, among the retries or lost.
LEMMA WorkerServes ==
    ASSUME SendingAssumption, SendingTypeOK, SendingTypeOK', ReleaseInv,
           NEW w \in Workers, WorkerStep(w) \/ WorkerDies(w), NEW l \in Leads, Served(l)
    PROVE  Served(l)'
<1>b. worker \in [Workers -> WorkerRow] /\ queue \in Seq(Leads) /\ Key(l) \in Campaigns \X Phones
    BY KeyType DEF SendingTypeOK
<1>c. \A m \in Leads, v \in Workers : worker[v].lead = m => worker[v].pc # "idle"
    BY SendingAssumption DEF ReleaseInv, SendingAssumption
<1>d. texts[Key(l)] > 0 => texts'[Key(l)] > 0
    <2>1. CASE WorkerPosts(w)
        BY <1>b, <2>1, TextsGrow
    <2>2. CASE ~ WorkerPosts(w)
        <3>1. texts' = texts
            BY <2>2 DEF WorkerStep, WorkerDies, WorkerPops, WorkerClaims, WorkerUndoes, WorkerRetries, WorkerCommits
        <3> QED BY <3>1
    <2> QED BY <2>1, <2>2
<1>e. SUFFICES ASSUME NEW m \in Leads, Key(m) = Key(l), HasJob(m) PROVE HasJob(m)' \/ Served(l)'
    BY <1>d DEF Served, Key
<1>1. CASE WorkerPops(w)
    <2>1. worker'[w].lead = Head(queue) /\ \A v \in Workers \ {w} : worker'[v] = worker[v]
        BY <1>1, <1>b DEF WorkerPops
    <2>2. ASSUME InQueue(m) PROVE InQueue(m)' \/ worker'[w].lead = m
        <3>1. PICK i \in 1..Len(queue) : queue[i] = m
            BY <2>2 DEF InQueue
        <3>2. CASE i = 1
            BY <1>1, <1>b, <2>1, <3>1, <3>2 DEF WorkerPops
        <3>3. CASE i # 1
            <4>1. i - 1 \in 1..Len(queue') /\ queue'[i - 1] = m
                BY <1>1, <1>b, <3>1, <3>3 DEF WorkerPops
            <4> QED BY <4>1 DEF InQueue
        <3> QED BY <3>2, <3>3
    <2>3. \A v \in Workers : worker[v].lead = m => worker'[v].lead = m
        BY <1>1, <1>c, <2>1 DEF WorkerPops
    <2> QED BY <1>1, <1>e, <2>2, <2>3 DEF WorkerPops, HasJob
<1>2. CASE WorkerClaims(w) \/ WorkerPosts(w) \/ WorkerUndoes(w)
    <2>1. UNCHANGED <<queue, retries, lost>> /\ swallowed \subseteq swallowed'
        BY <1>2 DEF WorkerClaims, WorkerPosts, WorkerUndoes
    <2>2. \E pc \in {"post", "undo", "retry", "done"} : worker' = [worker EXCEPT ![w].pc = pc]
        BY <1>2 DEF WorkerClaims, WorkerPosts, WorkerUndoes
    <2>3. \A v \in Workers : worker'[v].lead = worker[v].lead
        BY <1>b, <2>2 DEF WorkerRow
    <2> QED BY <1>e, <2>1, <2>3 DEF HasJob, InQueue
<1>3. CASE WorkerRetries(w) \/ WorkerDies(w)
    <2>1. UNCHANGED <<queue, swallowed>> /\ retries \cup lost \cup {worker[w].lead} = retries' \cup lost'
        BY <1>3 DEF WorkerRetries, WorkerDies
    <2>2. \A v \in Workers \ {w} : worker'[v] = worker[v]
        BY <1>3, <1>b DEF WorkerRetries, WorkerDies
    <2> QED BY <1>e, <2>1, <2>2 DEF HasJob, InQueue
<1>4. CASE WorkerCommits(w)
    <2>1. UNCHANGED <<queue, retries, lost, swallowed>> /\ worker[w].pc = "done"
        BY <1>4 DEF WorkerCommits
    <2>2. \A v \in Workers \ {w} : worker'[v] = worker[v]
        BY <1>4, <1>b DEF WorkerCommits
    <2>3. CASE worker[w].lead = m
        <3>1. Settled(Key(l))
            BY <1>e, <2>1, <2>3 DEF ReleaseInv
        <3>2. PICK k : k = Key(l)
            OBVIOUS
        <3>3. Settled(k)'
            BY <1>b, <3>1, <3>2, WorkerSettles
        <3> QED BY <3>2, <3>3, SettledServesNext
    <2>4. CASE worker[w].lead # m
        BY <1>e, <2>1, <2>2, <2>4 DEF HasJob, InQueue
    <2> QED BY <2>3, <2>4
<1> QED BY <1>1, <1>2, <1>3, <1>4 DEF WorkerStep

LEMMA StepServes ==
    ASSUME SendingAssumption, SendingTypeOK, ReleaseInv, [Next]_vars, NEW l \in Leads, Served(l)
    PROVE  Served(l)'
<1>0. SendingTypeOK'
    BY TypeStep
<1>1. CASE \E w \in Workers : WorkerStep(w) \/ WorkerDies(w)
    BY <1>0, <1>1, WorkerServes
<1>2. CASE \A w \in Workers : ~ WorkerStep(w) /\ ~ WorkerDies(w)
    BY <1>2, OthersKeep, KeepsServed
<1> QED BY <1>1, <1>2

LEMMA StepSettles ==
    ASSUME SendingAssumption, SendingTypeOK, [Next]_vars, NEW k \in Campaigns \X Phones, Settled(k)
    PROVE  Settled(k)'
<1>1. CASE \E w \in Workers : WorkerStep(w) \/ WorkerDies(w)
    BY <1>1, WorkerSettles
<1>2. CASE \A w \in Workers : ~ WorkerStep(w) /\ ~ WorkerDies(w)
    BY <1>2, OthersKeep, KeepsSettled
<1> QED BY <1>1, <1>2

\* Only the commit of a cycle releases leads, those of its wave, which it has
\* pushed.
LEMMA ReleasedServed ==
    ASSUME SendingAssumption, SendingTypeOK, ReleaseInv, [Next]_vars, NEW l \in Leads, lead'[l].pacing = "released"
    PROVE  Served(l)
<1>0. lead \in [Leads -> LeadRow]
    BY DEF SendingTypeOK
<1>1. CASE lead[l].pacing = "released"
    BY <1>1 DEF ReleaseInv
<1>2. CASE lead[l].pacing # "released"
    <2>1. ASSUME NEW d \in Drips, DripCommits(d) PROVE Served(l)
        <3>1. l \in drip[d].wave /\ drip[d].pc = "push" /\ drip[d].todo = {}
            BY <1>2, <2>1 DEF DripCommits
        <3> QED BY <3>1 DEF ReleaseInv
    <2>2. ASSUME NEW c \in Campaigns, Admin(c) PROVE FALSE
        <3>1. CASE Imports(c)
            BY <1>0, <1>2, <3>1 DEF Imports, LeadRow
        <3>2. CASE Delete(c)
            BY <1>0, <1>2, <3>2 DEF Delete, LeadRow
        <3>3. CASE Upload(c) \/ RunChecks(c) \/ RunCommits(c) \/ Halt(c)
            BY <1>2, <3>3 DEF Upload, RunChecks, RunCommits, Halt
        <3> QED BY <2>2, <3>1, <3>2, <3>3 DEF Admin
    <2>3. ASSUME NEW d \in Drips, DripStarts(d) \/ DripPushes(d) \/ DripStops(d) \/ DripDies(d) PROVE FALSE
        BY <1>2, <2>3 DEF DripStarts, DripPushes, DripStops, DripDies
    <2>4. ASSUME NEW w \in Workers, WorkerStep(w) \/ WorkerDies(w) PROVE FALSE
        <3>1. CASE WorkerCommits(w)
            <4>1. lead'[l].pacing = lead[l].pacing
                BY <1>0, <3>1 DEF WorkerCommits, LeadRow
            <4> QED BY <1>2, <4>1
        <3>2. CASE WorkerPops(w) \/ WorkerClaims(w) \/ WorkerPosts(w) \/ WorkerUndoes(w)
                   \/ WorkerRetries(w) \/ WorkerDies(w)
            BY <1>2, <3>2 DEF WorkerPops, WorkerClaims, WorkerPosts, WorkerUndoes, WorkerRetries, WorkerDies
        <3> QED BY <2>4, <3>1, <3>2 DEF WorkerStep
    <2>5. ASSUME NEW m \in Leads, Books(m) \/ \E stop \in BOOLEAN : Reply(m, stop) PROVE FALSE
        <3>1. \E status : lead' = [lead EXCEPT ![m].status = status]
            BY <2>5 DEF Books, Reply
        <3>2. lead'[l].pacing = lead[l].pacing
            BY <1>0, <3>1 DEF LeadRow
        <3> QED BY <1>2, <3>2
    <2>6. CASE Switch \/ UNCHANGED vars
        BY <1>2, <2>6 DEF Switch, vars
    <2> QED BY <2>1, <2>2, <2>3, <2>4, <2>5, <2>6 DEF Next, DripStep
<1> QED BY <1>1, <1>2

\* What a cycle no longer has to push is served.
LEMMA PushedServed ==
    ASSUME SendingAssumption, SendingTypeOK, ReleaseInv, [Next]_vars,
           NEW d \in Drips, drip'[d].pc = "push", NEW l \in drip'[d].wave \ drip'[d].todo
    PROVE  l \in Leads /\ Served(l)'
<1>0. drip \in [Drips -> DripRow] /\ SendingTypeOK'
    BY SendingAssumption, TypeStep DEF SendingTypeOK
<1>1. l \in Leads
    BY <1>0 DEF SendingTypeOK, DripRow
<1>2. CASE drip'[d] = drip[d]
    BY <1>1, <1>2, StepServes DEF ReleaseInv
<1>3. CASE drip'[d] # drip[d]
    <2>1. PICK e \in Drips : DripStep(e) \/ DripDies(e)
        BY <1>3 DEF Next, vars, Admin, Upload, Imports, RunChecks, RunCommits, Halt, Delete, Switch,
           WorkerStep, WorkerDies, WorkerPops, WorkerClaims, WorkerPosts, WorkerUndoes, WorkerRetries,
           WorkerCommits, Books, Reply
    <2>2. e = d
        BY <1>0, <1>3, <2>1 DEF DripStep, DripDies, DripStarts, DripPushes, DripCommits, DripStops
    <2>3. CASE DripStarts(d)
        <3>1. \/ \E c : drip' = [drip EXCEPT ![d] = [NoDrip EXCEPT !.pc = "drained", !.camp = c]]
              \/ \E c, wave : drip' = [drip EXCEPT ![d] = [pc |-> "push", camp |-> c, wave |-> wave, todo |-> wave]]
            BY <2>3 DEF DripStarts
        <3>2. ASSUME NEW c, drip' = [drip EXCEPT ![d] = [NoDrip EXCEPT !.pc = "drained", !.camp = c]]
              PROVE  drip'[d].wave = drip'[d].todo
            <4>1. drip'[d] = [NoDrip EXCEPT !.pc = "drained", !.camp = c]
                BY <1>0, <3>2
            <4> QED BY <4>1 DEF NoDrip
        <3>3. ASSUME NEW c, NEW wave,
                     drip' = [drip EXCEPT ![d] = [pc |-> "push", camp |-> c, wave |-> wave, todo |-> wave]]
              PROVE  drip'[d].wave = drip'[d].todo
            BY <1>0, <3>3
        <3> QED BY <3>1, <3>2, <3>3
    <2>4. CASE DripPushes(d)
        <3>1. PICK m \in drip[d].todo :
                queue' = Append(queue, m) /\ drip' = [drip EXCEPT ![d].todo = @ \ {m}]
            BY <2>4 DEF DripPushes
        <3>2. drip'[d].wave = drip[d].wave /\ drip'[d].todo = drip[d].todo \ {m} /\ drip[d].pc = "push"
            BY <1>0, <2>4, <3>1 DEF DripPushes, DripRow
        <3>3. CASE l = m
            <4>1. queue \in Seq(Leads)
                BY DEF SendingTypeOK
            <4>2. Len(queue') \in 1..Len(queue') /\ queue'[Len(queue')] = l
                BY <1>1, <3>1, <3>3, <4>1
            <4> QED BY <1>1, <4>2 DEF Served, HasJob, InQueue
        <3>4. CASE l # m
            BY <1>1, <3>2, <3>4, StepServes DEF ReleaseInv
        <3> QED BY <3>3, <3>4
    <2>5. CASE DripCommits(d) \/ DripStops(d) \/ DripDies(d)
        BY <1>0, <2>5 DEF DripCommits, DripStops, DripDies, NoDrip
    <2> QED BY <2>1, <2>2, <2>3, <2>4, <2>5 DEF DripStep
<1> QED BY <1>1, <1>2, <1>3

\* A job counts as sent when its number is settled without it: by its own text, or
\* by whatever the claim it has met stands for.
LEMMA DoneSettled ==
    ASSUME SendingAssumption, SendingTypeOK, NoClaimLeaks, ReleaseInv, [Next]_vars,
           NEW w \in Workers, worker'[w].pc = "done", NEW k, k = Key(worker'[w].lead)
    PROVE  Settled(k)'
<1>0. worker \in [Workers -> WorkerRow]
    BY DEF SendingTypeOK
<1>1. CASE worker'[w] = worker[w]
    <2>1. k \in Campaigns \X Phones /\ Settled(k)
        BY <1>1, KeyType DEF SendingTypeOK, ReleaseInv
    <2> QED BY <2>1, StepSettles
<1>2. CASE worker'[w] # worker[w]
    <2>1. PICK v \in Workers : WorkerStep(v) \/ WorkerDies(v)
        BY <1>2 DEF Next, vars, Admin, Upload, Imports, RunChecks, RunCommits, Halt, Delete, Switch,
           DripStep, DripDies, DripStarts, DripPushes, DripCommits, DripStops, Books, Reply
    <2>2. v = w
        BY <1>0, <1>2, <2>1 DEF WorkerStep, WorkerDies, WorkerPops, WorkerClaims, WorkerPosts, WorkerUndoes,
           WorkerRetries, WorkerCommits
    <2>3. CASE WorkerClaims(w)
        <3>1. k = Key(worker[w].lead) /\ k \in claimed
            BY <1>0, <2>3 DEF WorkerClaims, WorkerRow
        <3>2. k \in Campaigns \X Phones
            BY <3>1 DEF SendingTypeOK
        <3>3. Settled(k)
            BY <3>1 DEF NoClaimLeaks, ClaimStands, Settled
        <3> QED BY <3>2, <3>3, StepSettles
    <2>4. CASE WorkerPosts(w)
        <3>0. PICK j : j = Key(worker[w].lead)
            OBVIOUS
        <3>1. worker'[w].lead = worker[w].lead /\ j \in Campaigns \X Phones
            BY <2>4, <3>0, PostOutcome
        <3>2. CASE texts' = [texts EXCEPT ![j] = texts[j] + 1]
            <4>1. texts \in [Campaigns \X Phones -> Nat] /\ k = j
                BY <3>0, <3>1 DEF SendingTypeOK
            <4>2. texts'[k] > 0
                BY <3>1, <3>2, <4>1
            <4> QED BY <4>2 DEF Settled
        <3>3. CASE swallowed' = swallowed \cup {worker[w].lead}
            BY <3>1, <3>3 DEF Settled
        <3> QED BY <2>4, <3>0, <3>2, <3>3, PostOutcome
    <2>5. CASE WorkerPops(w) \/ WorkerUndoes(w) \/ WorkerRetries(w) \/ WorkerCommits(w) \/ WorkerDies(w)
        <3>1. CASE WorkerPops(w)
            <4>1. PICK pc, l, saw :
                    /\ pc \in {"retry", "claim"}
                    /\ worker' = [worker EXCEPT ![w] = [pc |-> pc, lead |-> l, saw |-> saw]]
                BY <3>1 DEF WorkerPops
            <4> QED BY <1>0, <4>1
        <3>2. CASE WorkerUndoes(w)
            BY <1>0, <3>2 DEF WorkerUndoes, WorkerRow
        <3>3. CASE worker' = [worker EXCEPT ![w] = NoWork]
            BY <1>0, <3>3 DEF NoWork
        <3> QED BY <2>5, <3>1, <3>2, <3>3 DEF WorkerRetries, WorkerCommits, WorkerDies
    <2> QED BY <2>1, <2>2, <2>3, <2>4, <2>5 DEF WorkerStep
<1> QED BY <1>1, <1>2

\* An idle worker has no job.
LEMMA IdleStays ==
    ASSUME SendingTypeOK, ReleaseInv, [Next]_vars, NEW w \in Workers, worker'[w].pc = "idle"
    PROVE  worker'[w].lead = NoLead
<1>0. worker \in [Workers -> WorkerRow]
    BY DEF SendingTypeOK
<1>1. CASE worker'[w] = worker[w]
    BY <1>1 DEF ReleaseInv
<1>2. CASE worker'[w] # worker[w]
    <2>1. PICK v \in Workers : WorkerStep(v) \/ WorkerDies(v)
        BY <1>2 DEF Next, vars, Admin, Upload, Imports, RunChecks, RunCommits, Halt, Delete, Switch,
           DripStep, DripDies, DripStarts, DripPushes, DripCommits, DripStops, Books, Reply
    <2>2. v = w
        BY <1>0, <1>2, <2>1 DEF WorkerStep, WorkerDies, WorkerPops, WorkerClaims, WorkerPosts, WorkerUndoes,
           WorkerRetries, WorkerCommits
    <2>3. CASE WorkerPops(w)
        BY <1>0, <2>3 DEF WorkerPops
    <2>4. CASE WorkerClaims(w) \/ WorkerPosts(w) \/ WorkerUndoes(w)
        <3>1. \E pc \in {"post", "undo", "retry", "done"} : worker' = [worker EXCEPT ![w].pc = pc]
            BY <2>4 DEF WorkerClaims, WorkerPosts, WorkerUndoes
        <3> QED BY <1>0, <3>1 DEF WorkerRow
    <2>5. CASE WorkerRetries(w) \/ WorkerCommits(w) \/ WorkerDies(w)
        BY <1>0, <2>5 DEF WorkerRetries, WorkerCommits, WorkerDies, NoWork
    <2> QED BY <2>1, <2>2, <2>3, <2>4, <2>5 DEF WorkerStep
<1> QED BY <1>1, <1>2

\* A number with a released lead has been texted, or a job of it is in the list,
\* with a worker, among the retries, lost with its worker or ended by a refusal
\* without a reason, for any number of cycles and workers.
THEOREM ReleasedAccounted == Spec => []ReleasedIsAccounted
<1>1. Init => ReleaseInv
    BY SendingAssumption DEF Init, ReleaseInv, NoDrip, NoWork
<1>2. SendingTypeOK /\ NoClaimLeaks /\ ReleaseInv /\ [Next]_vars => ReleaseInv'
    <2>1. SUFFICES ASSUME SendingTypeOK, NoClaimLeaks, ReleaseInv, [Next]_vars PROVE ReleaseInv'
        OBVIOUS
    <2>2. \A l \in Leads : lead'[l].pacing = "released" => Served(l)'
        BY <2>1, SendingAssumption, ReleasedServed, StepServes
    <2>3. \A d \in Drips : drip'[d].pc = "push" => \A l \in drip'[d].wave \ drip'[d].todo : Served(l)'
        BY <2>1, SendingAssumption, PushedServed
    <2>4. \A w \in Workers : worker'[w].pc = "done" => Settled(Key(worker[w].lead))'
        <3> SUFFICES ASSUME NEW w \in Workers, worker'[w].pc = "done" PROVE Settled(Key(worker[w].lead))'
            OBVIOUS
        <3>1. PICK k : k = Key(worker'[w].lead)
            OBVIOUS
        <3>2. Settled(k)'
            BY <2>1, <3>1, SendingAssumption, DoneSettled
        <3> QED BY <3>1, <3>2 DEF Settled, Key
    <2>5. \A w \in Workers : worker'[w].pc = "idle" => worker'[w].lead = NoLead
        BY <2>1, IdleStays
    <2> QED BY <2>2, <2>3, <2>4, <2>5 DEF ReleaseInv
<1>3. ReleaseInv => ReleasedIsAccounted
    BY DEF ReleaseInv, Served, ReleasedIsAccounted
<1> QED BY <1>1, <1>2, <1>3, SendingTypes, ClaimsAccounted, PTL DEF Spec

-----------------------------------------------------------------------------
(* Once at most. *)

\* A text has a claim; a worker between its claim and the carrier's answer holds
\* a claim of its own and no text has gone out for it.
OnceInv ==
    /\ \A k \in Campaigns \X Phones : texts[k] > 0 => k \in claimed
    /\ \A w \in Workers : worker[w].pc \in {"post", "undo"} =>
          Key(worker[w].lead) \in claimed /\ texts[Key(worker[w].lead)] = 0
    /\ \A v, w \in Workers :
          /\ v # w /\ worker[v].pc \in {"post", "undo"} /\ worker[w].pc \in {"post", "undo"}
          => Key(worker[v].lead) # Key(worker[w].lead)

LEMMA OnceFrame ==
    ASSUME OnceInv, UNCHANGED <<claimed, texts, worker>> PROVE OnceInv'
BY DEF OnceInv, Key

\* A worker that comes to rest, or never held a claim, disturbs nobody.
LEMMA OnceRests ==
    ASSUME SendingTypeOK, OnceInv, UNCHANGED <<claimed, texts>>, NEW w \in Workers,
           worker'[w].pc \notin {"post", "undo"}, \A v \in Workers \ {w} : worker'[v] = worker[v]
    PROVE  OnceInv'
BY DEF OnceInv, Key

\* A worker claims what nobody has claimed; it texts under its own claim, and
\* gives it back when it has not texted.
LEMMA OnceWorker ==
    ASSUME Unsure = FALSE, SendingAssumption, SendingTypeOK, OnceInv,
           NEW w \in Workers, WorkerStep(w) \/ WorkerDies(w)
    PROVE  OnceInv' /\ [\E k \in Campaigns \X Phones : O!Text(k)]_texts
<1> DEFINE key == Key(worker[w].lead)
<1>0. worker \in [Workers -> WorkerRow] /\ texts \in [Campaigns \X Phones -> Nat]
    BY DEF SendingTypeOK
<1>a. worker[w].pc # "idle" => key \in Campaigns \X Phones
    BY KeyType DEF SendingTypeOK
<1>1. CASE WorkerPops(w) \/ WorkerRetries(w) \/ WorkerCommits(w) \/ WorkerDies(w)
    <2>1. UNCHANGED <<claimed, texts>> /\ worker'[w].pc \notin {"post", "undo"}
        BY <1>0, <1>1 DEF WorkerPops, WorkerRetries, WorkerCommits, WorkerDies, NoWork
    <2>2. \A v \in Workers \ {w} : worker'[v] = worker[v]
        BY <1>0, <1>1 DEF WorkerPops, WorkerRetries, WorkerCommits, WorkerDies
    <2> QED BY <2>1, <2>2, OnceRests
<1>2. CASE WorkerClaims(w)
    <2>1. texts' = texts /\ claimed' = claimed \cup {key} /\ key \in Campaigns \X Phones
        BY <1>2, <1>a DEF WorkerClaims
    <2>2. \A v \in Workers \ {w} : worker'[v] = worker[v]
        BY <1>0, <1>2 DEF WorkerClaims
    <2>3. worker'[w].lead = worker[w].lead
        BY <1>0, <1>2 DEF WorkerClaims, WorkerRow
    <2>4. CASE key \in claimed
        <3>1. worker'[w].pc = "done" /\ claimed' = claimed
            BY <1>0, <1>2, <2>1, <2>4 DEF WorkerClaims, WorkerRow
        <3> QED BY <2>1, <2>2, <3>1, OnceRests
    <2>5. CASE key \notin claimed
        <3>1. texts[key] = 0
            <4> HIDE DEF key
            <4> QED BY <1>0, <2>1, <2>5 DEF OnceInv
        <3>2. \A v \in Workers : worker[v].pc \in {"post", "undo"} => Key(worker[v].lead) # key
            BY <2>5 DEF OnceInv
        <3> QED BY <2>1, <2>2, <2>3, <3>1, <3>2 DEF OnceInv, Key
    <2> QED BY <2>4, <2>5
<1>3. CASE WorkerPosts(w)
    <2>0. PICK j : j = key
        OBVIOUS
    <2>1. claimed' = claimed /\ worker[w].pc = "post" /\ key \in Campaigns \X Phones
        BY <1>3, <2>0, PostOutcome
    <2>2. \A v \in Workers \ {w} : worker'[v] = worker[v]
        BY <1>3, <2>0, PostOutcome
    <2>3. worker'[w].lead = worker[w].lead
        BY <1>3, <2>0, PostOutcome
    <2>4. key \in claimed /\ texts[key] = 0
        BY <2>1 DEF OnceInv
    <2>5. CASE worker'[w].pc = "undo" /\ texts' = texts
        BY <2>1, <2>2, <2>3, <2>4, <2>5 DEF OnceInv, Key
    <2>7. CASE worker'[w].pc = "done" /\ texts' = texts
        BY <2>1, <2>2, <2>7, OnceRests
    <2>6. CASE worker'[w].pc = "done" /\ texts' = [texts EXCEPT ![key] = texts[key] + 1]
        <3>1. worker'[w].pc = "done"
            BY <2>6
        <3>2. \A v \in Workers \ {w} : worker[v].pc \in {"post", "undo"} => Key(worker[v].lead) # key
            BY <2>1 DEF OnceInv
        <3>3. \A k \in Campaigns \X Phones : k # key => texts'[k] = texts[k]
            <4> HIDE DEF key
            <4> QED BY <1>0, <2>1, <2>6
        <3>4. \A k \in Campaigns \X Phones : texts'[k] > 0 => k \in claimed'
            <4> HIDE DEF key
            <4> QED BY <2>1, <2>4, <3>3 DEF OnceInv
        <3>5. \A v \in Workers : worker'[v].pc \in {"post", "undo"} =>
                 v # w /\ Key(worker[v].lead) # key /\ Key(worker[v].lead) \in Campaigns \X Phones
            BY <2>2, <3>1, <3>2, KeyType DEF SendingTypeOK
        <3>6. \A v \in Workers : worker'[v].pc \in {"post", "undo"} =>
                 Key(worker'[v].lead) \in claimed' /\ texts'[Key(worker'[v].lead)] = 0
            BY <2>1, <2>2, <3>3, <3>5 DEF OnceInv
        <3>7. OnceInv'
            <4>1. \A v \in Workers : worker'[v].pc \in {"post", "undo"} => worker'[v] = worker[v]
                BY <2>2, <3>5
            <4>2. \A u, v \in Workers :
                    /\ u # v /\ worker'[u].pc \in {"post", "undo"} /\ worker'[v].pc \in {"post", "undo"}
                    => Key(worker'[u].lead) # Key(worker'[v].lead)
                BY <4>1 DEF OnceInv
            <4> QED BY <3>4, <3>6, <4>2 DEF OnceInv, Key
        <3>8. O!Text(key)
            <4> HIDE DEF key
            <4>1. texts' = [texts EXCEPT ![key] = 1]
                BY <2>4, <2>6
            <4> QED BY <2>4, <4>1 DEF O!Text
        <3> QED BY <2>1, <3>7, <3>8
    <2> QED
        <3> HIDE DEF key
        <3>1. \/ worker'[w].pc = "undo" /\ texts' = texts
              \/ worker'[w].pc = "done" /\ texts' = [texts EXCEPT ![j] = texts[j] + 1]
              \/ worker'[w].pc = "done" /\ texts' = texts
            BY <1>3, <2>0, PostOutcome DEF key
        <3> QED BY <2>0, <2>5, <2>6, <2>7, <3>1
<1>4. CASE WorkerUndoes(w)
    <2>1. texts' = texts /\ claimed' = claimed \ {key} /\ worker[w].pc = "undo"
        BY <1>4 DEF WorkerUndoes
    <2>2. \A v \in Workers \ {w} : worker'[v] = worker[v]
        BY <1>0, <1>4 DEF WorkerUndoes
    <2>3. worker'[w].pc = "retry"
        BY <1>0, <1>4 DEF WorkerUndoes, WorkerRow
    <2>4. texts[key] = 0 /\ \A v \in Workers \ {w} : worker[v].pc \in {"post", "undo"} => Key(worker[v].lead) # key
        BY <2>1 DEF OnceInv
    <2> QED BY <2>1, <2>2, <2>3, <2>4 DEF OnceInv, Key
<1> QED BY <1>1, <1>2, <1>3, <1>4 DEF WorkerStep

LEMMA OnceStep ==
    ASSUME Unsure = FALSE, SendingAssumption, SendingTypeOK, OnceInv, [Next]_vars
    PROVE  OnceInv' /\ [\E k \in Campaigns \X Phones : O!Text(k)]_texts
<1>1. CASE \E w \in Workers : WorkerStep(w) \/ WorkerDies(w)
    BY <1>1, OnceWorker
<1>2. CASE \A w \in Workers : ~ WorkerStep(w) /\ ~ WorkerDies(w)
    <2>1. UNCHANGED <<claimed, texts, worker>>
        BY <1>2 DEF Next, vars, Admin, Upload, Imports, RunChecks, RunCommits, Halt, Delete, Switch,
           DripStep, DripDies, DripStarts, DripPushes, DripCommits, DripStops, Books, Reply
    <2> QED BY <2>1, OnceFrame
<1> QED BY <1>1, <1>2

\* A campaign texts a number once at most, for any number of campaigns, numbers,
\* cycles and workers, when no request times out after the carrier has taken
\* its message.
THEOREM SendingImplements == ASSUME Unsure = FALSE PROVE Spec => ImplementsOutreach
<1>1. Init => OnceInv /\ O!OutreachInit
    BY DEF Init, OnceInv, NoWork, O!OutreachInit
<1>2. SendingTypeOK /\ OnceInv /\ [Next]_vars => OnceInv' /\ [\E k \in Campaigns \X Phones : O!Text(k)]_texts
    BY SendingAssumption, OnceStep
<1> QED BY <1>1, <1>2, SendingTypes, PTL DEF Spec, ImplementsOutreach, O!OutreachSpec
=============================================================================
