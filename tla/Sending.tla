------------------------------ MODULE Sending ------------------------------
(***************************************************************************)
(* Sending the first template of a campaign.  Admins upload, run, pause,   *)
(* stop and delete campaigns (ingestion/routers/ingestion.py); drip cycles *)
(* release held leads to a Redis list (pacing/release.py: a beat task and  *)
(* the request that runs a campaign, so cycles overlap); SMS workers pop   *)
(* the list and send under a claim per campaign and number                 *)
(* (workers/tasks/sms.py, communication_provider.py, send_once.py); the    *)
(* customers' replies change the lead meanwhile (reply_polling.py,         *)
(* orchestrator.py, events.py).  Intervals between waves are left out: a   *)
(* cycle may start at any time.                                            *)
(***************************************************************************)
EXTENDS Integers, Sequences, FiniteSets

CONSTANTS
    Campaigns, Phones,
    Leads,            \* the rows of the uploaded files
    CampaignOf, PhoneOf,
    Age,              \* the order in which the rows of a number are created
    Drips, Workers,
    Wave,             \* leads a cycle selects at most, 20 in the code
    QueueBound,       \* bound: jobs in the list
    Crashes,          \* processes die
    Unsure,           \* a request times out though the carrier has the message
    NoLead, NoCampaign

ASSUME SendingAssumption ==
    /\ CampaignOf \in [Leads -> Campaigns]
    /\ PhoneOf \in [Leads -> Phones]
    /\ Age \in [Leads -> Int]
    /\ Wave \in Nat \ {0} /\ QueueBound \in Nat
    /\ Crashes \in BOOLEAN /\ Unsure \in BOOLEAN
    /\ NoLead \notin Leads /\ NoCampaign \notin Campaigns

VARIABLES
    camp,      \* campaigns: send_state and deleted_at
    running,   \* campaigns a request has found free to run
    lead,      \* the leads' rows
    killed,    \* Redis: the tenant's kill switch
    queue,     \* Redis: queue:outbound_sms
    retries,   \* Redis: the leads with a job in queue:retries, which nothing reads
    claimed,   \* Redis: the first-template claims
    drip,      \* drip cycles
    worker,    \* process_sms_queue, one job at a time
    texts,     \* how often a campaign has texted a number
    optedOut,  \* the numbers that have replied STOP
    lost,      \* the leads whose job went down with a worker
    swallowed  \* history: the leads a refusal of whose text was taken for a success

vars == <<camp, running, lead, killed, queue, retries, claimed, drip, worker, texts, optedOut, lost, swallowed>>

\* "off" stands for ready, paused and stopped, which nothing tells apart.
SendState == {"none", "off", "running"}
CampRow == [send : SendState, deleted : BOOLEAN]
Pacing == {"none", "held", "released"}
\* "past" outreach stands for booked and unqualified.
LeadStatus == {"new", "contacted", "replied", "past"}
LeadRow == [pacing : Pacing, status : LeadStatus, deleted : BOOLEAN]

DripRow == [pc : {"idle", "push", "drained"}, camp : Campaigns \cup {NoCampaign},
            wave : SUBSET Leads, todo : SUBSET Leads]
WorkerRow == [pc : {"idle", "claim", "post", "undo", "retry", "done"},
              lead : Leads \cup {NoLead}, saw : LeadStatus]

NoDrip == [pc |-> "idle", camp |-> NoCampaign, wave |-> {}, todo |-> {}]
NoWork == [pc |-> "idle", lead |-> NoLead, saw |-> "new"]

Init ==
    /\ camp = [c \in Campaigns |-> [send |-> "none", deleted |-> FALSE]]
    /\ running = {}
    /\ lead = [l \in Leads |-> [pacing |-> "none", status |-> "new", deleted |-> FALSE]]
    /\ killed = FALSE
    /\ queue = <<>> /\ retries = {} /\ claimed = {}
    /\ drip = [d \in Drips |-> NoDrip]
    /\ worker = [w \in Workers |-> NoWork]
    /\ texts = [k \in Campaigns \X Phones |-> 0]
    /\ optedOut = {} /\ lost = {} /\ swallowed = {}

Key(l) == <<CampaignOf[l], PhoneOf[l]>>

-----------------------------------------------------------------------------
(* The campaigns page. *)

\* campaign_upload: the campaign is committed, then its leads are inserted.
Upload(c) ==
    /\ camp[c].send = "none"
    /\ camp' = [camp EXCEPT ![c].send = "off"]
    /\ UNCHANGED <<running, lead, killed, queue, retries, claimed, drip, worker, texts, optedOut, lost, swallowed>>

Imports(c) ==
    /\ camp[c].send # "none"
    /\ \E l \in Leads : CampaignOf[l] = c /\ lead[l].pacing = "none"
    /\ \A l \in Leads : CampaignOf[l] = c => lead[l].pacing = "none"
    /\ lead' = [l \in Leads |-> IF CampaignOf[l] = c THEN [lead[l] EXCEPT !.pacing = "held"] ELSE lead[l]]
    /\ UNCHANGED <<camp, running, killed, queue, retries, claimed, drip, worker, texts, optedOut, lost, swallowed>>

Shown(c) == camp[c].send # "none" /\ ~ camp[c].deleted

\* campaign_run looks for another campaign that runs, deleted or not ...
RunChecks(c) ==
    /\ Shown(c) /\ c \notin running
    /\ \A e \in Campaigns \ {c} : camp[e].send # "running"
    /\ running' = running \cup {c}
    /\ UNCHANGED <<camp, lead, killed, queue, retries, claimed, drip, worker, texts, optedOut, lost, swallowed>>

\* ... and writes the state.  Its drip cycle is one of Drips.
RunCommits(c) ==
    /\ c \in running
    /\ running' = running \ {c}
    /\ camp' = [camp EXCEPT ![c].send = "running"]
    /\ UNCHANGED <<lead, killed, queue, retries, claimed, drip, worker, texts, optedOut, lost, swallowed>>

\* campaign_pause, campaign_stop.
Halt(c) ==
    /\ Shown(c) /\ camp[c].send = "running"
    /\ camp' = [camp EXCEPT ![c].send = "off"]
    /\ UNCHANGED <<running, lead, killed, queue, retries, claimed, drip, worker, texts, optedOut, lost, swallowed>>

\* campaign_delete.
Delete(c) ==
    /\ Shown(c)
    /\ camp' = [camp EXCEPT ![c] = [send |-> "off", deleted |-> TRUE]]
    /\ lead' = [l \in Leads |->
                  IF CampaignOf[l] = c /\ lead[l].pacing # "none"
                  THEN [lead[l] EXCEPT !.deleted = TRUE] ELSE lead[l]]
    /\ UNCHANGED <<running, killed, queue, retries, claimed, drip, worker, texts, optedOut, lost, swallowed>>

\* set_sending_paused.
Switch ==
    /\ killed' = ~ killed
    /\ UNCHANGED <<camp, running, lead, queue, retries, claimed, drip, worker, texts, optedOut, lost, swallowed>>

-----------------------------------------------------------------------------
(* Drip cycles. *)

Live(c) == camp[c].send = "running" /\ ~ camp[c].deleted

HeldLeads(c) == {l \in Leads : CampaignOf[l] = c /\ lead[l].pacing = "held" /\ ~ lead[l].deleted}

\* Mistaken: a drained campaign not remembered.
DripStarts_forgets(d) ==
    /\ drip[d].pc = "idle" /\ ~ killed
    /\ \E c \in {e \in Campaigns : Live(e)} :
         /\ HeldLeads(c) = {}
         /\ drip' = [drip EXCEPT ![d] = [NoDrip EXCEPT !.pc = "drained"]]
    /\ UNCHANGED <<camp, running, lead, killed, queue, retries, claimed, worker, texts, optedOut, lost, swallowed>>

\* drip_cycle up to the release: a running campaign, whichever the query
\* returns first, and held leads of it, as many as the elapsed time allows.
DripStarts(d) ==
    /\ drip[d].pc = "idle" /\ ~ killed
    /\ \E c \in {e \in Campaigns : Live(e)} :
         \/ /\ HeldLeads(c) = {}
            /\ drip' = [drip EXCEPT ![d] = [NoDrip EXCEPT !.pc = "drained", !.camp = c]]
         \/ \E wave \in SUBSET HeldLeads(c) \ {{}} :
              /\ Cardinality(wave) <= Wave
              /\ drip' = [drip EXCEPT ![d] = [pc |-> "push", camp |-> c, wave |-> wave, todo |-> wave]]
    /\ UNCHANGED <<camp, running, lead, killed, queue, retries, claimed, worker, texts, optedOut, lost, swallowed>>

\* _enqueue_lead.
DripPushes(d) ==
    /\ drip[d].pc = "push" /\ Len(queue) < QueueBound
    /\ \E l \in drip[d].todo :
         /\ queue' = Append(queue, l)
         /\ drip' = [drip EXCEPT ![d].todo = @ \ {l}]
    /\ UNCHANGED <<camp, running, lead, killed, retries, claimed, worker, texts, optedOut, lost, swallowed>>

\* Mistaken: the wave committed before all of it is pushed.
DripCommits_early(d) ==
    /\ drip[d].pc = "push"
    /\ lead' = [l \in Leads |->
                  IF l \in drip[d].wave THEN [lead[l] EXCEPT !.pacing = "released"] ELSE lead[l]]
    /\ drip' = [drip EXCEPT ![d] = NoDrip]
    /\ UNCHANGED <<camp, running, killed, queue, retries, claimed, worker, texts, optedOut, lost, swallowed>>

\* The commit at the end of _release, for the whole wave.
DripCommits(d) ==
    /\ drip[d].pc = "push" /\ drip[d].todo = {}
    /\ lead' = [l \in Leads |->
                  IF l \in drip[d].wave THEN [lead[l] EXCEPT !.pacing = "released"] ELSE lead[l]]
    /\ drip' = [drip EXCEPT ![d] = NoDrip]
    /\ UNCHANGED <<camp, running, killed, queue, retries, claimed, worker, texts, optedOut, lost, swallowed>>

\* A drained campaign stops, whatever it is by now.
DripStops(d) ==
    /\ drip[d].pc = "drained"
    /\ camp' = [camp EXCEPT ![drip[d].camp].send = "off"]
    /\ drip' = [drip EXCEPT ![d] = NoDrip]
    /\ UNCHANGED <<running, lead, killed, queue, retries, claimed, worker, texts, optedOut, lost, swallowed>>

\* The process dies, or Redis or the database fails it: rolled back.
DripDies(d) ==
    /\ Crashes /\ drip[d].pc # "idle"
    /\ drip' = [drip EXCEPT ![d] = NoDrip]
    /\ UNCHANGED <<camp, running, lead, killed, queue, retries, claimed, worker, texts, optedOut, lost, swallowed>>

-----------------------------------------------------------------------------
(* SMS workers. *)

\* LPOP, and the row _send_sms_impl reads.  A lead that is past outreach is
\* not a success: its job goes to the retries.
WorkerPops(w) ==
    /\ worker[w].pc = "idle" /\ queue # <<>>
    /\ LET l == Head(queue) IN
         worker' = [worker EXCEPT ![w] =
                      [pc |-> IF lead[l].status = "past" THEN "retry" ELSE "claim",
                       lead |-> l, saw |-> lead[l].status]]
    /\ queue' = Tail(queue)
    /\ UNCHANGED <<camp, running, lead, killed, retries, claimed, drip, texts, optedOut, lost, swallowed>>

\* Mistaken: a duplicate treated as a send that failed.
WorkerClaims_duplicateFails(w) ==
    /\ worker[w].pc = "claim"
    /\ worker' = [worker EXCEPT ![w].pc = IF Key(worker[w].lead) \in claimed THEN "undo" ELSE "post"]
    /\ claimed' = claimed \cup {Key(worker[w].lead)}
    /\ UNCHANGED <<camp, running, lead, killed, queue, retries, drip, texts, optedOut, lost, swallowed>>

\* claim_first_template_send; a duplicate counts as sent.
WorkerClaims(w) ==
    /\ worker[w].pc = "claim"
    /\ worker' = [worker EXCEPT ![w].pc = IF Key(worker[w].lead) \in claimed THEN "done" ELSE "post"]
    /\ claimed' = claimed \cup {Key(worker[w].lead)}
    /\ UNCHANGED <<camp, running, lead, killed, queue, retries, drip, texts, optedOut, lost, swallowed>>

\* Mistaken: the claim kept when the kill switch or the carrier refuses.
WorkerPosts_keeps(w) ==
    /\ worker[w].pc = "post"
    /\ \/ worker' = [worker EXCEPT ![w].pc = "retry"] /\ UNCHANGED <<texts, swallowed>>
       \/ /\ ~ killed
          /\ worker' = [worker EXCEPT ![w].pc = "done"]
          /\ \/ texts' = [texts EXCEPT ![Key(worker[w].lead)] = @ + 1] /\ UNCHANGED swallowed
             \/ swallowed' = swallowed \cup {worker[w].lead} /\ UNCHANGED texts
    /\ UNCHANGED <<camp, running, lead, killed, queue, retries, claimed, drip, optedOut, lost>>

\* send_sms: the kill switch, then the carrier.  It refuses the message; or takes
\* it, the answer perhaps too late; or refuses it with an empty body, and the
\* error made of that is empty, which send_sms_to_lead takes for none.
WorkerPosts(w) ==
    /\ worker[w].pc = "post"
    /\ \/ worker' = [worker EXCEPT ![w].pc = "undo"] /\ UNCHANGED <<texts, swallowed>>
       \/ /\ ~ killed
          /\ texts' = [texts EXCEPT ![Key(worker[w].lead)] = @ + 1]
          /\ \/ worker' = [worker EXCEPT ![w].pc = "done"]
             \/ Unsure /\ worker' = [worker EXCEPT ![w].pc = "undo"]
          /\ UNCHANGED swallowed
       \/ /\ ~ killed
          /\ swallowed' = swallowed \cup {worker[w].lead}
          /\ worker' = [worker EXCEPT ![w].pc = "done"]
          /\ UNCHANGED texts
    /\ UNCHANGED <<camp, running, lead, killed, queue, retries, claimed, drip, optedOut, lost>>

\* release_first_template_claim.
WorkerUndoes(w) ==
    /\ worker[w].pc = "undo"
    /\ claimed' = claimed \ {Key(worker[w].lead)}
    /\ worker' = [worker EXCEPT ![w].pc = "retry"]
    /\ UNCHANGED <<camp, running, lead, killed, queue, retries, drip, texts, optedOut, lost, swallowed>>

\* RPUSH queue:retries: no success, or an exception (the daily limit of the
\* lead, an error while composing, the commit).
WorkerRetries(w) ==
    /\ worker[w].pc \in {"claim", "retry", "done"}
    /\ retries' = retries \cup {worker[w].lead}
    /\ worker' = [worker EXCEPT ![w] = NoWork]
    /\ UNCHANGED <<camp, running, lead, killed, queue, claimed, drip, texts, optedOut, lost, swallowed>>

\* The row's status becomes "contacted" unless it was so when it was read.
WorkerCommits(w) ==
    /\ worker[w].pc = "done"
    /\ lead' = [lead EXCEPT ![worker[w].lead].status =
                  IF worker[w].saw = "contacted" THEN @ ELSE "contacted"]
    /\ worker' = [worker EXCEPT ![w] = NoWork]
    /\ UNCHANGED <<camp, running, killed, queue, retries, claimed, drip, texts, optedOut, lost, swallowed>>

WorkerDies(w) ==
    /\ Crashes /\ worker[w].pc # "idle"
    /\ lost' = lost \cup {worker[w].lead}
    /\ worker' = [worker EXCEPT ![w] = NoWork]
    /\ UNCHANGED <<camp, running, lead, killed, queue, retries, claimed, drip, texts, optedOut, swallowed>>

-----------------------------------------------------------------------------
(* Customers. *)

\* find_lead_for_inbound: the number's latest row that is not deleted.
Latest(l) ==
    /\ lead[l].pacing # "none" /\ ~ lead[l].deleted
    /\ \A m \in Leads : PhoneOf[m] = PhoneOf[l] /\ lead[m].pacing # "none" /\ ~ lead[m].deleted
                        => Age[m] <= Age[l]

Replied(status) == IF status \in {"new", "contacted"} THEN "replied" ELSE status

\* process_incoming_message and on_lead_replied: STOP marks the lead, unless
\* the kill switch is on, which ends the processing before that.
Reply(l, stop) ==
    /\ Latest(l)
    /\ \E c \in Campaigns : texts[<<c, PhoneOf[l]>>] > 0
    /\ lead' = [lead EXCEPT ![l].status =
                  IF stop /\ ~ killed THEN "past" ELSE Replied(@)]
    /\ optedOut' = IF stop THEN optedOut \cup {PhoneOf[l]} ELSE optedOut
    /\ UNCHANGED <<camp, running, killed, queue, retries, claimed, drip, worker, texts, lost, swallowed>>

\* _create_real_appointment, when an agent of the SMS queue books a lead that
\* has replied; a worker may have overwritten that status since.
Books(l) ==
    /\ lead[l].status \in {"replied", "contacted"}
    /\ lead' = [lead EXCEPT ![l].status = "past"]
    /\ UNCHANGED <<camp, running, killed, queue, retries, claimed, drip, worker, texts, optedOut, lost, swallowed>>

-----------------------------------------------------------------------------
DripStep(d) == DripStarts(d) \/ DripPushes(d) \/ DripCommits(d) \/ DripStops(d)

WorkerStep(w) ==
    \/ WorkerPops(w) \/ WorkerClaims(w) \/ WorkerPosts(w) \/ WorkerUndoes(w)
    \/ WorkerRetries(w) \/ WorkerCommits(w)

Admin(c) ==
    \/ Upload(c) \/ Imports(c) \/ RunChecks(c) \/ RunCommits(c) \/ Halt(c) \/ Delete(c)

Next ==
    \/ \E c \in Campaigns : Admin(c)
    \/ Switch
    \/ \E d \in Drips : DripStep(d) \/ DripDies(d)
    \/ \E w \in Workers : WorkerStep(w) \/ WorkerDies(w)
    \/ \E l \in Leads : Books(l) \/ \E stop \in BOOLEAN : Reply(l, stop)

Spec == Init /\ [][Next]_vars

-----------------------------------------------------------------------------
(* Properties. *)

\* Rows, jobs and claims have their shapes.
SendingTypeOK ==
    /\ camp \in [Campaigns -> CampRow] /\ running \subseteq Campaigns
    /\ lead \in [Leads -> LeadRow] /\ killed \in BOOLEAN
    /\ queue \in Seq(Leads) /\ retries \subseteq Leads
    /\ claimed \subseteq Campaigns \X Phones
    /\ drip \in [Drips -> DripRow] /\ worker \in [Workers -> WorkerRow]
    /\ texts \in [Campaigns \X Phones -> Nat]
    /\ optedOut \subseteq Phones /\ lost \subseteq Leads /\ swallowed \subseteq Leads
    /\ \A d \in Drips : drip[d].pc # "idle" => drip[d].camp \in Campaigns
    /\ \A w \in Workers : worker[w].pc # "idle" => worker[w].lead \in Leads

InQueue(l) == \E i \in 1..Len(queue) : queue[i] = l

O == INSTANCE Outreach

\* A campaign texts a number once at most, though cycles overlap, die between
\* the push and the commit and push a lead again, and workers take its jobs at
\* the same time (claim_first_template_send, release_first_template_claim).
ImplementsOutreach == O!OutreachSpec

\* Where the job of a lead can be, or can have ended without a text.
HasJob(l) ==
    \/ InQueue(l)
    \/ \E w \in Workers : worker[w].lead = l
    \/ l \in retries \cup lost \cup swallowed

\* A number with a released lead has been texted, or a job of it is in the list,
\* with a worker or among the retries, unless a worker took it down or a refusal
\* without a reason ended it: no crash of a cycle drops it, nor does a duplicate,
\* which counts as sent while the send it yields to may yet fail (_release,
\* send_sms_to_lead, process_sms_queue).
ReleasedIsAccounted ==
    \A l \in Leads : lead[l].pacing = "released" =>
        texts[Key(l)] > 0 \/ \E m \in Leads : Key(m) = Key(l) /\ HasJob(m)

\* What a claim is held for: a text, a send in progress, a worker that died, or a
\* refusal without a reason.
ClaimStands(k) ==
    \/ texts[k] > 0
    \/ \E w \in Workers : worker[w].pc \in {"post", "undo"} /\ Key(worker[w].lead) = k
    \/ \E l \in lost \cup swallowed : Key(l) = k

\* No other failure leaves its claim behind, whatever duplicates meet it on the
\* way ("we release the claim if the send genuinely fails so a retry can still go
\* out", send_once.py:12-13; send_sms_to_lead).
NoClaimLeaks == \A k \in claimed : ClaimStands(k)

\* No job of a number that has replied STOP is taken up for sending ("mark the
\* lead so we never message it again", process_incoming_message; "Never continue
\* messaging after opt-out", docs/phase-0/0.7_ai_guardrails.md).
StopIsHonoured ==
    [][\A w \in Workers : worker[w].pc = "idle" /\ worker'[w].pc = "claim"
                           => PhoneOf[worker'[w].lead] \notin optedOut]_vars

=============================================================================
