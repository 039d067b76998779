# A TLA+ model of the call-center platform

This directory holds a formal model of the part of the platform that decides
*who works which lead, who is called, who is texted and who is booked when*:
TLA+ modules translated from the source, TLC configurations that check them on
small instances, and theorems that TLAPS proves for every instance.  Paths below
are relative to `src/apps/backend-api/app/` unless they start with `src/`.

## 1. The system

A multi-tenant insurance call center.  Customers are texted from uploaded
campaigns; those who reply become leads of a shared queue; agents take leads
from it, call them, set a result or book an appointment.  Optionally a dialer
calls people who replied YES and bridges them to a waiting agent.  The back end
is FastAPI over Postgres, with Celery workers and Redis beside it.

| component | state | operations | interacts with |
|---|---|---|---|
| agent queue engine (`sms_queue/services/queue_service.py`) | `sms_leads` (status, owner, result, pass count), `sms_queue_agents` (status, current lead, misses), `sms_agent_actions`, `sms_do_not_call` | join, leave, breaks, accept, pass, disposition, reassign, manager disposition, delete, restore, bulk delete, rebroadcast, reap, distribute, kick | called by HTTP routers, the sweep task, intake, the dialer; ends most calls in the assigner |
| reply intake (`sms_queue/services/inbound_sync.py`, `lead_ingest.py`) | the same rows | mirror (webhook, poll), 60 s batch | queue engine, block words, dialer |
| uploaded lists (`sms_queue/services/pool_ingest.py`, `routers/pool.py`) | `sms_pool_batches`, `sms_leads` | import, pause, resume, reorder, delete | the pool query |
| sweep task (`src/apps/workers/workers/tasks/sms.py`, `auto_assign_queue`) | none | every 10 s: reap, rebroadcast, distribute | queue engine |
| auto dialer (`voice_dialer/service.py`, `webhooks.py`) | `voice_call_attempts`, READY_TO_CALL / DIALING leads, agents' headset lines, Redis tick lock | tick, carrier events, claim an agent, bridge, requeue, opt-out | queue engine, carrier |
| inbound calls (`voice_dialer/inbound.py`) | HOLDING / BRIDGING attempts, the agent a caller waits for | answer, turn away, hold, serve, call back | dialer, the same agents and leads |
| hand-dialed calls, listening in (`voice_dialer/manual.py`, `monitor.py`) | `manual_calls`, `voice_monitors`, who owns a customer's callbacks | start, end | the assigner and the dialer skip busy users |
| first-template sending (`ingestion/routers/ingestion.py`, `pacing/release.py`, `core/send_once.py`, `src/apps/workers/workers/tasks/sms.py`) | campaigns, held / released leads, Redis job list, send-once claims, kill switch | upload, run, pause, delete, drip cycle, send, reply | carrier, the customers' replies |
| booking (`booking/services/booking.py`, `locking.py`, `appointments/routers/appointments.py`) | appointments, Redis slot locks, options of a conversation | start, select, cancel, reschedule; create, edit, disposition at the desk | agents' calendars |
| everything else | records with request-scoped checks, reports, language-model orchestration, static pages | | |

What is hard here:

* **Two records of one fact.** "Agent a works lead l" is written both in
  `lead.assigned_agent_id` and in `agent.current_lead_id`; operations clear one
  by the other, and not all of them in the same way.
* **An assigner at the tail of everything.** Almost every operation ends with
  `_try_assign`, in the same transaction, on the rows it has just changed.
* **Suppression in many places.** A number is put on the Do-Not-Call list by an
  agent, a manager, an opt-out reply or the dialer, and the pool does not read
  that list: it relies on the lead being parked.  Sending keeps its own opt-out,
  in the status of a row.
* **The carrier.** Its events come late, twice, out of order or never, and a
  request to it may have worked although its answer was lost.
* **Claims without a lock.** Calls, held callers, job lists and appointment slots
  are claimed by conditional updates and Redis keys that expire; checks come
  before the claim.
* **Sweeps against people.** Rebroadcast, the reaper and the dialer move leads
  that somebody may be accepting or finishing at that moment.
* **Time.** Offers, heartbeats, pass cooldowns and lock leases expire.

`PROJECT.json` lists these per line under `hazards`.

What makes each component correct:

* queue engine: a held lead has an owner; the assigner offers only to people
  who are at work after the step; a passed lead is not bounced back; a
  suppressed lead stays suppressed; the pool never stalls; an ignored offer
  moves on.
* lists: a worked number is never offered again from a list.
* dialer: a customer is in one call at a time; an agent's room holds one
  customer; STOP wins over a ringing call; a lost event never strands a lead.
* inbound: a held caller is dealt with by one handler at a time.
* sending: a number gets the first template at most once per campaign; a failed
  send gives its claim back, and every released number is texted or has a job
  left; dying workers and refusals without a reason break this (section 10),
  nothing else may.
* booking: an agent's time goes to one customer; cancellations break this
  (section 10), nothing else may.

## 2. Modules

| module | models |
|---|---|
| `SmsQueue`, `MCSmsQueue` | the queue tables, intake, uploaded lists, every queue operation and sweep; one action per service call, each atomic |
| `SmsQueueProofs` | the theorems about `SmsQueue` |
| `SmsQueueTx`, `MCSmsQueueTx` | extends `SmsQueue`: the same operations with their database transactions opened up, any number of sessions at once |
| `SmsQueueTxProofs` | the theorems about `SmsQueueTx` |
| `SmsQueueTxRefinement` | the proof that a transaction which runs alone is an operation of `SmsQueue` |
| `VoiceDialer`, `MCVoiceDialer` | the dialer: texts that ask for a call, the tick with its Redis lock, attempts, carrier events, voicemail detection, connecting an agent, and what the queue's operations do to calls |
| `VoiceDialerProofs` | the theorems about `VoiceDialer` |
| `VoiceInbound`, `MCVoiceInbound` | extends `VoiceDialer`: customers who call in, held callers and callbacks, beside the whole dialer |
| `VoiceInboundProofs` | the theorems about `VoiceInbound`, which rest on those about `VoiceDialer` |
| `Sending`, `MCSending` | campaigns, drip cycles, the job list, workers, send-once claims, replies |
| `Outreach` | abstract: a campaign texts a number once at most |
| `SendingProofs` | the theorems about `Sending` |
| `Booking`, `MCBooking` | the booking flow with its slot locks, beside the appointments desk |
| `Diary` | abstract: a booking is made of a time that no booking has |
| `BookingProofs` | the theorems about `Booking` |

A definition named `X_mistake` beside a definition `X` is a plausible mistake in the
code of `X`; it is not part of the specification and shows that a property
notices that mistake.

Two compositions matter.  `SmsQueueTx` run by a single session implements
`SmsQueue`, with the queue's tables as the committed rows: that ties the
operations to their transactions, and is checked and proved.  `VoiceDialer` carries the queue's operations
that touch a call and replaces the assigner by a weaker one, which may offer any
queued lead to any free agent in any order (`Assign`); everything `SmsQueue` lets
the assigner do is among that.

## 3. `SmsQueue`: state and actions

| variable | code |
|---|---|
| `lead[l]` | an `sms_leads` row: `status` ("NONE" before it exists), `owner` = `assigned_agent_id`, `disp` = `disposition`, `passes` = `pass_count` |
| `agent[a]` | an `sms_queue_agents` row: `status`, `current` = `current_lead_id`, `misses` = `consecutive_misses` |
| `passed` | the PASS rows of `sms_agent_actions` younger than the cooldown |
| `dnc` | `sms_do_not_call` |
| `batch[b]` | an `sms_pool_batches` row: uploaded or deleted, `paused_at` |
| `handCall` | users with a live `manual_calls` or `voice_monitors` row |

Each action is one service call, tail included.  `InPool`, `AvailableAgents`,
`Choices` and `FirstOf` are the queries of the assigner; `TryAssign` is
`_try_assign`, `TryAssignAll` its loops (`distribute_all`, `rebroadcast`, `reap_stale_agents`).
They take the tables as arguments because they run on what the operation has
just changed.

Choices that a reader comparing with the code should know:

* **The dialer is off** for the tenant: `dialer_reserves_agents` is false and
  no lead is READY_TO_CALL or DIALING.  The Voicemail branch of `disposition`
  is the dialer's, and so is what takes a number off the Do-Not-Call list: a new
  YES (`_opt_back_in`) and the opt-outs page.
* **Clocks** are not modelled.  Any offer, heartbeat or pass may be found past
  its limit at any time; this contains every real timing.
* **Idle order** of agents (`last_active_at`) is left open: any available agent
  may come first.  `Deal` is `_try_assign` repeated: some order of turns in
  which each agent takes the first lead of theirs that is left.
* **`Rank`** is the sort key of `pool_order`, constant: reordering lists is not
  modelled.
* **Counters**: `passes` stops at `PassCap`, `misses` at `MissLimit`.  Nothing
  reads them above: `misses` is only compared with the limit; `passes` only with
  `RejectedAt` and `AttemptedAt` (2 and 3 in the code).  The runs use lower
  thresholds; a threshold of 0 puts every lead in the category, so `BulkDelete`
  may then take more leads than the code would.
* **`Admins`** are the rows `_available_agents` filters out by user: admin
  roles and disabled users.  They can have queue rows (`Join` by
  `free_agent_after_deal`, `Reassign` by a manager).  The set is constant:
  `LeaveSmsQueue` is what suspending a user does to the queue
  (`_leave_sms_queue` in `admin/routers/admin.py`), and the user coming back is
  a `Join`.
* **`MirrorNew` and `ResumeBatch`** commit twice in the code (row first,
  assignment second).  The gap is covered by the actions that do only the first
  half (`IngestReply`) or the second (`AssignNext`, `DistributeAll`).
* **`IngestReply`** takes one lead; the batch takes many in one transaction,
  without assigning, so it is a sequence of these.
* `PauseBatch`, `ResumeBatch` and `DeleteBatch` touch a list once imported;
  an import with no new row is refused by the code and is not a step.
* **Phone numbers** are values: the same number written in two ways (the
  Do-Not-Call list compares digits, `already_worked` compares the text) is not
  modelled.

## 4. `SmsQueueTx`: the same operations, interleaved

`SmsQueue` takes each service call as atomic.  The code does not make it so:
sessions run READ COMMITTED without autoflush (`core/database.py:31`), no query
of the queue locks the rows it reads, and a row is written back by primary key.
`SmsQueueTx` adds one variable, `tx[s]`, the session that runs one operation:

| step | code |
|---|---|
| `Begin...(s, ...)` | the operation's reads and the changes it makes to the loaded objects; guard and changes are those of the action of `SmsQueue` of the same name |
| `Flush(s)` | `db.flush()`: an UPDATE of the columns that changed (`LeadWrites`, `AgentWrites`); it waits for rows another session has flushed (`Blocked`) and keeps its own locked until the end |
| `Pick(s)` | one round of `_try_assign`: its queries see the committed tables and this session's flushed changes; the offer is flushed by the next `Flush` |
| `Commit(s)` | the flushed columns are laid over the tables as they are by then |
| `Rollback(s)` | a lost connection, a crash, the victim of a deadlock, a number inserted twice |

The operation's reads are one step, and so are the three queries of a round of
the assigner: what changes between two of them can also change just before the
first or just after the last, except that the reads of one operation could see
different moments.  A row of which only time stamps change is not locked here.
SQLAlchemy does not refresh a row the session has already loaded; here a round
of the assigner works on the row as its query sees it.  A cooldown does not
end, and an offer is not found stale, while the transaction that would have to
last that long is still running (`PassAges`, `late`): transactions take
milliseconds, the limits are 20 or 90 seconds and minutes.  Two sessions that
ingest the same new reply insert two rows in the code, which are two members of
`Leads`.  Uploads, deletions, kick, suspension and hand-dialed calls are left
out.

## 5. `VoiceDialer` and `VoiceInbound`

| variable | code |
|---|---|
| `lead[l]` | an `sms_leads` row: status, owner, `tries` = `dial_attempts`, `yes` = `yes_at` is set; one row per customer, as `find_lead` keeps it |
| `agent[a]` | an `sms_queue_agents` row: status, `current`, `ready` = `voice_ready`, `line` = the headset line is open |
| `att[c]` | a `voice_call_attempts` row: status, lead, agent, `human` = `human_at` is set |
| `leg[c]` | the carrier: what has happened to the customer's leg |
| `proc[x]` | a web handler, webhook or tick, and where it stands between two of its commits |
| `tickLock` | the Redis key `voice:tick:<tenant>`, with its holder |
| `dnc`, `client`, `busy`, `enabled` | the Do-Not-Call list; who owns a customer's callbacks; who is on a hand-dialed call or listens in; the dialer's switch |
| `holdFor[c]` (inbound) | `hold_for_user_id` |

One action is one transaction.  A handler that commits, talks to the carrier and
commits again is several actions, with `proc[x].pc` in between: the tick walks
`grace` (answered calls without a verdict are connected), `serve` (sweeps done,
held callers are served), `dial` and `calling`; a webhook walks `connect`,
`bridge`, `requeue`.  `connect_human` alone is opened further: the read of the
attempt (`ReadCall`) and the transaction that claims an agent (`ConnectAgent`,
`Abandon`) are two actions; the constant `Overlap` says whether other
transactions may commit in between.

* **Carrier events** are not a queue.  `leg[c]` is what the carrier knows, and an
  event action may happen at any time once its cause is in `leg[c]`, any number
  of times, or never: late, duplicated, reordered and lost events at once.
* **A hangup is a request.**  A leg may end whenever it likes, asked or not; what
  counts is the row the code writes and the room the agent is in.
* **Clocks** are not modelled: a retry may be due, a call found lost or overdue,
  a heartbeat stale, at any tick.  Calling hours and daily limits are the choice
  `NotNow`.
* **Rows are reused.**  `Calls` bounds the unfinished attempts: a row may be used
  again when its leg has ended and no handler holds it (`Unused`).
* **Closed statuses.**  `CLOSED` stands for every final status but ABANDONED,
  which alone a later webhook looks for; `RINGING` counts as `DIALING`.
* **`Deeds`** bounds what people do in a run, so that each run asks its question
  with the actors it needs.

## 6. `Sending`

| variable | code |
|---|---|
| `camp[c]` | a campaign: `send_state` ("off" stands for ready, paused and stopped), `deleted_at` |
| `running` | requests of `campaign_run` between their check and their commit |
| `lead[l]` | a lead's row: pacing state, status, deleted |
| `killed` | Redis: the tenant's kill switch |
| `queue`, `retries` | Redis: `queue:outbound_sms`, `queue:retries` |
| `claimed` | Redis: the first-template claims, per campaign and number |
| `drip[d]` | a drip cycle between its reads and its commit: the wave it selected and what it still has to push |
| `worker[w]` | `process_sms_queue` with one job, the status it read and the step it has reached |
| `texts`, `optedOut`, `lost`, `swallowed` | not in the code: what the customers have received and said, the leads whose job died with a worker, and those a refusal of whose text was taken for a success |

Cycles run from the beat task and from the request that runs a campaign, so two
of them overlap; workers are Celery processes.  A cycle pushes its wave job by
job (`DripPushes`) and commits at the end (`DripCommits`); it may die anywhere
(`DripDies`), which leaves jobs of leads that are still held.  A worker pops
(`WorkerPops`, with the row it reads), claims, posts, gives the claim back when
the post failed, and commits the status or pushes the job to the retries.  A post
has three outcomes (`WorkerPosts`): a refusal with a reason, which is undone; the
message taken; and a refusal whose error is empty, which
`if result.get("error")` (`communication_provider.py:701`) lets pass for a
success.

* `PACING_DRY_RUN`, the capacity engine and the fatigue cap are flags that are off
  (`core/config.py`).  So are `CARRIER_CAPS_ENFORCE`, `TMOBILE_DEDUP_ENFORCE` and
  `WORKING_HOURS_ENFORCE`; were one on, a block by `carrier_caps` would return no
  error and be the third outcome of `WorkerPosts`, which the model has already.
* Intervals between waves are left out: a cycle may start at any time.
* `Unsure` says whether a request may time out though the carrier has taken the
  message.

## 7. `Booking`

| variable | code |
|---|---|
| `appt[x]` | an appointment: status, agent, time, customer; `via` tells the flow's bookings from the desk's, and "flow" ends when somebody edits the row |
| `lock[a, k]` | Redis: the slot lock of an agent under key `k`, with the lead it was taken for |
| `conv`, `stored` | a lead's conversation and the options its `ai_context` holds |
| `req[r]` | a request between two of its commits or Redis commands; `fresh` says that the lock on its time, if there is one, was taken after its check or not long before |
| `torn` | not in the code: the keys whose lock a cancellation has deleted while a selection of that time was under way |

The lock is taken under the New York time of the slot (`booking.py:159`) and
released under the time of the row as it is read back, in the zone of the session
(`booking.py:259`): `ReadKey` maps a slot to the key it is released under, its own
when that zone is New York and that of a slot some hours later when it is UTC.
Slots run from 8:00 to 20:45 Eastern, so the later key is mostly that of another
bookable slot.  A lock can outlive a cancellation until it expires, and a
cancellation can delete a lock that is not its own: the value compared is the
customer's id.

`Expires` may come at any time, except where five minutes would have to pass
within the milliseconds of a request: the lock of a request under way does not
run out, nor one taken since the check of another request that is still to ask
for it (`fresh`).  A lock older than those does, also between check and lock.

`Edit` changes the status only: `AppointmentUpdate` (`schemas/appointment.py:16`)
has no field for the time or the agent.

## 8. Properties and runs

| run | instance | checks |
|---|---|---|
| `lists` | `SmsQueue`: 1 agent; one number as a reply row and as a row of a list | `TypeOK`, `HeldLeadHasOwner`, `SuppressionSticks`, `NotBouncedBack`, `ParkedReturnsOnlyByReply`, `NoRepopOfWorkedNumber` |
| `liveness` | `SmsQueue`: 2 agents, one who dials by hand; 1 reply lead; 2 misses park | `PoolNeverStalls`, `IgnoredOfferMovesOn`, `OffersGoToWorkers`, `NotBouncedBack` |
| `tx_refines` | `SmsQueueTx`: 1 session, 2 agents, 1 reply lead, every operation | `ImplementsQueue` |
| `tx_overlap` | `SmsQueueTx`: 2 sessions, 1 agent; the operations that set, undo or move results | `TxTypeOK`, `SuppressionSticks`, `MarksListed` |
| `dialer` | `VoiceDialer`: 1 agent, 1 customer, 2 calls, 2 handlers that may die; connecting on answer; stop, results, breaks, managers, hand-dialed calls, voicemail results | `TypeOK`, `NoTwoCustomersInOneRoom`, `OneCallPerCustomer`, `OptedOutNotBridged` |
| `dialer_live` | `VoiceDialer`: 1 agent, 1 customer, 1 call, 2 handlers; voicemail detection; ticks that outlive their lock | `ClaimedIsTracked`, `DialingEnds`, `StrayEnds` |
| `dialer_pair` | `VoiceDialer`: 2 agents, 1 customer, 1 call, 2 handlers, `Overlap` | violated: `OneLeadOneAgent` |
| `inbound` | `VoiceInbound`: 1 agent, 1 customer, 2 calls, 2 handlers; people leave, the dialer is switched | `InTypeOK`, `NoTwoCustomersInOneRoom`, `OneHandlerPerCaller` |
| `booking` | `Booking`: 1 agent, 1 time, 2 customers, 2 requests, 2 appointments; a session in New York | `BookingTypeOK`, `LockKeepsOthersOut`, `ImplementsDiary` |
| `booking_double` | `Booking`: 1 agent, 2 times, 2 customers, 2 requests, 3 appointments; a session in UTC | violated: `NeverDoubleBooked` |
| `sending` | `Sending`: 1 lead, 2 drip cycles, 2 workers, all of which may die; 2 jobs in the list | `SendingTypeOK`, `ReleasedIsAccounted`, `NoClaimLeaks`, `ImplementsOutreach` |
| `sending_stop` | `Sending`: one number in the files of 2 campaigns, 1 cycle, 1 worker | violated: `StopIsHonoured` |

The queue:

* `HeldLeadHasOwner` – no release, reassignment or restore leaves a lead in hand
  and belonging to nobody.
* `OffersGoToWorkers` – the assigner at the tail of an operation sees the
  operation's own changes: nobody who comes out of the step an admin, on break,
  gone, parked or on a call is offered a lead.
* `NotBouncedBack` – during the cooldown neither the pass nor any later sweep
  gives the lead back to the agent who passed it.
* `SuppressionSticks`, `ParkedReturnsOnlyByReply` – a suppressing result always
  comes with the number on the list, and only a new reply un-parks a lead.  The
  second needs the first: `restore_parked` does not look at the lead's status.
* `NoRepopOfWorkedNumber` – an uploaded row is not offered while another row of
  its number is dispositioned, even by the step that dispositions it.
* `PoolNeverStalls` – while a lead waits and somebody is free, offers keep being
  made.  `IgnoredOfferMovesOn` – an offer does not stay for ever on an agent who
  does nothing.
* `ImplementsQueue` – one session implements `SmsQueue`'s `Spec`: the atomic
  model is the right reading of reads, flushes and queries.  Without the flush
  before `_try_assign`, which `autoflush=False` makes necessary, it fails
  (`Pick_unflushed`).
* In `tx_overlap`, `SuppressionSticks` is the invariant that needs no isolation:
  the result and the number are inserted by one transaction and no transaction
  removes a number.  `MarksListed` is what makes it inductive.

The dialer:

* `NoTwoCustomersInOneRoom` – an agent is bridged to one customer at most, and to
  none while on a hand-dialed call: every claim of an agent ends what is left in
  their room (`_end_live_calls`).
* `OneCallPerCustomer` – the check for a call in flight and the claim
  READY_TO_CALL -> DIALING keep two handlers from calling one customer twice,
  through retries, crashes and repeated texts.
* `OptedOutNotBridged` – whoever says STOP while the phone rings is not put
  through.
* `ClaimedIsTracked`, `DialingEnds` – a claimed customer has a call in flight or
  a handler that is about to put them back, and leaves that status again even if
  every event of the carrier is lost.
* `StrayEnds` – a bridged call whose lead has gone elsewhere is ended.
* `OneHandlerPerCaller` – the tick, the hold webhook and the key pressed never
  deal with one held caller together.

Sending and booking:

* `ImplementsOutreach` – a campaign texts a number once at most, though cycles
  overlap, die after the push and push a lead again, and workers take the two
  jobs at the same time.
* `ReleasedIsAccounted` – a number with a released lead has been texted or has a
  job in the list, with a worker or among the retries, unless such a job went down
  with a worker or ended in a refusal taken for a success.  The property is about
  numbers and not about rows: a duplicate counts as sent on the strength of
  somebody else's send, which may still fail.
* `NoClaimLeaks` – the same two exceptions for claims: any other claim stands for
  a text or a send in progress, although duplicates meet claims that are about to
  be given back.
* `ImplementsDiary`, `LockKeepsOthersOut` – the check for a free agent comes
  before the lock and is not repeated under it, and locks expire, outlive what
  they were taken for and are deleted by cancellations.  One thing breaks the
  promise: a cancellation that deletes the lock of a time during a selection of
  it, which `torn` records.  At every other time a selection past the lock holds
  it alone, and the flow's bookings are those of a diary in which an agent's time
  goes to one customer.  `NeverDoubleBooked` is the promise without the exception
  ("under any circumstances"); it is refuted.

**Bounds.**  Each passing run visits its whole state space.  Two actors and one
thing they contend for are enough for every conflict above: two candidates for one
lead, two sessions with one row, two handlers with one call, two cycles and two
workers with one number, two requests with one slot.  The number shared by a
reply row and a list row is the smallest case of overlapping sources.  The
dialer's second call is a call back, an inbound call or the next attempt while
the last one is not over; one attempt (`MaxTotal` = 1) covers both the retry (a
new YES resets the count) and the return to the pool.  Two jobs in the list are
the second push of a lead whose cycle died.  In `booking` the one time is its own
release key, so that every cancellation deletes the lock of the time both
requests may want; `booking_double` has a release that names another time.  The
theorems of section 9 carry every safety property of the passing
runs and the three refinements to any size, under the conditions given there.

**Fairness.**  No person, customer or carrier is made to act.

* `FairSpec` of `SmsQueue`: Celery beat runs `auto_assign_queue` every 10 s
  whatever people do, so `DistributeAll` is weakly fair, and so is, for each lead,
  a `Rebroadcast` that includes it: an offer stays in the sweep's reach once it is
  90 s old and nobody touches it.  This assumes the customer does not keep
  texting, since each text refreshes the offer's clock (`inbound_sync.py:115`).
  `CooldownEnds` is fair because time passes.
* `FairSpec` of `VoiceDialer`: handlers and ticks run to their end (weak), the
  beat task starts ticks (weak), and a call that is overdue is in the reach of
  every later sweep (strong, since between two ticks no sweep is enabled).
  `dialer_live` is without crashes: section 10 says what a crash leaves behind.

**Three disagreements** between the code and what it says of itself are recorded
in `findings`, each with the run that shows it.  Two handlers that connect one
call claim an agent each, against "one lead, one call, one agent"
(`dialer_pair`).  A cancellation deletes the lock of another booking that is under
way, against "never allow double-booking under any circumstances", and an agent's
time goes to two customers (`booking_double`).  An opt-out marks one row of the
number, and the row of another campaign is still texted (`sending_stop`).  The
first needs two agents and another transaction inside `connect_human`; the runs
`dialer`, `dialer_live` and `inbound` check what holds when `connect_human` is
undisturbed.

## 9. Proofs

All theorems hold for any sets of agents, leads, handlers and so on that satisfy
the assumptions of the module: sentinels outside the sets they stand beside,
finite sets, a `Rank` without ties (`created_at` orders rows), one row per number
in a file (`ingest_csv` keeps the first).

**`SmsQueueProofs`**: `TypeCorrect`, `HeldLeadsHaveOwners`,
`SuppressionIsListed`, `ParkedStaysParked`, `OffersReachWorkers`,
`PassedLeadsMoveOn`, `WorkedNumbersAreNotOffered` – every safety property of the
runs of `SmsQueue`.  `OffersReachWorkers` also covers the admins, of whom the
runs have none.  Thirty actions end in one assigner, so the proofs do not go
action by action for each property.

1. `HandOutcome`, `TryAssignOutcome`, `TryAssignAllOutcome`: whatever the tables
   it starts from, the assigner leaves each lead as it was or makes it an offer
   of a pool lead to an available agent who has not passed it
   (`AssignerOutcome`).
2. One lemma per action (`...Shape`) says what each lead row can become:
   unchanged, released, tombstoned, restored, accepted, reassigned, parked or
   offered, with the conditions of that change; `NextShape` joins them.
3. Each theorem is then a case split over the kinds of change, not over the
   actions.  The invariants are `TypeOK`, then `HeldLeadHasOwner` and
   `SuppressionSticks`, each inductive together with `TypeOK`.  The type
   invariant is needed in every step: functions of the right domain make the
   EXCEPT updates mean what they say.
4. The action properties follow from the same shapes and those invariants:
   `ParkedStaysParked` uses `SuppressionSticks` in its restore case;
   `PassedLeadsMoveOn` uses that only `Pass` adds to `passed` (`OnlyPassGrows`).

**`SmsQueueTxProofs`**, for any number of sessions and any interleaving:
`TxTypeCorrect` and `TxSuppressionIsListed`.  The inductive invariant `TxInv` is
`TxTypeOK`, `SuppressionSticks` and `MarksListed`: a commit may only bring
suppressing results whose numbers it brings along, so the invariant has to speak
of what is flushed and of what is still to be flushed.  `SessionStep` covers
every step that changes one session and commits nothing; `BeginInv` reduces the
operations to what they make of the results of the rows they read (`Marked`),
and each operation has a lemma of its own.

**`SmsQueueTxRefinement`**: `TxImplementsQueue`, for any number of agents, leads
and lists, and one session (`OneSession`): with two it is false, as the lost
updates of section 10 show.  Only `Commit` changes the tables, so it has to be one
action of `SmsQueue`; the work is to remember, from the reads to the commit, what
was asked for.  `RunInv` says of a session between the two that

* some operation, enabled in the committed tables, asked for the tables K and E
  (`Asked`; the operations are grouped by who makes them);
* the rounds of the assigner so far turn K and E into the tables as the session
  sees them, its unflushed changes included (`Dealt`, `LeadsSeen`, `AgentsSeen`);
* before a round and before the commit everything is flushed (`AllFlushed`): with
  `autoflush=False` a round would otherwise not see its own session's changes.

`LeadsWritten` and `LeadsTwice` say that writing the changed columns of a row, in
one flush or several, gives the row that was meant.  `RoundsDone` is the crux:
the rounds of `_try_assign`, each on what the last one left, are one `Deal`, in
which every agent takes the first lead left in some order of turns; `OneMoreRound`
extends that order, and `SomeBegun` starts it.  `AskedDone` then finds the action
of `SmsQueue` for each group of operations.

**`VoiceDialerProofs`**, for any number of agents, customers, calls and handlers:

| theorem | provided | because otherwise |
|---|---|---|
| `DialerTypes`, `DialerRooms` | | |
| `DialerCalls`: `OneCallPerCustomer` | `~LockExpires` | two ticks can call one customer (section 10) |
| `DialerTracks`: `ClaimedIsTracked` | `~Crashes` | a crash strands the lead (section 10) |
| `DialerOptOuts`: `OptedOutNotBridged` | `~Overlap`, `NoEarlyBridge` | a STOP may commit inside `connect_human`; a voicemail found after the bridge (section 10) |

Each condition is a way the code can be run: crashes and the lock's lease are not
its choice, connecting on answer and voicemail detection are settings.

1. `DialerInvariant`: rows are typed, and with that a lead that waits for a call
   has an attempt left, a call that exists is about a customer, a handler at work
   has a call that exists, and a tick that calls has somebody to spare for it.
   The updates rely on these: a webhook writes the row of the lead that its call's
   row names.
2. `TickInv`: a handler inside a tick holds `tickLock`; customers to dial are
   known only to ticks that dial; none of them is in a call.  The last is what the
   tick has checked and what must still hold when it places the call; it does
   because only a tick puts a call in flight, and a tick holds the lock.
3. `ConnectInv`: one handler at a time is inside `connect_human`; its customer is
   DIALING, and nobody on the Do-Not-Call list is.  STOP takes a lead out of
   DIALING, so the guard on the lead's status is enough although the transaction
   never reads the list.
4. `ClaimedIsTracked` and `NoTwoCustomersInOneRoom` are inductive with
   `DialerInvariant`.

**`VoiceInboundProofs`** carries the same results over to customers who call in
(`InboundTypes`, `InboundRooms`, `InboundCalls`, `InboundTracks`, `InboundOptOuts`,
under the same conditions) and adds `InboundHandlers`, without condition.  A step
of the dialer among the callers is a step of `VoiceDialer`, whose lemmas apply
(`InSteps`); the steps of `Callers` and `Attends` are argued one by one.  `HeldInv`
is `OneHandlerPerCaller` and what makes it inductive: a caller whom a handler has
locked is no longer HOLDING, so that no other handler can lock them, and is not
in flight, so that no webhook of an outgoing call takes them up.

**`BookingProofs`**, whatever keys rows are read back under: `BookingTypes`,
`LockHeld` and `FlowImplementsDiary`.  The refinement needs that the time of a
request past the lock is still free in the flow's bookings although it was
checked before the lock was taken.  `KeyInv` says so of each time whose lock is
not `torn`: a request past the lock holds it, alone, and the time is free
(`HolderIsAlone`); and if somebody has taken the time since a request's check, the
lock is still there to refuse that request, and too young to run out before it
has (`TakenMeansLocked`, `YoungLock`).  The last two are what the five minutes are
for.  `DeleteStep` is the release: the lock it deletes is one that nobody wants, or
the time becomes torn and the invariant claims nothing of it any more, so that
the two theorems say what a double booking must go through.

**`SendingProofs`**: `SendingTypes`, `ClaimsAccounted` (inductive with the types),
`ReleasedAccounted` and `SendingImplements`.  `ReleaseInv` adds to
`ReleasedIsAccounted` the leads a cycle has pushed but not committed, and says of
a worker whose job counts as sent that its number is `Settled`: texted, or with
another job that cannot end as a duplicate any more.  A duplicate is settled
because the claim it met stands for something (`ClaimsAccounted`), and a settled
number stays so (`StepSettles`); this is what lets the worker drop its job.
`OnceInv` says that a
text has a claim and that a worker between its claim and the carrier's answer
holds a claim of its own, untexted; it needs `Unsure` = FALSE: a request that
times out although the carrier took the message gives back a claim that has been
used.

Only model-checked: the liveness properties (`PoolNeverStalls`,
`IgnoredOfferMovesOn`, `DialingEnds`, `StrayEnds`), which need ENABLED and fairness
and are out of the prover's reach, and the three refuted properties.

## 10. Known behaviours

What the models contain, the properties do not claim, and a reader should know.
Each follows from the lines named.

* **A hand-dialed call and the dialer's can meet** (`manual.py:153-169`).  The
  request checks that no customer of the dialer is connected to the agent, then
  inserts its row; `_claim_agent` (`service.py:1196-1213`) leaves out agents who
  have such a row and then updates the one it takes, without looking again.  If
  the two overlap, the agent has both calls.  `StartHandCall` makes check and
  insert one step in `VoiceDialer`, so its properties do not see this.
* **The reaper releases `current_lead_id` only** (`queue_service.py:822`).  An
  agent with an open offer passes another lead from a stale popup, is given a
  second one, and is reaped: OFFLINE and still owner of the first, until
  rebroadcast finds that offer.
* **Deleting a parked row lifts suppression from lists**
  (`queue_service.py:932`).  The pool does not read the Do-Not-Call list; an
  uploaded row of a suppressed number is kept out by the parked reply row of that
  number, and is offered once that row is deleted.
* **Lost updates of the queue** (`queue_service.py:297, 789`).  A sweep takes back a
  lead that has just been accepted; an assigner offers a lead whose suppressing
  result was committed after its read; two assigners leave an agent with a
  `current_lead_id` that is not theirs, and no sweep clears it, so the agent
  waits in vain.
* **A crash after MACHINE or ABANDONED** (`service.py:1424`) is committed, before
  the lead is put back, leaves the lead DIALING with no call in flight; no sweep
  looks at such a lead.  A crash between the lock and connect leaves a held caller
  BRIDGING until they hang up (`inbound.py:411`).
* **A voicemail found after the bridge** (`service.py:1495`).  With connection on
  answer and voicemail detection both on, a late verdict makes a lead that is
  IN_PROGRESS wait for a redial, whoever accepted it since and although the
  customer has said STOP; with a second call of that customer still ringing, they
  are put through.  (`dialer` without crashes, with `MachineDetection` and `Deeds` = stop,
  manage, take shows it in 32 states; it was found by the proof of `DialerOptOuts`,
  and is why that theorem has the condition `NoEarlyBridge`.)
* **A number blocked by hand while its phone rings** is put through
  (`voice_dialer/optouts.py:130`): only leads that wait for a call are parked.
* **A held caller who is being handled can be dialed** (`service.py:826`): the
  tick looks for calls in flight and for HOLDING, and the caller is BRIDGING.
* **Two ticks at once and a result in between.**  With ticks that outlive their
  lock, a customer can be in two calls: the first tick reads the call list, a
  manager sets a result and the customer says YES again while the second tick has
  the first call in flight.  `OneCallPerCustomer` is checked with ticks that end
  within their lock.
* **A request that times out** after the carrier has taken the message
  (`communication_provider.py:312`) counts as failed; a second job of the lead
  texts the number again.
* **A refusal without a reason counts as sent** (`communication_provider.py:701`):
  an answer of 400 or more with an empty body (`:269`), an exception with an empty
  message (`:318`), or a block by `carrier_caps` when one of its flags is on
  (`:231-241`).  The claim stays for 90 days, the lead shows as contacted, nothing
  has been texted, no job is left, and any later job of the number in that
  campaign is suppressed as a duplicate, against "we release the claim if the send
  genuinely fails so a retry can still go out" (`send_once.py:12-13`).  The leads
  it happens to are `swallowed` in `Sending`.
* **A duplicate is counted as sent** (`communication_provider.py:640-683`) while
  the send that holds the claim may still fail; the lead then shows as contacted
  and its only job is in the retries, which nothing reads (`sms.py:210`).
* **The worker's commit overwrites** a reply or a booking that came in while the
  request was out (`sms.py:79`), against the comment at `sms.py:48-50`.
* **Two campaigns can run** (`ingestion.py:496`): two requests both find none
  running.  A delete between check and commit leaves a deleted campaign
  "running", which no page shows and which keeps every other from being run.
* **A cancellation can double-book** (`booking.py:259`, `locking.py:63-70`), against
  "Never allow double-booking under any circumstances" (`locking.py:11`).  It
  deletes the lock under its release key if the lock names the same customer,
  although the lock may be another one: with a session in UTC that of another
  time, with one in New York that of a selection of the same time made meanwhile;
  between GET and DELETE the lock may even have changed hands.  If a selection of
  that time is past the lock, and another customer has been found the same agent
  before, both are booked (`booking_double`; with `OwnKey` in the place of `UtcKey`
  too).
* **A second offer is shown and not stored** (`booking.py:91`).  The options are put
  into the dictionary that was loaded from `ai_context` and the same dictionary is
  assigned back, which SQLAlchemy takes for no change (`Store`): the number a
  customer answers the second offer with is looked up in the first list.
* **The desk can book an agent twice** (`appointments.py:267`): its overlap check
  takes no lock, against another desk and against the flow.  `ImplementsDiary` is
  about the flow's bookings and what the desk does to them.

## 11. Not modelled

* Of the queue: the break log, message sending, reports, the handled-lead
  counters; no assignment changes through them.  Of the lists: reordering and the
  file parser.
* Of the dialer: wallboard and reports, caller-id rotation, the calls-per-second
  slot, recordings, the opt-outs page (numbers blocked and unblocked by hand), the
  legs of a hand-dialed call and of a listener, greetings
  and hold messages.
* Of sending: imports of 500 rows or fewer and uploads outside a campaign, the
  claim's 90 days, Redis failing open, delivery reports.
* Of booking: reminders, working hours, the time left of a slot; the bookers of
  tool calling, workflows and the emergency fill, which no served path calls.
  The booking by text message is unreachable: `is_autopilot_paused` is always
  true (`core/sending.py:95`).
* The distributed booking queue (called by tests only), the workflow engine
  (driven by its own endpoints only), no-reply follow-ups (off by the same
  switch), the pacing engine's arithmetic, reports, compliance records, training,
  expenses, announcements, authentication, realtime notices and front ends:
  record keeping or presentation, without a protocol whose interleavings matter;
  `PROJECT.json` gives the reason per component.
