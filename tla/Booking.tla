------------------------------ MODULE Booking ------------------------------
(***************************************************************************)
(* Appointments: the booking flow (offer times, select, cancel,            *)
(* reschedule: booking/services/booking.py) with its slot locks in Redis   *)
(* (locking.py), beside the appointments desk (create, edit, disposition:  *)
(* appointments/routers/appointments.py), which shares the table and does  *)
(* not take the locks.  Requests are handled concurrently; each step below *)
(* is one database transaction or one Redis command of a request.          *)
(***************************************************************************)
EXTENDS Integers, FiniteSets

CONSTANTS
    Agents, Slots, Leads,   \* slots are numbered in the order of time
    Appts,                  \* ids of appointments: bounds how many are made
    Requests,               \* request handlers
    MaxOptions,             \* times offered in one message, 3 in the code
    Keys,                   \* the times a lock's key can name
    ReadKey,                \* the key of a slot once its row has been read back
    NoAgent, NoSlot, NoLead, NoAppt

(***************************************************************************)
(* A lock is set under the slot's New York time and released under the     *)
(* time of the row as the database returns it, in the session's zone: its  *)
(* own key when that zone is New York, the key of a slot some hours later  *)
(* when it is UTC, as on the deployments in docker-compose*.yml.           *)
(***************************************************************************)
ASSUME BookingAssumption ==
    /\ Slots \subseteq Int /\ Slots \subseteq Keys
    /\ MaxOptions \in Nat \ {0}
    /\ ReadKey \in [Slots -> Keys]
    /\ NoAgent \notin Agents /\ NoSlot \notin Slots /\ NoLead \notin Leads
    /\ NoAppt \notin Appts

VARIABLES
    appt,    \* the rows of appointments
    lock,    \* Redis: the lead a slot lock was taken for
    conv,    \* a lead's latest conversation: its status ...
    stored,  \* ... and the options its ai_context holds
    req,     \* the requests in progress
    torn     \* history: the keys whose lock a cancellation has deleted while a
             \* selection of that time was under way

vars == <<appt, lock, conv, stored, req, torn>>

ApptStatus == {"none", "confirmed", "cancelled", "completed", "no_show"}
ConvStatus == {"none", "active", "booked", "closed"}

\* "via" tells the appointments of the flow, until somebody edits them, from
\* those made or edited at the desk.
ApptRow == [status : ApptStatus, via : {"flow", "desk"}, agent : Agents \cup {NoAgent},
            slot : Slots \cup {NoSlot}, lead : Leads \cup {NoLead}]

Pcs == {"idle", "checked", "locked", "get", "delete", "cancel", "offer", "insert"}

\* "fresh": whatever lock is now on the selected time was taken after the
\* request's check, or not long before it.
ReqRow == [pc : Pcs, agent : Agents \cup {NoAgent}, slot : Slots \cup {NoSlot},
           lead : Leads \cup {NoLead}, appt : Appts \cup {NoAppt}, mine : BOOLEAN, again : BOOLEAN, fresh : BOOLEAN]

Unused == [status |-> "none", via |-> "flow", agent |-> NoAgent, slot |-> NoSlot, lead |-> NoLead]
Idle == [pc |-> "idle", agent |-> NoAgent, slot |-> NoSlot, lead |-> NoLead,
         appt |-> NoAppt, mine |-> FALSE, again |-> FALSE, fresh |-> FALSE]

Init ==
    /\ appt = [x \in Appts |-> Unused]
    /\ lock = [k \in Agents \X Keys |-> NoLead]
    /\ conv = [l \in Leads |-> "none"]
    /\ stored = [l \in Leads |-> {}]
    /\ req = [r \in Requests |-> Idle]
    /\ torn = {}

-----------------------------------------------------------------------------
(* Queries. *)

Confirmed(x, a, s) == appt[x].status = "confirmed" /\ appt[x].agent = a /\ appt[x].slot = s

Free(a, s) == \A x \in Appts : ~ Confirmed(x, a, s)

FreeSlots == {s \in Slots : \E a \in Agents : Free(a, s)}

\* get_merged_available_slots, format_slot_options: the soonest free times.
Options == {s \in FreeSlots : Cardinality({t \in FreeSlots : t < s}) < MaxOptions}

\* The number under which a list of options has a time.
Number(s, options) == Cardinality({t \in options : t <= s})

(***************************************************************************)
(* start_booking_flow puts the options into the dictionary it has loaded   *)
(* from ai_context and assigns that same dictionary back.  The column is   *)
(* plain JSONB: for SQLAlchemy a value equal to the loaded one, which the  *)
(* loaded one is to itself, is no change, so nothing is written unless     *)
(* ai_context was empty and a new dictionary took its place.               *)
(***************************************************************************)
Store(l, new) ==
    stored' = [stored EXCEPT ![l] = IF new \/ @ = {} THEN Options ELSE @]

-----------------------------------------------------------------------------
(* The booking flow. *)

\* POST /booking/start: in the conversation it names, in the lead's active
\* one, or in a new one.
Start(l, named) ==
    /\ named => conv[l] # "none"
    /\ Options # {}
    /\ Store(l, ~ named /\ conv[l] # "active")
    /\ conv' = [conv EXCEPT ![l] = IF named THEN @ ELSE "active"]
    /\ UNCHANGED <<appt, lock, req, torn>>

\* The requests that have found the agent's time free and have not yet booked it.
Wants(q, k) == req[q].pc \in {"checked", "locked"} /\ <<req[q].agent, req[q].slot>> = k

Locked(q, k) == req[q].pc = "locked" /\ Wants(q, k)

\* process_slot_selection up to assign_agent.
SelectChecks(r, l, n, a) ==
    /\ req[r].pc = "idle"
    /\ \E s \in stored[l] :
         /\ Number(s, stored[l]) = n
         /\ Free(a, s)
         /\ req' = [req EXCEPT ![r] =
                      [Idle EXCEPT !.pc = "checked", !.agent = a, !.slot = s, !.lead = l,
                                   !.fresh = \E q \in Requests : Locked(q, <<a, s>>)]]
    /\ UNCHANGED <<appt, lock, conv, stored, torn>>

\* After SET NX the lock is younger than the check of every selection of that
\* time which is under way.
Holds(r, k) ==
    [q \in Requests |->
        IF Wants(q, k)
        THEN [req[q] EXCEPT !.pc = IF q = r THEN "locked" ELSE @, !.fresh = TRUE]
        ELSE req[q]]

\* Mistaken: the agent's id stored as the value of the lock.
SelectLocks_agent(r) ==
    /\ req[r].pc = "checked"
    /\ LET k == <<req[r].agent, req[r].slot>> IN
         IF lock[k] = NoLead
         THEN /\ lock' = [lock EXCEPT ![k] = req[r].agent]
              /\ req' = Holds(r, k)
         ELSE /\ req' = [req EXCEPT ![r] = Idle]
              /\ UNCHANGED lock
    /\ UNCHANGED <<appt, conv, stored, torn>>

\* Mistaken: SET without NX.
SelectLocks_overwrites(r) ==
    /\ req[r].pc = "checked"
    /\ lock' = [lock EXCEPT ![<<req[r].agent, req[r].slot>>] = req[r].lead]
    /\ req' = Holds(r, <<req[r].agent, req[r].slot>>)
    /\ UNCHANGED <<appt, conv, stored, torn>>

\* acquire_slot_lock: SET NX EX.  A request that does not get it fails.
SelectLocks(r) ==
    /\ req[r].pc = "checked"
    /\ LET k == <<req[r].agent, req[r].slot>> IN
         IF lock[k] = NoLead
         THEN /\ lock' = [lock EXCEPT ![k] = req[r].lead]
              /\ req' = Holds(r, k)
         ELSE /\ req' = [req EXCEPT ![r] = Idle]
              /\ UNCHANGED lock
    /\ UNCHANGED <<appt, conv, stored, torn>>

\* Mistaken: the lock released as soon as the appointment is committed.
SelectCommits_releases(r, x) ==
    /\ req[r].pc = "locked" /\ appt[x].status = "none"
    /\ appt' = [appt EXCEPT ![x] = [status |-> "confirmed", via |-> "flow", agent |-> req[r].agent,
                                    slot |-> req[r].slot, lead |-> req[r].lead]]
    /\ conv' = [conv EXCEPT ![req[r].lead] = "booked"]
    /\ req' = [req EXCEPT ![r] = Idle]
    /\ lock' = [lock EXCEPT ![<<req[r].agent, req[r].slot>>] = NoLead]
    /\ UNCHANGED <<stored, torn>>

\* The appointment is inserted and committed; the lock is left to run out,
\* and so are the options: booking_state is put into the loaded dictionary.
SelectCommits(r, x) ==
    /\ req[r].pc = "locked" /\ appt[x].status = "none"
    /\ appt' = [appt EXCEPT ![x] = [status |-> "confirmed", via |-> "flow", agent |-> req[r].agent,
                                    slot |-> req[r].slot, lead |-> req[r].lead]]
    /\ conv' = [conv EXCEPT ![req[r].lead] = "booked"]
    /\ req' = [req EXCEPT ![r] = Idle]
    /\ UNCHANGED <<lock, stored, torn>>

\* cancel_booking reads the row; reschedule_booking calls it first.
CancelReads(r, x, again) ==
    /\ req[r].pc = "idle"
    /\ appt[x].status \in {"confirmed", "no_show"}
    /\ again => conv[appt[x].lead] \in {"active", "booked"}
    /\ req' = [req EXCEPT ![r] =
                 [pc |-> "get", agent |-> appt[x].agent, slot |-> appt[x].slot,
                  lead |-> appt[x].lead, appt |-> x, mine |-> FALSE, again |-> again,
                  fresh |-> FALSE]]
    /\ UNCHANGED <<appt, lock, conv, stored, torn>>

ReleaseKey(r) == <<req[r].agent, ReadKey[req[r].slot]>>

\* release_slot_lock: GET, and DELETE if the value was this lead's.
CancelGets(r) ==
    /\ req[r].pc = "get"
    /\ req' = [req EXCEPT ![r].pc = "delete",
                          ![r].mine = lock[ReleaseKey(r)] = req[r].lead]
    /\ UNCHANGED <<appt, lock, conv, stored, torn>>

CancelDeletes(r) ==
    /\ req[r].pc = "delete"
    /\ lock' = [lock EXCEPT ![ReleaseKey(r)] = IF req[r].mine THEN NoLead ELSE @]
    /\ torn' = IF /\ req[r].mine /\ lock[ReleaseKey(r)] # NoLead
                  /\ \E q \in Requests : Wants(q, ReleaseKey(r))
               THEN torn \cup {ReleaseKey(r)} ELSE torn
    /\ req' = [req EXCEPT ![r].pc = "cancel"]
    /\ UNCHANGED <<appt, conv, stored>>

\* The status read before is not looked at again.
CancelCommits(r) ==
    /\ req[r].pc = "cancel"
    /\ appt' = [appt EXCEPT ![req[r].appt].status = "cancelled"]
    /\ req' = [req EXCEPT ![r] = IF req[r].again THEN [@ EXCEPT !.pc = "offer"] ELSE Idle]
    /\ UNCHANGED <<lock, conv, stored, torn>>

\* start_booking_flow at the end of reschedule_booking, same conversation.
OffersAgain(r) ==
    /\ req[r].pc = "offer"
    /\ IF Options = {} THEN UNCHANGED stored ELSE Store(req[r].lead, FALSE)
    /\ req' = [req EXCEPT ![r] = Idle]
    /\ UNCHANGED <<appt, lock, conv, torn>>

\* A process dies, or its transaction fails and is rolled back.
Fails(r) ==
    /\ req[r].pc # "idle"
    /\ req' = [req EXCEPT ![r] = Idle]
    /\ UNCHANGED <<appt, lock, conv, stored, torn>>

\* LOCK_TTL_SECONDS: five minutes, and requests take far less.  The lock of a
\* request under way does not run out, nor one taken since the check of another;
\* an older one may, at any moment.
Expires(k) ==
    /\ lock[k] # NoLead
    /\ \A r \in Requests : Wants(r, k) => ~ req[r].fresh
    /\ lock' = [lock EXCEPT ![k] = NoLead]
    /\ UNCHANGED <<appt, conv, stored, req, torn>>

-----------------------------------------------------------------------------
(* The desk. *)

\* create_appointment: the overlap query, then the insert; no lock.
CreateChecks(r, a, s, l) ==
    /\ req[r].pc = "idle" /\ Free(a, s)
    /\ req' = [req EXCEPT ![r] = [Idle EXCEPT !.pc = "insert", !.agent = a, !.slot = s, !.lead = l]]
    /\ UNCHANGED <<appt, lock, conv, stored, torn>>

CreateCommits(r, x) ==
    /\ req[r].pc = "insert" /\ appt[x].status = "none"
    /\ appt' = [appt EXCEPT ![x] = [status |-> "confirmed", via |-> "desk", agent |-> req[r].agent,
                                    slot |-> req[r].slot, lead |-> req[r].lead]]
    /\ req' = [req EXCEPT ![r] = Idle]
    /\ UNCHANGED <<lock, conv, stored, torn>>

\* update_appointment: any status, whatever the row was; AppointmentUpdate has no
\* field for the time or the agent.
Edit(x, status) ==
    /\ appt[x].status \notin {"none", status}
    /\ appt' = [appt EXCEPT ![x].status = status, ![x].via = "desk"]
    /\ UNCHANGED <<lock, conv, stored, req, torn>>

\* submit_appointment_disposition: any row, and the lead's conversation.
Disposition(x, status, convStatus) ==
    /\ appt[x].status # "none"
    /\ appt' = [appt EXCEPT ![x].status = status]
    /\ conv' = [conv EXCEPT ![appt[x].lead] = IF @ = "none" THEN @ ELSE convStatus]
    /\ UNCHANGED <<lock, stored, req, torn>>

-----------------------------------------------------------------------------
Flow(r) ==
    \/ \E l \in Leads, n \in 1..MaxOptions, a \in Agents : SelectChecks(r, l, n, a)
    \/ SelectLocks(r)
    \/ \E x \in Appts : SelectCommits(r, x)
    \/ \E x \in Appts, again \in BOOLEAN : CancelReads(r, x, again)
    \/ CancelGets(r) \/ CancelDeletes(r) \/ CancelCommits(r) \/ OffersAgain(r) \/ Fails(r)

Desk(r) ==
    \/ \E a \in Agents, s \in Slots, l \in Leads : CreateChecks(r, a, s, l)
    \/ \E x \in Appts : CreateCommits(r, x)

Next ==
    \/ \E l \in Leads, named \in BOOLEAN : Start(l, named)
    \/ \E r \in Requests : Flow(r) \/ Desk(r)
    \/ \E k \in Agents \X Keys : Expires(k)
    \/ \E x \in Appts, status \in ApptStatus \ {"none"} : Edit(x, status)
    \/ \E x \in Appts, status \in {"completed", "no_show"}, c \in {"active", "closed"} :
         Disposition(x, status, c)

Spec == Init /\ [][Next]_vars

-----------------------------------------------------------------------------
(* Properties. *)

\* Rows, locks and requests have their shapes; a booking in the table names
\* an agent, a time and a customer.
BookingTypeOK ==
    /\ appt \in [Appts -> ApptRow]
    /\ lock \in [Agents \X Keys -> Leads \cup {NoLead}]
    /\ conv \in [Leads -> ConvStatus]
    /\ stored \in [Leads -> SUBSET Slots]
    /\ req \in [Requests -> ReqRow] /\ torn \subseteq Agents \X Keys
    /\ \A x \in Appts : appt[x].status # "none" =>
         appt[x].agent \in Agents /\ appt[x].slot \in Slots /\ appt[x].lead \in Leads
    /\ \A r \in Requests : req[r].pc # "idle" =>
         req[r].agent \in Agents /\ req[r].slot \in Slots /\ req[r].lead \in Leads
    /\ \A r \in Requests : req[r].pc \in {"get", "delete", "cancel", "offer"} =>
         req[r].appt \in Appts /\ appt[req[r].appt].status # "none"

\* The bookings of the flow that stand and that nobody has edited.
Stands(x) == appt[x].status = "confirmed" /\ appt[x].via = "flow"

\* ... at the times whose locks have been left alone.
FlowBookings ==
    {[id |-> x, agent |-> appt[x].agent, slot |-> appt[x].slot] :
        x \in {y \in Appts : Stands(y) /\ <<appt[y].agent, appt[y].slot>> \notin torn}}

D == INSTANCE Diary WITH taken <- FlowBookings, Ids <- Appts

\* An agent's time goes to one customer, whatever selects, edits, failures and
\* expiries overlap, although the check for a free agent comes before the lock
\* and is not repeated under it: the one thing that can break this is a
\* cancellation that deletes the lock of a time while a selection of that time is
\* under way (assign_agent, acquire_slot_lock, release_slot_lock).
ImplementsDiary == D!DiarySpec

\* Unless a cancellation has done so, a request past the lock still holds it,
\* alone, and the time is still free in the flow's bookings, though it was only
\* checked before the lock was taken (acquire_slot_lock, LOCK_TTL_SECONDS).
LockKeepsOthersOut ==
    \A r \in Requests :
        LET k == <<req[r].agent, req[r].slot>> IN
        Locked(r, k) /\ k \notin torn =>
            /\ lock[k] = req[r].lead
            /\ \A q \in Requests \ {r} : ~ Locked(q, k)
            /\ \A x \in Appts : Stands(x) => <<appt[x].agent, appt[x].slot>> # k

\* The flow never books one time of an agent for two customers ("Never allow
\* double-booking under any circumstances", locking.py:11).
NeverDoubleBooked ==
    \A x, y \in Appts : Stands(x) /\ Stands(y) /\ appt[x].lead # appt[y].lead =>
        <<appt[x].agent, appt[x].slot>> # <<appt[y].agent, appt[y].slot>>

=============================================================================
