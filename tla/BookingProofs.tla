---------------------------- MODULE BookingProofs ----------------------------
(***************************************************************************)
(* Proofs about Booking, for any numbers of agents, times, customers and   *)
(* requests and whatever keys rows are read back under: the types, what    *)
(* the slot locks protect, and that the booking flow implements Diary.     *)
(***************************************************************************)
EXTENDS Booking, TLAPS

\* The options are times, whichever are free.
LEMMA OptionsAreSlots == Options \subseteq Slots
BY DEF Options, FreeSlots

-----------------------------------------------------------------------------
(* Types. *)

LEMMA TypeInit == ASSUME BookingAssumption, Init PROVE BookingTypeOK
BY DEF Init, BookingTypeOK, BookingAssumption, Unused, Idle, ApptRow, ReqRow, ApptStatus, Pcs, ConvStatus

\* Store puts times into stored.
LEMMA StoreTypes ==
    ASSUME BookingTypeOK, NEW l \in Leads, NEW new \in BOOLEAN, Store(l, new)
    PROVE  stored' \in [Leads -> SUBSET Slots]
BY OptionsAreSlots DEF BookingTypeOK, Store

\* Starting a flow keeps the types.
LEMMA StartType ==
    ASSUME BookingAssumption, BookingTypeOK, NEW l \in Leads, NEW named \in BOOLEAN, Start(l, named)
    PROVE  BookingTypeOK'
<1>1. stored' \in [Leads -> SUBSET Slots]
    BY StoreTypes DEF Start
<1>2. conv' \in [Leads -> ConvStatus]
    BY DEF Start, BookingTypeOK, ConvStatus
<1> QED BY <1>1, <1>2 DEF Start, BookingTypeOK

\* A request that names an agent, a time and a customer, and an appointment
\* once it is about one, keeps the types.
LEMMA RequestType ==
    ASSUME BookingAssumption, BookingTypeOK, NEW r \in Requests, NEW row \in ReqRow,
           req' = [req EXCEPT ![r] = row], UNCHANGED appt,
           row.pc # "idle" => row.agent \in Agents /\ row.slot \in Slots /\ row.lead \in Leads,
           row.pc \in {"get", "delete", "cancel", "offer"} =>
             row.appt \in Appts /\ appt[row.appt].status # "none"
    PROVE  /\ req' \in [Requests -> ReqRow]
           /\ \A q \in Requests : req'[q].pc # "idle" =>
                req'[q].agent \in Agents /\ req'[q].slot \in Slots /\ req'[q].lead \in Leads
           /\ \A q \in Requests : req'[q].pc \in {"get", "delete", "cancel", "offer"} =>
                req'[q].appt \in Appts /\ appt'[req'[q].appt].status # "none"
BY DEF BookingTypeOK

\* So do the requests once a lock has been taken: they are after what they were after.
LEMMA HoldsType ==
    ASSUME BookingTypeOK, NEW r \in Requests, NEW k, req' = Holds(r, k), UNCHANGED appt
    PROVE  /\ req' \in [Requests -> ReqRow]
           /\ \A q \in Requests : req'[q].pc # "idle" =>
                req'[q].agent \in Agents /\ req'[q].slot \in Slots /\ req'[q].lead \in Leads
           /\ \A q \in Requests : req'[q].pc \in {"get", "delete", "cancel", "offer"} =>
                req'[q].appt \in Appts /\ appt'[req'[q].appt].status # "none"
<1>1. ASSUME NEW q \in Requests
      PROVE  /\ req'[q] \in ReqRow
             /\ req'[q] = req[q] \/ (req[q].pc # "idle" /\ req'[q].pc \in {"checked", "locked"})
             /\ req'[q].agent = req[q].agent /\ req'[q].slot = req[q].slot /\ req'[q].lead = req[q].lead
    <2>1. req[q] \in ReqRow
        BY DEF BookingTypeOK
    <2>2. CASE Wants(q, k)
        <3> DEFINE row == [req[q] EXCEPT !.pc = IF q = r THEN "locked" ELSE @, !.fresh = TRUE]
        <3>1. req'[q] = row
            BY <2>2 DEF Holds
        <3>2. /\ row \in ReqRow /\ row.pc \in {"checked", "locked"}
              /\ row.agent = req[q].agent /\ row.slot = req[q].slot /\ row.lead = req[q].lead
            BY <2>1, <2>2 DEF Wants, ReqRow, Pcs
        <3> QED BY <2>2, <3>1, <3>2 DEF Wants
    <2>3. CASE ~ Wants(q, k)
        BY <2>1, <2>3 DEF Holds
    <2> QED BY <2>2, <2>3
<1>2. req' \in [Requests -> ReqRow]
    BY <1>1 DEF Holds
<1> QED BY <1>1, <1>2 DEF BookingTypeOK

\* So does another status of an appointment that exists.
LEMMA RowType ==
    ASSUME BookingTypeOK, NEW x \in Appts, appt[x].status # "none", NEW row \in ApptRow,
           appt' = [appt EXCEPT ![x] = row], row.status # "none",
           row.agent = appt[x].agent, row.slot = appt[x].slot, row.lead = appt[x].lead
    PROVE  /\ appt' \in [Appts -> ApptRow]
           /\ \A y \in Appts : appt'[y].status # "none" =>
                appt'[y].agent \in Agents /\ appt'[y].slot \in Slots /\ appt'[y].lead \in Leads
           /\ \A y \in Appts : appt[y].status # "none" => appt'[y].status # "none"
BY DEF BookingTypeOK

\* A step of the flow keeps the types: it changes one request and at most one
\* row, one lock and one conversation.
LEMMA FlowType ==
    ASSUME BookingAssumption, BookingTypeOK, NEW r \in Requests, Flow(r)
    PROVE  BookingTypeOK'
<1>1. req[r] \in ReqRow
    BY DEF BookingTypeOK
<1>2. ASSUME NEW l \in Leads, NEW n \in 1..MaxOptions, NEW a \in Agents, SelectChecks(r, l, n, a)
      PROVE  BookingTypeOK'
    <2> DEFINE row(s) == [Idle EXCEPT !.pc = "checked", !.agent = a, !.slot = s, !.lead = l,
                                      !.fresh = \E q \in Requests : Locked(q, <<a, s>>)]
    <2>1. PICK s \in Slots : req' = [req EXCEPT ![r] = row(s)]
        BY <1>2 DEF SelectChecks, BookingTypeOK
    <2>2. row(s) \in ReqRow /\ row(s).pc = "checked" /\ row(s).agent = a /\ row(s).slot = s /\ row(s).lead = l
        BY BookingAssumption DEF Idle, ReqRow, Pcs, BookingAssumption
    <2> HIDE DEF row
    <2> QED BY <1>2, <2>1, <2>2, RequestType DEF SelectChecks, BookingTypeOK
<1>3. ASSUME SelectLocks(r) PROVE BookingTypeOK'
    <2> DEFINE k == <<req[r].agent, req[r].slot>>
    <2>1. k \in Agents \X Keys /\ req[r].lead \in Leads
        BY <1>3, BookingAssumption DEF SelectLocks, BookingTypeOK, BookingAssumption
    <2>2. lock' \in [Agents \X Keys -> Leads \cup {NoLead}]
        BY <1>3, <2>1 DEF SelectLocks, BookingTypeOK
    <2>3. CASE req' = Holds(r, k)
        BY <1>3, <2>2, <2>3, HoldsType DEF SelectLocks, BookingTypeOK
    <2>4. CASE req' = [req EXCEPT ![r] = Idle]
        <3>1. Idle \in ReqRow /\ Idle.pc = "idle"
            BY BookingAssumption DEF ReqRow, Idle, Pcs
        <3> QED BY <1>3, <2>2, <2>4, <3>1, RequestType DEF SelectLocks, BookingTypeOK
    <2> QED BY <1>3, <2>3, <2>4 DEF SelectLocks
<1>4. ASSUME NEW x \in Appts, SelectCommits(r, x) PROVE BookingTypeOK'
    <2>1. Idle \in ReqRow /\ Idle.pc = "idle"
        BY BookingAssumption DEF ReqRow, Idle, Pcs
    <2>2. conv' \in [Leads -> ConvStatus] /\ req' \in [Requests -> ReqRow]
        BY <1>4, <2>1 DEF SelectCommits, BookingTypeOK, ConvStatus
    <2>3. req[r].agent \in Agents /\ req[r].slot \in Slots /\ req[r].lead \in Leads
        BY <1>4 DEF SelectCommits, BookingTypeOK
    <2>4. /\ appt' \in [Appts -> ApptRow]
          /\ \A y \in Appts : appt'[y].status # "none" =>
               appt'[y].agent \in Agents /\ appt'[y].slot \in Slots /\ appt'[y].lead \in Leads
          /\ \A y \in Appts : appt[y].status # "none" => appt'[y].status # "none"
        BY <1>4, <2>3 DEF SelectCommits, BookingTypeOK, ApptRow, ApptStatus
    <2> QED BY <1>4, <2>1, <2>2, <2>4 DEF SelectCommits, BookingTypeOK
<1>5. ASSUME NEW x \in Appts, NEW again \in BOOLEAN, CancelReads(r, x, again) PROVE BookingTypeOK'
    <2> DEFINE row == [pc |-> "get", agent |-> appt[x].agent, slot |-> appt[x].slot,
                       lead |-> appt[x].lead, appt |-> x, mine |-> FALSE, again |-> again,
                       fresh |-> FALSE]
    <2>1. appt[x].agent \in Agents /\ appt[x].slot \in Slots /\ appt[x].lead \in Leads /\ appt[x].status # "none"
        BY <1>5 DEF CancelReads, BookingTypeOK
    <2>2. row \in ReqRow
        BY <2>1 DEF ReqRow, Pcs
    <2> QED BY <1>5, <2>1, <2>2, RequestType DEF CancelReads, BookingTypeOK
<1>6. ASSUME CancelGets(r) PROVE BookingTypeOK'
    <2> DEFINE row == [req[r] EXCEPT !.pc = "delete", !.mine = lock[ReleaseKey(r)] = req[r].lead]
    <2>1. row \in ReqRow /\ row.pc = "delete" /\ row.agent = req[r].agent /\ row.slot = req[r].slot
          /\ row.lead = req[r].lead /\ row.appt = req[r].appt
        BY <1>1 DEF ReqRow, Pcs
    <2>2. req' = [req EXCEPT ![r] = row]
        BY <1>6 DEF CancelGets
    <2> HIDE DEF row
    <2>3. req[r].pc = "get" /\ UNCHANGED <<appt, lock, conv, stored, torn>>
        BY <1>6 DEF CancelGets
    <2>4. /\ row.agent \in Agents /\ row.slot \in Slots /\ row.lead \in Leads
          /\ row.appt \in Appts /\ appt[row.appt].status # "none"
        BY <2>1, <2>3 DEF BookingTypeOK
    <2> QED BY <2>1, <2>2, <2>3, <2>4, RequestType DEF BookingTypeOK
<1>7. ASSUME CancelDeletes(r) PROVE BookingTypeOK'
    <2> DEFINE row == [req[r] EXCEPT !.pc = "cancel"]
    <2>1. row \in ReqRow /\ row.pc = "cancel" /\ row.agent = req[r].agent /\ row.slot = req[r].slot
          /\ row.lead = req[r].lead /\ row.appt = req[r].appt
        BY <1>1 DEF ReqRow, Pcs
    <2>2. req' = [req EXCEPT ![r] = row]
        BY <1>7 DEF CancelDeletes
    <2>3. lock' \in [Agents \X Keys -> Leads \cup {NoLead}]
        BY <1>7 DEF CancelDeletes, BookingTypeOK
    <2>4. ReleaseKey(r) \in Agents \X Keys
        BY <1>7, BookingAssumption DEF ReleaseKey, CancelDeletes, BookingTypeOK, BookingAssumption
    <2>5. torn' \subseteq Agents \X Keys
        BY <1>7, <2>4 DEF CancelDeletes, BookingTypeOK
    <2> HIDE DEF row
    <2> QED BY <1>7, <2>1, <2>2, <2>3, <2>5, RequestType DEF CancelDeletes, BookingTypeOK
<1>8. ASSUME CancelCommits(r) PROVE BookingTypeOK'
    <2>1. req[r].appt \in Appts /\ appt[req[r].appt].status # "none"
        BY <1>8 DEF CancelCommits, BookingTypeOK
    <2>2. /\ appt' \in [Appts -> ApptRow]
          /\ \A y \in Appts : appt'[y].status # "none" =>
               appt'[y].agent \in Agents /\ appt'[y].slot \in Slots /\ appt'[y].lead \in Leads
          /\ \A y \in Appts : appt[y].status # "none" => appt'[y].status # "none"
        <3> DEFINE x == req[r].appt
                   new == [appt[x] EXCEPT !.status = "cancelled"]
        <3>1. appt[x] \in ApptRow /\ appt' = [appt EXCEPT ![x] = new]
            BY <1>8, <2>1 DEF CancelCommits, BookingTypeOK
        <3>2. /\ new \in ApptRow /\ new.status = "cancelled"
              /\ new.agent = appt[x].agent /\ new.slot = appt[x].slot /\ new.lead = appt[x].lead
            BY <3>1 DEF ApptRow, ApptStatus
        <3> HIDE DEF new
        <3> QED BY <2>1, <3>1, <3>2, RowType
    <2> DEFINE row == IF req[r].again THEN [req[r] EXCEPT !.pc = "offer"] ELSE Idle
    <2>a. Idle \in ReqRow /\ [req[r] EXCEPT !.pc = "offer"] \in ReqRow /\ Idle.pc = "idle"
        BY <1>1, BookingAssumption DEF ReqRow, Idle, Pcs
    <2>3. /\ row \in ReqRow
          /\ \/ row.pc = "idle"
             \/ /\ row.pc = "offer" /\ row.agent = req[r].agent /\ row.slot = req[r].slot
                /\ row.lead = req[r].lead /\ row.appt = req[r].appt
        BY <1>1, <2>a DEF ReqRow
    <2>4. req' = [req EXCEPT ![r] = row] /\ req[r].pc = "cancel"
        BY <1>8 DEF CancelCommits
    <2> HIDE DEF row
    <2>5. req' \in [Requests -> ReqRow]
        BY <2>3, <2>4 DEF BookingTypeOK
    <2>6. \A q \in Requests : q # r => req'[q] = req[q]
        BY <2>4 DEF BookingTypeOK
    <2>7. req'[r] = row
        BY <2>4 DEF BookingTypeOK
    <2>8. \A q \in Requests : req'[q].pc # "idle" =>
                req'[q].agent \in Agents /\ req'[q].slot \in Slots /\ req'[q].lead \in Leads
        BY <2>3, <2>4, <2>6, <2>7 DEF BookingTypeOK
    <2>9. \A q \in Requests : req'[q].pc \in {"get", "delete", "cancel", "offer"} =>
                req'[q].appt \in Appts /\ appt'[req'[q].appt].status # "none"
        BY <2>1, <2>2, <2>3, <2>4, <2>6, <2>7 DEF BookingTypeOK
    <2> QED BY <1>8, <2>2, <2>5, <2>8, <2>9 DEF CancelCommits, BookingTypeOK
<1>9. ASSUME OffersAgain(r) PROVE BookingTypeOK'
    <2>1. Idle \in ReqRow /\ Idle.pc = "idle"
        BY BookingAssumption DEF ReqRow, Idle, Pcs
    <2>2. req[r].lead \in Leads
        BY <1>9 DEF OffersAgain, BookingTypeOK
    <2>3. stored' \in [Leads -> SUBSET Slots]
        BY <1>9, <2>2, StoreTypes DEF OffersAgain, BookingTypeOK
    <2> QED BY <1>9, <2>1, <2>3, RequestType DEF OffersAgain, BookingTypeOK
<1>10. ASSUME Fails(r) PROVE BookingTypeOK'
    <2>1. Idle \in ReqRow /\ Idle.pc = "idle"
        BY BookingAssumption DEF ReqRow, Idle, Pcs
    <2> QED BY <1>10, <2>1, RequestType DEF Fails, BookingTypeOK
<1> QED BY <1>2, <1>3, <1>4, <1>5, <1>6, <1>7, <1>8, <1>9, <1>10 DEF Flow

\* A step of the desk keeps the types.
LEMMA DeskType ==
    ASSUME BookingAssumption, BookingTypeOK, NEW r \in Requests, Desk(r)
    PROVE  BookingTypeOK'
<1>1. ASSUME NEW a \in Agents, NEW s \in Slots, NEW l \in Leads, CreateChecks(r, a, s, l)
      PROVE  BookingTypeOK'
    <2> DEFINE row == [Idle EXCEPT !.pc = "insert", !.agent = a, !.slot = s, !.lead = l]
    <2>1. row \in ReqRow /\ row.pc = "insert" /\ row.agent = a /\ row.slot = s /\ row.lead = l
        BY BookingAssumption DEF Idle, ReqRow, Pcs, BookingAssumption
    <2>2. req' = [req EXCEPT ![r] = row]
        BY <1>1 DEF CreateChecks
    <2> HIDE DEF row
    <2> QED BY <1>1, <2>1, <2>2, RequestType DEF CreateChecks, BookingTypeOK
<1>2. ASSUME NEW x \in Appts, CreateCommits(r, x) PROVE BookingTypeOK'
    <2>1. Idle \in ReqRow /\ Idle.pc = "idle"
        BY BookingAssumption DEF ReqRow, Idle, Pcs
    <2>2. req' \in [Requests -> ReqRow]
        BY <1>2, <2>1 DEF CreateCommits, BookingTypeOK
    <2>3. req[r].agent \in Agents /\ req[r].slot \in Slots /\ req[r].lead \in Leads
        BY <1>2 DEF CreateCommits, BookingTypeOK
    <2>4. /\ appt' \in [Appts -> ApptRow]
          /\ \A y \in Appts : appt'[y].status # "none" =>
               appt'[y].agent \in Agents /\ appt'[y].slot \in Slots /\ appt'[y].lead \in Leads
          /\ \A y \in Appts : appt[y].status # "none" => appt'[y].status # "none"
        BY <1>2, <2>3 DEF CreateCommits, BookingTypeOK, ApptRow, ApptStatus
    <2> QED BY <1>2, <2>1, <2>2, <2>4 DEF CreateCommits, BookingTypeOK
<1> QED BY <1>1, <1>2 DEF Desk

\* Editing a row and setting its result keep the types.
LEMMA EditType ==
    ASSUME BookingAssumption, BookingTypeOK, NEW x \in Appts, NEW status \in ApptStatus \ {"none"},
           Edit(x, status)
    PROVE  BookingTypeOK'
<1> DEFINE new == [appt[x] EXCEPT !.status = status, !.via = "desk"]
<1>1. appt[x] \in ApptRow /\ appt' = [appt EXCEPT ![x] = new] /\ appt[x].status # "none"
    BY DEF Edit, BookingTypeOK
<1>2. /\ new \in ApptRow /\ new.status = status
      /\ new.agent = appt[x].agent /\ new.slot = appt[x].slot /\ new.lead = appt[x].lead
    BY <1>1 DEF ApptRow
<1> HIDE DEF new
<1> QED BY <1>1, <1>2, RowType DEF Edit, BookingTypeOK

LEMMA DispositionType ==
    ASSUME BookingAssumption, BookingTypeOK, NEW x \in Appts, NEW status \in {"completed", "no_show"},
           NEW c \in {"active", "closed"}, Disposition(x, status, c)
    PROVE  BookingTypeOK'
<1> DEFINE new == [appt[x] EXCEPT !.status = status]
<1>1. appt[x] \in ApptRow /\ appt' = [appt EXCEPT ![x] = new] /\ appt[x].status # "none"
    BY DEF Disposition, BookingTypeOK
<1>2. /\ new \in ApptRow /\ new.status = status
      /\ new.agent = appt[x].agent /\ new.slot = appt[x].slot /\ new.lead = appt[x].lead
    BY <1>1 DEF ApptRow, ApptStatus
<1>3. conv' \in [Leads -> ConvStatus]
    BY DEF Disposition, BookingTypeOK, ConvStatus
<1> HIDE DEF new
<1> QED BY <1>1, <1>2, <1>3, RowType DEF Disposition, BookingTypeOK

LEMMA TypeStep == ASSUME BookingAssumption, BookingTypeOK, [Next]_vars PROVE BookingTypeOK'
<1>1. ASSUME NEW k \in Agents \X Keys, Expires(k) PROVE BookingTypeOK'
    BY <1>1 DEF Expires, BookingTypeOK
<1>2. ASSUME UNCHANGED vars PROVE BookingTypeOK'
    BY <1>2 DEF vars, BookingTypeOK
<1> QED BY <1>1, <1>2, StartType, FlowType, DeskType, EditType, DispositionType DEF Next

(* Rows, locks and requests keep their shapes. *)
THEOREM BookingTypes == Spec => []BookingTypeOK
<1>1. Init => BookingTypeOK
    BY TypeInit, BookingAssumption
<1>2. BookingTypeOK /\ [Next]_vars => BookingTypeOK'
    BY TypeStep, BookingAssumption
<1> QED BY <1>1, <1>2, PTL DEF Spec

-----------------------------------------------------------------------------
(* The promise of the locks. *)

\* No booking of the flow stands at an agent's time.
FlowFree(k) == \A x \in Appts : Stands(x) => <<appt[x].agent, appt[x].slot>> # k

(***************************************************************************)
(* What holds of one agent's time.  While a request is past the lock, the  *)
(* lock of the time is too young to run out under any request that wants   *)
(* it.  And unless the lock has been torn away: a request past the lock    *)
(* holds it, alone, and the time is free; and if the time of a request     *)
(* that has not asked for the lock has been taken meanwhile, the lock is   *)
(* there to refuse it, and will not run out before it has.                 *)
(***************************************************************************)
YoungLock(k) ==
    \A r, q \in Requests : Wants(r, k) /\ Locked(q, k) => req[r].fresh

HolderIsAlone(k) ==
    \A r \in Requests : Locked(r, k) =>
        /\ lock[k] = req[r].lead
        /\ \A q \in Requests \ {r} : ~ Locked(q, k)
        /\ FlowFree(k)

TakenMeansLocked(k) ==
    FlowFree(k) \/ \A r \in Requests : Wants(r, k) => lock[k] # NoLead /\ req[r].fresh

KeyInv(k) == YoungLock(k) /\ (k \notin torn => HolderIsAlone(k) /\ TakenMeansLocked(k))

BookingInv == BookingTypeOK /\ \A k \in Agents \X Keys : KeyInv(k)

LEMMA InvInit == ASSUME Init PROVE BookingInv
<1>1. BookingTypeOK
    BY TypeInit, BookingAssumption
<1>2. \A r \in Requests, k \in Agents \X Keys : ~ Wants(r, k) /\ ~ Locked(r, k)
    BY DEF Init, Idle, Wants, Locked
<1> QED BY <1>1, <1>2 DEF BookingInv, KeyInv, YoungLock, HolderIsAlone, TakenMeansLocked

\* What a request wants is an agent's time, and thus a key.
LEMMA WantedKey ==
    ASSUME BookingTypeOK, NEW r \in Requests, NEW k, Wants(r, k)
    PROVE  k \in Agents \X Keys /\ req[r].lead \in Leads
BY BookingAssumption DEF BookingTypeOK, BookingAssumption, Wants

\* A step that leaves the lock of a time alone, books nothing there and makes
\* nobody want it keeps what holds of it.
LEMMA KeyFrame ==
    ASSUME NEW k, KeyInv(k), lock'[k] = lock[k], k \in torn => k \in torn',
           FlowFree(k) => FlowFree(k)',
           \A q \in Requests : Wants(q, k)' => req'[q] = req[q]
    PROVE  KeyInv(k)'
<1>1. \A q \in Requests : Wants(q, k)' => Wants(q, k) /\ req'[q] = req[q]
    BY DEF Wants
<1>2. \A q \in Requests : Locked(q, k)' => Locked(q, k) /\ req'[q] = req[q]
    BY <1>1 DEF Locked
<1>3. YoungLock(k)'
    BY <1>1, <1>2 DEF KeyInv, YoungLock
<1>4. k \notin torn' => HolderIsAlone(k)'
    BY <1>2 DEF KeyInv, HolderIsAlone
<1>5. k \notin torn' => TakenMeansLocked(k)'
    BY <1>1 DEF KeyInv, TakenMeansLocked
<1> QED BY <1>3, <1>4, <1>5 DEF KeyInv

\* What stands after a step stood before, at the same time.
NothingBooked ==
    \A x \in Appts : Stands(x)' =>
        Stands(x) /\ appt'[x].agent = appt[x].agent /\ appt'[x].slot = appt[x].slot

LEMMA StillFree == ASSUME NothingBooked, NEW k, FlowFree(k) PROVE FlowFree(k)'
BY DEF NothingBooked, FlowFree

\* A step that books nothing, leaves the locks alone and makes nobody want a
\* time keeps the invariant.
LEMMA QuietStep ==
    ASSUME BookingInv, BookingTypeOK', NothingBooked, lock' = lock, torn' = torn,
           \A q \in Requests : req'[q] = req[q] \/ req'[q].pc \notin {"checked", "locked"}
    PROVE  BookingInv'
<1>1. ASSUME NEW k \in Agents \X Keys PROVE KeyInv(k)'
    <2>1. \A q \in Requests : Wants(q, k)' => req'[q] = req[q]
        BY DEF Wants
    <2>2. FlowFree(k) => FlowFree(k)'
        BY StillFree
    <2>3. KeyInv(k)
        BY DEF BookingInv
    <2> QED BY <2>1, <2>2, <2>3, KeyFrame
<1> QED BY <1>1 DEF BookingInv

\* A request comes to want a time that is free; if somebody is past the lock of
\* that time, its lock has just been taken.
LEMMA CheckStep ==
    ASSUME BookingInv, BookingTypeOK', NEW r \in Requests, NEW l \in Leads, NEW n \in 1..MaxOptions,
           NEW a \in Agents, SelectChecks(r, l, n, a)
    PROVE  BookingInv'
<1>1. PICK s \in Slots :
        /\ Free(a, s)
        /\ req'[r] = [Idle EXCEPT !.pc = "checked", !.agent = a, !.slot = s, !.lead = l,
                                  !.fresh = \E q \in Requests : Locked(q, <<a, s>>)]
        /\ \A q \in Requests \ {r} : req'[q] = req[q]
    BY DEF SelectChecks, BookingInv, BookingTypeOK
<1>2. /\ req'[r].pc = "checked" /\ req'[r].agent = a /\ req'[r].slot = s
      /\ req'[r].fresh = \E q \in Requests : Locked(q, <<a, s>>)
    BY <1>1 DEF Idle
<1>3. UNCHANGED <<appt, lock, torn>> /\ req[r].pc = "idle"
    BY DEF SelectChecks
<1>4. FlowFree(<<a, s>>)'
    BY <1>1, <1>3 DEF Free, Confirmed, FlowFree, Stands
<1>5. ASSUME NEW k \in Agents \X Keys PROVE KeyInv(k)'
    <2>1. KeyInv(k)
        BY DEF BookingInv
    <2>2. CASE k # <<a, s>>
        <3>1. \A q \in Requests : Wants(q, k)' => req'[q] = req[q]
            BY <1>1, <1>2, <2>2 DEF Wants
        <3>2. FlowFree(k) => FlowFree(k)'
            BY <1>3 DEF FlowFree, Stands
        <3> QED BY <1>3, <2>1, <3>1, <3>2, KeyFrame
    <2>3. CASE k = <<a, s>>
        <3>1. \A q \in Requests : Locked(q, k)' => Locked(q, k) /\ req'[q] = req[q] /\ q # r
            BY <1>1, <1>2 DEF Locked, Wants
        <3>2. ~ Locked(r, k)
            BY <1>3 DEF Locked
        <3>3. YoungLock(k)'
            <4> SUFFICES ASSUME NEW p \in Requests, NEW q \in Requests, Wants(p, k)', Locked(q, k)'
                         PROVE  req'[p].fresh
                BY DEF YoungLock
            <4>1. CASE p = r
                BY <1>2, <2>3, <3>1, <4>1
            <4>2. CASE p # r
                <5>1. req'[p] = req[p] /\ Wants(p, k) /\ Locked(q, k)
                    BY <1>1, <3>1, <4>2 DEF Wants
                <5> QED BY <2>1, <5>1 DEF KeyInv, YoungLock
            <4> QED BY <4>1, <4>2
        <3>4. k \notin torn' => HolderIsAlone(k)'
            BY <1>3, <1>4, <2>1, <2>3, <3>1 DEF KeyInv, HolderIsAlone
        <3>5. TakenMeansLocked(k)'
            BY <1>4, <2>3 DEF TakenMeansLocked
        <3> QED BY <3>3, <3>4, <3>5 DEF KeyInv
    <2> QED BY <2>2, <2>3
<1> QED BY <1>5 DEF BookingInv

\* SET NX: the time is still free, or the lock would be there; from now on the
\* lock is too young to run out under those who want the time.
LEMMA LockStep ==
    ASSUME BookingInv, BookingTypeOK', NEW r \in Requests, SelectLocks(r)
    PROVE  BookingInv'
<1>0. PICK j : j = <<req[r].agent, req[r].slot>>
    OBVIOUS
<1>1. Wants(r, j) /\ UNCHANGED <<appt, torn>>
    BY <1>0 DEF SelectLocks, Wants
<1>2. j \in Agents \X Keys /\ req[r].lead \in Leads /\ NoLead \notin Leads
    BY <1>1, WantedKey, BookingAssumption DEF BookingInv, BookingAssumption
<1>3. \A k : FlowFree(k) => FlowFree(k)'
    BY <1>1 DEF FlowFree, Stands
<1>4. CASE lock[j] = NoLead
    <2>1. lock' = [lock EXCEPT ![j] = req[r].lead] /\ req' = Holds(r, j)
        BY <1>0, <1>4 DEF SelectLocks
    <2>2. \A q \in Requests : ~ Wants(q, j) => req'[q] = req[q]
        BY <2>1 DEF Holds
    <2>3. \A q \in Requests : Wants(q, j) =>
            /\ req'[q].agent = req[q].agent /\ req'[q].slot = req[q].slot /\ req'[q].lead = req[q].lead
            /\ req'[q].fresh /\ (q # r => req'[q].pc = req[q].pc)
        <3> SUFFICES ASSUME NEW q \in Requests, Wants(q, j)
                     PROVE  /\ req'[q].agent = req[q].agent /\ req'[q].slot = req[q].slot
                            /\ req'[q].lead = req[q].lead
                            /\ req'[q].fresh /\ (q # r => req'[q].pc = req[q].pc)
            OBVIOUS
        <3>1. req[q] \in ReqRow
            BY DEF BookingInv, BookingTypeOK
        <3>2. req'[q] = [req[q] EXCEPT !.pc = IF q = r THEN "locked" ELSE @, !.fresh = TRUE]
            BY <2>1 DEF Holds
        <3> QED BY <3>1, <3>2 DEF ReqRow
    <2>4. \A q \in Requests : Wants(q, j) =>
            <<req'[q].agent, req'[q].slot>> = j
        BY <2>3 DEF Wants
    <2>5. lock'[j] = req[r].lead /\ \A k \in Agents \X Keys : k # j => lock'[k] = lock[k]
        BY <1>2, <2>1 DEF BookingInv, BookingTypeOK
    <2>6. ASSUME NEW k \in Agents \X Keys, k # j PROVE KeyInv(k)'
        <3>1. \A q \in Requests : Wants(q, k)' => req'[q] = req[q]
            BY <2>2, <2>4, <2>6 DEF Wants
        <3>2. KeyInv(k) /\ lock'[k] = lock[k]
            BY <2>5, <2>6 DEF BookingInv
        <3> QED BY <1>1, <1>3, <3>1, <3>2, KeyFrame
    <2>7. KeyInv(j)'
        <3>1. KeyInv(j)
            BY <1>2 DEF BookingInv
        <3>2. \A q \in Requests : Wants(q, j)' => Wants(q, j)
            BY <2>2 DEF Wants
        <3>3. YoungLock(j)'
            BY <2>3, <3>2 DEF YoungLock
        <3>4. TakenMeansLocked(j)'
            BY <1>2, <2>3, <2>5, <3>2 DEF TakenMeansLocked
        <3>5. ASSUME j \notin torn' PROVE HolderIsAlone(j)'
            <4>1. FlowFree(j)'
                BY <1>1, <1>3, <1>4, <3>1, <3>5 DEF KeyInv, TakenMeansLocked
            <4>2. \A q \in Requests : ~ Locked(q, j)
                <5>1. \A q \in Requests : Locked(q, j) => lock[j] = req[q].lead
                    BY <1>1, <3>1, <3>5 DEF KeyInv, HolderIsAlone
                <5>2. \A q \in Requests : Locked(q, j) => req[q].lead \in Leads
                    BY WantedKey DEF Locked, BookingInv
                <5> QED BY <1>2, <1>4, <5>1, <5>2
            <4>3. \A q \in Requests : Locked(q, j)' => q = r
                BY <2>3, <3>2, <4>2 DEF Locked, Wants
            <4>4. lock'[j] = req'[r].lead
                BY <1>1, <2>3, <2>5
            <4> QED BY <4>1, <4>3, <4>4 DEF HolderIsAlone
        <3> QED BY <3>3, <3>4, <3>5 DEF KeyInv
    <2> QED BY <2>6, <2>7 DEF BookingInv
<1>5. CASE lock[j] # NoLead
    <2>1. req' = [req EXCEPT ![r] = Idle] /\ UNCHANGED <<appt, lock, torn>>
        BY <1>0, <1>5 DEF SelectLocks
    <2>2. \A q \in Requests : req'[q] = req[q] \/ req'[q].pc \notin {"checked", "locked"}
        BY <2>1 DEF BookingInv, BookingTypeOK, Idle
    <2>3. NothingBooked
        BY <2>1 DEF NothingBooked, Stands
    <2> QED BY <2>1, <2>2, <2>3, QuietStep
<1> QED BY <1>4, <1>5

\* The new booking stands under a lock that nobody who wants the time gets past.
LEMMA CommitStep ==
    ASSUME BookingInv, BookingTypeOK', NEW r \in Requests, NEW x \in Appts, SelectCommits(r, x)
    PROVE  BookingInv'
<1>0. PICK j : j = <<req[r].agent, req[r].slot>>
    OBVIOUS
<1>1. /\ Locked(r, j) /\ Wants(r, j) /\ appt[x].status = "none" /\ UNCHANGED <<lock, torn>>
      /\ appt'[x].agent = req[r].agent /\ appt'[x].slot = req[r].slot
      /\ \A y \in Appts : y # x => appt'[y] = appt[y]
    BY <1>0 DEF SelectCommits, BookingInv, BookingTypeOK, Locked, Wants
<1>2. req'[r].pc = "idle" /\ \A q \in Requests \ {r} : req'[q] = req[q]
    BY DEF SelectCommits, BookingInv, BookingTypeOK, Idle
<1>3. \A k : k # j /\ FlowFree(k) => FlowFree(k)'
    BY <1>0, <1>1 DEF FlowFree, Stands
<1>4. \A k : \A q \in Requests : Wants(q, k)' => Wants(q, k) /\ req'[q] = req[q] /\ q # r
    BY <1>2 DEF Wants
<1>5. j \in Agents \X Keys /\ req[r].lead # NoLead
    BY <1>1, WantedKey, BookingAssumption DEF BookingInv, BookingAssumption
<1>6. ASSUME NEW k \in Agents \X Keys, k # j PROVE KeyInv(k)'
    <2>1. KeyInv(k) /\ (FlowFree(k) => FlowFree(k)')
        BY <1>3, <1>6 DEF BookingInv
    <2> QED BY <1>1, <1>4, <2>1, KeyFrame
<1>7. KeyInv(j)'
    <2>1. KeyInv(j)
        BY <1>5 DEF BookingInv
    <2>2. \A q \in Requests : Locked(q, j)' => Locked(q, j) /\ q # r
        BY <1>4 DEF Locked
    <2>3. YoungLock(j)'
        BY <1>4, <2>1, <2>2 DEF KeyInv, YoungLock
    <2>4. ASSUME j \notin torn' PROVE HolderIsAlone(j)' /\ TakenMeansLocked(j)'
        <3>1. HolderIsAlone(j) /\ j \notin torn
            BY <1>1, <2>1, <2>4 DEF KeyInv
        <3>2. \A q \in Requests : ~ Locked(q, j)'
            BY <1>1, <2>2, <3>1 DEF HolderIsAlone
        <3>3. lock'[j] # NoLead
            BY <1>1, <1>5, <3>1 DEF HolderIsAlone
        <3>4. \A q \in Requests : Wants(q, j)' => req'[q].fresh
            BY <1>1, <1>4, <2>1 DEF KeyInv, YoungLock
        <3> QED BY <3>2, <3>3, <3>4 DEF HolderIsAlone, TakenMeansLocked
    <2> QED BY <2>3, <2>4 DEF KeyInv
<1> QED BY <1>6, <1>7 DEF BookingInv

\* A lock runs out only if it is older than every check it could matter to.
LEMMA ExpireStep ==
    ASSUME BookingInv, BookingTypeOK', NEW j \in Agents \X Keys, Expires(j)
    PROVE  BookingInv'
<1>1. /\ \A k \in Agents \X Keys : k # j => lock'[k] = lock[k]
      /\ \A r \in Requests : Wants(r, j) => ~ req[r].fresh
      /\ UNCHANGED <<appt, req, torn>>
    BY DEF Expires, BookingInv, BookingTypeOK
<1>2. \A k : FlowFree(k) => FlowFree(k)'
    BY <1>1 DEF FlowFree, Stands
<1>3. \A k : \A q \in Requests : (Wants(q, k)' <=> Wants(q, k)) /\ (Locked(q, k)' <=> Locked(q, k))
    BY <1>1 DEF Wants, Locked
<1>4. ASSUME NEW k \in Agents \X Keys, k # j PROVE KeyInv(k)'
    <2>1. KeyInv(k) /\ lock'[k] = lock[k]
        BY <1>1, <1>4 DEF BookingInv
    <2> QED BY <1>1, <1>2, <2>1, KeyFrame
<1>5. KeyInv(j)'
    <2>1. KeyInv(j)
        BY DEF BookingInv
    <2>2. \A q \in Requests : ~ Locked(q, j)
        BY <1>1, <2>1 DEF KeyInv, YoungLock, Locked
    <2>3. \A q \in Requests : ~ Locked(q, j)'
        BY <1>3, <2>2
    <2>4. j \notin torn' => TakenMeansLocked(j)'
        BY <1>1, <1>2, <1>3, <2>1 DEF KeyInv, TakenMeansLocked
    <2> QED BY <2>3, <2>4 DEF KeyInv, YoungLock, HolderIsAlone
<1> QED BY <1>4, <1>5 DEF BookingInv

\* The release deletes a lock that matters to nobody, or tears it away.
LEMMA DeleteStep ==
    ASSUME BookingInv, BookingTypeOK', NEW r \in Requests, CancelDeletes(r)
    PROVE  BookingInv' /\ NothingBooked
<1> DEFINE j == ReleaseKey(r)
<1>1. /\ UNCHANGED appt /\ torn \subseteq torn'
      /\ lock' = [lock EXCEPT ![j] = IF req[r].mine THEN NoLead ELSE @]
      /\ req' = [req EXCEPT ![r].pc = "cancel"] /\ req[r].pc = "delete"
    BY DEF CancelDeletes
<1>2. NothingBooked
    BY <1>1 DEF NothingBooked, Stands
<1>3. \A k : FlowFree(k) => FlowFree(k)'
    BY <1>2, StillFree
<1>4. req'[r].pc = "cancel" /\ \A q \in Requests \ {r} : req'[q] = req[q]
    BY <1>1 DEF BookingInv, BookingTypeOK, ReqRow
<1>5. \A k : \A q \in Requests : Wants(q, k)' => Wants(q, k) /\ req'[q] = req[q]
    BY <1>4 DEF Wants
<1>6. lock' \in [Agents \X Keys -> Leads \cup {NoLead}] /\ \A k \in Agents \X Keys : k # j => lock'[k] = lock[k]
    BY <1>1 DEF BookingInv, BookingTypeOK
<1>7. j \in Agents \X Keys => lock'[j] = IF req[r].mine THEN NoLead ELSE lock[j]
    BY <1>1 DEF BookingInv, BookingTypeOK
<1>8. j \in torn' \/ ~ req[r].mine \/ lock[j] = NoLead \/ \A q \in Requests : ~ Wants(q, j)
    BY DEF CancelDeletes
<1> HIDE DEF j
<1>9. ASSUME NEW k \in Agents \X Keys PROVE KeyInv(k)'
    <2>1. KeyInv(k)
        BY DEF BookingInv
    <2>2. CASE lock'[k] = lock[k]
        BY <1>1, <1>3, <1>5, <2>1, <2>2, KeyFrame
    <2>3. CASE k \in torn'
        BY <1>5, <2>1, <2>3 DEF KeyInv, YoungLock, Locked
    <2>4. CASE \A q \in Requests : ~ Wants(q, k)
        BY <1>5, <2>4 DEF KeyInv, YoungLock, HolderIsAlone, TakenMeansLocked, Locked
    <2> QED BY <1>6, <1>7, <1>8, <2>2, <2>3, <2>4
<1> QED BY <1>2, <1>9 DEF BookingInv

\* Cancelling, and whatever a request does besides, books nothing.
LEMMA OtherStep ==
    ASSUME BookingInv, BookingTypeOK', NEW r \in Requests,
           \/ \E x \in Appts, again \in BOOLEAN : CancelReads(r, x, again)
           \/ CancelGets(r) \/ CancelCommits(r) \/ OffersAgain(r) \/ Fails(r) \/ Desk(r)
    PROVE  BookingInv' /\ NothingBooked /\ torn' = torn
<1>1. lock' = lock /\ torn' = torn
    BY DEF CancelReads, CancelGets, CancelCommits, OffersAgain, Fails, Desk, CreateChecks, CreateCommits
<1>2. \A q \in Requests : req'[q] = req[q] \/ req'[q].pc \notin {"checked", "locked"}
    <2>1. req \in [Requests -> ReqRow] /\ req[r] \in ReqRow /\ Idle.pc = "idle"
        BY DEF BookingInv, BookingTypeOK, Idle
    <2> DEFINE Left == /\ \A q \in Requests : q # r => req'[q] = req[q]
                       /\ req'[r].pc \notin {"checked", "locked"}
    <2>2. ASSUME NEW x \in Appts, NEW again \in BOOLEAN, CancelReads(r, x, again) PROVE Left
        BY <2>1, <2>2 DEF CancelReads
    <2>3. ASSUME CancelGets(r) PROVE Left
        <3> DEFINE row == [req[r] EXCEPT !.pc = "delete", !.mine = lock[ReleaseKey(r)] = req[r].lead]
        <3>1. row.pc = "delete" /\ req' = [req EXCEPT ![r] = row]
            BY <2>1, <2>3 DEF CancelGets, ReqRow
        <3> HIDE DEF row
        <3> QED BY <2>1, <3>1
    <2>4. ASSUME CancelCommits(r) PROVE Left
        <3> DEFINE row == IF req[r].again THEN [req[r] EXCEPT !.pc = "offer"] ELSE Idle
        <3>1. row.pc \in {"offer", "idle"} /\ req' = [req EXCEPT ![r] = row]
            BY <2>1, <2>4 DEF CancelCommits, ReqRow
        <3> HIDE DEF row
        <3> QED BY <2>1, <3>1
    <2>5. ASSUME req' = [req EXCEPT ![r] = Idle] PROVE Left
        BY <2>1, <2>5
    <2>6. ASSUME NEW a \in Agents, NEW s \in Slots, NEW l \in Leads, CreateChecks(r, a, s, l) PROVE Left
        <3> DEFINE row == [Idle EXCEPT !.pc = "insert", !.agent = a, !.slot = s, !.lead = l]
        <3>1. row.pc = "insert" /\ req' = [req EXCEPT ![r] = row]
            BY <2>6 DEF CreateChecks, Idle
        <3> HIDE DEF row
        <3> QED BY <2>1, <3>1
    <2>7. Left
        BY <2>2, <2>3, <2>4, <2>5, <2>6 DEF OffersAgain, Fails, Desk, CreateCommits
    <2> QED BY <2>7
<1>3. NothingBooked
    <2>1. ASSUME UNCHANGED appt PROVE NothingBooked
        BY <2>1 DEF NothingBooked, Stands
    <2>2. ASSUME CancelCommits(r) PROVE NothingBooked
        <3>1. req[r].appt \in Appts
            BY <2>2 DEF CancelCommits, BookingInv, BookingTypeOK
        <3> QED BY <2>2, <3>1 DEF CancelCommits, NothingBooked, Stands, BookingInv, BookingTypeOK, ApptRow
    <2>3. ASSUME NEW x \in Appts, CreateCommits(r, x) PROVE NothingBooked
        BY <2>3 DEF CreateCommits, NothingBooked, Stands, BookingInv, BookingTypeOK, ApptRow
    <2> QED BY <2>1, <2>2, <2>3 DEF CancelReads, CancelGets, OffersAgain, Fails, Desk, CreateChecks
<1> QED BY <1>1, <1>2, <1>3, QuietStep

\* An edit takes the row out of the flow's bookings; a result ends it.
LEMMA RowStep ==
    ASSUME BookingInv, BookingTypeOK', NEW x \in Appts, UNCHANGED <<lock, req, torn>>,
           \/ \E status \in ApptStatus \ {"none"} : Edit(x, status)
           \/ \E status \in {"completed", "no_show"}, c \in {"active", "closed"} : Disposition(x, status, c)
    PROVE  BookingInv' /\ NothingBooked
<1>1. NothingBooked
    <2>1. ASSUME NEW status \in ApptStatus \ {"none"}, Edit(x, status) PROVE NothingBooked
        BY <2>1 DEF Edit, NothingBooked, Stands, BookingInv, BookingTypeOK, ApptRow
    <2>2. ASSUME NEW status \in {"completed", "no_show"}, NEW c \in {"active", "closed"},
                 Disposition(x, status, c)
          PROVE  NothingBooked
        BY <2>2 DEF Disposition, NothingBooked, Stands, BookingInv, BookingTypeOK, ApptRow
    <2> QED BY <2>1, <2>2
<1> QED BY <1>1, QuietStep

LEMMA InvStep == ASSUME BookingInv, [Next]_vars PROVE BookingInv'
<1>1. BookingTypeOK'
    BY TypeStep, BookingAssumption DEF BookingInv
<1>2. ASSUME NEW l \in Leads, NEW named \in BOOLEAN, Start(l, named) PROVE BookingInv'
    BY <1>1, <1>2, QuietStep DEF Start, NothingBooked, Stands
<1>3. ASSUME NEW r \in Requests, Flow(r) \/ Desk(r) PROVE BookingInv'
    BY <1>1, <1>3, CheckStep, LockStep, CommitStep, DeleteStep, OtherStep DEF Flow
<1>4. ASSUME NEW x \in Appts, NEW status \in ApptStatus \ {"none"}, Edit(x, status) PROVE BookingInv'
    <2>1. UNCHANGED <<lock, req, torn>>
        BY <1>4 DEF Edit
    <2> QED BY <1>1, <1>4, <2>1, RowStep
<1>5. ASSUME NEW x \in Appts, NEW status \in {"completed", "no_show"}, NEW c \in {"active", "closed"},
             Disposition(x, status, c)
      PROVE  BookingInv'
    <2>1. UNCHANGED <<lock, req, torn>>
        BY <1>5 DEF Disposition
    <2> QED BY <1>1, <1>5, <2>1, RowStep
<1>6. ASSUME UNCHANGED vars PROVE BookingInv'
    BY <1>1, <1>6, QuietStep DEF vars, NothingBooked, Stands
<1> QED BY <1>1, <1>2, <1>3, <1>4, <1>5, <1>6, ExpireStep DEF Next

(* Past the lock a request holds it, alone, and nobody has the time, unless *)
(* a cancellation has torn the lock away.                                   *)
THEOREM LockHeld == Spec => []LockKeepsOthersOut
<1>1. Init => BookingInv
    BY InvInit
<1>2. BookingInv /\ [Next]_vars => BookingInv'
    BY InvStep
<1>3. BookingInv => LockKeepsOthersOut
    <2> SUFFICES ASSUME BookingInv, NEW r \in Requests, NEW k, k = <<req[r].agent, req[r].slot>>,
                        Locked(r, k), k \notin torn
                 PROVE  /\ lock[k] = req[r].lead
                        /\ \A q \in Requests \ {r} : ~ Locked(q, k)
                        /\ \A x \in Appts : Stands(x) => <<appt[x].agent, appt[x].slot>> # k
        BY DEF LockKeepsOthersOut
    <2>1. k \in Agents \X Keys
        BY WantedKey DEF Locked, BookingInv
    <2> QED BY <2>1 DEF BookingInv, KeyInv, HolderIsAlone, FlowFree
<1> QED BY <1>1, <1>2, <1>3, PTL DEF Spec

-----------------------------------------------------------------------------
(* The refinement. *)

\* What the diary holds of an appointment, and whether it does.
Entry(x) == [id |-> x, agent |-> appt[x].agent, slot |-> appt[x].slot]
Kept(x) == Stands(x) /\ <<appt[x].agent, appt[x].slot>> \notin torn

LEMMA EntryOf == \A b : b \in FlowBookings <=> \E x \in Appts : Kept(x) /\ b = Entry(x)
BY DEF FlowBookings, Entry, Kept

LEMMA EntryOfNext ==
    \A b : b \in FlowBookings' <=> \E x \in Appts : Kept(x)' /\ b = Entry(x)'
BY DEF FlowBookings, Entry, Kept

\* A step that books nothing gives bookings up, if it changes the diary at all.
LEMMA GivesUp == ASSUME NothingBooked, torn \subseteq torn' PROVE D!GiveUp
<1>1. \A x \in Appts : Kept(x)' => Kept(x) /\ Entry(x)' = Entry(x)
    BY DEF NothingBooked, Kept, Entry
<1>2. \A b : b \in FlowBookings' => b \in FlowBookings
    BY <1>1, EntryOf, EntryOfNext
<1> QED BY <1>2 DEF D!GiveUp

\* The commit of a selection books a time nobody has, or one whose lock is torn.
LEMMA CommitBooks ==
    ASSUME BookingInv, NEW r \in Requests, NEW x \in Appts, SelectCommits(r, x)
    PROVE  D!Book(x, req[r].agent, req[r].slot) \/ FlowBookings' = FlowBookings
<1> DEFINE k == <<req[r].agent, req[r].slot>>
<1>1. /\ Locked(r, k) /\ appt[x].status = "none" /\ torn' = torn
      /\ appt'[x] = [status |-> "confirmed", via |-> "flow", agent |-> req[r].agent,
                     slot |-> req[r].slot, lead |-> req[r].lead]
      /\ \A y \in Appts : y # x => appt'[y] = appt[y]
    BY DEF SelectCommits, BookingInv, BookingTypeOK, Locked, Wants
<1>2. \A y \in Appts : y # x => (Kept(y)' <=> Kept(y)) /\ Entry(y)' = Entry(y)
    BY <1>1 DEF Kept, Stands, Entry
<1>3. ~ Kept(x) /\ Entry(x)' = [id |-> x, agent |-> req[r].agent, slot |-> req[r].slot]
    BY <1>1 DEF Kept, Stands, Entry
<1>4. CASE k \in torn
    <2>1. ~ Kept(x)'
        BY <1>1, <1>4 DEF Kept
    <2>2. \A b : b \in FlowBookings' <=> b \in FlowBookings
        BY <1>2, <1>3, <2>1, EntryOf, EntryOfNext
    <2> QED BY <2>2
<1>5. CASE k \notin torn
    <2>1. Kept(x)'
        BY <1>1, <1>5 DEF Kept, Stands
    <2>2. k \in Agents \X Keys
        BY <1>1, WantedKey DEF Locked, BookingInv
    <2>3. \A y \in Appts : Stands(y) => <<appt[y].agent, appt[y].slot>> # k
        BY <1>1, <1>5, <2>2 DEF BookingInv, KeyInv, HolderIsAlone, FlowFree
    <2>4. \A b \in FlowBookings : b.agent # req[r].agent \/ b.slot # req[r].slot
        <3> SUFFICES ASSUME NEW b \in FlowBookings PROVE b.agent # req[r].agent \/ b.slot # req[r].slot
            OBVIOUS
        <3>1. PICK y \in Appts : Kept(y) /\ b = Entry(y)
            BY EntryOf
        <3> QED BY <2>3, <3>1 DEF Kept, Entry
    <2>5. \A b : b \in FlowBookings' <=> b \in FlowBookings \/ b = Entry(x)'
        BY <1>2, <1>3, <2>1, EntryOf, EntryOfNext
    <2>6. FlowBookings' = FlowBookings \cup {[id |-> x, agent |-> req[r].agent, slot |-> req[r].slot]}
        BY <1>3, <2>5
    <2> QED BY <2>4, <2>6 DEF D!Book
<1> QED BY <1>4, <1>5

LEMMA DiaryStep ==
    ASSUME BookingInv, [Next]_vars
    PROVE  [D!DiaryNext]_FlowBookings
<1>1. ASSUME NothingBooked, torn \subseteq torn' PROVE D!DiaryNext
    BY <1>1, GivesUp DEF D!DiaryNext
<1>2. ASSUME NEW r \in Requests, NEW x \in Appts, SelectCommits(r, x)
      PROVE  [D!DiaryNext]_FlowBookings
    <2>1. req[r].agent \in Agents /\ req[r].slot \in Slots
        BY <1>2 DEF SelectCommits, BookingInv, BookingTypeOK
    <2> QED BY <1>2, <2>1, CommitBooks DEF D!DiaryNext
<1>3. ASSUME UNCHANGED <<appt, torn>> PROVE D!DiaryNext
    BY <1>1, <1>3 DEF NothingBooked, Stands
<1>4. BookingTypeOK'
    BY TypeStep, BookingAssumption DEF BookingInv
<1>5. ASSUME NEW r \in Requests, Flow(r) \/ Desk(r) PROVE [D!DiaryNext]_FlowBookings
    <2>1. CASE CancelDeletes(r)
        BY <1>1, <1>4, <2>1, DeleteStep DEF CancelDeletes
    <2>2. CASE \/ \E x \in Appts, again \in BOOLEAN : CancelReads(r, x, again)
               \/ CancelGets(r) \/ CancelCommits(r) \/ OffersAgain(r) \/ Fails(r) \/ Desk(r)
        BY <1>1, <1>4, <2>2, OtherStep
    <2>3. CASE SelectLocks(r) \/ \E l \in Leads, n \in 1..MaxOptions, a \in Agents : SelectChecks(r, l, n, a)
        BY <1>3, <2>3 DEF SelectLocks, SelectChecks
    <2> QED BY <1>2, <1>5, <2>1, <2>2, <2>3 DEF Flow
<1>6. ASSUME NEW x \in Appts,
             \/ \E status \in ApptStatus \ {"none"} : Edit(x, status)
             \/ \E status \in {"completed", "no_show"}, c \in {"active", "closed"} : Disposition(x, status, c)
      PROVE  D!DiaryNext
    <2>1. UNCHANGED <<lock, req, torn>>
        BY <1>6 DEF Edit, Disposition
    <2> QED BY <1>1, <1>4, <1>6, <2>1, RowStep
<1>7. ASSUME \/ UNCHANGED vars
             \/ \E l \in Leads, named \in BOOLEAN : Start(l, named)
             \/ \E k \in Agents \X Keys : Expires(k)
      PROVE  D!DiaryNext
    BY <1>3, <1>7 DEF vars, Start, Expires
<1>8. CASE UNCHANGED vars
    BY <1>7, <1>8
<1>9. CASE Next
    BY <1>5, <1>6, <1>7, <1>9 DEF Next
<1> QED BY <1>8, <1>9

(* The flow implements Diary: an agent's time goes to one customer, unless a *)
(* cancellation has torn the lock of that time away.                         *)
THEOREM FlowImplementsDiary == Spec => ImplementsDiary
<1>1. Init => BookingInv
    BY InvInit
<1>2. BookingInv /\ [Next]_vars => BookingInv'
    BY InvStep
<1>3. Init => D!DiaryInit
    BY DEF Init, Unused, FlowBookings, Stands, D!DiaryInit
<1>4. BookingInv /\ [Next]_vars => [D!DiaryNext]_FlowBookings
    BY DiaryStep
<1> QED BY <1>1, <1>2, <1>3, <1>4, PTL DEF Spec, ImplementsDiary, D!DiarySpec

=============================================================================
