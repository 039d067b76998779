------------------------------- MODULE Diary -------------------------------
(***************************************************************************)
(* What the slot locks of the booking flow promise: an agent's time is     *)
(* given to one customer at most ("Never allow double-booking under any    *)
(* circumstances", booking/services/locking.py).                           *)
(***************************************************************************)

CONSTANTS
    Agents,
    Slots,    \* times an appointment can start at
    Ids       \* the bookings made, each for one customer

VARIABLE
    taken     \* the bookings that stand, each of an agent's time

DiaryInit == taken = {}

Book(i, a, s) ==
    /\ \A b \in taken : b.agent # a \/ b.slot # s
    /\ taken' = taken \cup {[id |-> i, agent |-> a, slot |-> s]}

GiveUp == taken' \in SUBSET taken

DiaryNext ==
    \/ \E i \in Ids, a \in Agents, s \in Slots : Book(i, a, s)
    \/ GiveUp

DiarySpec == DiaryInit /\ [][DiaryNext]_taken
=============================================================================
