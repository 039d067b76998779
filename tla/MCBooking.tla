----------------------------- MODULE MCBooking -----------------------------
(* Small instances of Booking. *)
EXTENDS Booking, TLC

CONSTANTS a1, l1, l2, x1, x2, x3, r1, r2

\* A session in UTC: of two times four hours apart, 11:00 and 15:00 Eastern in
\* summer, the first is read back under the key of the second.
UtcKey == [s \in Slots |-> s + 1]

\* A session in New York: a row is read back under its own key.
OwnKey == [s \in Slots |-> s]

\* Constraint: no row has been cancelled or given a result.
Untouched == \A x \in Appts : appt[x].status \in {"none", "confirmed"}

Symmetry == Permutations(Leads) \cup Permutations(Appts) \cup Permutations(Requests)
=============================================================================
