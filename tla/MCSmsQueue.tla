----------------------------- MODULE MCSmsQueue -----------------------------
(* Small instances of SmsQueue for TLC. *)
EXTENDS SmsQueue, TLC

CONSTANTS a1, a2, r1, c1, p1, list

\* One customer who replied.
OnePhoneOf == [l \in {r1} |-> p1]
OneBatchOf == [l \in {r1} |-> NoBatch]
OneRank == [l \in {r1} |-> 1]

\* One number twice: as a reply, and in an uploaded list, which is served later.
ListPhoneOf == [l \in {r1, c1} |-> p1]
ListBatchOf == (r1 :> NoBatch) @@ (c1 :> list)
ListRank == (r1 :> 1) @@ (c1 :> 2)
=============================================================================
