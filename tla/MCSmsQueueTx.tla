---------------------------- MODULE MCSmsQueueTx ----------------------------
(* Small instances of SmsQueueTx for TLC. *)
EXTENDS SmsQueueTx, TLC

CONSTANTS a1, a2, r1, p1, s1, s2

\* One customer who replied.
OnePhoneOf == [l \in {r1} |-> p1]
OneBatchOf == [l \in {r1} |-> NoBatch]
OneRank == [l \in {r1} |-> 1]

AgentOps == {"ingest", "append", "join", "leave", "break", "end break", "accept", "pass",
             "disposition"}
ManagerOps == {"reassign", "manager disposition", "restore"}
SweepOps == {"assign", "distribute", "rebroadcast", "reap"}
\* The operations that write results, and some that move the lead meanwhile.
MarkOps == {"ingest", "append", "join", "disposition", "manager disposition", "restore",
            "reassign", "assign"}
AllOps == AgentOps \cup ManagerOps \cup SweepOps
=============================================================================
