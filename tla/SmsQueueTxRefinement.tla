------------------------ MODULE SmsQueueTxRefinement ------------------------
(***************************************************************************)
(* Proof that a transaction that runs alone is an operation of SmsQueue:   *)
(* with one session, SmsQueueTx implements SmsQueue's specification.       *)
(*                                                                         *)
(* While a session runs, the committed tables stay as it read them.  The   *)
(* invariant relates them to the session's view, the committed tables      *)
(* overlaid with what is flushed and what is to be flushed: the view is    *)
(* what the operation asks for, with as many rounds of the assigner dealt  *)
(* on top as have run.  The commit then is the operation's one step.       *)
(***************************************************************************)
EXTENDS SmsQueueTxProofs

OneSession == \A s, t \in Sessions : s = t

-----------------------------------------------------------------------------
(* Column writes *)

LEMMA LeadsUnwritten ==
    ASSUME NEW L \in [Leads -> LeadRow] PROVE LeadsWith(L, NoLeadWrites) = L
BY DEF LeadsWith, NoLeadWrites, Kept, LeadRow

LEMMA AgentsUnwritten ==
    ASSUME NEW A \in [Agents -> AgentRow] PROVE AgentsWith(A, NoAgentWrites) = A
BY DEF AgentsWith, NoAgentWrites, Kept, AgentRow

LEMMA LeadsWritten ==
    ASSUME NEW L \in [Leads -> LeadRow], NEW M \in [Leads -> LeadRow]
    PROVE  LeadsWith(L, LeadWrites(L, M)) = M
<1>1. ASSUME NEW l \in Leads PROVE LeadsWith(L, LeadWrites(L, M))[l] = M[l]
    BY KeepAssumption DEF LeadsWith, LeadWrites, Kept, Changed, LeadRow
<1> QED BY <1>1 DEF LeadsWith

LEMMA AgentsWritten ==
    ASSUME NEW A \in [Agents -> AgentRow], NEW B \in [Agents -> AgentRow]
    PROVE  AgentsWith(A, AgentWrites(A, B)) = B
<1>1. ASSUME NEW a \in Agents PROVE AgentsWith(A, AgentWrites(A, B))[a] = B[a]
    BY KeepAssumption DEF AgentsWith, AgentWrites, Kept, Changed, AgentRow
<1> QED BY <1>1 DEF AgentsWith

\* Flushing in two parts comes to the same as overlaying twice.
LEMMA LeadsTwice ==
    ASSUME NEW L, NEW v, NEW w
    PROVE  LeadsWith(L, LeadsWith(v, w)) = LeadsWith(LeadsWith(L, v), w)
BY DEF LeadsWith, Kept

LEMMA AgentsTwice ==
    ASSUME NEW A, NEW v, NEW w
    PROVE  AgentsWith(A, AgentsWith(v, w)) = AgentsWith(AgentsWith(A, v), w)
BY DEF AgentsWith, Kept

-----------------------------------------------------------------------------
(* The assigner's rounds, one after the other *)

OfferedTo(row, a) == [row EXCEPT !.status = "ASSIGNED", !.owner = a]
WithLead(row, l) == [row EXCEPT !.current = l]
Holder(m, l) == CHOOSE a \in DOMAIN m : m[a] = l

\* m hands out leads: L and A are what that makes of K and E.
Given(m, K, E, L, A) ==
    /\ L = [l \in Leads |-> IF \E a \in DOMAIN m : m[a] = l
                            THEN OfferedTo(K[l], Holder(m, l)) ELSE K[l]]
    /\ A = [a \in Agents |-> IF a \in DOMAIN m THEN WithLead(E[a], m[a]) ELSE E[a]]

LEMMA RowsHandedOut ==
    /\ \A r \in LeadRow, a \in Agents :
          OfferedTo(r, a) \in LeadRow /\ OfferedTo(r, a).status = "ASSIGNED"
    /\ \A r \in AgentRow, l \in Leads :
          /\ WithLead(r, l) \in AgentRow /\ WithLead(r, l).current = l
BY DEF OfferedTo, WithLead, LeadRow, LeadStatus, AgentRow

\* Each agent, at their turn, took the first lead that was left for them.
TakeTurns(turn, m, K, P, B) ==
    LET D == DOMAIN m
        Taken(S) == {m[b] : b \in S}
    IN  /\ \A a, b \in D : turn[a] = turn[b] => a = b
        /\ \A a \in D :
              FirstOf(m[a], Choices(a, K, P, B) \ Taken({b \in D : turn[b] < turn[a]}))

\* The rounds so far.
InTurn(m, K, E, P, B) ==
    /\ m \in [DOMAIN m -> Leads] /\ DOMAIN m \subseteq AvailableAgents(E)
    /\ \E turn \in [DOMAIN m -> 1..Cardinality(DOMAIN m)] : TakeTurns(turn, m, K, P, B)

Takers(L, A, P, B) == {a \in AvailableAgents(A) : Choices(a, L, P, B) # {}}

\* Nobody is handed two leads, and no lead is handed twice.
LEMMA TurnsApart ==
    ASSUME NEW m, NEW K, NEW E, NEW P, NEW B, InTurn(m, K, E, P, B)
    PROVE  /\ \A a \in DOMAIN m : m[a] \in Choices(a, K, P, B)
           /\ \A a, b \in DOMAIN m : m[a] = m[b] => a = b
<1> DEFINE D == DOMAIN m
           n == Cardinality(D)
<1>0. PICK turn \in [D -> 1..n] : TakeTurns(turn, m, K, P, B)
    BY DEF InTurn
<1>1. /\ \A a, b \in D : turn[a] = turn[b] => a = b
      /\ \A a \in D :
            FirstOf(m[a], Choices(a, K, P, B) \ {m[b] : b \in {c \in D : turn[c] < turn[a]}})
    BY <1>0 DEF TakeTurns
<1>2. \A a \in D : turn[a] \in Int
    OBVIOUS
<1>3. \A a \in D : /\ m[a] \in Choices(a, K, P, B)
                   /\ \A b \in D : turn[b] < turn[a] => m[b] # m[a]
    BY <1>1 DEF FirstOf
<1>4. \A a, b \in D : a # b => turn[a] < turn[b] \/ turn[b] < turn[a]
    BY <1>1, <1>2
<1> QED BY <1>3, <1>4

\* The same row by row: what is handed out is each agent's own.
GivenRows(m, K, E, L, A) ==
    /\ L \in [Leads -> LeadRow] /\ A \in [Agents -> AgentRow]
    /\ \A l \in Leads : (\A a \in DOMAIN m : m[a] # l) => L[l] = K[l]
    /\ \A a \in DOMAIN m : L[m[a]] = OfferedTo(K[m[a]], a)
    /\ \A a \in DOMAIN m : A[a] = WithLead(E[a], m[a])
    /\ \A a \in Agents \ DOMAIN m : A[a] = E[a]

LEMMA HolderIs ==
    ASSUME NEW m, \A a, b \in DOMAIN m : m[a] = m[b] => a = b, NEW a \in DOMAIN m
    PROVE  Holder(m, m[a]) = a
BY DEF Holder

LEMMA GivenByRow ==
    ASSUME NEW m, m \in [DOMAIN m -> Leads], DOMAIN m \subseteq Agents,
           \A a, b \in DOMAIN m : m[a] = m[b] => a = b,
           NEW K \in [Leads -> LeadRow], NEW E \in [Agents -> AgentRow], NEW L, NEW A
    PROVE  Given(m, K, E, L, A) <=> GivenRows(m, K, E, L, A)
<1>1. \A a \in DOMAIN m : Holder(m, m[a]) = a
    BY HolderIs
<1>2. \A l \in Leads : (\E a \in DOMAIN m : m[a] = l) => Holder(m, l) \in Agents
    BY <1>1
<1>3. \A a \in DOMAIN m : m[a] \in Leads
    OBVIOUS
<1>4. ASSUME Given(m, K, E, L, A) PROVE GivenRows(m, K, E, L, A)
    <2>1. L \in [Leads -> LeadRow]
        <3>1. \A l \in Leads : (IF \E a \in DOMAIN m : m[a] = l
                                THEN OfferedTo(K[l], Holder(m, l)) ELSE K[l]) \in LeadRow
            BY <1>2, RowsHandedOut
        <3> QED BY <1>4, <3>1 DEF Given
    <2>2. A \in [Agents -> AgentRow]
        <3>1. \A a \in Agents :
                 (IF a \in DOMAIN m THEN WithLead(E[a], m[a]) ELSE E[a]) \in AgentRow
            BY <1>3, RowsHandedOut
        <3> QED BY <1>4, <3>1 DEF Given
    <2>3. \A a \in DOMAIN m : L[m[a]] = OfferedTo(K[m[a]], a)
        BY <1>1, <1>3, <1>4 DEF Given
    <2>4. \A a \in DOMAIN m : A[a] = WithLead(E[a], m[a])
        BY <1>4 DEF Given
    <2>5. /\ \A l \in Leads : (\A a \in DOMAIN m : m[a] # l) => L[l] = K[l]
          /\ \A a \in Agents \ DOMAIN m : A[a] = E[a]
        BY <1>4 DEF Given
    <2> QED BY <2>1, <2>2, <2>3, <2>4, <2>5 DEF GivenRows
<1>5. ASSUME GivenRows(m, K, E, L, A) PROVE Given(m, K, E, L, A)
    <2>1. \A l \in Leads : (\E a \in DOMAIN m : m[a] = l)
                               => L[l] = OfferedTo(K[l], Holder(m, l))
        BY <1>1, <1>5 DEF GivenRows
    <2>2. L = [l \in Leads |-> IF \E a \in DOMAIN m : m[a] = l
                               THEN OfferedTo(K[l], Holder(m, l)) ELSE K[l]]
        BY <1>5, <2>1 DEF GivenRows
    <2>3. A = [a \in Agents |-> IF a \in DOMAIN m THEN WithLead(E[a], m[a]) ELSE E[a]]
        BY <1>5 DEF GivenRows
    <2> QED BY <2>2, <2>3 DEF Given
<1> QED BY <1>4, <1>5

LEMMA GivenInTurn ==
    ASSUME NEW m, NEW K \in [Leads -> LeadRow], NEW E \in [Agents -> AgentRow], NEW L, NEW A,
           NEW P, NEW B, InTurn(m, K, E, P, B), Given(m, K, E, L, A)
    PROVE  GivenRows(m, K, E, L, A)
<1>1. \A b, c \in DOMAIN m : m[b] = m[c] => b = c
    BY TurnsApart
<1>2. m \in [DOMAIN m -> Leads] /\ DOMAIN m \subseteq Agents
    BY DEF InTurn, AvailableAgents
<1> QED BY <1>1, <1>2, GivenByRow

HandedOut(m) == {m[a] : a \in DOMAIN m}

\* What is left of the pool after the leads of m are handed out.
LEMMA ChoicesLeft ==
    ASSUME NEW m, NEW K \in [Leads -> LeadRow], NEW E \in [Agents -> AgentRow], NEW L, NEW A,
           NEW P, NEW B, InTurn(m, K, E, P, B), Given(m, K, E, L, A), NEW b \in Agents
    PROVE  Choices(b, L, P, B) = Choices(b, K, P, B) \ HandedOut(m)
<1> DEFINE T == HandedOut(m)
<1>1. \A a \in DOMAIN m : m[a] \in Leads /\ K[m[a]].status = "QUEUED"
    <2>1. \A a \in DOMAIN m : m[a] \in Choices(a, K, P, B)
        BY TurnsApart
    <2> QED BY <2>1 DEF Choices, InPool
<1>2. \A l \in Leads : IF l \in T THEN L[l].status = "ASSIGNED" ELSE L[l] = K[l]
    <2>1. GivenRows(m, K, E, L, A)
        BY GivenInTurn
    <2>2. \A a \in DOMAIN m : a \in Agents
        BY DEF InTurn, AvailableAgents
    <2>3. \A a \in DOMAIN m : L[m[a]].status = "ASSIGNED"
        BY <1>1, <2>1, <2>2, RowsHandedOut DEF GivenRows
    <2> QED BY <2>1, <2>3 DEF GivenRows, HandedOut
<1>3. \A l \in T : l \in Leads /\ K[l].status = "QUEUED"
    BY <1>1 DEF HandedOut
<1> HIDE DEF T
<1>4. \A l \in Leads : L[l].status = "DISPOSITIONED" <=> K[l].status = "DISPOSITIONED"
    BY <1>2, <1>3
<1>5. \A l \in Leads : L[l].status = "QUEUED" <=> K[l].status = "QUEUED" /\ l \notin T
    BY <1>2, <1>3
<1>6. \A l : AlreadyWorked(l, L) <=> AlreadyWorked(l, K)
    BY <1>4 DEF AlreadyWorked
<1>7. \A l \in Leads : InPool(l, L, B) <=> InPool(l, K, B) /\ l \notin T
    BY <1>5, <1>6 DEF InPool
<1>8. Choices(b, L, P, B) = Choices(b, K, P, B) \ T
    BY <1>7 DEF Choices
<1> QED BY <1>8 DEF T

LEMMA AvailableLeft ==
    ASSUME NEW m, NEW K \in [Leads -> LeadRow], NEW E \in [Agents -> AgentRow], NEW L, NEW A,
           NEW P, NEW B, InTurn(m, K, E, P, B), Given(m, K, E, L, A)
    PROVE  AvailableAgents(A) = AvailableAgents(E) \ DOMAIN m
<1>1. \A a \in DOMAIN m : m[a] \in Leads /\ m[a] # NoLead
    BY NullsAssumption DEF InTurn
<1>2. \A a \in Agents : IF a \in DOMAIN m THEN A[a].current = m[a] ELSE A[a] = E[a]
    <2>1. GivenRows(m, K, E, L, A)
        BY GivenInTurn
    <2> QED BY <1>1, <2>1, RowsHandedOut DEF GivenRows
<1> QED BY <1>1, <1>2 DEF AvailableAgents

\* The rounds have run out: this is a deal of the abstract assigner.
LEMMA RoundsDone ==
    ASSUME NEW m, NEW K \in [Leads -> LeadRow], NEW E \in [Agents -> AgentRow], NEW L, NEW A,
           NEW P, NEW B, InTurn(m, K, E, P, B), Given(m, K, E, L, A), Takers(L, A, P, B) = {}
    PROVE  Deal(m, K, E, P, B)
<1>1. \A a \in AvailableAgents(E) \ DOMAIN m : Choices(a, L, P, B) = {}
    BY AvailableLeft DEF Takers
<1>2. \A a \in AvailableAgents(E) \ DOMAIN m :
          Choices(a, K, P, B) \ HandedOut(m) = {}
    BY <1>1, ChoicesLeft DEF AvailableAgents
<1> QED BY <1>2 DEF Deal, InTurn, TakeTurns, HandedOut

LEMMA NoRounds ==
    ASSUME NEW K \in [Leads -> LeadRow], NEW E \in [Agents -> AgentRow], NEW P, NEW B
    PROVE  \E m : InTurn(m, K, E, P, B) /\ Given(m, K, E, K, E)
<1> DEFINE m == [a \in {} |-> NoLead]
           turn == [a \in {} |-> 0]
<1>1. DOMAIN m = {} /\ m \in [{} -> Leads]
    OBVIOUS
<1>2. turn \in [DOMAIN m -> 1..Cardinality(DOMAIN m)]
    OBVIOUS
<1>3. TakeTurns(turn, m, K, P, B)
    BY <1>1 DEF TakeTurns
<1>4. InTurn(m, K, E, P, B)
    BY <1>1, <1>2, <1>3 DEF InTurn
<1>5. Given(m, K, E, K, E)
    BY <1>1 DEF Given
<1> QED BY <1>4, <1>5

\* A round hands one lead to one agent.
OneOffer(L, a, l) == [L EXCEPT ![l].status = "ASSIGNED", ![l].owner = a]
OneTaken(A, a, l) == [A EXCEPT ![a].current = l]

LEMMA OneRow ==
    ASSUME NEW L \in [Leads -> LeadRow], NEW A \in [Agents -> AgentRow],
           NEW a \in Agents, NEW l \in Leads
    PROVE  /\ OneOffer(L, a, l) \in [Leads -> LeadRow]
           /\ OneOffer(L, a, l)[l] = OfferedTo(L[l], a)
           /\ \A j \in Leads \ {l} : OneOffer(L, a, l)[j] = L[j]
           /\ OneTaken(A, a, l) \in [Agents -> AgentRow]
           /\ OneTaken(A, a, l)[a] = WithLead(A[a], l)
           /\ \A b \in Agents \ {a} : OneTaken(A, a, l)[b] = A[b]
<1>1. /\ OneOffer(L, a, l) = [L EXCEPT ![l] = OfferedTo(L[l], a)]
      /\ OneTaken(A, a, l) = [A EXCEPT ![a] = WithLead(A[a], l)]
    BY DEF OneOffer, OneTaken, OfferedTo, WithLead, LeadRow, AgentRow
<1>2. OfferedTo(L[l], a) \in LeadRow /\ WithLead(A[a], l) \in AgentRow
    BY RowsHandedOut
<1> QED BY <1>1, <1>2

\* One more round: the agent's turn comes last.
LEMMA OneMoreRound ==
    ASSUME NEW m, NEW K \in [Leads -> LeadRow], NEW E \in [Agents -> AgentRow], NEW L, NEW A,
           NEW P, NEW B, InTurn(m, K, E, P, B), Given(m, K, E, L, A),
           NEW a \in Takers(L, A, P, B), NEW l \in Leads, FirstOf(l, Choices(a, L, P, B))
    PROVE  \E k : InTurn(k, K, E, P, B) /\ Given(k, K, E, OneOffer(L, a, l), OneTaken(A, a, l))
<1> DEFINE D == DOMAIN m
           T == HandedOut(m)
           n == Cardinality(D)
           k == [b \in D \cup {a} |-> IF b = a THEN l ELSE m[b]]
<1>0. D \subseteq AvailableAgents(E) /\ D \subseteq Agents /\ m \in [D -> Leads]
    BY DEF InTurn, AvailableAgents
<1>1. a \in AvailableAgents(E) /\ a \in Agents /\ a \notin D
    BY AvailableLeft DEF Takers, AvailableAgents
<1>2. FirstOf(l, Choices(a, K, P, B) \ T)
    <2>1. Choices(a, L, P, B) = Choices(a, K, P, B) \ T
        BY <1>1, ChoicesLeft
    <2> QED BY <2>1
<1>3. l \notin T
    BY <1>2 DEF FirstOf
<1>4. /\ DOMAIN k = D \cup {a} /\ k \in [D \cup {a} -> Leads]
      /\ k[a] = l /\ \A b \in D : k[b] = m[b]
    BY <1>0, <1>1
<1>5. n \in Nat /\ Cardinality(D \cup {a}) = n + 1
    BY <1>0, <1>1, FiniteAssumption, FS_Subset, FS_AddElement, FS_CardinalityType
<1> HIDE DEF k
<1>6. PICK turn \in [D -> 1..n] : TakeTurns(turn, m, K, P, B)
    BY DEF InTurn
<1> DEFINE next == [b \in D \cup {a} |-> IF b = a THEN n + 1 ELSE turn[b]]
<1>7. /\ next \in [D \cup {a} -> 1..n + 1]
      /\ next[a] = n + 1 /\ \A b \in D : next[b] = turn[b] /\ turn[b] \in 1..n
    BY <1>1, <1>5
<1> HIDE DEF next
<1>8. \A b, c \in D \cup {a} : next[b] = next[c] => b = c
    <2>1. \A b, c \in D : turn[b] = turn[c] => b = c
        BY <1>6 DEF TakeTurns
    <2>2. \A b \in D : turn[b] # n + 1
        BY <1>5, <1>7
    <2> QED BY <1>7, <2>1, <2>2
<1>9. ASSUME NEW b \in D \cup {a}
      PROVE  FirstOf(k[b], Choices(b, K, P, B) \ {k[c] : c \in {c \in D \cup {a} : next[c] < next[b]}})
    <2>1. CASE b = a
        <3>1. {c \in D \cup {a} : next[c] < next[b]} = D
            BY <1>1, <1>5, <1>7, <2>1, SMTT(30)
        <3>2. {k[c] : c \in D} = T
            BY <1>4 DEF HandedOut
        <3> QED BY <1>2, <1>4, <2>1, <3>1, <3>2
    <2>2. CASE b \in D
        <3>1. {c \in D \cup {a} : next[c] < next[b]} = {c \in D : turn[c] < turn[b]}
            BY <1>1, <1>5, <1>7, <2>2
        <3>2. {k[c] : c \in {c \in D : turn[c] < turn[b]}} = {m[c] : c \in {c \in D : turn[c] < turn[b]}}
            BY <1>4
        <3>3. FirstOf(m[b], Choices(b, K, P, B) \ {m[c] : c \in {c \in D : turn[c] < turn[b]}})
            BY <1>6, <2>2 DEF TakeTurns
        <3> QED BY <1>4, <2>2, <3>1, <3>2, <3>3
    <2> QED BY <2>1, <2>2
<1>10. TakeTurns(next, k, K, P, B)
    BY <1>4, <1>8, <1>9 DEF TakeTurns
<1>11. InTurn(k, K, E, P, B)
    BY <1>0, <1>1, <1>4, <1>5, <1>7, <1>10 DEF InTurn
<1>12. GivenRows(m, K, E, L, A)
    BY GivenInTurn
<1>13. GivenRows(k, K, E, OneOffer(L, a, l), OneTaken(A, a, l))
    <2>1. /\ L \in [Leads -> LeadRow] /\ A \in [Agents -> AgentRow]
          /\ L[l] = K[l] /\ A[a] = E[a]
        BY <1>0, <1>1, <1>3, <1>12 DEF GivenRows, HandedOut
    <2>0. a \in Agents
        BY <1>1
    <2> DEFINE M == OneOffer(L, a, l)
               F == OneTaken(A, a, l)
    <2>2. /\ M \in [Leads -> LeadRow] /\ M[l] = OfferedTo(L[l], a)
          /\ \A j \in Leads \ {l} : M[j] = L[j]
          /\ F \in [Agents -> AgentRow] /\ F[a] = WithLead(A[a], l)
          /\ \A b \in Agents \ {a} : F[b] = A[b]
        <3>1. L \in [Leads -> LeadRow] /\ A \in [Agents -> AgentRow]
            BY <2>1
        <3> QED BY ONLY <2>0, <3>1, OneRow
    <2> HIDE DEF M, F
    <2>3. \A j \in Leads : (\A b \in D \cup {a} : k[b] # j) => M[j] = K[j]
        BY <1>4, <1>12, <2>2 DEF GivenRows
    <2>4. \A b \in D \cup {a} : M[k[b]] = OfferedTo(K[k[b]], b)
        <3>1. \A b \in D : k[b] \in Leads \ {l} /\ k[b] = m[b]
            BY <1>0, <1>3, <1>4 DEF HandedOut
        <3>2. \A b \in D : L[m[b]] = OfferedTo(K[m[b]], b)
            BY <1>12 DEF GivenRows
        <3> QED BY <1>4, <2>1, <2>2, <3>1, <3>2
    <2>5. \A b \in D \cup {a} : F[b] = WithLead(E[b], k[b])
        <3>1. \A b \in D : A[b] = WithLead(E[b], m[b])
            BY <1>12 DEF GivenRows
        <3> QED BY <1>0, <1>1, <1>4, <2>1, <2>2, <3>1
    <2>6. \A b \in Agents \ (D \cup {a}) : F[b] = E[b]
        BY <1>12, <2>2 DEF GivenRows
    <2>7. GivenRows(k, K, E, M, F)
        BY <1>4, <2>2, <2>3, <2>4, <2>5, <2>6 DEF GivenRows
    <2> QED BY <2>7 DEF M, F
<1>14. \A b, c \in DOMAIN k : k[b] = k[c] => b = c
    BY <1>11, TurnsApart
<1>15. Given(k, K, E, OneOffer(L, a, l), OneTaken(A, a, l))
    <2>1. k \in [DOMAIN k -> Leads] /\ DOMAIN k \subseteq Agents
        BY <1>0, <1>1, <1>4
    <2> QED BY <1>13, <1>14, <2>1, GivenByRow
<1> QED BY <1>11, <1>15

-----------------------------------------------------------------------------
(* What an operation asks for: the tables it makes of those it read, the   *)
(* rows it inserts, and how often the assigner runs then                   *)

AskedByReply(L, A, ps, nums, tail) ==
    /\ A = agent /\ ps = {} /\ tail = "none"
    /\ \E l \in Leads, blocked \in BOOLEAN :
          \/ /\ lead[l].status = "NONE" /\ ~IsCsv(l)
             /\ L = NewReplyRow(l, blocked)
             /\ nums = IF blocked THEN AddToDnc(l, "UNQUALIFIED") \ dnc ELSE {}
          \/ /\ blocked /\ lead[l].status = "QUEUED"
             /\ L = [lead EXCEPT ![l].status = "DISPOSITIONED", ![l].disp = "UNQUALIFIED"]
             /\ nums = AddToDnc(l, "UNQUALIFIED") \ dnc
          \/ /\ ~blocked /\ lead[l].status = "DISPOSITIONED" /\ lead[l].disp \in DNC_DISPOSITIONS
             /\ L = [lead EXCEPT ![l].status = "QUEUED", ![l].disp = NoDisp]
             /\ nums = {}

AskedByAgent(L, A, ps, nums, tail) ==
    /\ ps = {} /\ nums = {} /\ tail = "one"
    /\ \E a \in Agents :
          \/ L = lead /\ A = [agent EXCEPT ![a].status = "AVAILABLE", ![a].misses = 0]
          \/ /\ L = Requeue(lead, HeldBy(a))
             /\ \E status \in {"OFFLINE", "AWAY"} :
                   A = [agent EXCEPT ![a].current = NoLead, ![a].status = status]
          \/ L = lead /\ A = [agent EXCEPT ![a].status = "AVAILABLE"]

BackFrom(a, l) == IF Offered(a, l) THEN {l} ELSE {}

AskedByAnswer(L, A, ps, nums, tail) ==
    \E a \in Agents, l \in Leads :
        \/ /\ Offered(a, l)
           /\ L = [lead EXCEPT ![l].status = "IN_PROGRESS"]
           /\ A = [agent EXCEPT ![a].status = "ON_CALL", ![a].current = l, ![a].misses = 0]
           /\ ps = {} /\ nums = {} /\ tail = "none"
        \/ /\ lead[l].status # "NONE"
           /\ L = CountPass(Requeue(lead, BackFrom(a, l)), BackFrom(a, l))
           /\ A = [agent EXCEPT ![a].current = NoLead, ![a].misses = 0]
           /\ ps = {a} \X BackFrom(a, l) /\ nums = {} /\ tail = "one"
        \/ /\ lead[l].status # "NONE"
           /\ \E d \in Dispositions :
                 /\ L = [lead EXCEPT ![l].status = "DISPOSITIONED", ![l].disp = d]
                 /\ nums = AddToDnc(l, d) \ dnc
           /\ A = [agent EXCEPT ![a].current = NoLead, ![a].status = "AVAILABLE"]
           /\ ps = {} /\ tail = "one"

AskedByManager(L, A, ps, nums, tail) ==
    /\ ps = {}
    /\ \E l \in Leads :
          /\ lead[l].status # "NONE"
          /\ \/ /\ \E a \in Agents : /\ L = [lead EXCEPT ![l].owner = a, ![l].status = "ASSIGNED"]
                                     /\ A = [Detach(agent, lead, {l}) EXCEPT ![a].current = l]
                /\ nums = {} /\ tail = "none"
             \/ /\ \E d \in MANAGER_DISPOSITIONS \cap Dispositions :
                      /\ L = [lead EXCEPT ![l].status = "DISPOSITIONED", ![l].disp = d,
                                          ![l].owner = NoAgent]
                      /\ nums = AddToDnc(l, d) \ dnc
                /\ A = Detach(agent, lead, {l}) /\ tail = "one"
             \/ /\ PhoneOf[l] \notin dnc
                /\ L = [lead EXCEPT ![l] = [status |-> "QUEUED", owner |-> NoAgent,
                                            disp |-> NoDisp, passes |-> 0]]
                /\ A = agent /\ nums = {} /\ tail = "none"

AskedBySweep(L, A, ps, nums, tail) ==
    /\ ps = {} /\ nums = {}
    /\ \/ L = lead /\ A = agent /\ tail \in {"one", "all"}
       \/ /\ \E S \in SUBSET Leads :
                /\ \A l \in S : lead[l].status = "ASSIGNED"
                /\ L = CountPass(Requeue(lead, S), {l \in S : lead[l].owner # NoAgent})
                /\ A = [a \in Agents |-> Parked(a, S)]
          /\ tail = "all"
       \/ /\ \E S \in SUBSET Agents :
                /\ S # {} /\ \A a \in S : agent[a].status # "OFFLINE"
                /\ L = CountPass(Requeue(lead, CurrentOf(S)), CurrentOf(S))
                /\ A = Offline(S)
          /\ tail = "all"

Asked(L, A, ps, nums, tail) ==
    \/ AskedByReply(L, A, ps, nums, tail) \/ AskedByAgent(L, A, ps, nums, tail)
    \/ AskedByAnswer(L, A, ps, nums, tail) \/ AskedByManager(L, A, ps, nums, tail)
    \/ AskedBySweep(L, A, ps, nums, tail)

-----------------------------------------------------------------------------
(* Carrying it out is a step of SmsQueue *)

Done(L, A, ps, nums, tail) ==
    /\ passed' = passed \cup ps /\ dnc' = dnc \cup nums /\ UNCHANGED <<batch, handCall>>
    /\ tail = "none" => lead' = L /\ agent' = A
    /\ tail = "one"  => TryAssign(L, A, passed \cup ps, batch)
    /\ tail = "all"  => TryAssignAll(L, A, passed \cup ps, batch)

LEMMA NumbersListed ==
    ASSUME NEW l, NEW d
    PROVE  dnc \cup (AddToDnc(l, d) \ dnc) = AddToDnc(l, d)
BY DEF AddToDnc

LEMMA ReplyDone ==
    ASSUME NEW L, NEW A, NEW ps, NEW nums, NEW tail,
           AskedByReply(L, A, ps, nums, tail), Done(L, A, ps, nums, tail)
    PROVE  Next
<1>1. /\ lead' = L /\ agent' = agent /\ passed' = passed /\ dnc' = dnc \cup nums
      /\ UNCHANGED <<batch, handCall>>
    BY DEF AskedByReply, Done
<1>2. PICK l \in Leads, blocked \in BOOLEAN :
          \/ /\ lead[l].status = "NONE" /\ ~IsCsv(l)
             /\ L = NewReplyRow(l, blocked)
             /\ nums = IF blocked THEN AddToDnc(l, "UNQUALIFIED") \ dnc ELSE {}
          \/ /\ blocked /\ lead[l].status = "QUEUED"
             /\ L = [lead EXCEPT ![l].status = "DISPOSITIONED", ![l].disp = "UNQUALIFIED"]
             /\ nums = AddToDnc(l, "UNQUALIFIED") \ dnc
          \/ /\ ~blocked /\ lead[l].status = "DISPOSITIONED" /\ lead[l].disp \in DNC_DISPOSITIONS
             /\ L = [lead EXCEPT ![l].status = "QUEUED", ![l].disp = NoDisp]
             /\ nums = {}
    BY DEF AskedByReply
<1>3. IngestReply(l, blocked) \/ MirrorAppend(l, blocked)
    BY <1>1, <1>2, NumbersListed DEF IngestReply, MirrorAppend
<1> QED BY <1>3 DEF Next

LEMMA AgentDone ==
    ASSUME NEW L, NEW A, NEW ps, NEW nums, NEW tail,
           AskedByAgent(L, A, ps, nums, tail), Done(L, A, ps, nums, tail)
    PROVE  Next
<1>1. /\ TryAssign(L, A, passed, batch)
      /\ passed' = passed /\ dnc' = dnc /\ UNCHANGED <<batch, handCall>>
    <2>1. passed \cup ps = passed /\ dnc \cup nums = dnc /\ tail = "one"
        BY DEF AskedByAgent
    <2> QED BY <2>1 DEF Done
<1>2. PICK a \in Agents :
          \/ L = lead /\ A = [agent EXCEPT ![a].status = "AVAILABLE", ![a].misses = 0]
          \/ /\ L = Requeue(lead, HeldBy(a))
             /\ \E status \in {"OFFLINE", "AWAY"} :
                   A = [agent EXCEPT ![a].current = NoLead, ![a].status = status]
          \/ L = lead /\ A = [agent EXCEPT ![a].status = "AVAILABLE"]
    BY DEF AskedByAgent
<1>3. Join(a) \/ Leave(a) \/ StartBreak(a) \/ EndBreak(a)
    BY <1>1, <1>2 DEF Join, Leave, StartBreak, EndBreak
<1> QED BY <1>3 DEF Next

LEMMA AnswerDone ==
    ASSUME NEW L, NEW A, NEW ps, NEW nums, NEW tail,
           AskedByAnswer(L, A, ps, nums, tail), Done(L, A, ps, nums, tail)
    PROVE  Next
<1>1. PICK a \in Agents, l \in Leads :
        \/ /\ Offered(a, l)
           /\ L = [lead EXCEPT ![l].status = "IN_PROGRESS"]
           /\ A = [agent EXCEPT ![a].status = "ON_CALL", ![a].current = l, ![a].misses = 0]
           /\ ps = {} /\ nums = {} /\ tail = "none"
        \/ /\ lead[l].status # "NONE"
           /\ L = CountPass(Requeue(lead, BackFrom(a, l)), BackFrom(a, l))
           /\ A = [agent EXCEPT ![a].current = NoLead, ![a].misses = 0]
           /\ ps = {a} \X BackFrom(a, l) /\ nums = {} /\ tail = "one"
        \/ /\ lead[l].status # "NONE"
           /\ \E d \in Dispositions :
                 /\ L = [lead EXCEPT ![l].status = "DISPOSITIONED", ![l].disp = d]
                 /\ nums = AddToDnc(l, d) \ dnc
           /\ A = [agent EXCEPT ![a].current = NoLead, ![a].status = "AVAILABLE"]
           /\ ps = {} /\ tail = "one"
    BY DEF AskedByAnswer
<1>2. ASSUME Offered(a, l),
             L = [lead EXCEPT ![l].status = "IN_PROGRESS"],
             A = [agent EXCEPT ![a].status = "ON_CALL", ![a].current = l, ![a].misses = 0],
             ps = {}, nums = {}, tail = "none"
      PROVE  Accept(a, l)
    BY <1>2 DEF Accept, Offered, Done
<1>3. ASSUME lead[l].status # "NONE",
             L = CountPass(Requeue(lead, BackFrom(a, l)), BackFrom(a, l)),
             A = [agent EXCEPT ![a].current = NoLead, ![a].misses = 0],
             ps = {a} \X BackFrom(a, l), nums = {}, tail = "one"
      PROVE  Pass(a, l)
    <2>1. BackFrom(a, l) = IF lead[l].status = "ASSIGNED" /\ lead[l].owner = a THEN {l} ELSE {}
        BY DEF BackFrom, Offered
    <2>2. dnc' = dnc /\ passed' = passed \cup ({a} \X BackFrom(a, l)) /\ UNCHANGED <<batch, handCall>>
        BY <1>3 DEF Done
    <2>3. TryAssign(CountPass(Requeue(lead, BackFrom(a, l)), BackFrom(a, l)),
                    [agent EXCEPT ![a].current = NoLead, ![a].misses = 0],
                    passed \cup ({a} \X BackFrom(a, l)), batch)
        BY <1>3 DEF Done
    <2> QED BY <1>3, <2>1, <2>2, <2>3 DEF Pass
<1>4. ASSUME NEW d \in Dispositions, lead[l].status # "NONE",
             L = [lead EXCEPT ![l].status = "DISPOSITIONED", ![l].disp = d],
             nums = AddToDnc(l, d) \ dnc,
             A = [agent EXCEPT ![a].current = NoLead, ![a].status = "AVAILABLE"],
             ps = {}, tail = "one"
      PROVE  Disposition(a, l, d)
    <2>1. passed \cup ps = passed /\ dnc' = AddToDnc(l, d)
        BY <1>4, NumbersListed DEF Done
    <2> QED BY <1>4, <2>1 DEF Disposition, Done
<1> QED BY <1>1, <1>2, <1>3, <1>4 DEF Next

LEMMA ManagerDone ==
    ASSUME NEW L, NEW A, NEW ps, NEW nums, NEW tail,
           AskedByManager(L, A, ps, nums, tail), Done(L, A, ps, nums, tail)
    PROVE  Next
<1>1. PICK l \in Leads :
          /\ lead[l].status # "NONE"
          /\ \/ /\ \E a \in Agents : /\ L = [lead EXCEPT ![l].owner = a, ![l].status = "ASSIGNED"]
                                     /\ A = [Detach(agent, lead, {l}) EXCEPT ![a].current = l]
                /\ nums = {} /\ tail = "none"
             \/ /\ \E d \in MANAGER_DISPOSITIONS \cap Dispositions :
                      /\ L = [lead EXCEPT ![l].status = "DISPOSITIONED", ![l].disp = d,
                                          ![l].owner = NoAgent]
                      /\ nums = AddToDnc(l, d) \ dnc
                /\ A = Detach(agent, lead, {l}) /\ tail = "one"
             \/ /\ PhoneOf[l] \notin dnc
                /\ L = [lead EXCEPT ![l] = [status |-> "QUEUED", owner |-> NoAgent,
                                            disp |-> NoDisp, passes |-> 0]]
                /\ A = agent /\ nums = {} /\ tail = "none"
    BY DEF AskedByManager
<1>2. ps = {} /\ passed \cup ps = passed
    BY DEF AskedByManager
<1>3. ASSUME NEW a \in Agents, L = [lead EXCEPT ![l].owner = a, ![l].status = "ASSIGNED"],
             A = [Detach(agent, lead, {l}) EXCEPT ![a].current = l], nums = {}, tail = "none"
      PROVE  Reassign(l, a)
    BY <1>1, <1>2, <1>3 DEF Reassign, Done
<1>4. ASSUME NEW d \in MANAGER_DISPOSITIONS \cap Dispositions,
             L = [lead EXCEPT ![l].status = "DISPOSITIONED", ![l].disp = d, ![l].owner = NoAgent],
             nums = AddToDnc(l, d) \ dnc, A = Detach(agent, lead, {l}), tail = "one"
      PROVE  ManagerDisposition(l, d)
    <2>1. dnc' = AddToDnc(l, d)
        BY <1>4, NumbersListed DEF Done
    <2> QED BY <1>1, <1>2, <1>4, <2>1 DEF ManagerDisposition, Done
<1>5. ASSUME PhoneOf[l] \notin dnc,
             L = [lead EXCEPT ![l] = [status |-> "QUEUED", owner |-> NoAgent,
                                      disp |-> NoDisp, passes |-> 0]],
             A = agent, nums = {}, tail = "none"
      PROVE  RestoreParked(l)
    BY <1>1, <1>2, <1>5 DEF RestoreParked, Done
<1> QED BY <1>1, <1>3, <1>4, <1>5 DEF Next

LEMMA SweepDone ==
    ASSUME NEW L, NEW A, NEW ps, NEW nums, NEW tail,
           AskedBySweep(L, A, ps, nums, tail), Done(L, A, ps, nums, tail)
    PROVE  Next
<1>1. /\ passed \cup ps = passed /\ passed' = passed /\ dnc' = dnc
      /\ UNCHANGED <<batch, handCall>>
    BY DEF AskedBySweep, Done
<1>2. CASE L = lead /\ A = agent /\ tail \in {"one", "all"}
    <2>1. AssignNext \/ DistributeAll
        BY <1>1, <1>2 DEF AssignNext, DistributeAll, Done
    <2> QED BY <2>1 DEF Next
<1>3. ASSUME NEW S \in SUBSET Leads, \A l \in S : lead[l].status = "ASSIGNED",
             L = CountPass(Requeue(lead, S), {l \in S : lead[l].owner # NoAgent}),
             A = [a \in Agents |-> Parked(a, S)], tail = "all"
      PROVE  Rebroadcast(S)
    BY <1>1, <1>3 DEF Rebroadcast, Done
<1>4. ASSUME NEW S \in SUBSET Agents, S # {}, \A a \in S : agent[a].status # "OFFLINE",
             L = CountPass(Requeue(lead, CurrentOf(S)), CurrentOf(S)), A = Offline(S), tail = "all"
      PROVE  ReapStaleAgents(S)
    BY <1>1, <1>4 DEF ReapStaleAgents, Done
<1> QED BY <1>2, <1>3, <1>4 DEF AskedBySweep, Next

LEMMA AskedDone ==
    ASSUME NEW L, NEW A, NEW ps, NEW nums, NEW tail,
           Asked(L, A, ps, nums, tail), Done(L, A, ps, nums, tail)
    PROVE  Next
BY ReplyDone, AgentDone, AnswerDone, ManagerDone, SweepDone DEF Asked

-----------------------------------------------------------------------------
(* A session begins with what some operation asks for *)

Typed(L, A) == L \in [Leads -> LeadRow] /\ A \in [Agents -> AgentRow]

Begun(s) ==
    \E op, L, A, ps, nums, tail :
        Begin(s, op, L, A, ps, nums, tail) /\ Asked(L, A, ps, nums, tail) /\ Typed(L, A)

LEMMA BegunWith ==
    ASSUME NEW s, NEW op, NEW L, NEW A, NEW ps, NEW nums, NEW tail,
           Begin(s, op, L, A, ps, nums, tail), Asked(L, A, ps, nums, tail), Typed(L, A)
    PROVE  Begun(s)
BY DEF Begun

LEMMA IngestBegun ==
    ASSUME TypeOK, NEW s, NEW l \in Leads, NEW blocked \in BOOLEAN, BeginIngest(s, l, blocked)
    PROVE  Begun(s)
<1> DEFINE L == NewReplyRow(l, blocked)
           nums == IF blocked THEN AddToDnc(l, "UNQUALIFIED") \ dnc ELSE {}
<1>1. lead[l].status = "NONE" /\ ~IsCsv(l) /\ Begin(s, "ingest", L, agent, {}, nums, "none")
    BY DEF BeginIngest
<1>2. Typed(L, agent)
    BY NewReplyRowType DEF Typed, TypeOK
<1>3. AskedByReply(L, agent, {}, nums, "none")
    BY <1>1 DEF AskedByReply
<1>4. Asked(L, agent, {}, nums, "none")
    BY <1>3 DEF Asked
<1> HIDE DEF L, nums
<1> QED BY <1>1, <1>2, <1>4, BegunWith

LEMMA AppendBegun ==
    ASSUME TypeOK, NEW s, NEW l \in Leads, NEW blocked \in BOOLEAN, BeginAppend(s, l, blocked)
    PROVE  Begun(s)
<1> DEFINE L == [lead EXCEPT ![l].status = "DISPOSITIONED", ![l].disp = "UNQUALIFIED"]
           M == [lead EXCEPT ![l].status = "QUEUED", ![l].disp = NoDisp]
           nums == AddToDnc(l, "UNQUALIFIED") \ dnc
<1>1. Typed(L, agent) /\ Typed(M, agent)
    <2>1. lead \in [Leads -> LeadRow] /\ agent \in [Agents -> AgentRow]
        BY DEF TypeOK
    <2>2. /\ "UNQUALIFIED" \in Dispositions
          /\ {"DISPOSITIONED", "QUEUED"} \subseteq LeadStatus
        BY NullsAssumption DEF LeadStatus
    <2> QED BY <2>1, <2>2 DEF Typed, LeadRow
<1>2. CASE blocked /\ lead[l].status = "QUEUED" /\ Begin(s, "append", L, agent, {}, nums, "none")
    <2>1. AskedByReply(L, agent, {}, nums, "none")
        BY <1>2 DEF AskedByReply
    <2>2. Asked(L, agent, {}, nums, "none")
        BY <2>1 DEF Asked
    <2> HIDE DEF L, nums
    <2> QED BY <1>1, <1>2, <2>2, BegunWith
<1>3. CASE /\ ~blocked /\ lead[l].status = "DISPOSITIONED" /\ lead[l].disp \in DNC_DISPOSITIONS
           /\ Begin(s, "append", M, agent, {}, {}, "none")
    <2>1. AskedByReply(M, agent, {}, {}, "none")
        BY <1>3 DEF AskedByReply
    <2>2. Asked(M, agent, {}, {}, "none")
        BY <2>1 DEF Asked
    <2> HIDE DEF M
    <2> QED BY <1>1, <1>3, <2>2, BegunWith
<1> QED BY <1>2, <1>3 DEF BeginAppend

LEMMA LifecycleBegun ==
    ASSUME TypeOK, NEW s, NEW a \in Agents,
           BeginJoin(s, a) \/ BeginLeave(s, a) \/ BeginBreak(s, a) \/ BeginEndBreak(s, a)
    PROVE  Begun(s)
<1> DEFINE joined == [agent EXCEPT ![a].status = "AVAILABLE", ![a].misses = 0]
           gone(status) == [agent EXCEPT ![a].current = NoLead, ![a].status = status]
           back == [agent EXCEPT ![a].status = "AVAILABLE"]
           L == Requeue(lead, HeldBy(a))
<1>1. lead \in [Leads -> LeadRow] /\ agent \in [Agents -> AgentRow]
    BY DEF TypeOK
<1>2. /\ joined \in [Agents -> AgentRow] /\ back \in [Agents -> AgentRow]
      /\ \A status \in {"OFFLINE", "AWAY"} : gone(status) \in [Agents -> AgentRow]
    BY <1>1, NoMisses, ZenonT(30) DEF AgentRow, AgentStatus
<1>3. Typed(lead, joined) /\ Typed(lead, back) /\ \A status \in {"OFFLINE", "AWAY"} : Typed(L, gone(status))
    BY <1>1, <1>2, RequeueType DEF Typed
<1>4. AskedByAgent(lead, joined, {}, {}, "one") /\ AskedByAgent(lead, back, {}, {}, "one")
    BY DEF AskedByAgent
<1>5. \A status \in {"OFFLINE", "AWAY"} : AskedByAgent(L, gone(status), {}, {}, "one")
    BY DEF AskedByAgent
<1>6. /\ Asked(lead, joined, {}, {}, "one") /\ Asked(lead, back, {}, {}, "one")
      /\ \A status \in {"OFFLINE", "AWAY"} : Asked(L, gone(status), {}, {}, "one")
    BY <1>4, <1>5 DEF Asked
<1>7. \/ Begin(s, "join", lead, joined, {}, {}, "one")
      \/ Begin(s, "leave", L, gone("OFFLINE"), {}, {}, "one")
      \/ Begin(s, "break", L, gone("AWAY"), {}, {}, "one")
      \/ Begin(s, "end break", lead, back, {}, {}, "one")
    BY DEF BeginJoin, BeginLeave, BeginBreak, BeginEndBreak
<1> HIDE DEF joined, gone, back, L
<1> QED BY <1>3, <1>6, <1>7, BegunWith

LEMMA AcceptBegun ==
    ASSUME TypeOK, NEW s, NEW a \in Agents, NEW l \in Leads, BeginAccept(s, a, l)
    PROVE  Begun(s)
<1> DEFINE L == [lead EXCEPT ![l].status = "IN_PROGRESS"]
           A == [agent EXCEPT ![a].status = "ON_CALL", ![a].current = l, ![a].misses = 0]
<1>1. Offered(a, l) /\ Begin(s, "accept", L, A, {}, {}, "none")
    BY DEF BeginAccept
<1>2. lead \in [Leads -> LeadRow] /\ agent \in [Agents -> AgentRow]
    BY DEF TypeOK
<1>3. L \in [Leads -> LeadRow]
    BY <1>2 DEF LeadRow, LeadStatus
<1>4. A \in [Agents -> AgentRow]
    BY <1>2, NoMisses, ZenonT(30) DEF AgentRow, AgentStatus
<1>5. AskedByAnswer(L, A, {}, {}, "none")
    BY <1>1 DEF AskedByAnswer
<1>6. Asked(L, A, {}, {}, "none") /\ Typed(L, A)
    BY <1>3, <1>4, <1>5 DEF Asked, Typed
<1> HIDE DEF L, A
<1> QED BY <1>1, <1>6, BegunWith

LEMMA PassBegun ==
    ASSUME TypeOK, NEW s, NEW a \in Agents, NEW l \in Leads, BeginPass(s, a, l)
    PROVE  Begun(s)
<1> DEFINE back == BackFrom(a, l)
           L == CountPass(Requeue(lead, back), back)
           A == [agent EXCEPT ![a].current = NoLead, ![a].misses = 0]
<1>1. lead[l].status # "NONE" /\ Begin(s, "pass", L, A, {a} \X back, {}, "one")
    BY DEF BeginPass, BackFrom
<1>2. lead \in [Leads -> LeadRow] /\ agent \in [Agents -> AgentRow]
    BY DEF TypeOK
<1>3. L \in [Leads -> LeadRow]
    BY <1>2, RequeueType, CountPassType
<1>4. A \in [Agents -> AgentRow]
    BY <1>2, NoMisses DEF AgentRow
<1>5. AskedByAnswer(L, A, {a} \X back, {}, "one")
    BY <1>1 DEF AskedByAnswer
<1>6. Asked(L, A, {a} \X back, {}, "one") /\ Typed(L, A)
    BY <1>3, <1>4, <1>5 DEF Asked, Typed
<1> HIDE DEF L, A, back
<1> QED BY <1>1, <1>6, BegunWith

LEMMA DispositionBegun ==
    ASSUME TypeOK, NEW s, NEW a \in Agents, NEW l \in Leads, NEW d \in Dispositions,
           BeginDisposition(s, a, l, d)
    PROVE  Begun(s)
<1> DEFINE L == [lead EXCEPT ![l].status = "DISPOSITIONED", ![l].disp = d]
           A == [agent EXCEPT ![a].current = NoLead, ![a].status = "AVAILABLE"]
           nums == AddToDnc(l, d) \ dnc
<1>1. lead[l].status # "NONE" /\ Begin(s, "disposition", L, A, {}, nums, "one")
    BY DEF BeginDisposition
<1>2. lead \in [Leads -> LeadRow] /\ agent \in [Agents -> AgentRow]
    BY DEF TypeOK
<1>3. L \in [Leads -> LeadRow]
    <2> DEFINE row == [lead[l] EXCEPT !.status = "DISPOSITIONED", !.disp = d]
    <2>1. row \in LeadRow
        BY <1>2 DEF LeadRow, LeadStatus
    <2>2. L = [lead EXCEPT ![l] = row]
        BY <1>2
    <2> HIDE DEF row, L
    <2> QED BY <1>2, <2>1, <2>2
<1>6. A \in [Agents -> AgentRow]
    BY <1>2 DEF AgentRow, AgentStatus
<1>4. AskedByAnswer(L, A, {}, nums, "one")
    BY <1>1 DEF AskedByAnswer
<1>5. Asked(L, A, {}, nums, "one") /\ Typed(L, A)
    BY <1>3, <1>4, <1>6 DEF Asked, Typed
<1> HIDE DEF L, A, nums
<1> QED BY <1>1, <1>5, BegunWith

LEMMA ReassignBegun ==
    ASSUME TypeOK, NEW s, NEW a \in Agents, NEW l \in Leads, BeginReassign(s, l, a)
    PROVE  Begun(s)
<1> DEFINE L == [lead EXCEPT ![l].owner = a, ![l].status = "ASSIGNED"]
           A == [Detach(agent, lead, {l}) EXCEPT ![a].current = l]
<1>1. lead[l].status # "NONE" /\ Begin(s, "reassign", L, A, {}, {}, "none")
    BY DEF BeginReassign
<1>2. lead \in [Leads -> LeadRow] /\ agent \in [Agents -> AgentRow]
    BY DEF TypeOK
<1>3. L \in [Leads -> LeadRow]
    BY <1>2, ZenonT(30) DEF LeadRow, LeadStatus
<1>4. A \in [Agents -> AgentRow]
    <2>1. Detach(agent, lead, {l}) \in [Agents -> AgentRow]
        BY <1>2, DetachType
    <2> QED BY <2>1 DEF AgentRow
<1>5. AskedByManager(L, A, {}, {}, "none")
    BY <1>1 DEF AskedByManager
<1>6. Asked(L, A, {}, {}, "none") /\ Typed(L, A)
    BY <1>3, <1>4, <1>5 DEF Asked, Typed
<1> HIDE DEF L, A
<1> QED BY <1>1, <1>6, BegunWith

LEMMA ManagerDispositionBegun ==
    ASSUME TypeOK, NEW s, NEW l \in Leads, NEW d \in MANAGER_DISPOSITIONS \cap Dispositions,
           BeginManagerDisposition(s, l, d)
    PROVE  Begun(s)
<1> DEFINE L == [lead EXCEPT ![l].status = "DISPOSITIONED", ![l].disp = d, ![l].owner = NoAgent]
           A == Detach(agent, lead, {l})
           nums == AddToDnc(l, d) \ dnc
<1>1. lead[l].status # "NONE" /\ Begin(s, "manager disposition", L, A, {}, nums, "one")
    BY DEF BeginManagerDisposition
<1>2. lead \in [Leads -> LeadRow] /\ agent \in [Agents -> AgentRow]
    BY DEF TypeOK
<1>3. L \in [Leads -> LeadRow]
    <2> DEFINE row == [lead[l] EXCEPT !.status = "DISPOSITIONED", !.disp = d, !.owner = NoAgent]
    <2>1. row \in LeadRow
        BY <1>2 DEF LeadRow, LeadStatus
    <2>2. L = [lead EXCEPT ![l] = row]
        BY <1>2
    <2> HIDE DEF row, L
    <2> QED BY <1>2, <2>1, <2>2
<1>4. A \in [Agents -> AgentRow]
    BY <1>2, DetachType
<1>5. AskedByManager(L, A, {}, nums, "one")
    BY <1>1 DEF AskedByManager
<1>6. Asked(L, A, {}, nums, "one") /\ Typed(L, A)
    BY <1>3, <1>4, <1>5 DEF Asked, Typed
<1> HIDE DEF L, A, nums
<1> QED BY <1>1, <1>6, BegunWith

LEMMA RestoreBegun ==
    ASSUME TypeOK, NEW s, NEW l \in Leads, BeginRestore(s, l)
    PROVE  Begun(s)
<1> DEFINE row == [status |-> "QUEUED", owner |-> NoAgent, disp |-> NoDisp, passes |-> 0]
           L == [lead EXCEPT ![l] = row]
<1>1. /\ lead[l].status # "NONE" /\ PhoneOf[l] \notin dnc
      /\ Begin(s, "restore", L, agent, {}, {}, "none")
    BY DEF BeginRestore
<1>2. lead \in [Leads -> LeadRow] /\ agent \in [Agents -> AgentRow]
    BY DEF TypeOK
<1>3. row \in LeadRow
    BY ConstantsAssumption DEF LeadRow, LeadStatus
<1>4. L \in [Leads -> LeadRow]
    <2> HIDE DEF row
    <2> QED BY <1>2, <1>3
<1>5. AskedByManager(L, agent, {}, {}, "none")
    BY <1>1 DEF AskedByManager
<1>6. Asked(L, agent, {}, {}, "none") /\ Typed(L, agent)
    BY <1>2, <1>4, <1>5 DEF Asked, Typed
<1> HIDE DEF L
<1> QED BY <1>1, <1>6, BegunWith

LEMMA SweepBegun ==
    ASSUME TypeOK, NEW s, BeginAssignNext(s) \/ BeginDistribute(s)
    PROVE  Begun(s)
<1>1. \E op : \E tail \in {"one", "all"} : Begin(s, op, lead, agent, {}, {}, tail)
    BY DEF BeginAssignNext, BeginDistribute
<1>2. \A tail \in {"one", "all"} : Asked(lead, agent, {}, {}, tail)
    BY DEF Asked, AskedBySweep
<1>3. Typed(lead, agent)
    BY DEF Typed, TypeOK
<1> QED BY <1>1, <1>2, <1>3, BegunWith

LEMMA RebroadcastBegun ==
    ASSUME TypeOK, NEW s, NEW S \in SUBSET Leads, BeginRebroadcast(s, S)
    PROVE  Begun(s)
<1> DEFINE L == CountPass(Requeue(lead, S), {l \in S : lead[l].owner # NoAgent})
           A == [a \in Agents |-> Parked(a, S)]
<1>1. /\ \A l \in S : lead[l].status = "ASSIGNED"
      /\ Begin(s, "rebroadcast", L, A, {}, {}, "all")
    BY DEF BeginRebroadcast
<1>2. L \in [Leads -> LeadRow]
    BY RequeueType, CountPassType DEF TypeOK
<1>3. A \in [Agents -> AgentRow]
    BY ParkedType
<1>4. AskedBySweep(L, A, {}, {}, "all")
    BY <1>1 DEF AskedBySweep
<1>5. Asked(L, A, {}, {}, "all") /\ Typed(L, A)
    BY <1>2, <1>3, <1>4 DEF Asked, Typed
<1> HIDE DEF L, A
<1> QED BY <1>1, <1>5, BegunWith

LEMMA ReapBegun ==
    ASSUME TypeOK, NEW s, NEW S \in SUBSET Agents, BeginReap(s, S)
    PROVE  Begun(s)
<1> DEFINE L == CountPass(Requeue(lead, CurrentOf(S)), CurrentOf(S))
           A == Offline(S)
<1>1. /\ S # {} /\ \A a \in S : agent[a].status # "OFFLINE"
      /\ Begin(s, "reap", L, A, {}, {}, "all")
    BY DEF BeginReap
<1>2. L \in [Leads -> LeadRow]
    BY RequeueType, CountPassType DEF TypeOK
<1>3. A \in [Agents -> AgentRow]
    BY OfflineType
<1>4. AskedBySweep(L, A, {}, {}, "all")
    BY <1>1 DEF AskedBySweep
<1>5. Asked(L, A, {}, {}, "all") /\ Typed(L, A)
    BY <1>2, <1>3, <1>4 DEF Asked, Typed
<1> HIDE DEF L, A
<1> QED BY <1>1, <1>5, BegunWith

LEMMA SomeBegun ==
    ASSUME TypeOK, NEW s, BeginSome(s)
    PROVE  Begun(s)
<1>1. ASSUME NEW l \in Leads, NEW blocked \in BOOLEAN,
             BeginIngest(s, l, blocked) \/ BeginAppend(s, l, blocked)
      PROVE  Begun(s)
    BY <1>1, IngestBegun, AppendBegun
<1>2. ASSUME NEW a \in Agents,
             BeginJoin(s, a) \/ BeginLeave(s, a) \/ BeginBreak(s, a) \/ BeginEndBreak(s, a)
      PROVE  Begun(s)
    BY <1>2, LifecycleBegun
<1>3. ASSUME NEW a \in Agents, NEW l \in Leads,
             \/ BeginAccept(s, a, l) \/ BeginPass(s, a, l) \/ BeginReassign(s, l, a)
             \/ \E d \in Dispositions : BeginDisposition(s, a, l, d)
      PROVE  Begun(s)
    BY <1>3, AcceptBegun, PassBegun, ReassignBegun, DispositionBegun
<1>4. ASSUME NEW l \in Leads,
             \/ BeginRestore(s, l)
             \/ \E d \in MANAGER_DISPOSITIONS \cap Dispositions : BeginManagerDisposition(s, l, d)
      PROVE  Begun(s)
    BY <1>4, RestoreBegun, ManagerDispositionBegun
<1>5. ASSUME NEW S \in SUBSET Leads, BeginRebroadcast(s, S) PROVE Begun(s)
    BY <1>5, RebroadcastBegun
<1>6. ASSUME NEW S \in SUBSET Agents, BeginReap(s, S) PROVE Begun(s)
    BY <1>6, ReapBegun
<1> QED BY <1>1, <1>2, <1>3, <1>4, <1>5, <1>6, SweepBegun DEF BeginSome

\* What is asked for stays asked for while nothing is committed.
LEMMA AskedStays ==
    ASSUME NEW L, NEW A, NEW ps, NEW nums, NEW tail,
           Asked(L, A, ps, nums, tail), UNCHANGED vars
    PROVE  Asked(L, A, ps, nums, tail)'
<1>1. /\ lead' = lead /\ agent' = agent /\ dnc' = dnc
      /\ \A a : HeldBy(a)' = HeldBy(a)
      /\ \A a, l : BackFrom(a, l)' = BackFrom(a, l) /\ (Offered(a, l)' <=> Offered(a, l))
      /\ \A l, d : AddToDnc(l, d)' = AddToDnc(l, d)
    BY DEF vars, HeldBy, BackFrom, Offered, AddToDnc
<1>2. /\ \A S : CurrentOf(S)' = CurrentOf(S) /\ Offline(S)' = Offline(S)
      /\ \A a, S : Parked(a, S)' = Parked(a, S)
    BY DEF vars, CurrentOf, Offline, Parked, MissedBy
<1>3. AskedByReply(L, A, ps, nums, tail) => AskedByReply(L, A, ps, nums, tail)'
    BY <1>1 DEF AskedByReply, NewReplyRow
<1>4. AskedByAgent(L, A, ps, nums, tail) => AskedByAgent(L, A, ps, nums, tail)'
    BY <1>1 DEF AskedByAgent
<1>5. AskedByAnswer(L, A, ps, nums, tail) => AskedByAnswer(L, A, ps, nums, tail)'
    <2> SUFFICES ASSUME AskedByAnswer(L, A, ps, nums, tail)
                 PROVE  AskedByAnswer(L, A, ps, nums, tail)'
        OBVIOUS
    <2>1. PICK a \in Agents, l \in Leads :
        \/ /\ Offered(a, l)
           /\ L = [lead EXCEPT ![l].status = "IN_PROGRESS"]
           /\ A = [agent EXCEPT ![a].status = "ON_CALL", ![a].current = l, ![a].misses = 0]
           /\ ps = {} /\ nums = {} /\ tail = "none"
        \/ /\ lead[l].status # "NONE"
           /\ L = CountPass(Requeue(lead, BackFrom(a, l)), BackFrom(a, l))
           /\ A = [agent EXCEPT ![a].current = NoLead, ![a].misses = 0]
           /\ ps = {a} \X BackFrom(a, l) /\ nums = {} /\ tail = "one"
        \/ /\ lead[l].status # "NONE"
           /\ \E d \in Dispositions :
                 /\ L = [lead EXCEPT ![l].status = "DISPOSITIONED", ![l].disp = d]
                 /\ nums = AddToDnc(l, d) \ dnc
           /\ A = [agent EXCEPT ![a].current = NoLead, ![a].status = "AVAILABLE"]
           /\ ps = {} /\ tail = "one"
        BY DEF AskedByAnswer
    <2>2. /\ lead' = lead /\ agent' = agent /\ dnc' = dnc
          /\ BackFrom(a, l)' = BackFrom(a, l) /\ (Offered(a, l)' <=> Offered(a, l))
          /\ \A d : AddToDnc(l, d)' = AddToDnc(l, d)
        BY <1>1
    <2>3. CASE /\ Offered(a, l)
               /\ L = [lead EXCEPT ![l].status = "IN_PROGRESS"]
               /\ A = [agent EXCEPT ![a].status = "ON_CALL", ![a].current = l, ![a].misses = 0]
               /\ ps = {} /\ nums = {} /\ tail = "none"
        BY <2>2, <2>3 DEF AskedByAnswer
    <2>4. CASE /\ lead[l].status # "NONE"
               /\ L = CountPass(Requeue(lead, BackFrom(a, l)), BackFrom(a, l))
               /\ A = [agent EXCEPT ![a].current = NoLead, ![a].misses = 0]
               /\ ps = {a} \X BackFrom(a, l) /\ nums = {} /\ tail = "one"
        BY <2>2, <2>4 DEF AskedByAnswer
    <2>5. CASE /\ lead[l].status # "NONE"
               /\ \E d \in Dispositions :
                     /\ L = [lead EXCEPT ![l].status = "DISPOSITIONED", ![l].disp = d]
                     /\ nums = AddToDnc(l, d) \ dnc
               /\ A = [agent EXCEPT ![a].current = NoLead, ![a].status = "AVAILABLE"]
               /\ ps = {} /\ tail = "one"
        <3>1. PICK d \in Dispositions :
                 /\ L = [lead EXCEPT ![l].status = "DISPOSITIONED", ![l].disp = d]
                 /\ nums = AddToDnc(l, d) \ dnc
            BY <2>5
        <3>2. /\ L = [lead' EXCEPT ![l].status = "DISPOSITIONED", ![l].disp = d]
              /\ nums = AddToDnc(l, d)' \ dnc'
              /\ A = [agent' EXCEPT ![a].current = NoLead, ![a].status = "AVAILABLE"]
              /\ lead'[l].status # "NONE"
            BY <2>2, <2>5, <3>1
        <3> QED BY <2>5, <3>2, ZenonT(30) DEF AskedByAnswer
    <2> QED BY <2>1, <2>3, <2>4, <2>5
<1>6. AskedByManager(L, A, ps, nums, tail) => AskedByManager(L, A, ps, nums, tail)'
    BY <1>1 DEF AskedByManager
<1>7. AskedBySweep(L, A, ps, nums, tail) => AskedBySweep(L, A, ps, nums, tail)'
    BY <1>1, <1>2 DEF AskedBySweep
<1> QED BY <1>3, <1>4, <1>5, <1>6, <1>7 DEF Asked

-----------------------------------------------------------------------------
(* How far the assigner has come *)

\* The tables K and E were asked for, and one round of the assigner made L and A of them.
OneDealt(K, E, L, A, P, B) ==
    \/ Takers(K, E, P, B) = {} /\ L = K /\ A = E
    \/ \E a \in Takers(K, E, P, B), l \in Leads :
          /\ FirstOf(l, Choices(a, K, P, B))
          /\ L = OneOffer(K, a, l) /\ A = OneTaken(E, a, l)

ManyDealt(K, E, L, A, P, B) ==
    \E m : InTurn(m, K, E, P, B) /\ Given(m, K, E, L, A)

\* Of the rounds asked for, those of tail are still to come.
Dealt(K, E, rounds, L, A, P, B, tail) ==
    \/ rounds \in {"none", "one"} /\ tail = rounds /\ L = K /\ A = E
    \/ rounds = "one" /\ tail = "none" /\ OneDealt(K, E, L, A, P, B)
    \/ /\ rounds = "all" /\ tail \in {"all", "none"} /\ ManyDealt(K, E, L, A, P, B)
       /\ tail = "none" => Takers(L, A, P, B) = {}

LEMMA NothingDealt ==
    ASSUME NEW K \in [Leads -> LeadRow], NEW E \in [Agents -> AgentRow], NEW P, NEW B,
           NEW rounds \in {"none", "one", "all"}
    PROVE  Dealt(K, E, rounds, K, E, P, B, rounds)
BY NoRounds DEF Dealt, ManyDealt

LEMMA NobodyToDeal ==
    ASSUME NEW K, NEW E, NEW rounds, NEW L, NEW A, NEW P, NEW B, NEW tail, tail # "none",
           Dealt(K, E, rounds, L, A, P, B, tail), Takers(L, A, P, B) = {}
    PROVE  Dealt(K, E, rounds, L, A, P, B, "none")
BY DEF Dealt, OneDealt

LEMMA OneMoreDealt ==
    ASSUME NEW K \in [Leads -> LeadRow], NEW E \in [Agents -> AgentRow], NEW rounds,
           NEW L, NEW A, NEW P, NEW B, NEW tail, tail # "none",
           Dealt(K, E, rounds, L, A, P, B, tail),
           NEW a \in Takers(L, A, P, B), NEW l \in Leads, FirstOf(l, Choices(a, L, P, B))
    PROVE  Dealt(K, E, rounds, OneOffer(L, a, l), OneTaken(A, a, l), P, B,
                 IF tail = "one" THEN "none" ELSE tail)
<1>1. CASE rounds = "one" /\ tail = "one" /\ L = K /\ A = E
    <2>1. OneDealt(K, E, OneOffer(L, a, l), OneTaken(A, a, l), P, B)
        BY <1>1 DEF OneDealt
    <2> QED BY <1>1, <2>1 DEF Dealt
<1>2. CASE rounds = "all" /\ tail = "all" /\ ManyDealt(K, E, L, A, P, B)
    <2>1. PICK m : InTurn(m, K, E, P, B) /\ Given(m, K, E, L, A)
        BY <1>2 DEF ManyDealt
    <2>2. \E k : InTurn(k, K, E, P, B) /\ Given(k, K, E, OneOffer(L, a, l), OneTaken(A, a, l))
        BY <2>1, OneMoreRound
    <2>3. ManyDealt(K, E, OneOffer(L, a, l), OneTaken(A, a, l), P, B)
        BY <2>2 DEF ManyDealt
    <2> QED BY <1>2, <2>3 DEF Dealt
<1> QED BY <1>1, <1>2 DEF Dealt

LEMMA OneHanded ==
    ASSUME NEW K \in [Leads -> LeadRow], NEW E \in [Agents -> AgentRow],
           NEW a \in Agents, NEW l \in Leads
    PROVE  Given([x \in {a} |-> l], K, E, OneOffer(K, a, l), OneTaken(E, a, l))
<1> DEFINE m == [x \in {a} |-> l]
           M == OneOffer(K, a, l)
           F == OneTaken(E, a, l)
<1>1. DOMAIN m = {a} /\ m[a] = l /\ m \in [DOMAIN m -> Leads]
    OBVIOUS
<1>2. /\ M \in [Leads -> LeadRow] /\ M[l] = OfferedTo(K[l], a)
      /\ \A j \in Leads \ {l} : M[j] = K[j]
      /\ F \in [Agents -> AgentRow] /\ F[a] = WithLead(E[a], l)
      /\ \A b \in Agents \ {a} : F[b] = E[b]
    BY OneRow
<1> HIDE DEF m, M, F
<1>3. GivenRows(m, K, E, M, F)
    BY <1>1, <1>2 DEF GivenRows
<1>4. Given(m, K, E, M, F)
    BY <1>1, <1>3, GivenByRow
<1> QED BY <1>4 DEF m, M, F

\* With no round to come, what is committed is what TryAssign and TryAssignAll make.
LEMMA AllDealt ==
    ASSUME NEW K \in [Leads -> LeadRow], NEW E \in [Agents -> AgentRow],
           NEW rounds, NEW P, NEW B, Dealt(K, E, rounds, lead', agent', P, B, "none")
    PROVE  /\ rounds = "none" => lead' = K /\ agent' = E
           /\ rounds = "one"  => TryAssign(K, E, P, B)
           /\ rounds = "all"  => TryAssignAll(K, E, P, B)
<1>1. rounds = "none" => lead' = K /\ agent' = E
    BY DEF Dealt
<1>2. ASSUME rounds = "one" PROVE TryAssign(K, E, P, B)
    <2>1. OneDealt(K, E, lead', agent', P, B)
        BY <1>2 DEF Dealt
    <2>2. CASE Takers(K, E, P, B) = {} /\ lead' = K /\ agent' = E
        BY <2>2 DEF TryAssign, Takers
    <2>3. ASSUME NEW a \in Takers(K, E, P, B), NEW l \in Leads,
                 FirstOf(l, Choices(a, K, P, B)),
                 lead' = OneOffer(K, a, l), agent' = OneTaken(E, a, l)
          PROVE  TryAssign(K, E, P, B)
        <3>1. a \in Agents
            BY DEF Takers, AvailableAgents
        <3>2. Given([x \in {a} |-> l], K, E, lead', agent')
            BY <2>3, <3>1, OneHanded
        <3>3. Hand([x \in {a} |-> l], K, E)
            BY <3>2 DEF Given, Hand, OfferedTo, WithLead, Holder
        <3> QED BY <2>3, <3>3 DEF TryAssign, Takers
    <2> QED BY <2>1, <2>2, <2>3 DEF OneDealt
<1>3. ASSUME rounds = "all" PROVE TryAssignAll(K, E, P, B)
    <2>1. ManyDealt(K, E, lead', agent', P, B) /\ Takers(lead', agent', P, B) = {}
        BY <1>3 DEF Dealt
    <2>2. PICK m : InTurn(m, K, E, P, B) /\ Given(m, K, E, lead', agent')
        BY <2>1 DEF ManyDealt
    <2>3. Deal(m, K, E, P, B)
        BY <2>1, <2>2, RoundsDone
    <2>4. Hand(m, K, E)
        BY <2>2 DEF Given, Hand, OfferedTo, WithLead, Holder
    <2>5. DOMAIN m \in SUBSET AvailableAgents(E) /\ m \in [DOMAIN m -> Leads]
        BY <2>2 DEF InTurn
    <2> QED BY <2>3, <2>4, <2>5 DEF TryAssignAll
<1> QED BY <1>1, <1>2, <1>3

-----------------------------------------------------------------------------
(* The invariant *)

\* The tables as a session with the state t sees them, what it has yet to flush included.
LeadsSeen(t) == LeadsWith(LeadsWith(lead, t.lw), t.plw)
AgentsSeen(t) == AgentsWith(AgentsWith(agent, t.aw), t.paw)

\* Some operation's tables were asked for, and rounds of the assigner make what it sees.
Runs(t) ==
    \E K \in [Leads -> LeadRow], E \in [Agents -> AgentRow],
       rounds \in {"none", "one", "all"} :
        /\ Asked(K, E, t.ps, t.nums, rounds)
        /\ Dealt(K, E, rounds, LeadsSeen(t), AgentsSeen(t), passed \cup t.ps, batch, t.tail)

AllFlushed(t) == t.plw = NoLeadWrites /\ t.paw = NoAgentWrites

RunInv ==
    \A s \in Sessions : /\ tx[s].pc # "idle" => Runs(tx[s])
                        /\ tx[s].pc = "open" => AllFlushed(tx[s])

LEMMA AskedRounds ==
    ASSUME NEW L, NEW A, NEW ps, NEW nums, NEW tail, Asked(L, A, ps, nums, tail)
    PROVE  tail \in {"none", "one", "all"}
BY DEF Asked, AskedByReply, AskedByAgent, AskedByAnswer, AskedByManager, AskedBySweep

LEMMA DealtStays ==
    ASSUME NEW K, NEW E, NEW rounds, NEW L, NEW A, NEW P, NEW B, NEW tail,
           Dealt(K, E, rounds, L, A, P, B, tail), UNCHANGED vars
    PROVE  Dealt(K, E, rounds, L, A, P, B, tail)'
<1>1. \A X : AvailableAgents(X)' = AvailableAgents(X)
    BY DEF AvailableAgents, vars
<1>2. \A X, Y : Takers(X, Y, P, B)' = Takers(X, Y, P, B)
    BY <1>1 DEF Takers
<1>3. OneDealt(K, E, L, A, P, B) => OneDealt(K, E, L, A, P, B)'
    BY <1>2 DEF OneDealt
<1>4. ManyDealt(K, E, L, A, P, B) => ManyDealt(K, E, L, A, P, B)'
    BY <1>1 DEF ManyDealt, InTurn
<1> QED BY <1>2, <1>3, <1>4 DEF Dealt

\* Nothing committed changes and the one session comes to t.
LEMMA RunStep ==
    ASSUME OneSession, tx \in [Sessions -> Session], NEW s \in Sessions, NEW t,
           tx' = [tx EXCEPT ![s] = t], UNCHANGED vars,
           t.pc # "idle" => Runs(t), t.pc = "open" => AllFlushed(t)
    PROVE  RunInv'
<1>1. \A u \in Sessions : tx'[u] = t
    BY DEF OneSession
<1>2. AllFlushed(t) => AllFlushed(t)'
    BY DEF AllFlushed
<1>3. ASSUME Runs(t) PROVE Runs(t)'
    <2>1. PICK K \in [Leads -> LeadRow], E \in [Agents -> AgentRow],
          rounds \in {"none", "one", "all"} :
             /\ Asked(K, E, t.ps, t.nums, rounds)
             /\ Dealt(K, E, rounds, LeadsSeen(t), AgentsSeen(t), passed \cup t.ps, batch, t.tail)
        BY <1>3 DEF Runs
    <2>2. Asked(K, E, t.ps, t.nums, rounds)'
        BY <2>1, AskedStays
    <2>3. /\ LeadsSeen(t)' = LeadsSeen(t) /\ AgentsSeen(t)' = AgentsSeen(t)
          /\ passed' = passed /\ batch' = batch
        BY DEF LeadsSeen, AgentsSeen, vars
    <2>4. PICK L, A, P, B : /\ L = LeadsSeen(t) /\ A = AgentsSeen(t)
                            /\ P = passed \cup t.ps /\ B = batch
        OBVIOUS
    <2>5. Dealt(K, E, rounds, L, A, P, B, t.tail)'
        BY <2>1, <2>4, DealtStays
    <2>6. /\ L = LeadsSeen(t)' /\ A = AgentsSeen(t)'
          /\ P = passed' \cup t.ps /\ B = batch'
        BY <2>3, <2>4
    <2> QED BY <2>2, <2>5, <2>6 DEF Runs
<1>4. \A u \in Sessions : (t.pc # "idle" => Runs(t)') /\ (t.pc = "open" => AllFlushed(t)')
    BY <1>2, <1>3
<1>5. ASSUME NEW u \in Sessions
      PROVE  (tx[u].pc # "idle" => Runs(tx[u]))' /\ (tx[u].pc = "open" => AllFlushed(tx[u]))'
    <2>1. tx'[u] = t
        BY <1>1
    <2>2. (Runs(tx[u]))' <=> Runs(t)'
        BY <2>1 DEF Runs, LeadsSeen, AgentsSeen
    <2>3. (AllFlushed(tx[u]))' <=> AllFlushed(t)'
        BY <2>1 DEF AllFlushed
    <2> QED BY <1>4, <2>1, <2>2, <2>3
<1> QED BY <1>5 DEF RunInv

LEMMA RunBegin ==
    ASSUME OneSession, TxTypeOK, NEW s \in Sessions, BeginSome(s)
    PROVE  RunInv'
<1>1. TypeOK /\ tx \in [Sessions -> Session]
    BY DEF TxTypeOK
<1>2. PICK op, L, A, ps, nums, tail :
          Begin(s, op, L, A, ps, nums, tail) /\ Asked(L, A, ps, nums, tail) /\ Typed(L, A)
    BY <1>1, SomeBegun DEF Begun
<1> DEFINE t == [Idle EXCEPT !.pc = "loaded", !.op = op, !.tail = tail,
                             !.plw = LeadWrites(lead, L), !.paw = AgentWrites(agent, A),
                             !.ps = ps, !.nums = nums]
<1>3. tx' = [tx EXCEPT ![s] = t] /\ UNCHANGED vars
    BY <1>2 DEF Begin
<1>4. /\ t.pc = "loaded" /\ t.tail = tail /\ t.ps = ps /\ t.nums = nums
      /\ t.lw = NoLeadWrites /\ t.aw = NoAgentWrites
      /\ t.plw = LeadWrites(lead, L) /\ t.paw = AgentWrites(agent, A)
    BY DEF Idle
<1> HIDE DEF t
<1>5. /\ lead \in [Leads -> LeadRow] /\ agent \in [Agents -> AgentRow]
      /\ L \in [Leads -> LeadRow] /\ A \in [Agents -> AgentRow]
    BY <1>1, <1>2 DEF TypeOK, Typed
<1>6. LeadsSeen(t) = L /\ AgentsSeen(t) = A
    BY <1>4, <1>5, LeadsUnwritten, LeadsWritten, AgentsUnwritten, AgentsWritten
       DEF LeadsSeen, AgentsSeen
<1>7. Dealt(L, A, tail, L, A, passed \cup ps, batch, tail)
    BY <1>2, <1>5, AskedRounds, NothingDealt
<1>8. Runs(t)
    <2>1. tail \in {"none", "one", "all"}
        BY <1>2, AskedRounds
    <2> QED BY <1>2, <1>4, <1>5, <1>6, <1>7, <2>1 DEF Runs
<1> QED BY <1>1, <1>3, <1>4, <1>8, RunStep

LEMMA RunFlush ==
    ASSUME OneSession, TxTypeOK, RunInv, NEW s \in Sessions, Flush(s)
    PROVE  RunInv'
<1> DEFINE r == tx[s]
           t == [r EXCEPT !.pc = "open",
                          !.lw = LeadsWith(r.lw, r.plw), !.plw = NoLeadWrites,
                          !.aw = AgentsWith(r.aw, r.paw), !.paw = NoAgentWrites]
<1>1. /\ tx \in [Sessions -> Session] /\ r \in Session
      /\ lead \in [Leads -> LeadRow] /\ agent \in [Agents -> AgentRow]
    BY DEF TxTypeOK, TypeOK
<1>2. tx' = [tx EXCEPT ![s] = t] /\ UNCHANGED vars /\ r.pc # "idle"
    BY DEF Flush
<1>3. Runs(r)
    BY <1>2 DEF RunInv
<1>4. /\ r.lw \in [Leads -> LeadWrite] /\ r.plw \in [Leads -> LeadWrite]
      /\ r.aw \in [Agents -> AgentWrite] /\ r.paw \in [Agents -> AgentWrite]
    BY <1>1 DEF Session
<1>5. /\ t.pc = "open" /\ t.tail = r.tail /\ t.ps = r.ps /\ t.nums = r.nums
      /\ t.lw = LeadsWith(r.lw, r.plw) /\ t.plw = NoLeadWrites
      /\ t.aw = AgentsWith(r.aw, r.paw) /\ t.paw = NoAgentWrites
    BY <1>1 DEF Session
<1> HIDE DEF t, r
<1>6. LeadsSeen(t) = LeadsSeen(r)
    <2>1. LeadsWith(lead, t.lw) \in [Leads -> LeadRow]
        BY <1>1, <1>4, <1>5, LeadWritesOver, LeadsWithType
    <2>2. LeadsSeen(t) = LeadsWith(lead, LeadsWith(r.lw, r.plw))
        BY <1>5, <2>1, LeadsUnwritten DEF LeadsSeen
    <2> QED BY <2>2, LeadsTwice DEF LeadsSeen
<1>7. AgentsSeen(t) = AgentsSeen(r)
    <2>1. AgentsWith(agent, t.aw) \in [Agents -> AgentRow]
        BY <1>1, <1>4, <1>5, AgentWritesOver, AgentsWithType
    <2>2. AgentsSeen(t) = AgentsWith(agent, AgentsWith(r.aw, r.paw))
        BY <1>5, <2>1, AgentsUnwritten DEF AgentsSeen
    <2> QED BY <2>2, AgentsTwice DEF AgentsSeen
<1>8. Runs(t)
    BY <1>3, <1>5, <1>6, <1>7 DEF Runs
<1> QED BY <1>1, <1>2, <1>5, <1>8, RunStep DEF AllFlushed

LEMMA RunPick ==
    ASSUME OneSession, TxTypeOK, RunInv, NEW s \in Sessions, Pick(s)
    PROVE  RunInv'
<1> DEFINE r == tx[s]
           L == LeadsWith(lead, r.lw)
           A == AgentsWith(agent, r.aw)
           P == passed \cup r.ps
<1>1. /\ tx \in [Sessions -> Session] /\ r \in Session
      /\ lead \in [Leads -> LeadRow] /\ agent \in [Agents -> AgentRow]
    BY DEF TxTypeOK, TypeOK
<1>2. /\ r.pc = "open" /\ r.tail # "none" /\ UNCHANGED vars
      /\ \/ Takers(L, A, P, batch) = {} /\ tx' = [tx EXCEPT ![s].tail = "none"]
         \/ \E a \in Takers(L, A, P, batch), l \in Leads :
               FirstOf(l, Choices(a, L, P, batch)) /\ Offering(s, L, A, a, l)
    BY DEF Pick, Takers
<1>3. Runs(r) /\ AllFlushed(r)
    BY <1>2 DEF RunInv
<1>4. L \in [Leads -> LeadRow] /\ A \in [Agents -> AgentRow]
    BY <1>1, LeadsWithType, AgentsWithType DEF Session
<1>5. LeadsSeen(r) = L /\ AgentsSeen(r) = A
    BY <1>3, <1>4, LeadsUnwritten, AgentsUnwritten DEF LeadsSeen, AgentsSeen, AllFlushed
<1>6. PICK K \in [Leads -> LeadRow], E \in [Agents -> AgentRow],
          rounds \in {"none", "one", "all"} :
          Asked(K, E, r.ps, r.nums, rounds) /\ Dealt(K, E, rounds, L, A, P, batch, r.tail)
    BY <1>3, <1>5 DEF Runs
<1>7. CASE Takers(L, A, P, batch) = {} /\ tx' = [tx EXCEPT ![s].tail = "none"]
    <2> DEFINE t == [r EXCEPT !.tail = "none"]
    <2>1. tx' = [tx EXCEPT ![s] = t]
        BY <1>1, <1>7
    <2>2. /\ t.pc = "open" /\ t.tail = "none" /\ t.ps = r.ps /\ t.nums = r.nums
          /\ t.lw = r.lw /\ t.plw = r.plw /\ t.aw = r.aw /\ t.paw = r.paw
        BY <1>1, <1>2 DEF Session
    <2> HIDE DEF t, r
    <2>3. LeadsSeen(t) = L /\ AgentsSeen(t) = A /\ AllFlushed(t)
        BY <1>3, <1>5, <2>2 DEF LeadsSeen, AgentsSeen, AllFlushed
    <2>4. Dealt(K, E, rounds, L, A, P, batch, "none")
        BY <1>2, <1>6, <1>7, NobodyToDeal
    <2>5. Runs(t)
        BY <1>6, <2>2, <2>3, <2>4 DEF Runs
    <2> QED BY <1>1, <1>2, <2>1, <2>3, <2>5, RunStep
<1>8. ASSUME NEW a \in Takers(L, A, P, batch), NEW l \in Leads,
             FirstOf(l, Choices(a, L, P, batch)), Offering(s, L, A, a, l)
      PROVE  RunInv'
    <2> DEFINE left == IF r.tail = "one" THEN "none" ELSE r.tail
               t == [r EXCEPT !.pc = "offering", !.tail = left,
                              !.plw = LeadWrites(L, OneOffer(L, a, l)),
                              !.paw = AgentWrites(A, OneTaken(A, a, l))]
    <2>1. tx' = [tx EXCEPT ![s] = t]
        <3>1. tx' = [tx EXCEPT ![s].pc = "offering",
                               ![s].tail = IF @ = "one" THEN "none" ELSE @,
                               ![s].plw = LeadWrites(L, OneOffer(L, a, l)),
                               ![s].paw = AgentWrites(A, OneTaken(A, a, l))]
            BY <1>8 DEF Offering, OneOffer, OneTaken
        <3> QED BY <1>1, <3>1
    <2>2. /\ t.pc = "offering" /\ t.tail = left /\ t.ps = r.ps /\ t.nums = r.nums
          /\ t.lw = r.lw /\ t.plw = LeadWrites(L, OneOffer(L, a, l))
          /\ t.aw = r.aw /\ t.paw = AgentWrites(A, OneTaken(A, a, l))
        BY <1>1 DEF Session
    <2>3. a \in Agents
        BY DEF Takers, AvailableAgents
    <2> HIDE DEF t, left, r
    <2>4. OneOffer(L, a, l) \in [Leads -> LeadRow] /\ OneTaken(A, a, l) \in [Agents -> AgentRow]
        BY <1>4, <2>3, OneRow
    <2>5. LeadsSeen(t) = OneOffer(L, a, l)
        BY <1>4, <2>2, <2>4, LeadsWritten DEF LeadsSeen
    <2>6. AgentsSeen(t) = OneTaken(A, a, l)
        BY <1>4, <2>2, <2>4, AgentsWritten DEF AgentsSeen
    <2>7. Dealt(K, E, rounds, OneOffer(L, a, l), OneTaken(A, a, l), P, batch, left)
        BY <1>2, <1>6, <1>8, OneMoreDealt DEF left
    <2>8. Runs(t)
        BY <1>6, <2>2, <2>5, <2>6, <2>7 DEF Runs
    <2> QED BY <1>1, <1>2, <2>1, <2>2, <2>8, RunStep
<1> QED BY <1>2, <1>7, <1>8

LEMMA RunIdle ==
    ASSUME \A s \in Sessions : tx'[s] = Idle
    PROVE  RunInv'
<1>1. Idle.pc = "idle"
    BY DEF Idle
<1> QED BY <1>1 DEF RunInv

LEMMA RunRest ==
    ASSUME OneSession, TxTypeOK, RunInv, (\E s \in Sessions : Commit(s) \/ Rollback(s)) \/ PassAges
    PROVE  RunInv'
<1>1. tx \in [Sessions -> Session]
    BY DEF TxTypeOK
<1>2. ASSUME NEW s \in Sessions, Commit(s) PROVE RunInv'
    <2>1. \A u \in Sessions : tx'[u] = Idle
        BY <1>2 DEF Commit, OneSession
    <2> QED BY <2>1, RunIdle
<1>3. ASSUME NEW s \in Sessions, Rollback(s) PROVE RunInv'
    <2>1. \A u \in Sessions : tx'[u] = Idle
        BY <1>1, <1>3 DEF Rollback, OneSession
    <2> QED BY <2>1, RunIdle
<1>4. CASE PassAges
    <2>1. tx' = tx /\ \A s \in Sessions : tx[s].pc = "idle"
        BY <1>4 DEF PassAges
    <2> QED BY <2>1 DEF RunInv
<1> QED BY <1>2, <1>3, <1>4

LEMMA RunNext ==
    ASSUME OneSession, TxTypeOK, RunInv, [TxNext]_txVars
    PROVE  RunInv'
<1>1. CASE TxNext
    BY <1>1, RunBegin, RunFlush, RunPick, RunRest DEF TxNext
<1>2. CASE UNCHANGED txVars
    <2>1. CASE Sessions = {}
        BY <2>1 DEF RunInv
    <2>2. ASSUME NEW s \in Sessions PROVE RunInv'
        <3>1. tx \in [Sessions -> Session] /\ UNCHANGED vars /\ tx' = tx
            BY <1>2 DEF TxTypeOK, txVars, vars
        <3>2. PICK t : t = tx[s]
            OBVIOUS
        <3>3. tx' = [tx EXCEPT ![s] = t]
            BY <3>1, <3>2
        <3>4. (t.pc # "idle" => Runs(t)) /\ (t.pc = "open" => AllFlushed(t))
            BY <3>2 DEF RunInv
        <3> QED BY <3>1, <3>3, <3>4, RunStep
    <2> QED BY <2>1, <2>2
<1> QED BY <1>1, <1>2

-----------------------------------------------------------------------------
(* The steps of a session are a step of SmsQueue, or none *)

LEMMA CommitIsAStep ==
    ASSUME TxTypeOK, RunInv, NEW s \in Sessions, Commit(s)
    PROVE  Next
<1> DEFINE r == tx[s]
<1>1. r.pc = "open" /\ r.tail = "none" /\ Runs(r) /\ AllFlushed(r)
    BY DEF Commit, RunInv
<1>2. /\ lead \in [Leads -> LeadRow] /\ agent \in [Agents -> AgentRow] /\ r \in Session
    BY DEF TxTypeOK, TypeOK
<1>3. /\ lead' = LeadsWith(lead, r.lw) /\ agent' = AgentsWith(agent, r.aw)
      /\ passed' = passed \cup r.ps /\ dnc' = dnc \cup r.nums /\ UNCHANGED <<batch, handCall>>
    BY DEF Commit
<1>4. lead' \in [Leads -> LeadRow] /\ agent' \in [Agents -> AgentRow]
    BY <1>2, <1>3, LeadsWithType, AgentsWithType DEF Session
<1>5. LeadsSeen(r) = lead' /\ AgentsSeen(r) = agent'
    BY <1>1, <1>3, <1>4, LeadsUnwritten, AgentsUnwritten DEF LeadsSeen, AgentsSeen, AllFlushed
<1>6. PICK K \in [Leads -> LeadRow], E \in [Agents -> AgentRow],
          rounds \in {"none", "one", "all"} :
          /\ Asked(K, E, r.ps, r.nums, rounds)
          /\ Dealt(K, E, rounds, lead', agent', passed \cup r.ps, batch, "none")
    BY <1>1, <1>5 DEF Runs
<1>7. /\ rounds = "none" => lead' = K /\ agent' = E
      /\ rounds = "one"  => TryAssign(K, E, passed \cup r.ps, batch)
      /\ rounds = "all"  => TryAssignAll(K, E, passed \cup r.ps, batch)
    BY <1>6, AllDealt
<1>8. Done(K, E, r.ps, r.nums, rounds)
    BY <1>3, <1>7 DEF Done
<1> QED BY <1>6, <1>8, AskedDone

LEMMA StepIsAStep ==
    ASSUME TxTypeOK, RunInv, [TxNext]_txVars
    PROVE  [Next]_vars
<1>1. ASSUME NEW s \in Sessions, BeginSome(s) PROVE UNCHANGED vars
    <2>1. TypeOK
        BY DEF TxTypeOK
    <2>2. Begun(s)
        BY <1>1, <2>1, SomeBegun
    <2> QED BY <2>2 DEF Begun, Begin
<1>2. ASSUME NEW s \in Sessions, Flush(s) \/ Pick(s) \/ Rollback(s) PROVE UNCHANGED vars
    BY <1>2 DEF Flush, Pick, Rollback
<1>3. ASSUME NEW s \in Sessions, Commit(s) PROVE Next
    BY <1>3, CommitIsAStep
<1>4. CASE PassAges
    BY <1>4 DEF PassAges, Next
<1>5. CASE UNCHANGED txVars
    BY <1>5 DEF txVars, vars
<1> QED BY <1>1, <1>2, <1>3, <1>4, <1>5 DEF TxNext

\* A transaction that runs alone is one operation of SmsQueue: what it reads, flushes
\* column by column and lets the assigner write round by round comes to the one step
\* that the operation is there, whatever else it does becomes visible to nobody, and a
\* rollback is no step at all.  With more sessions it is not so (SmsQueueTxOverlap).
THEOREM TxImplementsQueue ==
    ASSUME OneSession
    PROVE  TxSpec => ImplementsQueue
<1>1. TxInit => Init /\ RunInv
    <2>1. Idle.pc = "idle"
        BY DEF Idle
    <2> QED BY <2>1 DEF TxInit, RunInv
<1>2. TxTypeOK /\ RunInv /\ [TxNext]_txVars => RunInv'
    BY RunNext
<1>3. TxTypeOK /\ RunInv /\ [TxNext]_txVars => [Next]_vars
    BY StepIsAStep
<1>4. TxSpec => []RunInv
    BY <1>1, <1>2, TxTypeCorrect, PTL DEF TxSpec
<1> QED BY <1>1, <1>3, <1>4, TxTypeCorrect, PTL DEF TxSpec, ImplementsQueue, Spec

=============================================================================
