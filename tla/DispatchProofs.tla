---------------------------- MODULE DispatchProofs ----------------------------
(***************************************************************************)
(* A wave of solve_v3 calls for any number of solvers and permits and any  *)
(* deadlines: permits are conserved, and the commit keeps its reserve.     *)
(***************************************************************************)
EXTENDS Dispatch, FiniteSetTheorems, TLAPS

N == Cardinality(Solvers)
Sending == {s \in Solvers : at[s] = "sending"}

\* A permit is out exactly while its solver sends.
ReleasedTells == \A s \in Solvers : released[s] <=> at[s] \notin {"queued", "sending"}

\* The gate serves solvers in order: those from some solver on still wait for it.
Fifo == \E k \in 1..N + 1 : \A s \in Solvers : at[s] = "queued" <=> s >= k

\* Timers end in time for the commit, and the clock has not passed one.
TimersInTime ==
    /\ expires >= MinLease
    /\ \A s \in Solvers :
        /\ at[s] = "sending" => now <= sendBy[s] /\ sendBy[s] <= endBy[s]
        /\ at[s] = "waiting" => now <= endBy[s]
        /\ at[s] \in {"sending", "waiting"} => endBy[s] <= expires - Reserve

\* The queue moves: whoever waits has waited for those before it, Capacity of
\* them at a time, for at most SendBudget each.
QueueMoves ==
    \A s \in Solvers :
        /\ at[s] = "queued" => Capacity * now <= (s - 1) * SendBudget
        /\ at[s] = "sending" => Capacity * sendBy[s] <= (s - 1 + Capacity) * SendBudget

Inv == PermitsConserved /\ ReleasedTells /\ Fifo /\ TimersInTime /\ QueueMoves
-----------------------------------------------------------------------------
LEMMA Sizes == N \in Nat /\ Solvers = 1..N /\ IsFiniteSet(Solvers)
  BY DispatchAssumption, FS_CardinalityType DEF N

\* Products that the arithmetic of the queue compares.
LEMMA ProductMonotone ==
    ASSUME NEW a \in Nat, NEW b \in Int, NEW c \in Int, b <= c
    PROVE  a * b <= a * c /\ b * a <= c * a
  OBVIOUS

LEMMA ProductCancels ==
    ASSUME NEW a \in Nat \ {0}, NEW b \in Int, NEW c \in Int, a * b <= a * c
    PROVE  b <= c
  OBVIOUS

LEMMA LessTransitive ==
    ASSUME NEW a \in Int, NEW b \in Int, NEW c \in Int, NEW d \in Int, a <= b, b <= c, c <= d
    PROVE  a <= d
  OBVIOUS

\* Capacity senders before s include one that is at least Capacity places ahead.
LEMMA SomeSenderAhead ==
    ASSUME NEW S, NEW s \in Nat, S \subseteq 1..s - 1, Cardinality(S) = Capacity
    PROVE  \E m \in S : m <= s - Capacity
<1> DEFINE a == s - Capacity + 1
           b == s - 1
<1> SUFFICES ASSUME \A m \in S : m > s - Capacity PROVE FALSE
  BY DispatchAssumption
<1>1. S \subseteq a..b
  BY DispatchAssumption
<1>2. a \in Int /\ b \in Int /\ b - a + 1 = Capacity - 1 /\ (a > b => Capacity = 1)
  BY DispatchAssumption
<1> HIDE DEF a, b
<1>3. IsFiniteSet(a..b) /\ Cardinality(a..b) = IF a > b THEN 0 ELSE b - a + 1
  BY <1>2, FS_Interval
<1>4. Cardinality(S) <= Cardinality(a..b)
  BY <1>1, <1>3, FS_Subset
<1>5. QED
  BY <1>2, <1>3, <1>4, DispatchAssumption

\* Who sends is a finite set, so its size is a number.
LEMMA SendingSize == IsFiniteSet(Sending) /\ Cardinality(Sending) \in Nat
  BY Sizes, FS_Subset, FS_CardinalityType DEF Sending

LEMMA InitInv == Init => Inv
<1> SUFFICES ASSUME Init PROVE Inv
  OBVIOUS
<1> USE DispatchAssumption, Sizes DEF Init
<1>1. TypeOK
  <2>1. released \in [Solvers -> BOOLEAN]
    OBVIOUS
  <2>2. QED
    BY <2>1 DEF TypeOK
<1>2. PermitsConserved
  <2>1. {s \in Solvers : at[s] = "sending"} = {}
    OBVIOUS
  <2>2. Cardinality({s \in Solvers : at[s] = "sending"}) = 0
    BY <2>1, FS_EmptySet
  <2>3. QED
    BY <1>1, <2>2 DEF PermitsConserved
<1>3. ReleasedTells
  BY DEF ReleasedTells
<1>4. Fifo
  <2>1. 1 \in 1..N + 1 /\ \A s \in Solvers : at[s] = "queued" <=> s >= 1
    OBVIOUS
  <2>2. QED
    BY <2>1 DEF Fifo
<1>5. TimersInTime
  BY DEF TimersInTime
<1>6. QueueMoves
  <2>1. \A s \in Solvers : Capacity * 0 <= (s - 1) * SendBudget
    BY SMT
  <2>2. QED
    BY <2>1 DEF QueueMoves
<1>7. QED
  BY <1>2, <1>3, <1>4, <1>5, <1>6 DEF Inv
-----------------------------------------------------------------------------
\* A solver that leaves the gate is the first of those that wait: after it the
\* queue begins one place later.
LEMMA GateInOrder ==
    ASSUME Inv, NEW s \in Solvers, FirstInLine(s), NEW p, p # "queued",
           at' = [at EXCEPT ![s] = p]
    PROVE  Fifo'
<1>1. PICK k \in 1..N + 1 : \A t \in Solvers : at[t] = "queued" <=> t >= k
  BY DEF Inv, Fifo
<1>2. s = k
  <2>1. at[s] = "queued" /\ s >= k
    BY <1>1 DEF FirstInLine, Queued
  <2>2. k \in Solvers /\ at[k] = "queued"
    BY <1>1, <2>1, Sizes
  <2>3. QED
    BY <2>1, <2>2, Sizes DEF FirstInLine, Queued
<1>3. s + 1 \in 1..N + 1
  BY Sizes
<1>4. \A t \in Solvers : at'[t] = "queued" <=> t >= s + 1
  BY <1>1, <1>2, Sizes DEF Inv, PermitsConserved, TypeOK
<1>5. QED
  BY <1>3, <1>4 DEF Fifo

\* Nobody sends who is behind one that waits.
LEMMA SendersAhead ==
    ASSUME Inv, NEW s \in Solvers, at[s] = "queued"
    PROVE  Sending \subseteq 1..s - 1
<1>1. PICK k \in 1..N + 1 : \A t \in Solvers : at[t] = "queued" <=> t >= k
  BY DEF Inv, Fifo
<1>2. QED
  BY <1>1, Sizes DEF Sending

\* While anybody waits there is a first.
LEMMA SomebodyFirst ==
    ASSUME Inv, NEW s \in Solvers, at[s] = "queued"
    PROVE  \E f \in Solvers : FirstInLine(f)
<1>1. PICK k \in 1..N + 1 : \A t \in Solvers : at[t] = "queued" <=> t >= k
  BY DEF Inv, Fifo
<1>2. k \in Solvers /\ FirstInLine(k)
  BY <1>1, Sizes DEF FirstInLine, Queued
<1>3. QED
  BY <1>2

\* A step that leaves the queue alone keeps its order.
LEMMA QueueKept ==
    ASSUME Inv, \A s \in Solvers : at'[s] = "queued" <=> at[s] = "queued"
    PROVE  Fifo'
  BY DEF Inv, Fifo
-----------------------------------------------------------------------------
\* What happens to the permits when one solver moves on.
LEMMA SenderLeaves ==
    ASSUME Inv, NEW s \in Solvers, NEW p, p # "sending", at' = [at EXCEPT ![s] = p]
    PROVE  Cardinality(Sending') =
             IF at[s] = "sending" THEN Cardinality(Sending) - 1 ELSE Cardinality(Sending)
<1>1. Sending' = Sending \ {s}
  BY DEF Sending, Inv, PermitsConserved, TypeOK
<1>2. s \in Sending <=> at[s] = "sending"
  BY DEF Sending
<1>3. Cardinality(Sending \ {s}) = IF s \in Sending THEN Cardinality(Sending) - 1 ELSE Cardinality(Sending)
  BY SendingSize, FS_RemoveElement
<1>4. QED
  BY <1>1, <1>2, <1>3

LEMMA SenderJoins ==
    ASSUME Inv, NEW s \in Solvers, at[s] = "queued", at' = [at EXCEPT ![s] = "sending"]
    PROVE  Cardinality(Sending') = Cardinality(Sending) + 1
<1>1. Sending' = Sending \cup {s} /\ s \notin Sending
  BY DEF Sending, Inv, PermitsConserved, TypeOK
<1>2. Cardinality(Sending \cup {s}) = IF s \in Sending THEN Cardinality(Sending) ELSE Cardinality(Sending) + 1
  BY SendingSize, FS_AddElement
<1>3. QED
  BY <1>1, <1>2

\* A release gives the permit back once, whoever asks for it again.
LEMMA ReleaseOnce ==
    ASSUME Inv, NEW s \in Solvers, NEW n \in Int, Release(s, n)
    PROVE  /\ released' = [released EXCEPT ![s] = TRUE]
           /\ released' \in [Solvers -> BOOLEAN]
           /\ free' = IF at[s] \in {"queued", "sending"} THEN n + 1 ELSE n
<1>1. released' = [released EXCEPT ![s] = TRUE]
  BY DEF Release
<1>2. released' \in [Solvers -> BOOLEAN]
  <2>1. released \in [Solvers -> BOOLEAN]
    BY DEF Inv, PermitsConserved, TypeOK
  <2>2. QED
    BY <1>1, <2>1
<1>3. released[s] <=> at[s] \notin {"queued", "sending"}
  BY DEF Inv, ReleasedTells
<1>4. QED
  BY <1>1, <1>2, <1>3 DEF Release

\* Every way out of solve_v3 after the gate, and the body stream on the way there.
LEMMA LeavingInv ==
    ASSUME Inv, NEW s \in Solvers, at[s] \in {"sending", "waiting"},
           NEW p \in {"waiting", "answered", "failed"}, p = "waiting" => at[s] = "sending",
           at' = [at EXCEPT ![s] = p], Release(s, free),
           UNCHANGED <<now, expires, sendBy, endBy, contacted>>
    PROVE  Inv'
<1> USE DispatchAssumption DEF Inv
<1>1. TypeOK
  BY DEF PermitsConserved
<1>2. free \in Int /\ free + Cardinality(Sending) = Capacity
  BY <1>1 DEF PermitsConserved, Sending, TypeOK
<1>3. /\ released' = [released EXCEPT ![s] = TRUE]
      /\ released' \in [Solvers -> BOOLEAN]
      /\ free' = IF at[s] = "sending" THEN free + 1 ELSE free
  BY <1>2, ReleaseOnce
<1>4. /\ free' + Cardinality(Sending') = Capacity
      /\ Cardinality(Sending') \in Nat
  <2>1. Cardinality(Sending') = IF at[s] = "sending" THEN Cardinality(Sending) - 1 ELSE Cardinality(Sending)
    BY SenderLeaves
  <2>2. at[s] = "sending" => Cardinality(Sending) # 0
    <3>1. at[s] = "sending" => Sending # {}
      BY DEF Sending
    <3>2. QED
      BY <3>1, SendingSize, FS_EmptySet
  <2>3. QED
    BY <1>2, <1>3, <2>1, <2>2, SendingSize
<1>5. TypeOK'
  <2>1. free' \in 0..Capacity
    BY <1>1, <1>3, <1>4 DEF TypeOK
  <2>2. QED
    BY <1>1, <1>3, <2>1 DEF TypeOK
<1>6. PermitsConserved'
  BY <1>4, <1>5 DEF PermitsConserved, Sending
<1>7. ReleasedTells'
  BY <1>1, <1>3 DEF ReleasedTells, TypeOK
<1>8. Fifo'
  <2>1. \A t \in Solvers : at'[t] = "queued" <=> at[t] = "queued"
    BY <1>1 DEF TypeOK
  <2>2. QED
    BY <2>1, QueueKept
<1>9. TimersInTime'
  BY <1>1 DEF TimersInTime, TypeOK
<1>10. QueueMoves'
  BY <1>1 DEF QueueMoves, TypeOK
<1>11. QED
  BY <1>6, <1>7, <1>8, <1>9, <1>10

LEMMA AcquireAndFailInv ==
    ASSUME Inv, NEW s \in Solvers, AcquireAndFail(s)
    PROVE  Inv'
<1> USE DispatchAssumption DEF Inv, AcquireAndFail
<1>1. TypeOK
  BY DEF PermitsConserved
<1>2. free \in Int /\ free - 1 \in Int /\ free + Cardinality(Sending) = Capacity
  BY <1>1 DEF PermitsConserved, Sending, TypeOK
<1>3. at[s] = "queued"
  BY DEF FirstInLine, Queued
<1>4. /\ released' = [released EXCEPT ![s] = TRUE]
      /\ released' \in [Solvers -> BOOLEAN]
      /\ free' = free
  BY <1>2, <1>3, ReleaseOnce
<1>5. TypeOK'
  BY <1>1, <1>4 DEF TypeOK
<1>6. PermitsConserved'
  <2>1. Cardinality(Sending') = Cardinality(Sending)
    BY <1>3, SenderLeaves
  <2>2. QED
    BY <1>2, <1>4, <1>5, <2>1 DEF PermitsConserved, Sending
<1>7. ReleasedTells'
  BY <1>1, <1>4 DEF ReleasedTells, TypeOK
<1>8. Fifo'
  BY GateInOrder
<1>9. TimersInTime'
  BY <1>1 DEF TimersInTime, TypeOK
<1>10. QueueMoves'
  BY <1>1 DEF QueueMoves, TypeOK
<1>11. QED
  BY <1>6, <1>7, <1>8, <1>9, <1>10

LEMMA AcquireAndSendInv ==
    ASSUME Inv, NEW s \in Solvers, AcquireAndSend(s)
    PROVE  Inv'
<1> USE DispatchAssumption DEF Inv
<1>1. TypeOK
  BY DEF PermitsConserved
<1>2. free \in Int /\ free + Cardinality(Sending) = Capacity
  BY <1>1 DEF PermitsConserved, Sending, TypeOK
<1>3. at[s] = "queued"
  BY DEF FirstInLine, Queued, AcquireAndSend
<1>4. LeaseBudget \in Int /\ LeaseBudget > 0 /\ Lesser(SolveDeadline, LeaseBudget) \in Nat \ {0}
  BY <1>1 DEF AcquireAndSend, LeaseBudget, Lesser, TypeOK
<1>5. TypeOK'
  BY <1>1, <1>4 DEF TypeOK, AcquireAndSend
<1>6. PermitsConserved'
  <2>1. Cardinality(Sending') = Cardinality(Sending) + 1
    BY <1>3, SenderJoins DEF AcquireAndSend
  <2>2. free' + Cardinality(Sending') = Capacity
    BY <1>2, <2>1, SendingSize DEF AcquireAndSend
  <2>3. QED
    BY <1>5, <2>2 DEF PermitsConserved, Sending
<1>7. ReleasedTells'
  BY <1>1, <1>3 DEF ReleasedTells, TypeOK, AcquireAndSend
<1>8. Fifo'
  BY GateInOrder DEF AcquireAndSend
<1>9. TimersInTime'
  <2>1. /\ sendBy'[s] = now + SendBudget
        /\ endBy'[s] = now + Lesser(SolveDeadline, LeaseBudget) + Grace
    BY <1>1 DEF AcquireAndSend, TypeOK
  <2>2. now <= sendBy'[s] /\ sendBy'[s] <= endBy'[s]
    BY <1>1, <1>4, <2>1 DEF TypeOK
  <2>3. endBy'[s] <= expires - Reserve
    BY <1>1, <1>4, <2>1 DEF TypeOK, Lesser, LeaseBudget
  <2>4. QED
    BY <1>1, <2>2, <2>3 DEF TimersInTime, TypeOK, AcquireAndSend
<1>10. QueueMoves'
  <2>1. Capacity * now <= (s - 1) * SendBudget
    BY <1>3 DEF QueueMoves
  <2>2. Capacity * (now + SendBudget) <= (s - 1 + Capacity) * SendBudget
    <3>1. Capacity * (now + SendBudget) = Capacity * now + Capacity * SendBudget
      BY <1>1 DEF TypeOK
    <3>2. (s - 1 + Capacity) * SendBudget = (s - 1) * SendBudget + Capacity * SendBudget
      BY Sizes
    <3>3. QED
      BY <1>1, <2>1, <3>1, <3>2, Sizes DEF TypeOK
  <2>3. QED
    BY <1>1, <2>2 DEF QueueMoves, TypeOK, AcquireAndSend
<1>11. QED
  BY <1>6, <1>7, <1>8, <1>9, <1>10

\* The clock moves only when nothing is due. Then every permit is out, and of the
\* Capacity solvers that send, one is Capacity places ahead of any that waits.
LEMMA TickInv ==
    ASSUME Inv, Tick
    PROVE  Inv'
<1> USE DispatchAssumption DEF Inv
<1>1. TypeOK
  BY DEF PermitsConserved
<1>2. TypeOK'
  BY <1>1 DEF TypeOK, Tick
<1>3. PermitsConserved'
  BY <1>2 DEF PermitsConserved, Tick
<1>4. ReleasedTells' /\ Fifo'
  BY DEF ReleasedTells, Fifo, Tick
<1>5. TimersInTime'
  BY <1>1 DEF TimersInTime, TypeOK, Tick, Due
<1>6. QueueMoves'
  <2>1. ASSUME NEW s \in Solvers, at[s] = "queued"
        PROVE  Capacity * (now + 1) <= (s - 1) * SendBudget
    <3>1. free = 0
      <4>1. PICK f \in Solvers : FirstInLine(f)
        BY <2>1, SomebodyFirst
      <4>2. ~(free > 0)
        BY <4>1 DEF Tick, Due
      <4>3. QED
        BY <1>1, <4>2 DEF TypeOK
    <3>2. Cardinality(Sending) = Capacity
      BY <3>1, SendingSize DEF PermitsConserved, Sending
    <3>3. s \in Nat /\ Sending \subseteq 1..s - 1
      BY <2>1, SendersAhead, Sizes
    <3>4. PICK m \in Sending : m <= s - Capacity
      BY <3>2, <3>3, SomeSenderAhead
    <3>5. m \in Solvers /\ at[m] = "sending" /\ m \in Int
      BY <3>4, Sizes DEF Sending
    <3>6. now + 1 <= sendBy[m] /\ sendBy[m] \in Nat /\ now \in Nat
      BY <1>1, <3>5 DEF Tick, Due, TypeOK
    <3>7. Capacity * (now + 1) <= Capacity * sendBy[m]
      BY <3>6, ProductMonotone
    <3>8. Capacity * sendBy[m] <= (m - 1 + Capacity) * SendBudget
      BY <3>5 DEF QueueMoves
    <3>9. (m - 1 + Capacity) * SendBudget <= (s - 1) * SendBudget
      <4>1. m - 1 + Capacity \in Int /\ s - 1 \in Int /\ m - 1 + Capacity <= s - 1
        BY <3>3, <3>4, <3>5
      <4>2. QED
        BY <4>1, ProductMonotone
    <3>10. /\ Capacity * (now + 1) \in Int /\ Capacity * sendBy[m] \in Int
           /\ (m - 1 + Capacity) * SendBudget \in Int /\ (s - 1) * SendBudget \in Int
      BY <3>3, <3>5, <3>6
    <3>11. QED
      BY <3>7, <3>8, <3>9, <3>10, LessTransitive
  <2>2. QED
    BY <2>1 DEF QueueMoves, Tick
<1>7. QED
  BY <1>3, <1>4, <1>5, <1>6

LEMMA NextInv == Inv /\ [Next]_vars => Inv'
<1> SUFFICES ASSUME Inv, [Next]_vars PROVE Inv'
  OBVIOUS
<1>1. ASSUME NEW s \in Solvers, BodyConsumed(s) PROVE Inv'
  BY <1>1, LeavingInv DEF BodyConsumed
<1>2. ASSUME NEW s \in Solvers, ExchangeEnds(s) PROVE Inv'
  <2>1. PICK p \in {"answered", "failed"} : at' = [at EXCEPT ![s] = p]
    BY <1>2 DEF ExchangeEnds
  <2>2. QED
    BY <1>2, <2>1, LeavingInv DEF ExchangeEnds
<1>3. ASSUME NEW s \in Solvers, TimesOut(s) PROVE Inv'
  BY <1>3, LeavingInv DEF TimesOut
<1>4. CASE UNCHANGED vars
  BY <1>4 DEF vars, Inv, PermitsConserved, TypeOK, ReleasedTells, Fifo, TimersInTime, QueueMoves
<1>5. QED
  BY <1>1, <1>2, <1>3, <1>4, AcquireAndFailInv, AcquireAndSendInv, TickInv
     DEF Next, Solve, Done

LEMMA Invariance == Spec => []Inv
  BY InitInv, NextInv, PTL DEF Spec

\* For every number of solvers, permits and deadlines, each permit of the send
\* gate is given back exactly once (solve_v3 and its body stream).
THEOREM PermitsAreConserved == Spec => []PermitsConserved
<1>1. Inv => PermitsConserved
  BY DEF Inv
<1>2. QED
  BY <1>1, Invariance, PTL

\* Whatever miners and the transport do, a wave is over when only the commit
\* reserve is left of the lease, if the minimum lease outlasts the queue at the
\* gate (DispatchAssumption).
THEOREM CommitKeepsReserve == Spec => []CommitReserveKept
<1>1. Inv => CommitReserveKept
  <2> SUFFICES ASSUME Inv, NEW s \in Solvers, ~Ended(s) PROVE now <= expires - Reserve
    BY DEF CommitReserveKept
  <2> USE DispatchAssumption
  <2>1. now \in Nat /\ expires \in Nat /\ expires >= MinLease
    BY DEF Inv, PermitsConserved, TypeOK, TimersInTime
  <2>2. CASE at[s] \in {"sending", "waiting"}
    BY <2>1, <2>2 DEF Inv, TimersInTime, PermitsConserved, TypeOK
  <2>3. CASE at[s] = "queued"
    <3>1. Capacity * now <= (s - 1) * SendBudget
      BY <2>3 DEF Inv, QueueMoves
    <3>2. (s - 1) * SendBudget <= N * SendBudget
      <4>1. s - 1 \in Int /\ N \in Int /\ s - 1 <= N
        BY Sizes
      <4>2. QED
        BY <4>1, ProductMonotone
    <3>3. N * SendBudget <= Capacity * (MinLease - Reserve)
      BY DEF N
    <3>4. Capacity * now <= Capacity * (MinLease - Reserve)
      BY <2>1, <3>1, <3>2, <3>3, Sizes
    <3>5. now <= MinLease - Reserve
      BY <2>1, <3>4, ProductCancels
    <3>6. QED
      BY <2>1, <3>5
  <2>4. QED
    BY <2>2, <2>3 DEF Ended, Inv, PermitsConserved, TypeOK
<1>2. QED
  BY <1>1, Invariance, PTL
=============================================================================
