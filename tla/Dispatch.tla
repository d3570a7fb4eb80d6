------------------------------- MODULE Dispatch -------------------------------
(***************************************************************************)
(* One wave of solve_v3 calls of rlvr/neurons/live.py: every solver of the *)
(* pool runs at once and hands its request to the transport through the    *)
(* shared SendGate. Time is discrete. Timers and runnable coroutines are   *)
(* prompt: the clock does not pass a point where one of them is due.       *)
(***************************************************************************)
EXTENDS Integers, FiniteSets

CONSTANTS Solvers,        \* the solvers of the pool, 1..n in dispatch order
          Capacity,       \* validator_send_concurrency
          SolveDeadline,  \* solve_deadline_s
          Grace,          \* _SOLVE_DEADLINE_GRACE_S
          Reserve,        \* _COMMIT_RESERVE_S
          SendBudget,     \* _SEND_START_BUDGET_S
          MinLease,       \* policy.min_lease_s
          MaxExpires      \* bound: how long a lease can last

ASSUME DispatchAssumption ==
    /\ IsFiniteSet(Solvers) /\ Solvers = 1..Cardinality(Solvers)
    /\ Capacity \in Nat \ {0}
    /\ SolveDeadline \in Nat \ {0}
    /\ Grace \in Nat /\ Reserve \in 0..MinLease
    /\ SendBudget \in 1..Grace
    /\ MinLease \in Nat \ {0}
    /\ MaxExpires \in Nat
    \* The minimum lease outlasts the queue at the gate (128 miners, 32 permits,
    \* 6 s each, in 600 s less the reserve of 30 s).
    /\ Cardinality(Solvers) * SendBudget <= Capacity * (MinLease - Reserve)

VARIABLES now,       \* the clock; the wave starts at 0
          expires,   \* lease.expires_at
          free,      \* the value of the gate's BoundedSemaphore
          at,        \* solver -> where its coroutine is
          released,  \* solver -> _SendPermit._released
          sendBy,    \* solver -> end of the wait for the body to be consumed
          endBy,     \* solver -> overall_deadline
          contacted  \* ghost: solver -> when it left the gate with its request

vars == <<now, expires, free, at, released, sendBy, endBy, contacted>>

\* Round dispatches only while the lease leaves miners at least MinLease.
Init ==
    /\ now = 0
    /\ expires \in MinLease..MaxExpires
    /\ free = Capacity
    /\ at = [s \in Solvers |-> "queued"]
    /\ released = [s \in Solvers |-> FALSE]
    /\ sendBy = [s \in Solvers |-> 0]
    /\ endBy = [s \in Solvers |-> 0]
    /\ contacted = [s \in Solvers |-> -1]

Queued == {s \in Solvers : at[s] = "queued"}
FirstInLine(s) == s \in Queued /\ \A t \in Queued : s <= t

\* Faulty variants: a release that is not idempotent, one that does nothing.
ReleaseAgain(s, n) ==
    /\ released' = [released EXCEPT ![s] = TRUE]
    /\ free' = n + 1
ReleaseNothing(s, n) == UNCHANGED released /\ free' = n

\* permit.release() of a permit taken while the semaphore was at n.
Release(s, n) ==
    /\ released' = [released EXCEPT ![s] = TRUE]
    /\ free' = IF released[s] THEN n ELSE n + 1

\* Faulty variant: no time is kept for the commit.
LeaseBudgetUnreserved == expires - now - Grace

LeaseBudget == expires - now - Grace - Reserve
Lesser(a, b) == IF a <= b THEN a ELSE b

\* gate.acquire() serves waiters in order. Signing may fail, and a lease with no
\* time for the exchange, its grace and the commit is not dispatched at all:
\* both give the permit back at once.
AcquireAndFail(s) ==
    /\ FirstInLine(s) /\ free > 0
    /\ at' = [at EXCEPT ![s] = "failed"]
    /\ Release(s, free - 1)
    /\ UNCHANGED <<now, expires, sendBy, endBy, contacted>>

AcquireAndSend(s) ==
    /\ FirstInLine(s) /\ free > 0
    /\ LeaseBudget > 0
    /\ free' = free - 1
    /\ at' = [at EXCEPT ![s] = "sending"]
    /\ sendBy' = [sendBy EXCEPT ![s] = now + SendBudget]
    /\ endBy' = [endBy EXCEPT ![s] = now + Lesser(SolveDeadline, LeaseBudget) + Grace]
    /\ contacted' = [contacted EXCEPT ![s] = now]
    /\ UNCHANGED <<now, expires, released>>

\* The transport takes the body: body_stream sets body_consumed and, in its
\* finally clause, gives the permit back before the miner answers.
BodyConsumed(s) ==
    /\ at[s] = "sending"
    /\ at' = [at EXCEPT ![s] = "waiting"]
    /\ Release(s, free)
    /\ UNCHANGED <<now, expires, sendBy, endBy, contacted>>

\* exchange() returns a response or a failure, with the body sent or not; the
\* finally clause of solve_v3 gives the permit back (again).
ExchangeEnds(s) ==
    /\ at[s] \in {"sending", "waiting"}
    /\ \E outcome \in {"answered", "failed"} : at' = [at EXCEPT ![s] = outcome]
    /\ Release(s, free)
    /\ UNCHANGED <<now, expires, sendBy, endBy, contacted>>

\* Faulty variant: only the start of the request is timed.
TimesOutSending(s) ==
    /\ at[s] = "sending" /\ now >= sendBy[s]
    /\ at' = [at EXCEPT ![s] = "failed"]
    /\ Release(s, free)
    /\ UNCHANGED <<now, expires, sendBy, endBy, contacted>>

\* The body did not reach the transport in time, or the miner did not answer.
TimesOut(s) ==
    /\ \/ at[s] = "sending" /\ now >= sendBy[s]
       \/ at[s] = "waiting" /\ now >= endBy[s]
    /\ at' = [at EXCEPT ![s] = "failed"]
    /\ Release(s, free)
    /\ UNCHANGED <<now, expires, sendBy, endBy, contacted>>

Due(s) ==
    \/ FirstInLine(s) /\ free > 0
    \/ at[s] = "sending" /\ now >= sendBy[s]
    \/ at[s] = "waiting" /\ now >= endBy[s]

Ended(s) == at[s] \in {"answered", "failed"}

Tick ==
    /\ \A s \in Solvers : ~Due(s)
    /\ \E s \in Solvers : ~Ended(s)
    /\ now' = now + 1
    /\ UNCHANGED <<expires, free, at, released, sendBy, endBy, contacted>>

Done == (\A s \in Solvers : Ended(s)) /\ UNCHANGED vars

Solve(s) == AcquireAndFail(s) \/ AcquireAndSend(s) \/ BodyConsumed(s)
            \/ ExchangeEnds(s) \/ TimesOut(s)

Next == (\E s \in Solvers : Solve(s)) \/ Tick \/ Done

Spec == Init /\ [][Next]_vars

\* Time passes, and what is due happens. Miners owe nothing.
FairSpec ==
    /\ Spec
    /\ WF_vars(Tick)
    /\ \A s \in Solvers : WF_vars(AcquireAndFail(s) \/ AcquireAndSend(s)) /\ WF_vars(TimesOut(s))
-----------------------------------------------------------------------------
TypeOK ==
    /\ now \in Nat /\ expires \in Nat /\ free \in 0..Capacity
    /\ at \in [Solvers -> {"queued", "sending", "waiting", "answered", "failed"}]
    /\ released \in [Solvers -> BOOLEAN]
    /\ sendBy \in [Solvers -> Nat] /\ endBy \in [Solvers -> Nat]
    /\ contacted \in [Solvers -> Int]

\* Every permit is given back exactly once on every path out of solve_v3, although
\* both the body stream and the finally clause give it back: the free slots and
\* the requests still being sent add up to the capacity. One release too many
\* makes BoundedSemaphore raise, one too few starves every later dispatch.  The
\* first conjunct is the type invariant.
PermitsConserved ==
    /\ TypeOK
    /\ free + Cardinality({s \in Solvers : at[s] = "sending"}) = Capacity

\* "a silent miner pushes the commit past expiry" cannot happen: whoever answers,
\* stays silent, stalls the transport or waits for the gate, the wave is over
\* when only the commit reserve is left of the lease.
CommitReserveKept ==
    (\E s \in Solvers : ~Ended(s)) => now <= expires - Reserve

\* Every solve_v3 call returns.
EveryCallReturns == \A s \in Solvers : <>Ended(s)

\* "Every offered miner is contacted at once: a miner that waited for a dispatch
\* slot would get less than the released minimum window": the lease leaves every
\* contacted miner at least MinLease.
ContactedWithMinimum ==
    \A s \in Solvers : contacted[s] >= 0 => expires - contacted[s] >= MinLease
=============================================================================
