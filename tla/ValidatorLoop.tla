---------------------------- MODULE ValidatorLoop ----------------------------
(***************************************************************************)
(* ValidatorNeuron.run of rlvr/neurons/validator.py: the loop that polls   *)
(* the block, starts rounds on their cadence or when a server-directed     *)
(* pause ends, and submits weights on another cadence.                     *)
(*                                                                         *)
(* Time advances in blocks. All times are kept relative to the present and *)
(* saturate, so behaviours are unbounded. A poll, a pause and a decision   *)
(* take no time of their own; what takes time says so.                     *)
(***************************************************************************)
EXTENDS Integers

CONSTANTS RoundInterval,   \* round_interval_blocks
          Configured,      \* policy.weights_interval_blocks
          ChainLimit,      \* the chain's weights rate limit
          Margin,          \* _WEIGHTS_RATE_LIMIT_MARGIN
          MaxDeferral,     \* MAX_LEASE_DEFERRAL_S
          MaxRetry,        \* bound: what a server can ask for
          MaxRound,        \* bound: blocks a round lasts
          MaxOutage        \* bound: consecutive polls that fail

ASSUME LoopAssumption ==
    /\ RoundInterval \in Nat \ {0} /\ Configured \in Nat \ {0}
    /\ ChainLimit \in Nat \ {0} /\ Margin \in Nat
    /\ MaxDeferral \in Nat /\ MaxRetry \in Nat
    /\ MaxRound \in Nat /\ MaxOutage \in Nat

None == -1
Larger(a, b) == IF a >= b THEN a ELSE b
Lesser(a, b) == IF a <= b THEN a ELSE b

\* effective_weights_interval for a limit the chain answered, None if it did not.
EffectiveWeightsInterval(limit) ==
    IF limit = None THEN Configured ELSE Larger(Configured, limit + Margin)

\* Ages beyond this are indistinguishable.
Old == Larger(RoundInterval, EffectiveWeightsInterval(ChainLimit)) + 2 * MaxRound
       + MaxOutage + MaxDeferral + 4

VARIABLES pc,          \* where run() is
          interval,    \* validator.weights_interval_blocks
          sincePoll,   \* age of the local `block`
          sinceAnchor, \* age of _last_run_block, Old when None
          sinceGate,   \* age of weights_gate._last_run_block, Old when None
          pause,       \* time left until _rounds_deferred_until, None when unset
          roundsDone,  \* rounds_done > 0
          outage,      \* polls that failed in a row
          sinceStart,  \* ghost: age of the last round start
          sinceEnd,    \* ghost: age of the last round end, 0 until the first
          sinceSubmit, \* ghost: age of the last weight submission, 0 before the first round
          owed         \* ghost: what is left of the pause the server was granted

vars == <<pc, interval, sincePoll, sinceAnchor, sinceGate, pause, roundsDone, outage,
          sinceStart, sinceEnd, sinceSubmit, owed>>
ages == <<sincePoll, sinceAnchor, sinceGate, pause, sinceStart, sinceEnd, sinceSubmit, owed>>

\* Startup reads the chain's limit once; a failed read falls back.
Init ==
    /\ pc = "poll"
    /\ interval \in {EffectiveWeightsInterval(ChainLimit), EffectiveWeightsInterval(None)}
    /\ sincePoll = 0 /\ sinceAnchor = Old /\ sinceGate = Old /\ pause = None
    /\ roundsDone = FALSE /\ outage = 0
    /\ sinceStart = Old /\ sinceEnd = 0 /\ sinceSubmit = 0 /\ owed = 0

Older(age) == Lesser(age + 1, Old)
OneBlockPasses ==
    /\ sincePoll' = Older(sincePoll)
    /\ sinceAnchor' = Older(sinceAnchor)
    /\ sinceGate' = Older(sinceGate)
    /\ pause' = IF pause > 0 THEN pause - 1 ELSE pause
    /\ sinceStart' = Older(sinceStart)
    /\ sinceEnd' = IF pc = "round" THEN 0 ELSE Older(sinceEnd)
    /\ sinceSubmit' = IF roundsDone THEN Older(sinceSubmit) ELSE 0
    /\ owed' = Larger(owed - 1, 0)

\* _current_block_with_recovery gave up; the loop sleeps and polls again.
PollFails ==
    /\ pc = "poll"
    /\ outage < MaxOutage
    /\ outage' = outage + 1
    /\ OneBlockPasses
    /\ UNCHANGED <<pc, interval, roundsDone>>

\* should_run(block, interval), read at an age of the block.
ShouldRun(since, age, every) == since = Old \/ since - age >= every

\* Faulty variant: a pause does not hold the cadence back.
DeferredNever == FALSE

RetryDue == pause = 0
Deferred == pause > 0
RoundDue == ~Deferred /\ (RetryDue \/ ShouldRun(sinceAnchor, 0, RoundInterval))

\* Faulty variant: a retry does not anchor the cadence.
StartRoundUnanchored ==
    /\ pc = "poll"
    /\ RoundDue
    /\ pc' = "round"
    /\ sinceAnchor' = IF RetryDue THEN sinceAnchor ELSE 0
    /\ pause' = None
    /\ sincePoll' = 0 /\ outage' = 0 /\ sinceStart' = 0 /\ sinceEnd' = 0
    /\ UNCHANGED <<interval, sinceGate, roundsDone, sinceSubmit, owed>>

\* A round starts. Both triggers anchor the cadence at this block, and the end of
\* a pause clears it before the callback runs.
StartRound ==
    /\ pc = "poll"
    /\ RoundDue
    /\ pc' = "round"
    /\ sinceAnchor' = 0
    /\ pause' = None
    /\ sincePoll' = 0 /\ outage' = 0 /\ sinceStart' = 0 /\ sinceEnd' = 0
    /\ UNCHANGED <<interval, sinceGate, roundsDone, sinceSubmit, owed>>

NoRound ==
    /\ pc = "poll"
    /\ ~RoundDue
    /\ pc' = "weights"
    /\ sincePoll' = 0 /\ outage' = 0
    /\ UNCHANGED <<interval, sinceAnchor, sinceGate, pause, roundsDone,
                   sinceStart, sinceEnd, sinceSubmit, owed>>

RoundRuns ==
    /\ pc = "round"
    /\ sincePoll < MaxRound
    /\ OneBlockPasses
    /\ UNCHANGED <<pc, interval, roundsDone, outage>>

\* Faulty variant: the server's pause is not capped.
LeaseDeferralUncapped(retryAfter) == retryAfter

\* lease_deferral_s and next_lease_not_before: the server's pause, capped, and a
\* cushion; defer_rounds_until only ever extends.
LeaseDeferral(retryAfter) == Lesser(retryAfter, MaxDeferral)
DeferRoundsUntil(wait) == pause' = Larger(pause, wait)

\* run_round returns: with a lease the pacing is untouched, without one the server
\* may have asked for a pause.
RoundEnds ==
    /\ pc = "round"
    /\ pc' = "weights"
    /\ roundsDone' = TRUE
    /\ sinceEnd' = 0
    /\ \/ UNCHANGED <<pause, owed>>
       \/ \E retryAfter \in 0..MaxRetry :
             /\ DeferRoundsUntil(LeaseDeferral(retryAfter) + 1)
             /\ owed' = LeaseDeferral(retryAfter)
    /\ UNCHANGED <<interval, sincePoll, sinceAnchor, sinceGate, outage,
                   sinceStart, sinceSubmit>>

\* Faulty variant: weights wait for the end of a pause.
WeightsDueUnpaused == roundsDone /\ pause = None /\ ShouldRun(sinceGate, sincePoll, interval)

\* The weights gate is asked about, and anchored at, the block polled before the
\* round ran.
WeightsDue == roundsDone /\ ShouldRun(sinceGate, sincePoll, interval)

\* submit_weights returns.  That it has too little evidence, or only zero weights, to
\* submit (_submit_local_weights) is not told apart from a submission: the gate is anchored
\* either way.  An exception of it, which ends the process as one of a round does
\* (RoundRaises), is left out.
SubmitWeights ==
    /\ pc = "weights"
    /\ WeightsDue
    /\ pc' = "sleep"
    /\ sinceGate' = sincePoll
    /\ sinceSubmit' = 0
    /\ UNCHANGED <<interval, sincePoll, sinceAnchor, pause, roundsDone, outage,
                   sinceStart, sinceEnd, owed>>

\* Faulty variant: asking moves the anchor.
NoWeightsAnchors ==
    /\ pc = "weights"
    /\ ~WeightsDue
    /\ pc' = "sleep"
    /\ sinceGate' = sincePoll
    /\ UNCHANGED <<interval, sincePoll, sinceAnchor, pause, roundsDone, outage,
                   sinceStart, sinceEnd, sinceSubmit, owed>>

NoWeights ==
    /\ pc = "weights"
    /\ ~WeightsDue
    /\ pc' = "sleep"
    /\ UNCHANGED <<interval, roundsDone, outage>> /\ UNCHANGED ages

\* Inclusion of the weights and the sleep at the end of the loop.
Sleep ==
    /\ pc = "sleep"
    /\ pc' = "poll"
    /\ OneBlockPasses
    /\ UNCHANGED <<interval, roundsDone, outage>>

\* An exception of the callback (metagraph.sync is not guarded) ends the process;
\* the supervisor of the deployment starts it again with nothing remembered.
RoundRaises ==
    /\ pc = "round"
    /\ pc' = "poll"
    /\ interval' \in {EffectiveWeightsInterval(ChainLimit), EffectiveWeightsInterval(None)}
    /\ sincePoll' = 0 /\ sinceAnchor' = Old /\ sinceGate' = Old /\ pause' = None
    /\ roundsDone' = FALSE /\ outage' = 0
    /\ sinceStart' = Old /\ sinceEnd' = 0 /\ sinceSubmit' = 0 /\ owed' = 0

Next ==
    \/ PollFails \/ StartRound \/ NoRound \/ RoundRuns \/ RoundEnds \/ RoundRaises
    \/ SubmitWeights \/ NoWeights \/ Sleep

Spec == Init /\ [][Next]_vars

\* The loop keeps running, and rounds that return keep happening.
FairSpec == Spec /\ WF_vars(Next) /\ SF_vars(RoundEnds)
-----------------------------------------------------------------------------
TypeOK ==
    /\ pc \in {"poll", "round", "weights", "sleep"}
    /\ interval \in Nat /\ roundsDone \in BOOLEAN
    /\ sincePoll \in 0..Old /\ sinceAnchor \in 0..Old /\ sinceGate \in 0..Old
    /\ sinceStart \in 0..Old /\ sinceEnd \in 0..Old /\ sinceSubmit \in 0..Old
    /\ pause \in {None} \cup (0..(MaxDeferral + 1)) /\ owed \in 0..MaxDeferral
    /\ outage \in 0..MaxOutage

\* The pause the server is granted is kept: no round starts before it is over,
\* whatever the block cadence says and however the pause was installed, including
\* one that arrives in answer to the retry of the previous pause.
PacingObeyed == [][ pc' = "round" /\ pc # "round" => owed = 0 ]_vars

\* A round not owed to the end of a pause starts at least RoundInterval blocks
\* after the round before it, also when that one was a retry.
CadenceKept ==
    [][ pc' = "round" /\ pc # "round" /\ ~RetryDue => sinceStart >= RoundInterval ]_vars

\* A server cannot silence leasing: however long a pause it asks for, and after
\* any outage of the block RPC, the next round starts within the larger of the
\* cadence and the capped pause.  The first conjunct is the type invariant.
LeasingNotSilenced ==
    /\ TypeOK
    /\ sinceEnd <= Larger(RoundInterval, MaxDeferral + 2) + MaxOutage + 1

\* Weights keep flowing, also while rounds are paused: once a round is done, the
\* time between two submissions is bounded by their interval, an outage and two
\* rounds: one that hides the interval's end, because the gate is asked about the
\* block polled before it, and one that starts before the gate is asked again.
WeightsNotStarved == sinceSubmit <= interval + 2 * MaxRound + MaxOutage + 1

\* Weights are submitted again and again, whatever pauses the server asks for and
\* however often a round ends the process, as long as rounds keep returning.
WeightsRecur == []<><<SubmitWeights>>_vars

\* "Apply the chain-derived rate-limit floor plus its fixed safety margin": no
\* two submissions are closer than the limit the chain answered.
WeightsSpaced ==
    [][ SubmitWeights /\ sinceSubmit # 0 /\ interval >= ChainLimit + Margin
          => sinceSubmit >= ChainLimit ]_vars
=============================================================================
