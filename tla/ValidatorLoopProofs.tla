-------------------------- MODULE ValidatorLoopProofs --------------------------
(***************************************************************************)
(* The validator loop for all cadences, limits, pauses, rounds, outages:   *)
(* pauses and cadences are kept, and neither leasing nor weights starve.   *)
(***************************************************************************)
EXTENDS ValidatorLoop, TLAPS

\* The longest wait for a round that is not an outage.
LongestPause == Larger(RoundInterval, MaxDeferral + 2)

\* The pause in force covers what the server was granted, and was installed when
\* the last round ended. The anchor of the cadence is the last start.
PauseTells ==
    /\ owed > 0 => pause > owed
    /\ pause > 0 => sinceEnd + pause <= MaxDeferral + 1
    /\ pc = "round" => pause = None /\ sinceEnd = 0
    /\ sinceAnchor = sinceStart
    /\ sinceEnd <= sinceAnchor

\* How long ago the last round ended, place by place.
EndTells ==
    /\ pc # "poll" => outage = 0
    /\ pc \in {"weights", "sleep"} => sinceEnd < LongestPause
    /\ pc = "poll" => sinceEnd <= LongestPause + outage

\* How long ago weights were submitted, place by place.
SubmitTells ==
    /\ interval >= 1
    /\ ~roundsDone => sinceSubmit = 0
    /\ sinceSubmit <= sinceGate
    /\ pc # "poll" => sincePoll <= MaxRound
    /\ pc = "poll" => sinceSubmit <= interval + MaxRound + outage
    /\ pc = "round" => sinceSubmit <= interval + MaxRound + MaxOutage + sincePoll
    /\ pc = "weights" => sinceSubmit <= interval + 2 * MaxRound + MaxOutage
    /\ pc = "sleep" => sinceSubmit < interval + MaxRound

Inv == TypeOK /\ PauseTells /\ EndTells /\ SubmitTells
-----------------------------------------------------------------------------
LEMMA Constants ==
    /\ Old \in Nat /\ RoundInterval <= Old /\ MaxRound <= Old /\ LongestPause \in Nat
    /\ RoundInterval <= LongestPause /\ MaxDeferral + 2 <= LongestPause
    /\ \A limit \in {ChainLimit, None} :
          EffectiveWeightsInterval(limit) \in Nat /\ EffectiveWeightsInterval(limit) >= 1
  BY LoopAssumption DEF Old, LongestPause, Larger, EffectiveWeightsInterval, None

\* What one block does to the ages and to the pause.
LEMMA BlockPasses ==
    ASSUME TypeOK, OneBlockPasses
    PROVE  /\ sincePoll' \in 0..Old /\ sincePoll' <= sincePoll + 1
           /\ sincePoll < MaxRound => sincePoll' = sincePoll + 1
           /\ sinceAnchor' \in 0..Old /\ sinceGate' \in 0..Old /\ sinceStart' \in 0..Old
           /\ sinceEnd' \in 0..Old /\ sinceEnd' <= sinceEnd + 1
           /\ sinceSubmit' \in 0..Old /\ sinceSubmit' <= sinceSubmit + 1
           /\ ~roundsDone => sinceSubmit' = 0
           /\ sinceEnd <= sinceAnchor => sinceEnd' <= sinceAnchor'
           /\ sinceSubmit <= sinceGate => sinceSubmit' <= sinceGate'
           /\ sinceAnchor = sinceStart => sinceAnchor' = sinceStart'
           /\ pc = "round" => sinceEnd' = 0
           /\ pause' \in {None} \cup (0..(MaxDeferral + 1))
           /\ pause' = IF pause > 0 THEN pause - 1 ELSE pause
           /\ owed' \in 0..MaxDeferral /\ (owed' > 0 => owed' = owed - 1)
  BY LoopAssumption, Constants DEF TypeOK, OneBlockPasses, Older, Lesser, Larger, None

LEMMA InitInv == Init => Inv
<1> SUFFICES ASSUME Init PROVE Inv
  OBVIOUS
<1>1. roundsDone \in BOOLEAN
  BY DEF Init
<1>2. QED
  BY <1>1, LoopAssumption, Constants
     DEF Init, Inv, TypeOK, PauseTells, EndTells, SubmitTells, None

LEMMA NextInv == Inv /\ [Next]_vars => Inv'
<1> SUFFICES ASSUME Inv, [Next]_vars PROVE Inv'
  OBVIOUS
<1> USE LoopAssumption, Constants DEF Inv, TypeOK, PauseTells, EndTells, SubmitTells, None
<1>1. CASE PollFails
  <2>1. OneBlockPasses
    BY <1>1 DEF PollFails
  <2>2. QED
    BY <1>1, <2>1, BlockPasses DEF PollFails
<1>2. CASE StartRound
  BY <1>2 DEF StartRound, RoundDue, Deferred
<1>3. CASE NoRound
  BY <1>3 DEF NoRound, RoundDue, Deferred, RetryDue, ShouldRun
<1>4. CASE RoundRuns
  <2>1. OneBlockPasses
    BY <1>4 DEF RoundRuns
  <2>2. QED
    BY <1>4, <2>1, BlockPasses DEF RoundRuns
<1>5. CASE RoundEnds
  <2>1. roundsDone' \in BOOLEAN
    BY <1>5 DEF RoundEnds
  <2>2. QED
    BY <1>5, <2>1 DEF RoundEnds, DeferRoundsUntil, LeaseDeferral, Larger, Lesser
<1>6. CASE RoundRaises
  <2>1. roundsDone' \in BOOLEAN
    BY <1>6 DEF RoundRaises
  <2>2. QED
    BY <1>6, <2>1 DEF RoundRaises
<1>7. CASE SubmitWeights
  BY <1>7 DEF SubmitWeights
<1>8. CASE NoWeights
  <2>1. CASE roundsDone
    BY <1>8, <2>1 DEF NoWeights, WeightsDue, ShouldRun, ages
  <2>2. CASE ~roundsDone
    BY <1>8, <2>2 DEF NoWeights, ages
  <2>3. QED
    BY <2>1, <2>2
<1>9. CASE Sleep
  <2>1. OneBlockPasses
    BY <1>9 DEF Sleep
  <2>2. QED
    BY <1>9, <2>1, BlockPasses DEF Sleep
<1>10. CASE UNCHANGED vars
  BY <1>10 DEF vars
<1>11. QED
  BY <1>1, <1>2, <1>3, <1>4, <1>5, <1>6, <1>7, <1>8, <1>9, <1>10 DEF Next

LEMMA Invariance == Spec => []Inv
  BY InitInv, NextInv, PTL DEF Spec
-----------------------------------------------------------------------------
\* Only a poll starts a round.
LEMMA OnlyStartRound == [Next]_vars /\ pc' = "round" /\ pc # "round" => StartRound
  BY DEF Next, vars, PollFails, StartRound, NoRound, RoundRuns, RoundEnds, RoundRaises,
         SubmitWeights, NoWeights, Sleep

\* No round starts before the pause the server was granted is over, for any pause
\* it asks for (defer_rounds_until, lease_deferral_s).
THEOREM PauseIsKept == Spec => PacingObeyed
<1>1. Inv /\ [Next]_vars => [pc' = "round" /\ pc # "round" => owed = 0]_vars
  BY OnlyStartRound, LoopAssumption
     DEF Inv, TypeOK, PauseTells, StartRound, RoundDue, Deferred, None
<1>2. QED
  BY <1>1, Invariance, PTL DEF Spec, PacingObeyed

\* A round that does not end a pause starts RoundInterval blocks after the one
\* before it (should_run and its anchor).
THEOREM CadenceIsKept == Spec => CadenceKept
<1>1. Inv /\ [Next]_vars
        => [pc' = "round" /\ pc # "round" /\ ~RetryDue => sinceStart >= RoundInterval]_vars
  BY OnlyStartRound, LoopAssumption, Constants
     DEF Inv, TypeOK, PauseTells, StartRound, RoundDue, RetryDue, ShouldRun
<1>2. QED
  BY <1>1, Invariance, PTL DEF Spec, CadenceKept

\* However long a pause a server asks for and after any outage, the next round
\* starts in time (run_round and the cap on lease_deferral_s).
THEOREM LeasingIsNotSilenced == Spec => []LeasingNotSilenced
<1>1. Inv => LeasingNotSilenced
  BY LoopAssumption, Constants
     DEF Inv, TypeOK, PauseTells, EndTells, LeasingNotSilenced, LongestPause
<1>2. QED
  BY <1>1, Invariance, PTL

\* Between two submissions of weights lie at most their interval, two rounds and
\* an outage, also while rounds are paused (the weights gate of run).
THEOREM WeightsAreNotStarved == Spec => []WeightsNotStarved
<1>1. Inv => WeightsNotStarved
  BY LoopAssumption, Constants DEF Inv, TypeOK, SubmitTells, WeightsNotStarved
<1>2. QED
  BY <1>1, Invariance, PTL
=============================================================================
