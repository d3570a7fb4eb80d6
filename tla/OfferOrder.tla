------------------------------ MODULE OfferOrder ------------------------------
(***************************************************************************)
(* Which miners the validator offers a task to, and in which order: the    *)
(* selection of rlvr/v3/selection.py and the order that round_callback of  *)
(* rlvr/neurons/decentralized.py keeps from one round to the next while    *)
(* the chain registers, permits and drops miners.                          *)
(***************************************************************************)
EXTENDS Integers, Sequences, FiniteSets, SequencesExt, Subsequences

CONSTANTS Miners,     \* the (uid, hotkey) registrations that can ever serve
          UidOf,      \* registration -> uid
          Owner,      \* the registration with the subnet owner's hotkey
          Limit,      \* CANDIDATE_LIMIT
          MaxChanges  \* bound: changes of the chain

\* What is assumed of the constants; evaluated in ValidatorParts.
OfferAssumption ==
    /\ IsFiniteSet(Miners) /\ Owner \in Miners
    /\ UidOf \in [Miners -> Nat]
    /\ Limit \in Nat \ {0} /\ MaxChanges \in Nat

Uids == {UidOf[m] : m \in Miners}

VARIABLES serving,    \* registrations that serve a miner axon, one per uid
          permit,     \* uids with a validator permit
          trust,      \* uid -> validator trust: zero, positive or not known
          order,      \* offer_state["order"]; <<>> stands for None as well
          phase,      \* "idle" or "round": the callback is in evaluate_round
          changes,    \* changes of the chain so far
          seen,       \* ghost: the eligible set of the last offer
          last,       \* ghost: the last offer
          earned      \* ghost: a fresh draw has been earned since the last offer

vars == <<serving, permit, trust, order, phase, changes, seen, last, earned>>

Registrations == {S \in SUBSET Miners : \A m, n \in S : UidOf[m] = UidOf[n] => m = n}

Init ==
    /\ serving \in Registrations
    /\ permit = {} /\ trust = [u \in Uids |-> "unknown"]
    /\ order = <<>> /\ phase = "idle" /\ changes = 0
    /\ seen = {} /\ last = <<>> /\ earned = TRUE

\* validating(): a permit with trust zero is a well-staked miner, a permit with
\* no trust entry counts as validating.
Validating(u) == u \in permit /\ trust[u] # "zero"

\* Faulty variant: the owner and the validators are filtered only from miners
\* that were not offered before.
EligibleMinersKept == {m \in serving : m \in Range(order) \/ (m # Owner /\ ~Validating(UidOf[m]))}

EligibleMiners == {m \in serving : m # Owner /\ ~Validating(UidOf[m])}

Cut(s) == SubSeq(s, 1, IF Len(s) < Limit THEN Len(s) ELSE Limit)

\* next_offer: the previous order without those no longer eligible, then the
\* newly eligible in random order, cut to the limit.
NextOffer(previous, eligible) ==
    LET kept == Where(previous, eligible)
    IN  {Cut(kept \o fresh) : fresh \in SetToSeqs(eligible \ Range(kept))}

\* The chain moves between two syncs of the metagraph.
ChainChanges ==
    /\ phase = "idle" /\ changes < MaxChanges
    /\ changes' = changes + 1
    /\ \/ serving' \in Registrations /\ UNCHANGED <<permit, trust>>
       \/ \E u \in Uids, t \in {"unknown", "zero", "positive"} :
            /\ permit' \in {permit \cup {u}, permit \ {u}}
            /\ trust' = [trust EXCEPT ![u] = t]
            /\ UNCHANGED serving
    /\ UNCHANGED <<order, phase, seen, last, earned>>

\* round_callback up to evaluate_round; with nothing to offer it returns and
\* leases nothing.
Offer ==
    /\ phase = "idle"
    /\ \E offered \in NextOffer(order, EligibleMiners) :
         /\ order' = offered
         /\ last' = offered
         /\ phase' = IF offered = <<>> THEN "idle" ELSE "round"
    /\ seen' = EligibleMiners
    /\ earned' = FALSE
    /\ UNCHANGED <<serving, permit, trust, changes>>

\* Faulty variant: any abandoned round drops the order.
RoundEndsReset(outcome) ==
    /\ phase = "round"
    /\ order' = <<>> /\ phase' = "idle"
    /\ earned' = (outcome \in {"completed", "QUORUM_NOT_MET"})
    /\ UNCHANGED <<serving, permit, trust, changes, seen, last>>

\* evaluate_round returns. Only a completed round and a quorum the miners
\* themselves missed earn a fresh draw.
RoundEnds(outcome) ==
    /\ phase = "round"
    /\ order' = IF outcome \in {"completed", "QUORUM_NOT_MET"} THEN <<>> ELSE order
    /\ phase' = "idle"
    /\ earned' = (outcome \in {"completed", "QUORUM_NOT_MET"})
    /\ UNCHANGED <<serving, permit, trust, changes, seen, last>>

\* The process dies: offer_state is only in memory.
Restart ==
    /\ order # <<>>
    /\ order' = <<>> /\ phase' = "idle" /\ earned' = TRUE
    /\ UNCHANGED <<serving, permit, trust, changes, seen, last>>

Next ==
    \/ ChainChanges \/ Offer \/ Restart
    \/ \E outcome \in {"completed", "QUORUM_NOT_MET", "abandoned"} : RoundEnds(outcome)

Spec == Init /\ [][Next]_vars
-----------------------------------------------------------------------------
TypeOK ==
    /\ serving \in Registrations /\ permit \subseteq Uids
    /\ trust \in [Uids -> {"unknown", "zero", "positive"}]
    /\ order \in UNION {[1..n -> Miners] : n \in 0..Limit}
    /\ phase \in {"idle", "round"} /\ changes \in 0..MaxChanges
    /\ seen \subseteq Miners /\ earned \in BOOLEAN

Before(s, m, n) == \E i, j \in 1..Len(s) : i < j /\ s[i] = m /\ s[j] = n

\* "nothing the server does to a lease can buy it a different one": while no
\* draw is earned, an offer to the same eligible miners is the same offer, and
\* of those eligible at both offers none overtakes another, whoever joined, left
\* or was abandoned in between.
NoDrawWithoutEarning ==
    [][Offer /\ ~earned =>
        /\ EligibleMiners = seen => last' = last
        /\ \A m, n \in EligibleMiners \cap seen :
             ~(Before(last, m, n) /\ Before(last', n, m))
        /\ \A m \in EligibleMiners \cap Range(last), n \in EligibleMiners \ Range(last) :
             ~Before(last', n, m)]_vars

\* A kept order is never stale when it is offered: it names each miner once, only
\* miners that this round's metagraph makes eligible (a new hotkey on a uid does
\* not inherit its predecessor's place), and as many of them as the limit allows.
OfferIsCurrent ==
    [][phase = "idle" /\ phase' = "round" =>
        /\ Range(order') \subseteq {m \in serving : m # Owner /\ ~Validating(UidOf[m])}
        /\ IsInjective(order')
        /\ Len(order') = IF Cardinality(EligibleMiners) < Limit
                         THEN Cardinality(EligibleMiners) ELSE Limit]_vars

\* What the order of offers promises (next_offer, round_callback): it is redrawn only
\* when a draw was earned, and never stale.
OffersFair == []TypeOK /\ NoDrawWithoutEarning /\ OfferIsCurrent
=============================================================================
