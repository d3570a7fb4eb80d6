----------------------------- MODULE SealedRound -----------------------------
(***************************************************************************)
(* What one round promises, without leases, transports, downloads, disks   *)
(* or grading slots: miners answer, the answers are sealed, and only then  *)
(* is the verifier known; the round judges every miner of its pool at once *)
(* or nobody, and equal answers get equal verdicts.                        *)
(***************************************************************************)
CONSTANTS Pool,      \* the miners the validator drew
          Contents,  \* what a miner can submit
          NoAnswer,
          Verdicts   \* what a submission can earn; "rejected" is one

VARIABLES phase,    \* open, sealed, judged or void
          answers,  \* miner -> content it is bound to
          verdicts  \* the verdicts the round publishes

sealedVars == <<phase, answers, verdicts>>

SealedInit ==
    /\ phase = "open"
    /\ answers = [m \in Pool |-> NoAnswer]
    /\ verdicts = {}

Answer(m, c) ==
    /\ phase = "open"
    /\ answers[m] = NoAnswer
    /\ answers' = [answers EXCEPT ![m] = c]
    /\ UNCHANGED <<phase, verdicts>>

Seal ==
    /\ phase = "open"
    /\ phase' = "sealed"
    /\ UNCHANGED <<answers, verdicts>>

\* Every miner of the pool is judged: refused, or by what it answered.
Judge ==
    /\ phase = "sealed"
    /\ phase' = "judged"
    /\ \E refused \in SUBSET Pool, verdictOf \in [Contents -> Verdicts] :
          /\ \A m \in Pool \ refused : answers[m] # NoAnswer
          /\ verdicts' = {[miner |-> m, verdict |-> IF m \in refused THEN "rejected"
                                                    ELSE verdictOf[answers[m]]] : m \in Pool}
    /\ UNCHANGED answers

Void ==
    /\ phase \in {"open", "sealed"}
    /\ phase' = "void"
    /\ UNCHANGED <<answers, verdicts>>

SealedNext ==
    \/ \E m \in Pool, c \in Contents : Answer(m, c)
    \/ Seal \/ Judge \/ Void

SealedSpec == SealedInit /\ [][SealedNext]_sealedVars
=============================================================================
