------------------------------ MODULE RoundProofs ------------------------------
(***************************************************************************)
(* Round for any pool, number of groups and number of slots: after a fault *)
(* no grading starts, the first fault in grant order decides, the disk     *)
(* never holds more workspaces than there are slots (Inv), and the round   *)
(* implements SealedRound (SealInv and the refinement at the end).         *)
(***************************************************************************)
EXTENDS Round, FiniteSetTheorems, WellFoundedInduction, TLAPS

\* Grading coroutines exist from the verifier on and are over when the round
\* goes on; what they leave is numbered.
CoroutinesTell ==
    /\ DOMAIN grading \subseteq Nat
    /\ \A i \in DOMAIN grading : "at" \in DOMAIN grading[i]
    /\ pc \notin {"grading", "feedback", "done"} => DOMAIN grading = {} /\ onDisk = {}
    /\ pc # "grading" => \A i \in DOMAIN grading : grading[i].at \in Ended

\* round_dead says that a grading has failed, and a round that goes on has none.
DeadTells ==
    /\ Faulted # {} => dead
    /\ pc = "feedback" => Faulted = {}

\* A workspace on disk is one of a slot that is held, or, after a fault, of one
\* that was held when the last slot was given out.
SlotsHold ==
    /\ IsFiniteSet(Active \cup onDisk)
    /\ Cardinality(Active \cup onDisk) <= GradingConcurrency
    /\ ~dead => onDisk \subseteq Active

Inv == CoroutinesTell /\ DeadTells /\ SlotsHold /\ FirstFaultDecides

\* A step outside grading, to a place before it or to the end.
Elsewhere ==
    /\ pc \notin {"grading", "feedback"} /\ pc' # "grading"
    /\ pc' \in {"feedback", "done"} => pc' = "done"
    /\ pc = "done" => result' = result /\ pc' = "done"
    /\ UNCHANGED <<grading, dead, onDisk>>
-----------------------------------------------------------------------------
(***************************************************************************)
(* The round implements SealedRound. What each place of the coroutine      *)
(* knows of the lease, the answers, the reveal and the gradings:           *)
(***************************************************************************)
Places == {"start", "lease", "workspace", "dispatch", "commit", "reveal", "verifier",
           "grading", "feedback", "done"}

Steps == {"waiting", "skipped", "fetching", "copying", "evaluating", "removing", "graded", "faulted"}

Coroutines == [at: Steps, verdict: Verdicts \cup {"abandoned", "raised", Nothing},
               fault: Codes \cup {Nothing}]

\* The shapes of the variables.
Shapes ==
    /\ pc \in Places /\ now \in 0..MaxNow /\ dead \in BOOLEAN
    /\ answer \in [Miners -> Contents \cup {NoAnswer, Pending}]
    /\ DOMAIN grading \subseteq 1..Cardinality(Miners) /\ onDisk \subseteq DOMAIN grading
    /\ \A i \in DOMAIN grading : grading[i] \in Coroutines
    /\ evals \subseteq Graded

\* Only the drawn miners are asked, and only while miners are waited for.
AnswersBound ==
    /\ pc \in {"start", "lease", "workspace"} => \A m \in Miners : answer[m] = NoAnswer
    /\ pc \in Places \ {"start", "lease", "done"} => lease.pool = Drawn
    /\ \A m \in Miners : answer[m] = Pending => pc = "dispatch" /\ m \in Drawn

\* From the commit on the reveal names no miner twice; once it is checked it names
\* the drawn miners; once the grants are checked they are what the miners signed.
RevealBound ==
    /\ pc \in {"reveal", "verifier", "grading", "feedback"} =>
          /\ reveal.grants \in Seq([miner: Miners, content: Contents])
          /\ Len(reveal.grants) <= Cardinality(Miners)
          /\ reveal.failures \subseteq Miners \ Granted
    /\ pc \in {"verifier", "grading", "feedback"} => Granted \cup reveal.failures = Drawn
    /\ pc \in {"grading", "feedback"} =>
          /\ \A i \in DOMAIN reveal.grants : GrantMatches(reveal.grants[i])
          /\ DOMAIN grading = Leaders

\* A grading that ended well has a verdict; one is skipped only in a round that a
\* fault has ended.
VerdictsTell ==
    /\ \A i \in DOMAIN grading :
          /\ grading[i].at = "removing" => grading[i].verdict # Nothing
          /\ grading[i].at = "graded" => grading[i].verdict \in Verdicts
          /\ grading[i].at = "skipped" => dead
    /\ dead => Faulted # {}

Refusals == {[miner |-> m, verdict |-> "rejected"] : m \in reveal.failures}

\* The list of evaluations, and the result.
EvalsTell ==
    /\ pc = "grading" => evals = Refusals
    /\ pc = "feedback" => evals = Refusals \cup GradedEvals
    /\ pc # "done" => result = Nothing
    /\ pc = "done" => result \in RoundResults /\ (result.status # "completed" => result.evaluations = {})

SealInv == Shapes /\ AnswersBound /\ RevealBound /\ VerdictsTell /\ EvalsTell
-----------------------------------------------------------------------------
LEMMA InitInv == Init => Inv
<1> SUFFICES ASSUME Init PROVE Inv
  OBVIOUS
<1>1. grading = <<>> /\ DOMAIN grading = {} /\ onDisk = {}
  BY DEF Init
<1>2. Active \cup onDisk = {} /\ Faulted = {}
  BY <1>1 DEF Active, Faulted
<1>3. SlotsHold
  <2>1. IsFiniteSet(Active \cup onDisk) /\ Cardinality(Active \cup onDisk) = 0
    BY <1>2, FS_EmptySet
  <2>2. QED
    BY <1>1, <2>1, RoundAssumption DEF SlotsHold
<1>4. CoroutinesTell
  BY <1>1 DEF CoroutinesTell, Init
<1>5. DeadTells /\ FirstFaultDecides
  BY <1>2 DEF DeadTells, FirstFaultDecides
<1>6. QED
  BY <1>3, <1>4, <1>5 DEF Inv

LEMMA ElsewhereInv == ASSUME Inv, Elsewhere PROVE Inv'
<1>1. CoroutinesTell' /\ DeadTells' /\ SlotsHold'
  BY DEF Inv, Elsewhere, CoroutinesTell, DeadTells, SlotsHold, Faulted, Active
<1>2. FirstFaultDecides'
  BY DEF Inv, Elsewhere, CoroutinesTell, FirstFaultDecides, Faulted
<1>3. QED
  BY <1>1, <1>2 DEF Inv

\* The steps before grading, and stuttering.
LEMMA StepsElsewhere ==
    ASSUME Inv,
           \/ LeaseUnavailable \/ LeaseGranted \/ CheckLease \/ PrepareWorkspace
           \/ (\E m \in Miners : Dispatched(m))
           \/ EndDispatch \/ CommitFailed \/ Commit \/ CheckReveal
    PROVE  Elsewhere
  BY DEF Elsewhere, LeaseUnavailable, LeaseGranted, CheckLease, PrepareWorkspace, Dispatched,
         EndDispatch, CommitFailed, Commit, CheckReveal, Abandon, AbandonOneOf

LEMMA TickInv == ASSUME Inv, Tick PROVE Inv'
  BY DEF Inv, Tick, CoroutinesTell, DeadTells, SlotsHold, Faulted, Active, FirstFaultDecides

LEMMA LoadVerifierInv == ASSUME Inv, SealInv, LoadVerifier PROVE Inv'
<1>1. CASE UNCHANGED grading /\ pc' = "done"
  <2>1. Elsewhere
    BY <1>1 DEF LoadVerifier, Elsewhere
  <2>2. QED
    BY <2>1, ElsewhereInv
<1>2. CASE grading' = [i \in Leaders |-> Waiting] /\ pc' = "grading"
  <2>1. /\ DOMAIN grading' = Leaders
        /\ \A i \in DOMAIN grading' : grading'[i] = Waiting
    BY <1>2
  <2>2. Waiting.at = "waiting" /\ "at" \in DOMAIN Waiting
    BY DEF Waiting
  <2>3. onDisk' = {}
    BY DEF LoadVerifier, Inv, CoroutinesTell
  <2>4. Active' = {} /\ Faulted' = {}
    BY <2>1, <2>2 DEF Active, Faulted, Holding
  <2>5. CoroutinesTell'
    BY <1>2, <2>1, <2>2 DEF CoroutinesTell, LoadVerifier, Leaders, SealInv, RevealBound
  <2>6. SlotsHold'
    BY <2>3, <2>4, FS_EmptySet, RoundAssumption DEF SlotsHold
  <2>7. QED
    BY <1>2, <2>4, <2>5, <2>6 DEF Inv, DeadTells, FirstFaultDecides
<1>3. QED
  BY <1>1, <1>2 DEF LoadVerifier, Abandon, AbandonOneOf
-----------------------------------------------------------------------------
\* What one coroutine's step does to the sets of coroutines.
LEMMA CoroutineSets ==
    ASSUME NEW i \in DOMAIN grading, NEW r, grading' = [grading EXCEPT ![i] = r]
    PROVE  /\ DOMAIN grading' = DOMAIN grading /\ grading'[i] = r
           /\ \A j \in DOMAIN grading : j # i => grading'[j] = grading[j]
           /\ Active' = IF r.at \in Holding THEN Active \cup {i} ELSE Active \ {i}
           /\ Faulted' = IF r.at = "faulted" THEN Faulted \cup {i} ELSE Faulted \ {i}
<1>1. /\ DOMAIN grading' = DOMAIN grading /\ grading'[i] = r
      /\ \A j \in DOMAIN grading : j # i => grading'[j] = grading[j]
  OBVIOUS
<1>2. QED
  BY <1>1 DEF Active, Faulted

\* A coroutine that keeps or gives back its slot takes no more room.
LEMMA NoMoreRoom ==
    ASSUME SlotsHold, (Active \cup onDisk)' \subseteq Active \cup onDisk,
           ~dead' => onDisk' \subseteq Active'
    PROVE  SlotsHold'
<1>1. /\ IsFiniteSet((Active \cup onDisk)')
      /\ Cardinality((Active \cup onDisk)') <= Cardinality(Active \cup onDisk)
      /\ Cardinality(Active \cup onDisk) \in Nat /\ Cardinality((Active \cup onDisk)') \in Nat
  BY FS_Subset, FS_CardinalityType DEF SlotsHold
<1>2. QED
  BY <1>1, RoundAssumption DEF SlotsHold

\* A step of one coroutine, a fault of which sets round_dead.
LEMMA CoroutineMoves ==
    ASSUME Inv, pc = "grading", NEW i \in DOMAIN grading, NEW r, "at" \in DOMAIN r,
           grading' = [grading EXCEPT ![i] = r], pc' = pc,
           dead => dead', r.at = "faulted" => dead', SlotsHold'
    PROVE  Inv'
<1>1. CoroutinesTell'
  BY CoroutineSets DEF Inv, CoroutinesTell
<1>2. DeadTells'
  BY CoroutineSets DEF Inv, DeadTells
<1>3. FirstFaultDecides'
  BY DEF FirstFaultDecides
<1>4. QED
  BY <1>1, <1>2, <1>3 DEF Inv

LEMMA AcquireSlotInv == ASSUME Inv, NEW i \in DOMAIN grading, AcquireSlot(i) PROVE Inv'
<1> DEFINE r == [grading[i] EXCEPT !.at = IF dead THEN "skipped" ELSE "fetching"]
<1>1. grading' = [grading EXCEPT ![i] = r] /\ UNCHANGED <<pc, dead, onDisk>> /\ pc = "grading"
  BY DEF AcquireSlot
<1>2. "at" \in DOMAIN r /\ r.at = IF dead THEN "skipped" ELSE "fetching"
  BY DEF Inv, CoroutinesTell
<1>3. grading[i].at = "waiting" /\ i \notin Active
  BY DEF AcquireSlot, Active, Holding
<1>4. SlotsHold'
  <2>1. CASE dead
    <3>1. r.at \notin Holding
      BY <1>2, <2>1 DEF Holding
    <3>2. Active' = Active \ {i}
      <4> HIDE DEF r
      <4>1. QED
        BY <1>1, <3>1, CoroutineSets
    <3>3. QED
      BY <1>1, <2>1, <3>2, NoMoreRoom DEF Inv
  <2>2. CASE ~dead
    <3>1. Active' = Active \cup {i}
      BY <1>1, <1>2, <2>2, CoroutineSets DEF Holding
    <3>2. Active \cup onDisk = Active /\ IsFiniteSet(Active)
      BY <2>2 DEF Inv, SlotsHold
    <3>3. (Active \cup onDisk)' = Active \cup {i}
      BY <1>1, <3>1, <3>2
    <3>4. IsFiniteSet(Active \cup {i}) /\ Cardinality(Active \cup {i}) = Cardinality(Active) + 1
      BY <1>3, <3>2, FS_AddElement
    <3>5. Cardinality(Active) < GradingConcurrency /\ Cardinality(Active) \in Nat
      BY <3>2, FS_CardinalityType DEF AcquireSlot
    <3>6. onDisk' \subseteq Active'
      BY <1>1, <3>1, <3>2
    <3>7. /\ IsFiniteSet((Active \cup onDisk)')
          /\ Cardinality((Active \cup onDisk)') = Cardinality(Active) + 1
      BY <3>3, <3>4
    <3>8. Cardinality((Active \cup onDisk)') <= GradingConcurrency
      BY <3>5, <3>7, RoundAssumption
    <3>9. QED
      BY <3>6, <3>7, <3>8 DEF SlotsHold
  <2>3. QED
    BY <2>1, <2>2
<1> HIDE DEF r
<1>5. QED
  BY <1>1, <1>2, <1>4, CoroutineMoves

\* A coroutine that works holds its slot, so the round is at its grading.
LEMMA HoldingIsGrading ==
    ASSUME Inv, NEW i \in DOMAIN grading, grading[i].at \in Holding
    PROVE  pc = "grading" /\ i \in Active
  BY DEF Inv, CoroutinesTell, Active, Holding, Ended

\* A fault gives the slot back and leaves what is on disk.
LEMMA FaultInv ==
    ASSUME Inv, NEW i \in DOMAIN grading, grading[i].at \in Holding, NEW code, NEW verdict,
           Fault(i, code, verdict), pc' = pc, onDisk' \subseteq onDisk
    PROVE  Inv'
<1> DEFINE r == [at |-> "faulted", verdict |-> verdict, fault |-> code]
<1>1. grading' = [grading EXCEPT ![i] = r] /\ dead'
  BY DEF Fault
<1>2. "at" \in DOMAIN r /\ r.at = "faulted"
  OBVIOUS
<1> HIDE DEF r
<1>3. Active' = Active \ {i}
  BY <1>1, <1>2, CoroutineSets DEF Holding
<1>4. SlotsHold'
  BY <1>1, <1>3, NoMoreRoom DEF Inv
<1>5. QED
  BY <1>1, <1>2, <1>4, CoroutineMoves, HoldingIsGrading

\* A coroutine goes on with its slot.
LEMMA GoesOnInv ==
    ASSUME Inv, NEW i \in DOMAIN grading, grading[i].at \in Holding, NEW r,
           "at" \in DOMAIN r, r.at \in Holding, grading' = [grading EXCEPT ![i] = r],
           UNCHANGED <<pc, dead>>, onDisk' \subseteq onDisk \cup {i}
    PROVE  Inv'
<1>1. i \in Active /\ pc = "grading"
  BY HoldingIsGrading
<1>2. Active' = Active
  <2>1. Active' = Active \cup {i}
    BY CoroutineSets
  <2>2. QED
    BY <1>1, <2>1
<1>3. SlotsHold'
  BY <1>1, <1>2, NoMoreRoom DEF Inv, SlotsHold
<1>4. r.at # "faulted"
  BY DEF Holding
<1>5. QED
  BY <1>1, <1>3, <1>4, CoroutineMoves

LEMMA FetchSubmissionInv == ASSUME Inv, NEW i \in DOMAIN grading, FetchSubmission(i) PROVE Inv'
<1>1. grading[i].at \in Holding /\ UNCHANGED <<pc, onDisk>>
  BY DEF FetchSubmission, Holding
<1>2. CASE \E code, verdict : Fault(i, code, verdict)
  BY <1>1, <1>2, FaultInv
<1>3. CASE grading' = [grading EXCEPT ![i].at = "copying"] /\ UNCHANGED dead
  <2> DEFINE r == [grading[i] EXCEPT !.at = "copying"]
  <2>1. "at" \in DOMAIN r /\ r.at \in Holding
    BY DEF Inv, CoroutinesTell, Holding
  <2>2. grading' = [grading EXCEPT ![i] = r]
    BY <1>3
  <2> HIDE DEF r
  <2>3. QED
    BY <1>1, <1>3, <2>1, <2>2, GoesOnInv
<1>4. QED
  BY <1>2, <1>3 DEF FetchSubmission

LEMMA MaterializeWorkspaceInv ==
    ASSUME Inv, NEW i \in DOMAIN grading, MaterializeWorkspace(i) PROVE Inv'
<1>1. grading[i].at \in Holding /\ UNCHANGED pc
  BY DEF MaterializeWorkspace, Holding
<1>2. CASE Fault(i, "WORKSPACE_MATERIALIZATION_FAILED", Nothing) /\ UNCHANGED onDisk
  BY <1>1, <1>2, FaultInv
<1>3. CASE /\ grading' = [grading EXCEPT ![i].at = "evaluating"]
           /\ onDisk' = onDisk \cup {i} /\ UNCHANGED dead
  <2> DEFINE r == [grading[i] EXCEPT !.at = "evaluating"]
  <2>1. "at" \in DOMAIN r /\ r.at \in Holding
    BY DEF Inv, CoroutinesTell, Holding
  <2>2. grading' = [grading EXCEPT ![i] = r]
    BY <1>3
  <2> HIDE DEF r
  <2>3. QED
    BY <1>1, <1>3, <2>1, <2>2, GoesOnInv
<1>4. QED
  BY <1>2, <1>3 DEF MaterializeWorkspace

LEMMA EvaluateInv == ASSUME Inv, NEW i \in DOMAIN grading, Evaluate(i) PROVE Inv'
<1>1. grading[i].at \in Holding /\ UNCHANGED <<pc, dead, onDisk>>
  BY DEF Evaluate, Holding
<1>2. PICK v : grading' = [grading EXCEPT ![i] = [at |-> "removing", fault |-> Nothing, verdict |-> v]]
  BY DEF Evaluate
<1> DEFINE r == [at |-> "removing", fault |-> Nothing, verdict |-> v]
<1>3. "at" \in DOMAIN r /\ r.at \in Holding
  BY DEF Holding
<1>4. grading' = [grading EXCEPT ![i] = r]
  BY <1>2
<1> HIDE DEF r
<1>5. QED
  BY <1>1, <1>3, <1>4, GoesOnInv

LEMMA RemoveWorkspaceInv == ASSUME Inv, NEW i \in DOMAIN grading, RemoveWorkspace(i) PROVE Inv'
<1>1. grading[i].at \in Holding /\ UNCHANGED pc
  BY DEF RemoveWorkspace, Holding
<1>2. onDisk' = onDisk \/ onDisk' = onDisk \ {i}
  BY DEF RemoveWorkspace
<1>3. CASE \E code, verdict : Fault(i, code, verdict)
  BY <1>1, <1>2, <1>3, FaultInv
<1>4. CASE /\ grading' = [grading EXCEPT ![i].at = "graded"] /\ UNCHANGED dead
           /\ onDisk' = onDisk \ {i}
  <2> DEFINE r == [grading[i] EXCEPT !.at = "graded"]
  <2>1. "at" \in DOMAIN r /\ r.at = "graded"
    BY DEF Inv, CoroutinesTell
  <2>2. grading' = [grading EXCEPT ![i] = r]
    BY <1>4
  <2> HIDE DEF r
  <2>3. Active' = Active \ {i}
    BY <2>1, <2>2, CoroutineSets DEF Holding
  <2>4. SlotsHold'
    BY <1>4, <2>3, NoMoreRoom DEF Inv, SlotsHold
  <2>5. QED
    BY <1>1, <1>4, <2>1, <2>2, <2>4, CoroutineMoves, HoldingIsGrading
<1>5. QED
  BY <1>3, <1>4 DEF RemoveWorkspace

LEMMA LeastNatural ==
    ASSUME NEW T, T \subseteq Nat, T # {}
    PROVE  \E x \in T : \A y \in T : x <= y
<1>1. PICK x \in T : \A y \in T : ~(<<y, x>> \in OpToRel(<, Nat))
  BY WFMin, NatLessThanWellFounded
<1>2. \A y \in T : x <= y
  <2> SUFFICES ASSUME NEW y \in T, y < x PROVE FALSE
    OBVIOUS
  <2>1. <<y, x>> \in Nat \X Nat /\ <<y, x>>[1] = y /\ <<y, x>>[2] = x
    OBVIOUS
  <2>2. <<y, x>> \in {ss \in Nat \X Nat : ss[1] < ss[2]}
    BY <2>1
  <2>3. <<y, x>> \in OpToRel(<, Nat)
    BY <2>2 DEF OpToRel
  <2>4. QED
    BY <1>1, <2>3
<1>3. QED
  BY <1>2

\* gather has returned: the round directory goes, and the first fault decides.
LEMMA CollectOutcomesInv == ASSUME Inv, CollectOutcomes PROVE Inv'
<1>1. UNCHANGED <<grading, dead>> /\ onDisk' = {} /\ pc' \in {"feedback", "done"}
  BY DEF CollectOutcomes, Abandon
<1>2. Active' = Active /\ Faulted' = Faulted
  BY <1>1 DEF Active, Faulted
<1>3. SlotsHold'
  BY <1>1, <1>2, NoMoreRoom DEF Inv
<1>4. CoroutinesTell'
  BY <1>1 DEF Inv, CoroutinesTell, CollectOutcomes
<1>5. CASE Faulted = {}
  BY <1>1, <1>2, <1>3, <1>4, <1>5 DEF Inv, DeadTells, FirstFaultDecides
<1>6. CASE Faulted # {}
  <2>1. Min(Faulted) \in Faulted /\ \A j \in Faulted : Min(Faulted) <= j
    <3>1. \E x \in Faulted : \A y \in Faulted : x <= y
      BY <1>6, LeastNatural DEF Inv, CoroutinesTell, Faulted
    <3>2. QED
      BY <3>1 DEF Min
  <2>2. pc' = "done" /\ result' = Result("abandoned", grading[Min(Faulted)].fault, {})
    BY <1>6 DEF CollectOutcomes, Abandon
  <2>3. result'.status = "abandoned" /\ result'.code = grading[Min(Faulted)].fault
    BY <2>2 DEF Result
  <2>4. FirstFaultDecides'
    BY <1>1, <1>2, <2>1, <2>3 DEF FirstFaultDecides
  <2>5. DeadTells'
    BY <1>1, <1>2, <2>2 DEF Inv, DeadTells
  <2>6. QED
    BY <1>3, <1>4, <2>4, <2>5 DEF Inv
<1>7. QED
  BY <1>5, <1>6

LEMMA CompleteInv == ASSUME Inv, Complete PROVE Inv'
  BY DEF Inv, Complete, CoroutinesTell, DeadTells, SlotsHold, Faulted, Active, FirstFaultDecides

LEMMA NextInv == Inv /\ SealInv /\ [Next]_vars => Inv'
<1> SUFFICES ASSUME Inv, SealInv, [Next]_vars PROVE Inv'
  OBVIOUS
<1>1. CASE UNCHANGED vars
  BY <1>1 DEF vars, Inv, CoroutinesTell, DeadTells, SlotsHold, Faulted, Active, FirstFaultDecides
<1>2. CASE \E i \in DOMAIN grading : Grade(i)
  BY <1>2, AcquireSlotInv, FetchSubmissionInv, MaterializeWorkspaceInv, EvaluateInv,
     RemoveWorkspaceInv DEF Grade
<1>3. QED
  BY <1>1, <1>2, StepsElsewhere, ElsewhereInv, TickInv, LoadVerifierInv, CollectOutcomesInv,
     CompleteInv DEF Next, Done

-----------------------------------------------------------------------------
LEMMA DrawnAreMiners == Drawn \subseteq Miners
  BY RoundAssumption DEF Drawn

\* An abandoned round publishes nothing.
LEMMA AbandonTells ==
    ASSUME NEW code \in Codes, Abandon(code)
    PROVE  /\ pc' = "done" /\ result' \in RoundResults
           /\ result'.status = "abandoned" /\ result'.evaluations = {}
  BY DEF Abandon, Result, RoundResults

\* What a step that only moves the round on, or ends it, keeps.
Passes ==
    /\ UNCHANGED <<lease, answer, reveal, grading, dead, onDisk, evals>>
    /\ now' \in 0..MaxNow

LEMMA EndsSeal ==
    ASSUME SealInv, pc \notin {"dispatch", "done"}, pc' = "done", Passes, result' \in RoundResults,
           result'.status # "completed" => result'.evaluations = {}
    PROVE  SealInv'
<1>1. Shapes'
  BY DEF SealInv, Shapes, Passes, Places
<1>2. AnswersBound' /\ RevealBound' /\ VerdictsTell' /\ EvalsTell'
  BY DEF SealInv, Passes, AnswersBound, RevealBound, VerdictsTell, EvalsTell, Faulted
<1>3. QED
  BY <1>1, <1>2 DEF SealInv

LEMMA InitSeal == Init => SealInv
<1> SUFFICES ASSUME Init PROVE SealInv
  OBVIOUS
<1>1. DOMAIN grading = {} /\ Faulted = {}
  BY DEF Init, Faulted
<1>2. Shapes
  <2>1. now \in 0..MaxNow /\ answer \in [Miners -> Contents \cup {NoAnswer, Pending}]
    BY RoundAssumption DEF Init
  <2>2. QED
    BY <1>1, <2>1 DEF Init, Shapes, Places
<1>3. AnswersBound /\ RevealBound /\ VerdictsTell /\ EvalsTell
  BY <1>1, RoundAssumption DEF Init, AnswersBound, RevealBound, VerdictsTell, EvalsTell, Places
<1>4. QED
  BY <1>2, <1>3 DEF SealInv

LEMMA RevealKept ==
    ASSUME UNCHANGED <<reveal, answer>>
    PROVE  /\ Granted' = Granted /\ Leaders' = Leaders
           /\ (\A i \in DOMAIN reveal.grants : GrantMatches(reveal.grants[i]))'
                 <=> (\A i \in DOMAIN reveal.grants : GrantMatches(reveal.grants[i]))
  BY DEF Granted, Leaders, GrantMatches

LEMMA TickSeal == ASSUME SealInv, Tick PROVE SealInv'
<1>1. Shapes'
  BY RoundAssumption DEF Tick, SealInv, Shapes
<1>2. AnswersBound' /\ RevealBound'
  BY RevealKept DEF Tick, SealInv, AnswersBound, RevealBound, Drawn
<1>3. VerdictsTell' /\ EvalsTell'
  BY DEF Tick, SealInv, VerdictsTell, Faulted, EvalsTell, Refusals, GradedEvals, Members
<1>4. QED
  BY <1>1, <1>2, <1>3 DEF SealInv

LEMMA LeaseSeal ==
    ASSUME Inv, SealInv, LeaseUnavailable \/ LeaseGranted \/ CheckLease PROVE SealInv'
<1>1. CASE LeaseUnavailable
  <2>1. result' \in RoundResults /\ result'.evaluations = {}
    BY <1>1 DEF LeaseUnavailable, Result, RoundResults, Codes
  <2>2. QED
    BY <1>1, <2>1, EndsSeal DEF LeaseUnavailable, Passes, SealInv, Shapes
<1>2. CASE LeaseGranted
  <2>1. Shapes'
    BY <1>2 DEF LeaseGranted, SealInv, Shapes, Places
  <2>2. AnswersBound' /\ RevealBound' /\ VerdictsTell' /\ EvalsTell'
    BY <1>2 DEF LeaseGranted, SealInv, AnswersBound, RevealBound, VerdictsTell, Faulted, EvalsTell
  <2>3. QED
    BY <2>1, <2>2 DEF SealInv
<1>3. CASE CheckLease
  <2>1. CASE LeaseFault # Nothing
    <3>1. LeaseFault \in Codes
      BY <2>1 DEF LeaseFault, Codes
    <3>2. QED
      BY <1>3, <2>1, <3>1, AbandonTells, EndsSeal DEF CheckLease, Passes, SealInv, Shapes
  <2>2. CASE LeaseFault = Nothing
    <3>1. lease.pool = Drawn
      BY <2>2, RoundAssumption DEF LeaseFault, Codes
    <3>2. Shapes'
      BY <1>3, <2>2 DEF CheckLease, SealInv, Shapes, Places
    <3>3. AnswersBound' /\ RevealBound' /\ VerdictsTell' /\ EvalsTell'
      BY <1>3, <2>2, <3>1 DEF CheckLease, SealInv, AnswersBound, RevealBound, VerdictsTell, Faulted,
         EvalsTell
    <3>4. QED
      BY <3>2, <3>3 DEF SealInv
  <2>3. QED
    BY <2>1, <2>2
<1>4. QED
  BY <1>1, <1>2, <1>3

LEMMA PrepareWorkspaceSeal == ASSUME SealInv, PrepareWorkspace PROVE SealInv'
<1>1. CASE \E code \in Codes : Abandon(code) /\ UNCHANGED answer
  <2>1. QED
    BY <1>1, AbandonTells, EndsSeal DEF PrepareWorkspace, Passes, SealInv, Shapes
<1>2. CASE /\ pc' = "dispatch" /\ UNCHANGED result
           /\ answer' = [m \in Miners |-> IF m \in lease.pool THEN Pending ELSE NoAnswer]
  <2>1. Shapes'
    BY <1>2 DEF PrepareWorkspace, SealInv, Shapes, Places
  <2>2. AnswersBound'
    BY <1>2, RoundAssumption DEF PrepareWorkspace, SealInv, AnswersBound, Places
  <2>3. RevealBound' /\ VerdictsTell' /\ EvalsTell'
    BY <1>2 DEF PrepareWorkspace, SealInv, RevealBound, VerdictsTell, Faulted, EvalsTell
  <2>4. QED
    BY <2>1, <2>2, <2>3 DEF SealInv
<1>3. QED
  BY <1>1, <1>2 DEF PrepareWorkspace, AbandonOneOf, Codes

LEMMA DispatchedSeal == ASSUME SealInv, NEW m \in Miners, Dispatched(m) PROVE SealInv'
<1>1. PICK c \in Contents \cup {NoAnswer} : answer' = [answer EXCEPT ![m] = c]
  BY DEF Dispatched
<1>2. Shapes'
  BY <1>1 DEF Dispatched, SealInv, Shapes
<1>3. AnswersBound'
  BY <1>1 DEF Dispatched, SealInv, AnswersBound, Shapes
<1>4. RevealBound' /\ VerdictsTell' /\ EvalsTell'
  BY DEF Dispatched, SealInv, RevealBound, VerdictsTell, Faulted, EvalsTell
<1>5. QED
  BY <1>2, <1>3, <1>4 DEF SealInv

LEMMA EndDispatchSeal == ASSUME SealInv, EndDispatch PROVE SealInv'
<1>1. \A m \in Miners : answer[m] # Pending
  BY DEF EndDispatch, SealInv, AnswersBound, Places
<1>2. /\ pc = "dispatch" /\ pc' \in {"commit", "done"}
      /\ pc' = "commit" => result' = result
      /\ pc' = "done" => result' \in RoundResults /\ result'.evaluations = {}
  <2>1. "QUORUM_NOT_MET" \in Codes
    BY DEF Codes
  <2>2. QED
    BY <2>1, AbandonTells DEF EndDispatch
<1>3. Shapes'
  BY <1>2 DEF EndDispatch, SealInv, Shapes, Places
<1>4. AnswersBound'
  BY <1>1, <1>2 DEF EndDispatch, SealInv, AnswersBound, Places, Drawn
<1>5. RevealBound' /\ VerdictsTell' /\ EvalsTell'
  BY <1>2 DEF EndDispatch, SealInv, RevealBound, VerdictsTell, Faulted, EvalsTell
<1>6. QED
  BY <1>3, <1>4, <1>5 DEF SealInv

LEMMA TupleIsSeq ==
    ASSUME NEW T, NEW n \in Nat, NEW s \in [1..n -> T] PROVE s \in Seq(T) /\ Len(s) = n
  OBVIOUS

LEMMA ElementOfTuple ==
    ASSUME NEW T, NEW s \in Seq(T)
    PROVE  DOMAIN s = 1..Len(s) /\ Len(s) \in Nat /\ \A i \in DOMAIN s : s[i] \in T
  OBVIOUS

\* A reveal that the wire model accepts.
LEMMA GrantsAreMiners ==
    ASSUME NEW grants \in Grants
    PROVE  /\ grants \in Seq([miner: Miners, content: Contents])
           /\ Len(grants) <= Cardinality(Miners)
<1>0. PICK S \in SUBSET Miners : \E order \in SetToSeqs(S) : \E f \in [ToSet(order) -> Contents] :
         grants = [i \in 1..Len(order) |-> [miner |-> order[i], content |-> f[order[i]]]]
  BY DEF Grants
<1>1. PICK order \in SetToSeqs(S) : \E f \in [ToSet(order) -> Contents] :
         grants = [i \in 1..Len(order) |-> [miner |-> order[i], content |-> f[order[i]]]]
  BY <1>0
<1>2. /\ Cardinality(S) \in Nat /\ Cardinality(Miners) \in Nat
      /\ Cardinality(S) <= Cardinality(Miners)
  BY FS_Subset, FS_CardinalityType, RoundAssumption
<1>3. order \in [1..Cardinality(S) -> S]
  BY DEF SetToSeqs
<1>4. order \in Seq(S) /\ Len(order) = Cardinality(S)
  BY <1>2, <1>3
<1>5. \A i \in 1..Len(order) : order[i] \in Miners /\ order[i] \in ToSet(order)
  BY <1>3, <1>4 DEF ToSet
<1>6. PICK f \in [ToSet(order) -> Contents] :
         grants = [i \in 1..Len(order) |-> [miner |-> order[i], content |-> f[order[i]]]]
  BY <1>1
<1>7. \A i \in 1..Len(order) : f[order[i]] \in Contents
  BY <1>5
<1>8. grants \in [1..Cardinality(S) -> [miner: Miners, content: Contents]]
  BY <1>4, <1>5, <1>6, <1>7
<1> DEFINE T == [miner: Miners, content: Contents]
<1>9. grants \in Seq(T) /\ Len(grants) = Cardinality(S)
  <2>1. grants \in [1..Cardinality(S) -> T]
    BY <1>8
  <2> HIDE DEF T
  <2>2. QED
    BY <1>2, <2>1, TupleIsSeq
<1>10. QED
  BY <1>2, <1>9

LEMMA CommitSeal == ASSUME SealInv, CommitFailed \/ Commit PROVE SealInv'
<1>1. CASE CommitFailed
  <2>1. "COMMIT_FAILED" \in Codes
    BY DEF Codes
  <2>2. QED
    BY <1>1, <2>1, AbandonTells, EndsSeal DEF CommitFailed, Passes, SealInv, Shapes
<1>2. CASE Commit
  <2>1. PICK grants \in Grants : reveal' \in Reveals(grants)
    BY <1>2 DEF Commit
  <2>2. /\ reveal'.grants = grants
        /\ reveal'.failures \subseteq Miners \ {grants[i].miner : i \in DOMAIN grants}
    BY <2>1 DEF Reveals
  <2>3. RevealBound'
    BY <1>2, <2>2, GrantsAreMiners DEF Commit, RevealBound, Granted
  <2>4. Shapes' /\ AnswersBound'
    BY <1>2 DEF Commit, SealInv, Shapes, Places, AnswersBound
  <2>5. VerdictsTell' /\ EvalsTell'
    BY <1>2 DEF Commit, SealInv, VerdictsTell, Faulted, EvalsTell
  <2>6. QED
    BY <2>3, <2>4, <2>5 DEF SealInv
<1>3. QED
  BY <1>1, <1>2

LEMMA CheckRevealSeal == ASSUME SealInv, CheckReveal PROVE SealInv'
<1>1. CASE \E code \in Codes : Abandon(code)
  BY <1>1, AbandonTells, EndsSeal DEF CheckReveal, Passes, SealInv, Shapes
<1>2. CASE RevealMatches /\ pc' = "verifier" /\ UNCHANGED result
  <2>1. Granted \cup reveal.failures = Drawn
    BY <1>2 DEF CheckReveal, RevealMatches, SealInv, AnswersBound, Places
  <2>2. RevealBound'
    BY <1>2, <2>1 DEF CheckReveal, SealInv, RevealBound, Granted, Drawn
  <2>3. Shapes' /\ AnswersBound'
    BY <1>2 DEF CheckReveal, SealInv, Shapes, Places, AnswersBound
  <2>4. VerdictsTell' /\ EvalsTell'
    BY <1>2 DEF CheckReveal, SealInv, VerdictsTell, Faulted, EvalsTell
  <2>5. QED
    BY <2>2, <2>3, <2>4 DEF SealInv
<1>3. QED
  <2>1. {"REVEAL_MISMATCH", "GRADING_EXPIRED"} \subseteq Codes
    BY DEF Codes
  <2>2. QED
    BY <1>1, <1>2, <2>1 DEF CheckReveal

LEMMA LoadVerifierSeal == ASSUME Inv, SealInv, LoadVerifier PROVE SealInv'
<1>1. /\ evals' \subseteq Graded
      /\ reveal.failures \subseteq Miners /\ Granted \cup reveal.failures = Drawn
      /\ reveal.grants \in Seq([miner: Miners, content: Contents])
      /\ Len(reveal.grants) <= Cardinality(Miners) /\ Cardinality(Miners) \in Nat
  <2>1. /\ reveal.failures \subseteq Miners /\ Granted \cup reveal.failures = Drawn
        /\ reveal.grants \in Seq([miner: Miners, content: Contents])
        /\ Len(reveal.grants) <= Cardinality(Miners)
    BY DEF LoadVerifier, SealInv, RevealBound
  <2>2. evals' = evals \/ evals' = Refusals
    BY DEF LoadVerifier, Refusals
  <2>3. Refusals \subseteq Graded
    BY <2>1 DEF Refusals, Graded, Verdicts
  <2>4. QED
    BY <2>1, <2>2, <2>3, FS_CardinalityType, RoundAssumption DEF SealInv, Shapes
<1>2. CASE UNCHANGED grading /\ \E code \in Codes : Abandon(code)
  <2>1. /\ pc' = "done" /\ result' \in RoundResults
        /\ result'.status = "abandoned" /\ result'.evaluations = {}
    BY <1>2, AbandonTells
  <2>2. Shapes'
    BY <1>1, <1>2, <2>1 DEF LoadVerifier, SealInv, Shapes, Places
  <2>3. AnswersBound' /\ RevealBound' /\ VerdictsTell' /\ EvalsTell'
    BY <1>2, <2>1 DEF LoadVerifier, SealInv, AnswersBound, RevealBound, VerdictsTell, Faulted, EvalsTell
  <2>4. QED
    BY <2>2, <2>3 DEF SealInv
<1>3. CASE /\ GrantFault = Nothing /\ pc' = "grading" /\ UNCHANGED result
           /\ grading' = [i \in Leaders |-> Waiting] /\ evals' = Refusals
  <2>1. BadGrants = {}
    BY <1>3, RoundAssumption DEF GrantFault, Codes
  <2>2. \A i \in DOMAIN reveal.grants : GrantMatches(reveal.grants[i])
    BY <2>1 DEF BadGrants
  <2>3. DOMAIN grading' = Leaders /\ \A i \in Leaders : grading'[i] = Waiting
    BY <1>3
  <2>4. Leaders \subseteq 1..Cardinality(Miners)
    BY <1>1 DEF Leaders
  <2>5. Waiting \in Coroutines /\ Waiting.at = "waiting"
    BY DEF Waiting, Coroutines, Steps
  <2>6. onDisk = {} /\ ~dead
    BY DEF LoadVerifier, Inv, CoroutinesTell, SealInv, VerdictsTell, Shapes, Faulted
  <2>7. Shapes'
    BY <1>1, <1>3, <2>3, <2>4, <2>5, <2>6 DEF LoadVerifier, SealInv, Shapes, Places
  <2>8. RevealBound'
    BY <1>3, <2>2, <2>3, RevealKept DEF LoadVerifier, SealInv, RevealBound, Drawn
  <2>9. AnswersBound' /\ VerdictsTell'
    BY <1>3, <2>3, <2>5, <2>6 DEF LoadVerifier, SealInv, AnswersBound, VerdictsTell, Places
  <2>10. EvalsTell'
    BY <1>3 DEF LoadVerifier, SealInv, EvalsTell, Refusals
  <2>11. QED
    BY <2>7, <2>8, <2>9, <2>10 DEF SealInv
<1>4. QED
  <2>1. {"INSUFFICIENT_STORAGE", "VERIFIER_DOWNLOAD_FAILED", "VERIFIER_INVALID"} \subseteq Codes
    BY DEF Codes
  <2>2. GrantFault # Nothing => GrantFault \in Codes
    BY DEF GrantFault, Codes
  <2>3. QED
    BY <1>2, <1>3, <2>1, <2>2 DEF LoadVerifier, AbandonOneOf, Refusals

\* A step of one coroutine.
LEMMA CoroutineSeal ==
    ASSUME SealInv, pc = "grading", NEW i \in DOMAIN grading, NEW r \in Coroutines,
           grading' = [grading EXCEPT ![i] = r],
           UNCHANGED <<pc, now, lease, answer, reveal, evals, result>>,
           dead' \in BOOLEAN, dead => dead', dead' => Faulted' # {}, onDisk' \subseteq DOMAIN grading,
           r.at = "removing" => r.verdict # Nothing,
           r.at = "graded" => r.verdict \in Verdicts,
           r.at = "skipped" => dead'
    PROVE  SealInv'
<1>1. /\ DOMAIN grading' = DOMAIN grading /\ grading'[i] = r
      /\ \A j \in DOMAIN grading : j # i => grading'[j] = grading[j]
  BY CoroutineSets
<1>2. Shapes'
  BY <1>1 DEF SealInv, Shapes
<1>3. AnswersBound' /\ RevealBound'
  BY <1>1, RevealKept DEF SealInv, AnswersBound, RevealBound, Drawn
<1>4. VerdictsTell'
  BY <1>1 DEF SealInv, VerdictsTell
<1>5. EvalsTell'
  BY DEF SealInv, EvalsTell, Refusals
<1>6. QED
  BY <1>2, <1>3, <1>4, <1>5 DEF SealInv

\* A coroutine that was at work raises; one of the codes is the reason.
LEMMA FaultSeal ==
    ASSUME Inv, SealInv, NEW i \in DOMAIN grading, grading[i].at \in Holding,
           NEW code \in Codes, NEW verdict \in Verdicts \cup {"abandoned", "raised", Nothing},
           Fault(i, code, verdict), onDisk' \subseteq onDisk,
           UNCHANGED <<pc, now, lease, answer, reveal, evals, result>>
    PROVE  SealInv'
<1> DEFINE r == [at |-> "faulted", verdict |-> verdict, fault |-> code]
<1>1. grading' = [grading EXCEPT ![i] = r] /\ dead'
  BY DEF Fault
<1>2. r \in Coroutines /\ r.at = "faulted"
  BY DEF Coroutines, Steps
<1> HIDE DEF r
<1>3. Faulted' # {}
  BY <1>1, <1>2, CoroutineSets
<1>4. dead' \in BOOLEAN
  BY DEF Fault
<1>5. onDisk' \subseteq DOMAIN grading
  BY DEF SealInv, Shapes
<1>6. QED
  BY <1>1, <1>2, <1>3, <1>4, <1>5, CoroutineSeal, HoldingIsGrading

\* A coroutine goes on, and what it goes on with has its shape.
LEMMA GoesOnSeal ==
    ASSUME SealInv, pc = "grading", NEW i \in DOMAIN grading, i \notin Faulted,
           NEW r \in Coroutines, grading' = [grading EXCEPT ![i] = r],
           UNCHANGED <<pc, now, lease, answer, reveal, dead, evals, result>>,
           onDisk' \subseteq onDisk \cup {i},
           r.at = "removing" => r.verdict # Nothing,
           r.at = "graded" => r.verdict \in Verdicts,
           r.at = "skipped" => dead
    PROVE  SealInv'
<1>1. dead' => Faulted' # {}
  <2>1. dead' => Faulted # {}
    BY DEF SealInv, VerdictsTell
  <2>2. Faulted \subseteq Faulted'
    <3>1. Faulted' = IF r.at = "faulted" THEN Faulted \cup {i} ELSE Faulted \ {i}
      BY CoroutineSets
    <3>2. QED
      BY <3>1
  <2>3. QED
    BY <2>1, <2>2
<1>2. onDisk' \subseteq DOMAIN grading /\ dead' \in BOOLEAN
  BY DEF SealInv, Shapes
<1>3. QED
  BY <1>1, <1>2, CoroutineSeal

LEMMA NextStepTyped ==
    ASSUME SealInv, NEW i \in DOMAIN grading, NEW at \in Steps
    PROVE  /\ [grading[i] EXCEPT !.at = at] \in Coroutines
           /\ [grading[i] EXCEPT !.at = at].at = at
           /\ [grading[i] EXCEPT !.at = at].verdict = grading[i].verdict
  BY DEF SealInv, Shapes, Coroutines

LEMMA AcquireSlotSeal == ASSUME SealInv, NEW i \in DOMAIN grading, AcquireSlot(i) PROVE SealInv'
<1> DEFINE at == IF dead THEN "skipped" ELSE "fetching"
           r == [grading[i] EXCEPT !.at = at]
<1>1. at \in Steps
  BY DEF Steps
<1>2. r \in Coroutines /\ r.at = at
  BY <1>1, NextStepTyped
<1>3. grading' = [grading EXCEPT ![i] = r] /\ i \notin Faulted /\ pc = "grading"
  BY DEF AcquireSlot, Faulted
<1>4. r.at # "removing" /\ r.at # "graded" /\ (r.at = "skipped" => dead)
  BY <1>2
<1> HIDE DEF r
<1>5. QED
  BY <1>2, <1>3, <1>4, GoesOnSeal DEF AcquireSlot

LEMMA FetchSubmissionSeal ==
    ASSUME Inv, SealInv, NEW i \in DOMAIN grading, FetchSubmission(i) PROVE SealInv'
<1>1. grading[i].at \in Holding /\ i \notin Faulted
  BY DEF FetchSubmission, Holding, Faulted
<1>2. CASE \E code \in Codes : Fault(i, code, Nothing)
  BY <1>1, <1>2, FaultSeal DEF FetchSubmission
<1>3. CASE grading' = [grading EXCEPT ![i].at = "copying"] /\ UNCHANGED dead
  <2> DEFINE r == [grading[i] EXCEPT !.at = "copying"]
  <2>1. r \in Coroutines /\ r.at = "copying" /\ grading' = [grading EXCEPT ![i] = r]
    <3>1. "copying" \in Steps
      BY DEF Steps
    <3>2. QED
      BY <1>3, <3>1, NextStepTyped
  <2> HIDE DEF r
  <2>2. QED
    BY <1>1, <1>3, <2>1, HoldingIsGrading, GoesOnSeal DEF FetchSubmission
<1>4. QED
  <2>1. {"SUBMISSION_DOWNLOAD_FAILED", "GRADING_EXPIRED", "INSUFFICIENT_STORAGE", "VALIDATOR_ERROR"}
          \subseteq Codes
    BY DEF Codes
  <2>2. QED
    BY <1>2, <1>3, <2>1 DEF FetchSubmission

LEMMA MaterializeWorkspaceSeal ==
    ASSUME Inv, SealInv, NEW i \in DOMAIN grading, MaterializeWorkspace(i) PROVE SealInv'
<1>1. grading[i].at \in Holding /\ i \notin Faulted
  BY DEF MaterializeWorkspace, Holding, Faulted
<1>2. CASE Fault(i, "WORKSPACE_MATERIALIZATION_FAILED", Nothing) /\ UNCHANGED onDisk
  <2>1. "WORKSPACE_MATERIALIZATION_FAILED" \in Codes
    BY DEF Codes
  <2>2. QED
    BY <1>1, <1>2, <2>1, FaultSeal DEF MaterializeWorkspace
<1>3. CASE /\ grading' = [grading EXCEPT ![i].at = "evaluating"]
           /\ onDisk' = onDisk \cup {i} /\ UNCHANGED dead
  <2> DEFINE r == [grading[i] EXCEPT !.at = "evaluating"]
  <2>1. r \in Coroutines /\ r.at = "evaluating" /\ grading' = [grading EXCEPT ![i] = r]
    <3>1. "evaluating" \in Steps
      BY DEF Steps
    <3>2. QED
      BY <1>3, <3>1, NextStepTyped
  <2> HIDE DEF r
  <2>2. QED
    BY <1>1, <1>3, <2>1, HoldingIsGrading, GoesOnSeal DEF MaterializeWorkspace
<1>4. QED
  BY <1>2, <1>3 DEF MaterializeWorkspace

LEMMA EvaluateSeal ==
    ASSUME Inv, SealInv, NEW i \in DOMAIN grading, Evaluate(i) PROVE SealInv'
<1>1. grading[i].at \in Holding /\ i \notin Faulted
  BY DEF Evaluate, Holding, Faulted
<1>2. PICK v \in Verdicts \cup {"abandoned", "raised"} :
         grading' = [grading EXCEPT ![i] = [at |-> "removing", fault |-> Nothing, verdict |-> v]]
  BY DEF Evaluate
<1> DEFINE r == [at |-> "removing", fault |-> Nothing, verdict |-> v]
<1>3. r \in Coroutines /\ r.at = "removing" /\ r.verdict = v
  BY DEF Coroutines, Steps
<1>4. grading' = [grading EXCEPT ![i] = r]
  BY <1>2
<1>5. v # Nothing
  BY RoundAssumption
<1> HIDE DEF r
<1>6. QED
  BY <1>1, <1>3, <1>4, <1>5, HoldingIsGrading, GoesOnSeal DEF Evaluate

LEMMA RemoveWorkspaceSeal ==
    ASSUME Inv, SealInv, NEW i \in DOMAIN grading, RemoveWorkspace(i) PROVE SealInv'
<1> DEFINE v == grading[i].verdict
<1>1. grading[i].at \in Holding /\ i \notin Faulted /\ grading[i].at = "removing"
  BY DEF RemoveWorkspace, Holding, Faulted
<1>2. v \in Verdicts \cup {"abandoned", "raised"}
  BY <1>1 DEF SealInv, VerdictsTell, Shapes, Coroutines
<1>3. CASE \E code \in Codes : Fault(i, code, v)
  <2>1. onDisk' \subseteq onDisk
    BY DEF RemoveWorkspace
  <2>2. QED
    BY <1>1, <1>2, <1>3, <2>1, FaultSeal DEF RemoveWorkspace
<1>4. CASE /\ grading' = [grading EXCEPT ![i].at = "graded"] /\ UNCHANGED dead
           /\ onDisk' = onDisk \ {i} /\ v # "abandoned" /\ v # "raised"
  <2> DEFINE r == [grading[i] EXCEPT !.at = "graded"]
  <2>1. /\ r \in Coroutines /\ r.at = "graded" /\ r.verdict = v
        /\ grading' = [grading EXCEPT ![i] = r]
    <3>1. "graded" \in Steps
      BY DEF Steps
    <3>2. QED
      BY <1>4, <3>1, NextStepTyped
  <2>2. r.verdict \in Verdicts
    BY <1>2, <1>4, <2>1
  <2> HIDE DEF r
  <2>3. QED
    BY <1>1, <1>4, <2>1, <2>2, HoldingIsGrading, GoesOnSeal DEF RemoveWorkspace
<1>5. QED
  <2>1. {"CLEANUP_FAILED", "EVALUATION_ABANDONED", "VALIDATOR_ERROR"} \subseteq Codes
    BY DEF Codes
  <2>2. QED
    BY <1>3, <1>4, <2>1 DEF RemoveWorkspace

LEMMA GradedEvalsTyped ==
    ASSUME SealInv, pc = "grading" PROVE GradedEvals \subseteq Graded
<1>1. \A i \in DOMAIN grading : Members(i) \subseteq Miners
  <2>1. reveal.grants \in Seq([miner: Miners, content: Contents])
    BY DEF SealInv, RevealBound
  <2>2. \A j \in DOMAIN reveal.grants : reveal.grants[j] \in [miner: Miners, content: Contents]
    BY <2>1, ElementOfTuple
  <2>3. QED
    BY <2>2 DEF Members
<1>2. QED
  BY <1>1 DEF GradedEvals, Graded

LEMMA CollectOutcomesSeal == ASSUME Inv, SealInv, CollectOutcomes PROVE SealInv'
<1>1. evals' = evals \cup GradedEvals /\ evals' \subseteq Graded
  BY GradedEvalsTyped DEF CollectOutcomes, SealInv, Shapes
<1>2. UNCHANGED <<now, lease, answer, reveal, grading, dead>> /\ onDisk' = {} /\ pc = "grading"
  BY DEF CollectOutcomes
<1>3. Faulted' = Faulted
  BY <1>2 DEF Faulted
<1>4. CASE Faulted # {}
  <2>1. Min(Faulted) \in Faulted
    <3>1. \E x \in Faulted : \A y \in Faulted : x <= y
      BY <1>4, LeastNatural DEF Inv, CoroutinesTell, Faulted
    <3>2. QED
      BY <3>1 DEF Min
  <2>2. grading[Min(Faulted)].fault \in Codes \cup {Nothing}
    BY <2>1 DEF Faulted, SealInv, Shapes, Coroutines
  <2>3. /\ pc' = "done" /\ result' \in RoundResults
        /\ result'.status = "abandoned" /\ result'.evaluations = {}
    BY <1>4, <2>2 DEF CollectOutcomes, Abandon, Result, RoundResults
  <2>4. Shapes'
    BY <1>1, <1>2, <2>3 DEF SealInv, Shapes, Places
  <2>5. AnswersBound' /\ RevealBound' /\ VerdictsTell' /\ EvalsTell'
    BY <1>2, <1>3, <2>3 DEF SealInv, AnswersBound, RevealBound, VerdictsTell, EvalsTell
  <2>6. QED
    BY <2>4, <2>5 DEF SealInv
<1>5. CASE Faulted = {}
  <2>1. pc' = "feedback" /\ UNCHANGED result
    BY <1>5 DEF CollectOutcomes
  <2>2. Shapes'
    BY <1>1, <1>2, <2>1 DEF SealInv, Shapes, Places
  <2>3. AnswersBound' /\ RevealBound'
    BY <1>2, <2>1, RevealKept DEF SealInv, AnswersBound, RevealBound, Places, Drawn
  <2>4. VerdictsTell'
    BY <1>2, <1>3 DEF SealInv, VerdictsTell
  <2>5. EvalsTell'
    BY <1>1, <1>2, <2>1 DEF SealInv, EvalsTell, Refusals, GradedEvals, Members
  <2>6. QED
    BY <2>2, <2>3, <2>4, <2>5 DEF SealInv
<1>6. QED
  BY <1>4, <1>5

LEMMA CompleteSeal == ASSUME SealInv, Complete PROVE SealInv'
<1>1. result' \in RoundResults /\ result'.status = "completed"
  BY DEF Complete, Result, RoundResults, SealInv, Shapes, Graded
<1>2. QED
  BY <1>1, EndsSeal DEF Complete, Passes, SealInv, Shapes

LEMMA NextSeal == Inv /\ SealInv /\ [Next]_vars => SealInv'
<1> SUFFICES ASSUME Inv, SealInv, [Next]_vars PROVE SealInv'
  OBVIOUS
<1>1. CASE UNCHANGED vars
  <2>1. Shapes' /\ AnswersBound' /\ RevealBound'
    BY <1>1, RevealKept DEF vars, SealInv, Shapes, AnswersBound, RevealBound, Drawn
  <2>2. VerdictsTell' /\ EvalsTell'
    BY <1>1 DEF vars, SealInv, VerdictsTell, Faulted, EvalsTell, Refusals, GradedEvals, Members
  <2>3. QED
    BY <2>1, <2>2 DEF SealInv
<1>2. CASE \E i \in DOMAIN grading : Grade(i)
  BY <1>2, AcquireSlotSeal, FetchSubmissionSeal, MaterializeWorkspaceSeal, EvaluateSeal,
     RemoveWorkspaceSeal DEF Grade
<1>3. QED
  BY <1>1, <1>2, TickSeal, LeaseSeal, PrepareWorkspaceSeal, DispatchedSeal, EndDispatchSeal, CommitSeal,
     CheckRevealSeal, LoadVerifierSeal, CollectOutcomesSeal, CompleteSeal DEF Next, Done

LEMMA Invariance == Spec => [](Inv /\ SealInv)
<1>1. Init => Inv /\ SealInv
  BY InitInv, InitSeal
<1>2. Inv /\ SealInv /\ [Next]_vars => (Inv /\ SealInv)'
  BY NextInv, NextSeal
<1>3. QED
  BY <1>1, <1>2, PTL DEF Spec
-----------------------------------------------------------------------------
\* Whatever the order in which gradings fail, a round in which one failed is
\* abandoned for the reason of the first in grant order (evaluate_round).
THEOREM FirstFaultDecidesAlways == Spec => []FirstFaultDecides
<1>1. Inv => FirstFaultDecides
  BY DEF Inv
<1>2. QED
  BY <1>1, Invariance, PTL

\* After a grading has failed, none that still waits for a slot starts work (grade
\* and round_dead).
THEOREM NothingStartsAfterFault == Spec => NoGradingAfterFault
<1> DEFINE Kept == \A i \in DOMAIN grading :
                      grading[i].at = "waiting" /\ Faulted # {}
                         => grading'[i].at \in {"waiting", "skipped"}
<1>1. Inv /\ [Next]_vars => [Kept]_vars
  <2> SUFFICES ASSUME Inv, Next PROVE Kept
    BY DEF Kept
  <2>1. CASE grading' = grading
    BY <2>1
  <2>2. CASE LoadVerifier
    BY <2>2 DEF LoadVerifier, Inv, CoroutinesTell
  <2>3. ASSUME NEW j \in DOMAIN grading, AcquireSlot(j), Faulted # {} PROVE Kept
    <3>1. dead
      BY <2>3 DEF Inv, DeadTells
    <3>2. "at" \in DOMAIN grading[j]
      BY DEF Inv, CoroutinesTell
    <3>3. grading' = [grading EXCEPT ![j].at = "skipped"]
      BY <2>3, <3>1 DEF AcquireSlot
    <3>4. grading'[j].at = "skipped" /\ \A i \in DOMAIN grading : i # j => grading'[i] = grading[i]
      BY <3>2, <3>3
    <3>5. QED
      BY <3>4
  <2>4. ASSUME NEW j \in DOMAIN grading, grading[j].at # "waiting", NEW r,
               grading' = [grading EXCEPT ![j] = r]
        PROVE  Kept
    BY <2>4
  <2>5. ASSUME NEW j \in DOMAIN grading,
               FetchSubmission(j) \/ MaterializeWorkspace(j) \/ Evaluate(j) \/ RemoveWorkspace(j)
        PROVE  Kept
    <3>1. grading[j].at # "waiting"
      BY <2>5 DEF FetchSubmission, MaterializeWorkspace, Evaluate, RemoveWorkspace
    <3>2. PICK r : grading' = [grading EXCEPT ![j] = r]
      BY <2>5 DEF FetchSubmission, MaterializeWorkspace, Evaluate, RemoveWorkspace, Fault
    <3>3. QED
      BY <2>4, <3>1, <3>2
  <2>6. CASE Faulted = {}
    BY <2>6
  <2>7. QED
    BY <2>1, <2>2, <2>3, <2>5, <2>6 DEF Next, Grade, Tick, LeaseUnavailable, LeaseGranted,
       CheckLease, PrepareWorkspace, Dispatched, EndDispatch, CommitFailed, Commit, CheckReveal,
       CollectOutcomes, Complete, Done, vars
<1>2. QED
  BY <1>1, Invariance, PTL DEF Spec, NoGradingAfterFault
-----------------------------------------------------------------------------
\* The type invariant, and with it the reservation: the disk never holds more miner
\* workspaces than grading slots, for any number of miners, groups and slots.
THEOREM StorageReservedAlways == Spec => []StorageReserved
<1>1. Inv /\ SealInv => StorageReserved
  <2> SUFFICES ASSUME Inv, SealInv PROVE StorageReserved
    OBVIOUS
  <2>1. TypeOK
    BY RoundAssumption DEF SealInv, Shapes, EvalsTell, TypeOK, Places
  <2>2. IsFiniteSet(Active \cup onDisk) /\ onDisk \subseteq Active \cup onDisk
    BY DEF Inv, SlotsHold
  <2>3. /\ Cardinality(onDisk) <= Cardinality(Active \cup onDisk)
        /\ Cardinality(onDisk) \in Nat /\ Cardinality(Active \cup onDisk) \in Nat
    BY <2>2, FS_Subset, FS_CardinalityType
  <2>4. QED
    BY <2>1, <2>3, RoundAssumption DEF StorageReserved, Inv, SlotsHold
<1>2. QED
  BY <1>1, Invariance, PTL
-----------------------------------------------------------------------------
(***************************************************************************)
(* The refinement, step by step.                                           *)
(***************************************************************************)
phaseBar == IF pc = "done" THEN IF result.status = "completed" THEN "judged" ELSE "void"
            ELSE IF pc \in {"start", "lease", "workspace", "dispatch"} THEN "open"
            ELSE "sealed"
answersBar == [m \in Drawn |-> IF answer[m] = Pending THEN NoAnswer ELSE answer[m]]
verdictsBar == IF result = Nothing THEN {} ELSE result.evaluations

LEMMA SealedBegins == Init => Sealed!SealedInit
  BY RoundAssumption, DrawnAreMiners DEF Init, Sealed!SealedInit

\* A round that ends without a result voids it.
LEMMA EndsVoid ==
    ASSUME SealInv, SealInv', pc # "done", pc' = "done", UNCHANGED answer, result'.status # "completed"
    PROVE  Sealed!Void
<1>1. result = Nothing /\ result' # Nothing /\ result'.evaluations = {}
  BY RoundAssumption DEF SealInv, EvalsTell
<1>2. QED
  BY <1>1 DEF Sealed!Void, SealInv, Shapes, Places

\* A step that moves the round on between two places of one phase shows nothing.
LEMMA SamePhase ==
    ASSUME SealInv, pc # "done", pc' # "done", UNCHANGED <<answer, result>>,
           pc \in {"start", "lease", "workspace", "dispatch"}
              <=> pc' \in {"start", "lease", "workspace", "dispatch"}
    PROVE  UNCHANGED Sealed!sealedVars
  BY DEF Sealed!sealedVars

LEMMA DispatchedAnswers ==
    ASSUME SealInv, NEW m \in Miners, Dispatched(m)
    PROVE  UNCHANGED Sealed!sealedVars \/ \E c \in Contents : m \in Drawn /\ Sealed!Answer(m, c)
<1>1. PICK c \in Contents \cup {NoAnswer} : answer' = [answer EXCEPT ![m] = c]
  BY DEF Dispatched
<1>2. m \in Drawn /\ pc = "dispatch" /\ pc' = "dispatch" /\ UNCHANGED result /\ answer[m] = Pending
  BY DEF Dispatched, SealInv, AnswersBound
<1>3. /\ c # Pending /\ answersBar[m] = NoAnswer
      /\ answersBar' = [answersBar EXCEPT ![m] = c]
  <2>1. c # Pending
    BY RoundAssumption
  <2>2. \A k \in Drawn : answer'[k] = IF k = m THEN c ELSE answer[k]
    BY <1>1, DrawnAreMiners DEF SealInv, Shapes
  <2>3. Drawn' = Drawn
    BY DEF Drawn
  <2>4. QED
    BY <1>2, <2>1, <2>2, <2>3 DEF answersBar
<1>4. CASE c = NoAnswer
  <2>1. answersBar' = answersBar
    BY <1>2, <1>3, <1>4 DEF answersBar
  <2>2. QED
    BY <1>2, <2>1 DEF Sealed!sealedVars, answersBar
<1>5. CASE c \in Contents
  BY <1>2, <1>3, <1>5 DEF Sealed!Answer, answersBar
<1>6. QED
  BY <1>4, <1>5

\* The groups and the verdicts they got, when all are graded: every granted miner is
\* a member of one group, whose content is what it answered.
LEMMA GroupsAnswer ==
    ASSUME Inv, SealInv, pc = "feedback"
    PROVE  /\ \A i \in Leaders : grading[i].verdict \in Verdicts
           /\ \A i, j \in Leaders : reveal.grants[i].content = reveal.grants[j].content => i = j
           /\ \A m \in Granted : \E i \in Leaders : m \in Members(i)
           /\ \A i \in Leaders : \A m \in Members(i) :
                 m \in Granted /\ answer[m] = reveal.grants[i].content
           /\ \A i \in Leaders : reveal.grants[i].content \in Contents
<1> DEFINE g == reveal.grants
           T == [miner: Miners, content: Contents]
<1>1. g \in Seq(T) /\ DOMAIN grading = Leaders /\ \A i \in DOMAIN g : g[i].content = answer[g[i].miner]
  BY DEF SealInv, RevealBound, GrantMatches
<1>2. /\ DOMAIN g = 1..Len(g) /\ Len(g) \in Nat
      /\ \A i \in DOMAIN g : g[i] \in T
  <2> HIDE DEF T, g
  <2>1. QED
    BY <1>1, ElementOfTuple
<1>3. \A i \in DOMAIN g : g[i].content \in Contents
  BY <1>2
<1> HIDE DEF T
<1>4. \A i \in Leaders : grading[i].verdict \in Verdicts
  <2> SUFFICES ASSUME NEW i \in Leaders PROVE grading[i].verdict \in Verdicts
    OBVIOUS
  <2>1. Faulted = {} /\ ~dead
    BY DEF Inv, DeadTells, SealInv, VerdictsTell
  <2>2. grading[i].at \in Ended
    BY <1>1 DEF Inv, CoroutinesTell
  <2>3. grading[i].at = "graded"
    BY <1>1, <2>1, <2>2 DEF Ended, Faulted, SealInv, VerdictsTell
  <2>4. QED
    BY <1>1, <2>3 DEF SealInv, VerdictsTell
<1>5. \A i, j \in Leaders : g[i].content = g[j].content => i = j
  <2> SUFFICES ASSUME NEW i \in Leaders, NEW j \in Leaders, g[i].content = g[j].content, i < j
               PROVE  FALSE
    BY <1>2 DEF Leaders
  <2>1. i \in 1..(j - 1)
    BY <1>2 DEF Leaders
  <2>2. QED
    BY <2>1 DEF Leaders
<1>6. \A m \in Granted : \E i \in Leaders : m \in Members(i)
  <2> SUFFICES ASSUME NEW k \in DOMAIN g PROVE \E i \in Leaders : g[k].miner \in Members(i)
    BY DEF Granted
  <2> DEFINE S == {j \in DOMAIN g : g[j].content = g[k].content}
  <2>1. PICK i \in S : \A j \in S : i <= j
    <3>1. S \subseteq Nat /\ k \in S
      BY <1>2
    <3> HIDE DEF S
    <3>2. QED
      BY <3>1, LeastNatural
  <2>2. i \in Leaders
    <3> SUFFICES ASSUME NEW j \in 1..(i - 1), g[j].content = g[i].content PROVE FALSE
      BY DEF Leaders
    <3>1. j \in S
      BY <1>2
    <3>2. QED
      BY <1>2, <2>1, <3>1
  <2>3. g[k].miner \in Members(i)
    BY DEF Members
  <2>4. QED
    BY <2>2, <2>3
<1>7. \A i \in Leaders : \A m \in Members(i) : m \in Granted /\ answer[m] = g[i].content
  BY <1>1 DEF Members, Granted
<1>8. QED
  BY <1>3, <1>4, <1>5, <1>6, <1>7 DEF Leaders

\* A completed round judges each drawn miner once, by what it answered.
LEMMA CompleteJudges == ASSUME Inv, SealInv, Complete PROVE Sealed!Judge
<1> DEFINE g == reveal.grants
           refused == reveal.failures
           verdictOf == [c \in Contents |->
                            IF \E i \in Leaders : g[i].content = c
                            THEN grading[CHOOSE i \in Leaders : g[i].content = c].verdict
                            ELSE "passed"]
           Judged(m) == [miner |-> m, verdict |-> IF m \in refused THEN "rejected"
                                                  ELSE verdictOf[answersBar[m]]]
<1>1. /\ pc = "feedback" /\ pc' = "done" /\ UNCHANGED answer
      /\ result' = [status |-> "completed", code |-> Nothing, evaluations |-> evals]
  BY DEF Complete, Result
<1>2. /\ Granted \cup refused = Drawn /\ refused \cap Granted = {}
      /\ DOMAIN grading = Leaders
  BY <1>1 DEF SealInv, RevealBound
<1>3. verdictOf \in [Contents -> Verdicts]
  <2>1. "passed" \in Verdicts
    BY DEF Verdicts
  <2>2. QED
    BY <1>1, <2>1, GroupsAnswer
<1>4. \A i \in Leaders : verdictOf[g[i].content] = grading[i].verdict
  <2> SUFFICES ASSUME NEW i \in Leaders PROVE verdictOf[g[i].content] = grading[i].verdict
    OBVIOUS
  <2>1. (CHOOSE j \in Leaders : g[j].content = g[i].content) = i
    BY <1>1, GroupsAnswer
  <2>2. g[i].content \in Contents
    BY <1>1, GroupsAnswer
  <2>3. QED
    BY <2>1, <2>2
<1>5. \A m \in Drawn : answersBar[m] = answer[m]
  BY <1>1, DrawnAreMiners DEF SealInv, AnswersBound, answersBar
<1> HIDE DEF verdictOf
<1>6. \A m \in Granted : m \in Drawn /\ m \notin refused
  BY <1>2
<1>7. \A i \in Leaders : \A m \in Members(i) :
         m \in Granted /\ Judged(m) = [miner |-> m, verdict |-> grading[i].verdict]
  BY <1>1, <1>4, <1>5, <1>6, GroupsAnswer
<1>8. evals = {Judged(m) : m \in Drawn}
  <2>1. evals = Refusals \cup GradedEvals
    BY <1>1 DEF SealInv, EvalsTell
  <2>2. Refusals = {Judged(m) : m \in refused}
    BY DEF Refusals
  <2>3. GradedEvals = {Judged(m) : m \in Granted}
    <3>1. GradedEvals = UNION {{[miner |-> m, verdict |-> grading[i].verdict] : m \in Members(i)} :
                                  i \in Leaders}
      BY <1>1, <1>2, GroupsAnswer DEF GradedEvals
    <3>2. \A e \in GradedEvals : e \in {Judged(m) : m \in Granted}
      <4> TAKE e \in GradedEvals
      <4>1. PICK i \in Leaders : e \in {[miner |-> m, verdict |-> grading[i].verdict] : m \in Members(i)}
        BY <3>1
      <4>2. PICK m \in Members(i) : e = [miner |-> m, verdict |-> grading[i].verdict]
        BY <4>1
      <4>3. m \in Granted /\ e = Judged(m)
        BY <1>7, <4>2
      <4> HIDE DEF Judged
      <4>4. QED
        BY <4>3
    <3>3. \A m \in Granted : Judged(m) \in GradedEvals
      BY <1>1, <1>7, <3>1, GroupsAnswer
    <3>4. QED
      BY <3>2, <3>3
  <2>4. QED
    BY <1>2, <2>1, <2>2, <2>3
<1>9. \A m \in Drawn \ refused : answersBar[m] # NoAnswer
  BY <1>1, <1>2, <1>5, GroupsAnswer, RoundAssumption
<1>10. /\ phaseBar = "sealed" /\ phaseBar' = "judged" /\ answersBar' = answersBar
       /\ verdictsBar' = evals
  <2>1. result' # Nothing
    <3>1. result' \in RoundResults
      BY <1>1 DEF RoundResults, SealInv, Shapes, Graded
    <3>2. QED
      BY <3>1, RoundAssumption
  <2>2. QED
    BY <1>1, <2>1 DEF phaseBar, answersBar, verdictsBar, Drawn
<1>11. QED
  BY <1>2, <1>3, <1>8, <1>9, <1>10 DEF Sealed!Judge, phaseBar, answersBar, verdictsBar

LEMMA SealedStep == Inv /\ SealInv /\ SealInv' /\ [Next]_vars => [Sealed!SealedNext]_(Sealed!sealedVars)
<1> SUFFICES ASSUME Inv, SealInv, SealInv', [Next]_vars
             PROVE  Sealed!SealedNext \/ UNCHANGED Sealed!sealedVars
  OBVIOUS
<1>1. CASE UNCHANGED <<pc, answer, result>>
  BY <1>1 DEF Sealed!sealedVars, Drawn
<1>2. CASE \E m \in Miners : Dispatched(m)
  BY <1>2, DispatchedAnswers DEF Sealed!SealedNext
<1>3. CASE Complete
  BY <1>3, CompleteJudges DEF Sealed!SealedNext
<1>4. CASE pc # "done" /\ pc' = "done" /\ UNCHANGED answer /\ result'.status # "completed"
  BY <1>4, EndsVoid DEF Sealed!SealedNext
<1>5. CASE EndDispatch /\ pc' = "commit"
  <2>1. Sealed!Seal
    BY <1>5 DEF EndDispatch, Abandon, Sealed!Seal, Drawn
  <2>2. QED
    BY <2>1 DEF Sealed!SealedNext
<1>6. CASE /\ pc = "workspace" /\ pc' = "dispatch" /\ UNCHANGED result
           /\ answer' = [m \in Miners |-> IF m \in lease.pool THEN Pending ELSE NoAnswer]
  <2>1. \A m \in Drawn : answer[m] = NoAnswer /\ answer'[m] \in {Pending, NoAnswer}
    BY <1>6, DrawnAreMiners DEF SealInv, AnswersBound
  <2>2. answersBar' = answersBar
    BY <2>1 DEF answersBar, Drawn
  <2>3. QED
    BY <1>6, <2>2 DEF Sealed!sealedVars, answersBar
<1>7. ASSUME NEW code, Abandon(code), pc # "done", UNCHANGED answer
      PROVE  Sealed!SealedNext \/ UNCHANGED Sealed!sealedVars
  BY <1>4, <1>7 DEF Abandon, Result
<1>8. CASE LeaseUnavailable \/ LeaseGranted \/ CheckLease \/ PrepareWorkspace \/ EndDispatch
  <2>1. CASE LeaseUnavailable
    BY <1>4, <2>1 DEF LeaseUnavailable, Result
  <2>2. CASE LeaseGranted \/ CheckLease
    BY <1>7, <2>2, SamePhase DEF LeaseGranted, CheckLease
  <2>3. CASE PrepareWorkspace
    BY <1>6, <1>7, <2>3 DEF PrepareWorkspace, AbandonOneOf
  <2>4. CASE EndDispatch
    BY <1>5, <1>7, <2>4 DEF EndDispatch
  <2>5. QED
    BY <1>8, <2>1, <2>2, <2>3, <2>4
<1>9. CASE CommitFailed \/ Commit \/ CheckReveal
  BY <1>7, <1>9, SamePhase DEF CommitFailed, Commit, CheckReveal
<1>10. CASE LoadVerifier
  BY <1>7, <1>10, SamePhase DEF LoadVerifier, AbandonOneOf
<1>11. CASE CollectOutcomes
  BY <1>7, <1>11, SamePhase DEF CollectOutcomes
<1>12. CASE Tick \/ Done \/ UNCHANGED vars \/ \E i \in DOMAIN grading : Grade(i)
  BY <1>1, <1>12 DEF Tick, Done, vars, Grade, AcquireSlot, FetchSubmission, MaterializeWorkspace,
     Evaluate, RemoveWorkspace
<1>13. QED
  BY <1>2, <1>3, <1>8, <1>9, <1>10, <1>11, <1>12 DEF Next

\* The round implements SealedRound (evaluate_round): answers are final before the
\* verifier is revealed, and a round judges every drawn miner once, by what it
\* answered, or nobody.
THEOREM RoundImplementsSealed == Spec => ImplementsSealedRound
<1>1. Inv /\ SealInv /\ (Inv /\ SealInv)' /\ [Next]_vars => [Sealed!SealedNext]_(Sealed!sealedVars)
  BY SealedStep
<1>2. QED
  BY <1>1, SealedBegins, Invariance, PTL DEF Spec, ImplementsSealedRound, Sealed!SealedSpec
=============================================================================
