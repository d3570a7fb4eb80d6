-------------------------------- MODULE Round --------------------------------
(***************************************************************************)
(* evaluate_round of rlvr/v3/round.py: one challenge from lease to result. *)
(*                                                                         *)
(* `pc` follows the coroutine; the dispatch coroutines and the grading     *)
(* coroutines run interleaved with each other (asyncio.gather). The        *)
(* problem server, the miners, the disk and the graders are external: they *)
(* choose what they answer, well formed or not.                            *)
(***************************************************************************)
EXTENDS Integers, Sequences, FiniteSets, SequencesExt

CONSTANTS Miners,             \* registrations (uid, hotkey)
          Offered,            \* the validator's order: a sequence of Miners
          MinersPerTask,      \* policy.miners_per_task
          Quorum,             \* policy.commit_quorum
          GradingConcurrency, \* policy.grading_concurrency
          MinLease,           \* policy.min_lease_s
          Contents,           \* submissions, told apart by sha256
          NoAnswer,           \* no signed response
          Pending,            \* dispatch not finished
          Nothing,            \* None
          MaxNow              \* bound: clock

Verdicts == {"passed", "failed", "rejected"}

\* RoundReason; EVALUATION_ABANDONED stands for the reasons an evaluation gives.
Codes == {"LEASE_UNAVAILABLE", "SLOT_POOL_MISMATCH", "LEASE_QUORUM_MISMATCH", "LEASE_TOO_SHORT",
          "UNSUPPORTED_PROFILE", "UNSUPPORTED_VERIFIER_POLICY", "CLEANUP_FAILED",
          "INSUFFICIENT_STORAGE", "WORKSPACE_DOWNLOAD_FAILED", "WORKSPACE_EXTRACTION_FAILED",
          "WORKSPACE_MATERIALIZATION_FAILED", "QUORUM_NOT_MET", "COMMIT_FAILED", "REVEAL_MISMATCH",
          "GRADING_EXPIRED", "SUBMISSION_FORMAT_MISMATCH", "SUBMISSION_GRANT_MISMATCH",
          "VERIFIER_DOWNLOAD_FAILED", "VERIFIER_INVALID", "SUBMISSION_DOWNLOAD_FAILED",
          "EVALUATION_ABANDONED", "VALIDATOR_ERROR"}

\* RoundResult
RoundResults == [status: {"unavailable", "abandoned", "completed"}, code: Codes \cup {Nothing},
                 evaluations: SUBSET [miner: Miners, verdict: Verdicts \cup {"abandoned"}]]

ASSUME RoundAssumption ==
    /\ IsFiniteSet(Miners) /\ Offered \in Seq(Miners)
    /\ \A i, j \in DOMAIN Offered : Offered[i] = Offered[j] => i = j
    /\ MinersPerTask \in Nat \ {0}
    /\ Quorum \in 1..MinersPerTask
    /\ GradingConcurrency \in Nat \ {0}
    /\ MinLease \in Nat \ {0}
    /\ MaxNow \in Nat
    /\ NoAnswer \notin Contents /\ Pending \notin Contents /\ NoAnswer # Pending
    /\ Nothing \notin Codes \cup Verdicts \cup {"abandoned", "raised"} \cup RoundResults

VARIABLES pc,       \* where evaluate_round is
          now,      \* time.time()
          lease,    \* the LeaseResponse
          answer,   \* miner -> signed submission, NoAnswer or Pending
          reveal,   \* the CommitRevealResponse
          grading,  \* first grant of a group -> state of its grade() coroutine
          dead,     \* round_dead.is_set()
          onDisk,   \* the groups whose miner workspace exists
          evals,    \* the list `evaluations`
          result    \* the RoundResult

vars == <<pc, now, lease, answer, reveal, grading, dead, onDisk, evals, result>>

\* offered[:min(miners_per_task, len(offered))]
Drawn == {Offered[i] : i \in 1..(IF Len(Offered) < MinersPerTask THEN Len(Offered)
                                                               ELSE MinersPerTask)}

Result(status, code, evaluations) ==
    [status |-> status, code |-> code, evaluations |-> evaluations]

\* finish("abandoned", ...): the observed evaluations go to diagnostics only.
Abandon(code) ==
    /\ pc' = "done"
    /\ result' = Result("abandoned", code, {})

\* One of several faults of the step in hand ends the round.
AbandonOneOf(codes) == \E code \in codes : Abandon(code)

-----------------------------------------------------------------------------
Init ==
    /\ pc = "start" /\ now = 0
    /\ lease = Nothing /\ answer = [m \in Miners |-> NoAnswer] /\ reveal = Nothing
    /\ grading = <<>> /\ dead = FALSE /\ onDisk = {} /\ evals = {}
    /\ result = Nothing

\* Time passes while the coroutine waits. solve_v3 returns before the lease
\* expires (module Dispatch), so waiting for miners does not outlast it.
Tick ==
    /\ pc # "done"
    /\ now < MaxNow
    /\ pc = "dispatch" => now + 1 < lease.expires
    /\ now' = now + 1
    /\ UNCHANGED <<pc, lease, answer, reveal, grading, dead, onDisk, evals, result>>

\* client.lease: no lease, or one that the wire model accepted.
LeaseUnavailable ==
    /\ pc = "start"
    /\ pc' = "done"
    /\ result' = Result("unavailable", "LEASE_UNAVAILABLE", {})
    /\ UNCHANGED <<now, lease, answer, reveal, grading, dead, onDisk, evals>>

\* LeaseResponse: distinct miners, a quorum they can reach. The task and artifact
\* bindings are checked by the parser and told apart only by the two flags.
Leases == {l \in [pool: SUBSET Miners \ {{}}, quorum: 1..Cardinality(Miners),
                  expires: 1..MaxNow, profile: BOOLEAN, policy: BOOLEAN] :
              l.quorum <= Cardinality(l.pool)}

LeaseGranted ==
    /\ pc = "start"
    /\ Offered # <<>>
    /\ lease' \in Leases
    /\ pc' = "lease"
    /\ UNCHANGED <<now, answer, reveal, grading, dead, onDisk, evals, result>>

\* The checks on the lease, in their order.
LeaseFault ==
    IF lease.pool # Drawn                  THEN "SLOT_POOL_MISMATCH"
    ELSE IF lease.quorum # Quorum          THEN "LEASE_QUORUM_MISMATCH"
    ELSE IF lease.expires - now < MinLease THEN "LEASE_TOO_SHORT"
    ELSE IF ~lease.profile                 THEN "UNSUPPORTED_PROFILE"
    ELSE IF ~lease.policy                  THEN "UNSUPPORTED_VERIFIER_POLICY"
    ELSE Nothing

CheckLease ==
    /\ pc = "lease"
    /\ IF LeaseFault # Nothing THEN Abandon(LeaseFault)
       ELSE pc' = "workspace" /\ UNCHANGED result
    /\ UNCHANGED <<now, lease, answer, reveal, grading, dead, onDisk, evals>>

\* Stale directories are removed, the workspace is downloaded and cached, and
\* right before contacting miners the lease must still leave them MinLease.
PrepareWorkspace ==
    /\ pc = "workspace"
    /\ \/ /\ AbandonOneOf({"CLEANUP_FAILED", "INSUFFICIENT_STORAGE", "WORKSPACE_DOWNLOAD_FAILED",
                           "WORKSPACE_EXTRACTION_FAILED", "WORKSPACE_MATERIALIZATION_FAILED"})
          /\ UNCHANGED answer
       \/ IF lease.expires - now < MinLease
          THEN Abandon("LEASE_TOO_SHORT") /\ UNCHANGED answer
          ELSE /\ pc' = "dispatch"
               /\ answer' = [m \in Miners |-> IF m \in lease.pool THEN Pending ELSE NoAnswer]
               /\ UNCHANGED result
    /\ UNCHANGED <<now, lease, reveal, grading, dead, onDisk, evals>>

\* dispatch(slots): a signed, slot-matched response, or a failed submission
\* (not serving, no usable response, or an exception).
Dispatched(m) ==
    /\ pc = "dispatch"
    /\ answer[m] = Pending
    /\ \E c \in Contents \cup {NoAnswer} : answer' = [answer EXCEPT ![m] = c]
    /\ UNCHANGED <<pc, now, lease, reveal, grading, dead, onDisk, evals, result>>

Signed == {m \in Miners : answer[m] \in Contents}

\* gather returned: with a quorum of signed responses the submissions are sealed.
EndDispatch ==
    /\ pc = "dispatch"
    /\ \A m \in lease.pool : answer[m] # Pending
    /\ IF Cardinality(Signed) < lease.quorum THEN Abandon("QUORUM_NOT_MET")
       ELSE pc' = "commit" /\ UNCHANGED result
    /\ UNCHANGED <<now, lease, answer, reveal, grading, dead, onDisk, evals>>

\* client.commit: nothing usable, or a reveal.
CommitFailed ==
    /\ pc = "commit"
    /\ Abandon("COMMIT_FAILED")
    /\ UNCHANGED <<now, lease, answer, reveal, grading, dead, onDisk, evals>>

\* CommitRevealResponse: no miner is named twice. A grant is for one miner, with the
\* content the server stored for it; `misformatted` is the first grant of another
\* format than the task's, 0 if none.
Grants == UNION {{[i \in 1..Len(order) |-> [miner |-> order[i], content |-> f[order[i]]]] :
                     f \in [ToSet(order) -> Contents]} :
                     order \in UNION {SetToSeqs(S) : S \in SUBSET Miners}}
Reveals(grants) ==
    [grants: {grants}, failures: SUBSET (Miners \ {grants[i].miner : i \in DOMAIN grants}),
     expires: 1..MaxNow, bound: BOOLEAN, misformatted: 0..Len(grants)]

Commit ==
    /\ pc = "commit"
    /\ \E grants \in Grants : reveal' \in Reveals(grants)
    /\ pc' = "reveal"
    /\ UNCHANGED <<now, lease, answer, grading, dead, onDisk, evals, result>>

Granted == {reveal.grants[i].miner : i \in DOMAIN reveal.grants}

\* validate_commit_reveal: the challenge, task and verifier are the lease's, and
\* every submitted miner has a grant or a failure.
RevealMatches == reveal.bound /\ Granted \cup reveal.failures = lease.pool

CheckReveal ==
    /\ pc = "reveal"
    /\ IF ~RevealMatches THEN Abandon("REVEAL_MISMATCH")
       ELSE IF reveal.expires <= now THEN Abandon("GRADING_EXPIRED")
       ELSE pc' = "verifier" /\ UNCHANGED result
    /\ UNCHANGED <<now, lease, answer, reveal, grading, dead, onDisk, evals>>

\* Faulty variant: grants are not compared with what the miners signed.
GrantTrusted(g) == g.miner \in Miners

\* _grant_matches_signed_response
GrantMatches(g) == g.content = answer[g.miner]

\* The grants that end the round; the first of them names the reason.
BadGrants == {i \in DOMAIN reveal.grants :
                 i = reveal.misformatted \/ ~GrantMatches(reveal.grants[i])}
GrantFault == IF BadGrants = {} THEN Nothing
              ELSE IF Min(BadGrants) = reveal.misformatted THEN "SUBMISSION_FORMAT_MISMATCH"
              ELSE "SUBMISSION_GRANT_MISMATCH"

\* groups: byte-identical submissions, each known by its first grant and taken in
\* the order of these.
Leaders == {i \in DOMAIN reveal.grants :
               \A j \in 1..(i - 1) : reveal.grants[j].content # reveal.grants[i].content}
Members(i) == {reveal.grants[j].miner : j \in {k \in DOMAIN reveal.grants :
                                                 reveal.grants[k].content = reveal.grants[i].content}}

Waiting == [at |-> "waiting", verdict |-> Nothing, fault |-> Nothing]

\* The verifier is downloaded, extracted and loaded; the server's failures are
\* rejections; then every grant is checked before any grading starts.
LoadVerifier ==
    /\ pc = "verifier"
    /\ \/ /\ AbandonOneOf({"INSUFFICIENT_STORAGE", "VERIFIER_DOWNLOAD_FAILED", "VERIFIER_INVALID"})
          /\ UNCHANGED <<evals, grading>>
       \/ /\ evals' = {[miner |-> m, verdict |-> "rejected"] : m \in reveal.failures}
          /\ IF GrantFault # Nothing THEN Abandon(GrantFault) /\ UNCHANGED grading
             ELSE /\ pc' = "grading"
                  /\ grading' = [i \in Leaders |-> Waiting]
                  /\ UNCHANGED result
    /\ UNCHANGED <<now, lease, answer, reveal, dead, onDisk>>

(***************************************************************************)
(* grade and grade_once: one coroutine per group under a semaphore of      *)
(* GradingConcurrency slots, granted first come, first served.             *)
(***************************************************************************)
\* Faulty variant: a grading that raises keeps its slot.
HoldingFaulted == {"fetching", "copying", "evaluating", "removing", "faulted"}
Holding == {"fetching", "copying", "evaluating", "removing"}
Ended == {"graded", "faulted", "skipped"}
Active == {i \in DOMAIN grading : grading[i].at \in Holding}

\* Faulty variant: round_dead is not set.
FaultUnmarked(i, code, verdict) ==
    /\ grading' = [grading EXCEPT ![i] = [at |-> "faulted", verdict |-> verdict, fault |-> code]]
    /\ UNCHANGED dead

\* A grading raised: round_dead is set before the slot is given back.
Fault(i, code, verdict) ==
    /\ grading' = [grading EXCEPT ![i] = [at |-> "faulted", verdict |-> verdict, fault |-> code]]
    /\ dead' = TRUE

\* Faulty variant: round_dead is not read.
AcquireSlotAlways(i) ==
    /\ pc = "grading"
    /\ grading[i].at = "waiting"
    /\ \A j \in DOMAIN grading : j < i => grading[j].at # "waiting"
    /\ Cardinality(Active) < GradingConcurrency
    /\ grading' = [grading EXCEPT ![i].at = "fetching"]
    /\ UNCHANGED <<pc, now, lease, answer, reveal, dead, onDisk, evals, result>>

AcquireSlot(i) ==
    /\ pc = "grading"
    /\ grading[i].at = "waiting"
    /\ \A j \in DOMAIN grading : j < i => grading[j].at # "waiting"
    /\ Cardinality(Active) < GradingConcurrency
    /\ grading' = [grading EXCEPT ![i].at = IF dead THEN "skipped" ELSE "fetching"]
    /\ UNCHANGED <<pc, now, lease, answer, reveal, dead, onDisk, evals, result>>

\* fetch_submission, then the grading deadline and the free disk are checked
\* (asking the disk can raise).
FetchSubmission(i) ==
    /\ grading[i].at = "fetching"
    /\ \/ Fault(i, "SUBMISSION_DOWNLOAD_FAILED", Nothing)
       \/ IF reveal.expires <= now THEN Fault(i, "GRADING_EXPIRED", Nothing)
          ELSE \/ \E code \in {"INSUFFICIENT_STORAGE", "VALIDATOR_ERROR"} : Fault(i, code, Nothing)
               \/ grading' = [grading EXCEPT ![i].at = "copying"] /\ UNCHANGED dead
    /\ UNCHANGED <<pc, now, lease, answer, reveal, onDisk, evals, result>>

\* materialize_workspace removes what it made when it fails.
MaterializeWorkspace(i) ==
    /\ grading[i].at = "copying"
    /\ \/ Fault(i, "WORKSPACE_MATERIALIZATION_FAILED", Nothing) /\ UNCHANGED onDisk
       \/ /\ grading' = [grading EXCEPT ![i].at = "evaluating"]
          /\ onDisk' = onDisk \cup {i}
          /\ UNCHANGED dead
    /\ UNCHANGED <<pc, now, lease, answer, reveal, evals, result>>

\* evaluate_repository or evaluate_terminal in a thread: a verdict, a result
\* that abandons the round, or an exception (which leaves `graded` empty).
Evaluate(i) ==
    /\ grading[i].at = "evaluating"
    /\ \E v \in Verdicts \cup {"abandoned", "raised"} :
          grading' = [grading EXCEPT ![i] = [at |-> "removing", fault |-> Nothing, verdict |-> v]]
    /\ UNCHANGED <<pc, now, lease, answer, reveal, dead, onDisk, evals, result>>

\* The finally clause: a workspace that cannot be removed ends the round,
\* carrying what was graded.
RemoveWorkspace(i) ==
    /\ grading[i].at = "removing"
    /\ LET v == grading[i].verdict IN
       \/ Fault(i, "CLEANUP_FAILED", v) /\ UNCHANGED onDisk
       \/ /\ onDisk' = onDisk \ {i}
          /\ CASE v = "abandoned" -> Fault(i, "EVALUATION_ABANDONED", v)
               [] v = "raised"    -> Fault(i, "VALIDATOR_ERROR", v)
               [] OTHER           -> /\ grading' = [grading EXCEPT ![i].at = "graded"]
                                     /\ UNCHANGED dead
    /\ UNCHANGED <<pc, now, lease, answer, reveal, evals, result>>

Faulted == {i \in DOMAIN grading : grading[i].at = "faulted"}

\* gather returned. Verdicts are recorded even when the round is abandoned, the
\* first fault in grant order decides, and the round directory is removed.
GradedEvals == UNION {{[miner |-> m, verdict |-> grading[i].verdict] : m \in Members(i)} :
                         i \in {j \in DOMAIN grading :
                                  grading[j].verdict \in Verdicts \cup {"abandoned"}}}

\* Faulty variant: the last fault decides.
CollectOutcomesLast ==
    /\ pc = "grading"
    /\ \A i \in DOMAIN grading : grading[i].at \in Ended
    /\ evals' = evals \cup GradedEvals
    /\ onDisk' = {}
    /\ IF Faulted # {} THEN Abandon(grading[Max(Faulted)].fault)
       ELSE pc' = "feedback" /\ UNCHANGED result
    /\ UNCHANGED <<now, lease, answer, reveal, grading, dead>>

CollectOutcomes ==
    /\ pc = "grading"
    /\ \A i \in DOMAIN grading : grading[i].at \in Ended
    /\ evals' = evals \cup GradedEvals
    /\ onDisk' = {}
    /\ IF Faulted # {} THEN Abandon(grading[Min(Faulted)].fault)
       ELSE pc' = "feedback" /\ UNCHANGED result
    /\ UNCHANGED <<now, lease, answer, reveal, grading, dead>>

\* Diagnostic feedback is best effort; then finish("completed").  (A temporary directory
\* that cannot be removed on the way out, CLEANUP_FAILED, abandons the round as a fault in
\* grading does, and is left out.)
Complete ==
    /\ pc = "feedback"
    /\ pc' = "done"
    /\ result' = Result("completed", Nothing, evals)
    /\ UNCHANGED <<now, lease, answer, reveal, grading, dead, onDisk, evals>>

Grade(i) == AcquireSlot(i) \/ FetchSubmission(i) \/ MaterializeWorkspace(i)
            \/ Evaluate(i) \/ RemoveWorkspace(i)

Done == pc = "done" /\ UNCHANGED vars

Next ==
    \/ Tick \/ LeaseUnavailable \/ LeaseGranted \/ CheckLease \/ PrepareWorkspace
    \/ \E m \in Miners : Dispatched(m)
    \/ EndDispatch \/ CommitFailed \/ Commit \/ CheckReveal \/ LoadVerifier
    \/ \E i \in DOMAIN grading : Grade(i)
    \/ CollectOutcomes \/ Complete \/ Done

\* Every await of the round is bounded by a timeout of its own, so no step that
\* can be taken is put off forever.
Fairness ==
    /\ WF_vars(LeaseUnavailable \/ LeaseGranted) /\ WF_vars(CheckLease) /\ WF_vars(PrepareWorkspace)
    /\ \A m \in Miners : WF_vars(Dispatched(m))
    /\ WF_vars(EndDispatch) /\ WF_vars(CommitFailed \/ Commit)
    /\ WF_vars(CheckReveal) /\ WF_vars(LoadVerifier)
    /\ \A i \in 1..Cardinality(Miners) : WF_vars(i \in DOMAIN grading /\ Grade(i))
    /\ WF_vars(CollectOutcomes) /\ WF_vars(Complete)

Spec == Init /\ [][Next]_vars
FairSpec == Spec /\ Fairness
-----------------------------------------------------------------------------
Graded == [miner: Miners, verdict: Verdicts \cup {"abandoned"}]

TypeOK ==
    /\ pc \in {"start", "lease", "workspace", "dispatch", "commit", "reveal", "verifier",
               "grading", "feedback", "done"}
    /\ now \in 0..MaxNow
    /\ answer \in [Miners -> Contents \cup {NoAnswer, Pending}]
    /\ dead \in BOOLEAN
    /\ DOMAIN grading \subseteq 1..Cardinality(Miners) /\ onDisk \subseteq DOMAIN grading
    /\ evals \subseteq Graded
    /\ (pc = "done") <=> (result # Nothing)

\* The round implements SealedRound: answers are final before the verifier is
\* revealed; a completed round publishes exactly one verdict for each miner the
\* validator drew, byte-identical submissions the same one, a miner without a
\* signed answer none but "rejected"; any other round publishes nothing.
Sealed == INSTANCE SealedRound WITH
    Pool     <- Drawn,
    phase    <- IF pc = "done" THEN IF result.status = "completed" THEN "judged" ELSE "void"
                ELSE IF pc \in {"start", "lease", "workspace", "dispatch"} THEN "open"
                ELSE "sealed",
    answers  <- [m \in Drawn |-> IF answer[m] = Pending THEN NoAnswer ELSE answer[m]],
    verdicts <- IF result = Nothing THEN {} ELSE result.evaluations
ImplementsSealedRound == Sealed!SealedSpec

\* round_dead: "no new grading starts after it". Once one grading has failed no
\* coroutine that still waits for a slot starts work, however they interleave.
NoGradingAfterFault ==
    [][ \A i \in DOMAIN grading :
          grading[i].at = "waiting" /\ Faulted # {} => grading'[i].at \in {"waiting", "skipped"} ]_vars

\* The storage reserved before grading (max_total_file_bytes times
\* grading_concurrency) is enough: there are never more miner workspaces on disk
\* than grading slots, failed removals included.  The first conjunct is the type
\* invariant.
StorageReserved ==
    /\ TypeOK
    /\ Cardinality(onDisk) <= GradingConcurrency

\* "the first grading fault in grant order decides": whatever the order in which
\* gradings fail in time, the reason of the round is the one of the first group,
\* and a round in which any grading failed is abandoned.
FirstFaultDecides ==
    pc = "done" /\ Faulted # {} =>
        /\ result.status = "abandoned"
        /\ \E i \in Faulted : /\ result.code = grading[i].fault
                              /\ \A j \in Faulted : i <= j

\* Every round ends: no coroutine waits for a slot, an answer or another
\* coroutine forever, whichever of them fail.
Terminates == <>(pc = "done")
=============================================================================
