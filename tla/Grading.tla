-------------------------------- MODULE Grading --------------------------------
(***************************************************************************)
(* The grading of one submission in rlvr/v3/grading.py: evaluate_repository*)
(* and evaluate_terminal from the fresh workspace to the verdict, with the *)
(* patch applied in a container (rlvr/v3/patch.py) and the result tree     *)
(* inspected between the containers that could change it (rlvr/v3/tree.py).*)
(* A container is one step here; Supervisor is about that step.            *)
(***************************************************************************)
EXTENDS Integers, Sequences, FiniteSets

CONSTANT MaxChecks   \* bound: checks of a manifest (1 to 64 in parse_manifest)

\* What is assumed of the constants; evaluated in ValidatorParts.
GradingAssumption == MaxChecks \in Nat \ {0}

\* parse_manifest: a manifest has at least one check; each is an invocation of the
\* candidate's code or an inspection of its result by trusted code.
CheckKinds == {"invocation", "inspection"}
Manifests == UNION {[1..n -> CheckKinds] : n \in 1..MaxChecks}

VARIABLES task,      \* "repository" or "terminal"
          setup,     \* manifest.setup is not None
          checks,    \* manifest.checks
          pc,        \* the step the grading thread is at
          dir,       \* the task's working directory (or result directory) exists
          tree,      \* "sound", or "unsafe" after candidate code changed it
          completed, \* the outcomes of completed checks
          result,    \* the EvaluationResult
          faults     \* ghost: faults of the validator's own machinery

vars == <<task, setup, checks, pc, dir, tree, completed, result, faults>>

NoResult == [status |-> "none", reason |-> "none", checks |-> <<>>]

\* materialize_workspace has just copied a verified workspace, but the archive's
\* author may not have put the task's directory in it.
Init ==
    /\ task \in {"repository", "terminal"} /\ setup \in BOOLEAN /\ checks \in Manifests
    /\ pc = "start" /\ dir \in BOOLEAN /\ tree = "sound"
    /\ completed = <<>> /\ result = NoResult
    /\ faults = {}

Conclude(status, reason, outcomes) ==
    /\ result' = [status |-> status, reason |-> reason, checks |-> outcomes]
    /\ pc' = "ended"

\* Faulty variant: only the checks that were reached.
StopUnpadded(status, reason, outcomes) == Conclude(status, reason, outcomes)

\* _stop: what was not reached is skipped.
Stop(status, reason, outcomes) ==
    Conclude(status, reason,
             [i \in 1..Len(checks) |-> IF i <= Len(outcomes) THEN outcomes[i] ELSE "skipped"])

Goto(step) == pc' = step /\ UNCHANGED result

\* Ghost: whether what a step met is the validator's fault or the submission's.
Fault(f) == faults' = faults \cup {f}
NoFault == UNCHANGED faults

\* _task_directory gives None for a path that is not a directory all the way
\* down, and for one the host could not look at.
Missing(gone) == (gone /\ NoFault) \/ Fault("host_io")

\* What run_container returns: the expected exit and output, something else, the
\* exit code of a program that could not be run, or a limit that was reached.
\* Candidate code may leave the writable mount in any state.
Ends == {"expected", "other", "unrunnable", "limit"}
CandidateWrites == tree' \in {"sound", "unsafe"} /\ dir' \in BOOLEAN
Untouched == UNCHANGED <<tree, dir>>
-----------------------------------------------------------------------------
\* _static_rejection: what the patch is, before git sees it.
StaticRejection == Conclude("rejected", "PATCH_STATIC_REJECTED", <<>>) /\ NoFault

\* _walk_tree before the patch: a workspace the host cannot read.
BaselineUnreadable == Conclude("abandoned", "PATCH_TOOL_FAILED", <<>>) /\ Fault("host_io")

\* The workspace and the static checks of a submission (_static_rejection of a
\* patch, validate_script of a script); a patch is looked at only after the
\* working directory, a script before the result directory.
StartRepository ==
    /\ pc = "start" /\ task = "repository"
    /\ \/ ~dir /\ Stop("abandoned", "WORKSPACE_INVALID", <<>>) /\ Fault("workspace")
       \/ dir /\ (StaticRejection \/ BaselineUnreadable)
       \/ dir /\ Goto("patch_check") /\ NoFault
       \/ dir /\ Goto("setup") /\ NoFault           \* an empty patch
       \/ dir /\ Stop("failed", "WORKING_DIRECTORY_INVALID", <<>>) /\ Fault("host_io")
    /\ Untouched /\ UNCHANGED <<task, setup, checks, completed>>

StartTerminal ==
    /\ pc = "start" /\ task = "terminal"
    /\ \/ Conclude("rejected", "SCRIPT_REJECTED", <<>>) /\ NoFault
       \/ ~dir /\ Stop("abandoned", "WORKSPACE_INVALID", <<>>) /\ Fault("workspace")
       \/ dir /\ Goto("setup") /\ NoFault
    /\ Untouched /\ UNCHANGED <<task, setup, checks, completed>>

\* git apply --check: a limit is the patch's doing, a missing git is not. Writing
\* the patch beside the workspace can fail, which nobody on this thread catches.
PatchCheck ==
    /\ pc = "patch_check"
    /\ \/ Conclude("abandoned", "PATCH_TOOL_FAILED", <<>>) /\ Fault("control")
       \/ Conclude("abandoned", "PATCH_TOOL_FAILED", <<>>) /\ Fault("executable")
       \/ Conclude("raised", "VALIDATOR_ERROR", <<>>) /\ Fault("host_io")
       \/ Conclude("rejected", "PATCH_APPLY_FAILED", <<>>) /\ NoFault
       \/ Goto("patch_apply") /\ NoFault
    /\ Untouched /\ UNCHANGED <<task, setup, checks, completed>>

\* git apply, then the walk over the patched tree; a directory the patch removed.
\* Every way the apply can end but success is put down to the patch, and so is a
\* tree or a directory that the host could not read.
PatchApply ==
    /\ pc = "patch_apply"
    /\ \/ /\ Conclude("abandoned", "PATCH_TOOL_FAILED", <<>>) /\ Fault("control")
          /\ CandidateWrites
       \/ /\ Conclude("raised", "VALIDATOR_ERROR", <<>>) /\ Fault("host_io")
          /\ CandidateWrites
       \/ /\ Conclude("rejected", "PATCH_APPLY_FAILED", <<>>) /\ NoFault
          /\ CandidateWrites
       \/ /\ CandidateWrites /\ tree' = "unsafe"
          /\ Conclude("rejected", "RESULT_TREE_INVALID", <<>>) /\ NoFault
       \/ /\ Untouched
          /\ Conclude("rejected", "RESULT_TREE_INVALID", <<>>) /\ Fault("host_io")
       \/ /\ CandidateWrites /\ tree' = "sound"
          /\ Stop("failed", "WORKING_DIRECTORY_INVALID", <<>>) /\ Missing(~dir')
       \/ /\ CandidateWrites /\ tree' = "sound" /\ dir'
          /\ Goto("setup") /\ NoFault
    /\ UNCHANGED <<task, setup, checks, completed>>

AfterSetup == IF task = "terminal" THEN "script" ELSE "inspect"

\* _run_setup, and for a script the check that the result directory survived it.
\* Setup runs with the candidate's rights on the candidate's tree.
Setup ==
    /\ pc = "setup"
    /\ \/ ~setup /\ Untouched /\ Goto(AfterSetup) /\ NoFault
       \/ /\ setup
          /\ Stop("abandoned", "SETUP_UNAVAILABLE", <<>>) /\ Fault("control")
          /\ CandidateWrites
       \/ /\ setup /\ CandidateWrites
          /\ Stop("failed", "SETUP_FAILED", <<>>) /\ NoFault
       \/ /\ setup /\ CandidateWrites
          /\ task = "terminal"
          /\ Stop("failed", "WORKING_DIRECTORY_INVALID", <<>>) /\ Missing(~dir')
       \/ /\ setup /\ CandidateWrites
          /\ task = "terminal" => dir'
          /\ Goto(AfterSetup) /\ NoFault
    /\ UNCHANGED <<task, setup, checks, completed>>

\* The script: whatever its exit code, the checks decide.
Script ==
    /\ pc = "script"
    /\ \/ Stop("abandoned", "SCRIPT_UNAVAILABLE", <<>>) /\ Fault("control") /\ CandidateWrites
       \/ Stop("failed", "LIMIT", <<>>) /\ NoFault /\ CandidateWrites
       \/ Goto("inspect") /\ NoFault /\ CandidateWrites
    /\ UNCHANGED <<task, setup, checks, completed>>
-----------------------------------------------------------------------------
\* Faulty variant: a tree is only looked at before the first check.
ResultTreeInvalidAtFirst == completed = <<>> /\ (tree = "unsafe" \/ (task = "terminal" /\ ~dir))

\* _inspect_result_tree fails on an unsafe entry and, for a script, on a path that
\* is no longer a directory all the way down.
ResultTreeInvalid == tree = "unsafe" \/ (task = "terminal" /\ ~dir)

\* inspect_tree turns an OSError into the same TreeError.
Inspect ==
    /\ pc = "inspect"
    /\ LET outcomes == [i \in 1..Len(completed) |->
                          IF i = Len(completed) THEN "failed" ELSE completed[i]]
       IN  \/ ResultTreeInvalid /\ Stop("failed", "RESULT_TREE_INVALID", outcomes) /\ NoFault
           \/ Stop("failed", "RESULT_TREE_INVALID", outcomes) /\ Fault("host_io")
    /\ UNCHANGED <<task, setup, checks, completed, dir, tree>>

InspectSound ==
    /\ pc = "inspect" /\ ~ResultTreeInvalid
    /\ Goto("check") /\ NoFault
    /\ UNCHANGED <<task, setup, checks, completed, dir, tree>>

Current == checks[Len(completed) + 1]
\* Faulty variant: a check recorded when it passes and again when its tree is sound.
PassedTwice == completed \o <<"passed", "passed">>

Passed == Append(completed, "passed")
Failed == Append(completed, "failed")

\* Faulty variant: a program that cannot be run is a failed check.
InspectionEndsBlaming(end) ==
    IF end = "expected" THEN Goto("check") /\ NoFault /\ completed' = Passed
    ELSE /\ Stop("failed", "CHECK_FAILED", Failed) /\ UNCHANGED completed
         /\ IF end = "unrunnable" THEN Fault("executable") ELSE NoFault

\* A trusted program that cannot be run is the validator's; the rest is the result's.
InspectionEnds(end) ==
    CASE end = "expected" ->
           Goto("check") /\ NoFault /\ completed' = Passed
      [] end = "unrunnable" ->
           /\ Stop("abandoned", "VERIFIER_UNAVAILABLE", Failed)
           /\ Fault("executable") /\ UNCHANGED completed
      [] OTHER ->
           Stop("failed", "CHECK_FAILED", Failed) /\ NoFault /\ UNCHANGED completed

\* A Mount refuses a path that is not a directory any more, and so does
\* run_container; the caller takes either for a fault of its own.
Mountable == task = "repository" \/ dir

InspectionCheck ==
    /\ pc = "check" /\ Len(completed) < Len(checks) /\ Current = "inspection"
    /\ \/ Mountable /\ \E end \in Ends : InspectionEnds(end)
       \/ /\ Stop("abandoned", "VERIFIER_UNAVAILABLE", completed)
          /\ IF Mountable THEN Fault("control") ELSE NoFault
          /\ UNCHANGED completed
    /\ Untouched /\ UNCHANGED <<task, setup, checks>>

\* A repository's checks run below its working directory, a script's below the root.
HasBase == task = "repository" => dir

\* An invocation runs candidate code on the writable workspace; if it passes, the
\* tree is inspected again before anything else looks at it.
InvocationCheck ==
    /\ pc = "check" /\ Len(completed) < Len(checks) /\ Current = "invocation"
    /\ \/ /\ Stop("failed", "WORKING_DIRECTORY_INVALID", Failed)
          /\ \E gone \in BOOLEAN : Missing(gone)    \* the directory or the cwd below it
          /\ Untouched /\ UNCHANGED completed
       \/ /\ HasBase /\ CandidateWrites
          /\ Stop("abandoned", "VERIFIER_UNAVAILABLE", completed) /\ Fault("control")
          /\ UNCHANGED completed
       \/ /\ HasBase /\ CandidateWrites
          /\ Stop("failed", "CHECK_FAILED", Failed) /\ NoFault /\ UNCHANGED completed
       \/ /\ HasBase /\ CandidateWrites
          /\ Goto("inspect") /\ NoFault /\ completed' = Passed
    /\ UNCHANGED <<task, setup, checks>>

AllPassed ==
    /\ pc = "check" /\ Len(completed) = Len(checks)
    /\ Conclude("passed", "none", completed) /\ NoFault
    /\ Untouched /\ UNCHANGED <<task, setup, checks, completed>>

Done == pc = "ended" /\ UNCHANGED vars

Next == StartRepository \/ StartTerminal \/ PatchCheck \/ PatchApply \/ Setup \/ Script
        \/ Inspect \/ InspectSound \/ InspectionCheck \/ InvocationCheck \/ AllPassed \/ Done

Spec == Init /\ [][Next]_vars
-----------------------------------------------------------------------------
TypeOK ==
    /\ task \in {"repository", "terminal"} /\ setup \in BOOLEAN /\ checks \in Manifests
    /\ pc \in {"start", "patch_check", "patch_apply", "setup", "script", "inspect", "check",
               "ended"}
    /\ dir \in BOOLEAN /\ tree \in {"sound", "unsafe"}
    /\ faults \subseteq {"workspace", "control", "executable", "host_io"}
    /\ Len(completed) <= Len(checks)
    /\ result.status \in {"none", "passed", "failed", "rejected", "abandoned", "raised"}

Ended == pc = "ended"
Graded == result.status \in {"passed", "failed", "rejected"}

\* What a look at a directory or a tree that is not as it should be is reported as.
FileReasons == {"WORKING_DIRECTORY_INVALID", "RESULT_TREE_INVALID"}

\* "Missing trusted executables and container control failures remain
\* infrastructure failures": whatever step they hit, no miner gets a verdict, and
\* neither does one whose workspace came without its directory.  An error of the
\* host's own input and output is another matter: the code takes it for a
\* directory that is gone or a tree that is invalid, and the miner bears it.  It
\* does so in these two ways only, and never by a pass.
OnlyHostErrorsJudge ==
    Ended /\ Graded /\ faults # {} =>
        /\ faults = {"host_io"}
        /\ result.status # "passed" /\ result.reason \in FileReasons

\* "Miner-specific upload, patch, build, test, timeout, or output failures affect
\* only that miner": nothing a submission does, in its patch, its setup, its
\* script or a check, ends the round for everyone else. A candidate that replaces
\* its result tree is caught before a trusted mount follows it.
MinerCannotAbandon == Ended /\ ~Graded => faults # {}

\* The first check of a record that did not pass, or one past its end.
FirstNotPassed(s) ==
    IF \E i \in 1..Len(s) : s[i] # "passed"
    THEN CHOOSE i \in 1..Len(s) : s[i] # "passed" /\ \A j \in 1..(i - 1) : s[j] = "passed"
    ELSE Len(s) + 1

\* The record of a graded submission is whole: after a pass every check passed and
\* the tree it is judged on is sound, after a failure in the checks those before
\* it passed and those after it are skipped, and a pass is never reported of a
\* tree that candidate code made unsafe.
VerdictMatchesChecks ==
    LET n == Len(result.checks)
        first == FirstNotPassed(result.checks)
    IN  Ended => /\ n \in {0, Len(checks)}
                 /\ result.status = "passed" <=> n > 0 /\ first > n
                 /\ result.status = "passed" => tree = "sound"
                 /\ \A i \in (first + 1)..n : result.checks[i] = "skipped"

\* What a verdict is worth (evaluate_repository, evaluate_terminal): of the validator's own
\* faults only errors of the host's input and output are put down to a miner, no verdict
\* is lost to what a submission does, and a verdict agrees with its record.
VerdictFair == TypeOK /\ OnlyHostErrorsJudge /\ MinerCannotAbandon /\ VerdictMatchesChecks
=============================================================================
