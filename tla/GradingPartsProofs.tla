------------------------- MODULE GradingPartsProofs -------------------------
(***************************************************************************)
(* The parts of ValidatorParts that a grading is made of, for any number   *)
(* of checks, members and path segments: the verdict of a submission, the  *)
(* container it runs in and the archives it is fetched from.               *)
(***************************************************************************)
EXTENDS ValidatorParts, SequenceTheorems, TLAPS

LEMMA TupleIsSeq ==
    ASSUME NEW T, NEW n \in Nat, NEW s \in [1..n -> T] PROVE s \in Seq(T) /\ Len(s) = n
  OBVIOUS

\* What the others do leaves a part alone.
LEMMA GradingMoves == [Next]_vars => [Grading!Next]_gradingVars
  BY DEF Next, vars, Only

LEMMA ContainerMoves == [Next]_vars => [Container!Next]_containerVars
  BY DEF Next, vars, Only

LEMMA FetchMoves == [Next]_vars => [Fetch!Next]_fetchVars
  BY DEF Next, vars, Only
-----------------------------------------------------------------------------
(***************************************************************************)
(* The verdict of a submission.                                            *)
(***************************************************************************)
Outcome == {"passed", "failed", "skipped"}

\* A record: k checks passed, the next one did not, and nothing after it ran.
Record(s, k) ==
    /\ k \in 0..Len(s)
    /\ \A i \in 1..k : s[i] = "passed"
    /\ k < Len(s) => s[k + 1] \in {"failed", "skipped"}
    /\ \A i \in 1..Len(s) : i > k + 1 => s[i] = "skipped"

\* The shapes of the variables; before the checks nothing is completed, and checks
\* are completed by passing.
GradingShapes ==
    /\ gTask \in {"repository", "terminal"} /\ gSetup \in BOOLEAN
    /\ gChecks \in Seq(Grading!CheckKinds) /\ Len(gChecks) \in 1..MaxChecks
    /\ gPc \in {"start", "patch_check", "patch_apply", "setup", "script", "inspect", "check", "ended"}
    /\ gDir \in BOOLEAN /\ gTree \in {"sound", "unsafe"}
    /\ gCompleted \in Seq(Outcome) /\ Len(gCompleted) \in 0..Len(gChecks)
    /\ \A i \in 1..Len(gCompleted) : gCompleted[i] = "passed"

\* A thread that goes on has met no fault, and at a check the tree is sound.
GoingOn ==
    gPc # "ended" =>
        /\ gFaults = {} /\ gResult = Grading!NoResult
        /\ gPc = "check" => ~Grading!ResultTreeInvalid

\* What a thread has concluded.
Concluded ==
    gPc = "ended" =>
        /\ gFaults \subseteq {"workspace", "control", "executable", "host_io"}
        /\ gResult.status \in {"passed", "failed", "rejected", "abandoned", "raised"}
        /\ Grading!Graded => gFaults \subseteq {"host_io"}
        /\ Grading!Graded => gFaults = {} \/ gResult.reason \in Grading!FileReasons
        /\ ~Grading!Graded => gFaults # {}
        /\ gResult.checks \in Seq(Outcome) /\ Len(gResult.checks) \in {0, Len(gChecks)}
        /\ \E k \in 0..Len(gResult.checks) : Record(gResult.checks, k)
        /\ gResult.status = "passed" =>
              /\ gFaults = {} /\ gTree = "sound" /\ Len(gResult.checks) > 0
              /\ \A i \in 1..Len(gResult.checks) : gResult.checks[i] = "passed"
        /\ gResult.status # "passed" /\ Len(gResult.checks) > 0 =>
              \E i \in 1..Len(gResult.checks) : gResult.checks[i] # "passed"

GradingInv == GradingShapes /\ GoingOn /\ Concluded

LEMMA InitGrading == Init => GradingInv
<1> SUFFICES ASSUME Grading!Init PROVE GradingInv
  BY DEF Init
<1>1. PICK n \in 1..MaxChecks : gChecks \in [1..n -> Grading!CheckKinds]
  BY DEF Grading!Init, Grading!Manifests
<1>2. MaxChecks \in Nat
  BY PartsAssumption DEF Grading!GradingAssumption
<1>3. gChecks \in Seq(Grading!CheckKinds) /\ Len(gChecks) = n
  BY <1>1, <1>2, TupleIsSeq
<1>4. GradingShapes
  BY <1>2, <1>3 DEF Grading!Init, GradingShapes
<1>5. QED
  BY <1>4 DEF Grading!Init, GradingInv, GoingOn, Concluded

\* What a step leaves alone, and what candidate code may do to the workspace.
Around ==
    /\ UNCHANGED <<gTask, gSetup, gChecks>>
    /\ gDir' \in BOOLEAN /\ gTree' \in {"sound", "unsafe"}

LEMMA ShapesKept ==
    ASSUME GradingShapes, Around, UNCHANGED gCompleted, gPc' = "ended"
    PROVE  GradingShapes'
  BY DEF GradingShapes, Around

LEMMA EmptyRecord == Record(<<>>, 0) /\ <<>> \in Seq(Outcome) /\ Len(<<>>) = 0
<1>1. Len(<<>>) = 0 /\ <<>> \in Seq(Outcome)
  OBVIOUS
<1>2. Record(<<>>, 0)
  BY <1>1 DEF Record
<1>3. QED
  BY <1>1, <1>2

\* A rejection, or the end of a grading before its checks.
LEMMA ConcludeInv ==
    ASSUME GradingInv, gPc # "ended", Around, UNCHANGED gCompleted,
           NEW status \in {"rejected", "abandoned", "raised"}, NEW reason,
           Grading!Conclude(status, reason, <<>>),
           gFaults' \subseteq {"workspace", "control", "executable", "host_io"},
           status = "rejected" => gFaults' \subseteq {"host_io"},
           status = "rejected" => gFaults' = {} \/ reason \in Grading!FileReasons,
           status # "rejected" => gFaults' # {}
    PROVE  GradingInv'
<1>1. /\ gPc' = "ended" /\ gResult'.status = status /\ gResult'.reason = reason
      /\ gResult'.checks = <<>>
  BY DEF Grading!Conclude
<1>2. Record(gResult'.checks, 0) /\ gResult'.checks \in Seq(Outcome) /\ Len(gResult'.checks) = 0
  BY <1>1, EmptyRecord
<1>3. Concluded'
  BY <1>1, <1>2 DEF Concluded, Grading!Graded
<1>4. QED
  BY <1>1, <1>3, ShapesKept DEF GradingInv, GoingOn

\* _stop: k checks passed, the next one failed or was not reached.
LEMMA StopRecords ==
    ASSUME GradingShapes, NEW status, NEW reason, NEW outcomes, NEW k \in 0..(Len(gChecks) - 1),
           Len(outcomes) \in {k, k + 1}, \A i \in 1..k : outcomes[i] = "passed",
           Len(outcomes) = k + 1 => outcomes[k + 1] = "failed",
           Grading!Stop(status, reason, outcomes)
    PROVE  /\ gPc' = "ended" /\ gResult'.status = status /\ gResult'.reason = reason
           /\ gResult'.checks \in Seq(Outcome) /\ Len(gResult'.checks) = Len(gChecks)
           /\ Record(gResult'.checks, k) /\ gResult'.checks[k + 1] # "passed"
<1> DEFINE n == Len(gChecks)
           s == [i \in 1..n |-> IF i <= Len(outcomes) THEN outcomes[i] ELSE "skipped"]
<1>1. n \in Nat /\ k \in Nat /\ k < n
  BY DEF GradingShapes
<1>2. /\ gPc' = "ended" /\ gResult'.status = status /\ gResult'.reason = reason
      /\ gResult'.checks = s
  BY DEF Grading!Stop, Grading!Conclude
<1>3. /\ \A i \in 1..k : s[i] = "passed"
      /\ s[k + 1] \in {"failed", "skipped"}
      /\ \A i \in 1..n : i > k + 1 => s[i] = "skipped"
  BY <1>1
<1>4. \A i \in 1..n : s[i] \in Outcome
  <2> SUFFICES ASSUME NEW i \in 1..n PROVE s[i] \in Outcome
    OBVIOUS
  <2>1. i \in 1..k \/ i = k + 1 \/ i > k + 1
    BY <1>1
  <2> HIDE DEF s
  <2>2. QED
    BY <1>3, <2>1 DEF Outcome
<1>5. s \in [1..n -> Outcome]
  BY <1>4
<1> HIDE DEF s
<1>6. s \in Seq(Outcome) /\ Len(s) = n
  BY <1>1, <1>5, TupleIsSeq
<1>7. Record(s, k)
  BY <1>1, <1>3, <1>6 DEF Record
<1>8. QED
  BY <1>1, <1>2, <1>3, <1>6, <1>7

LEMMA StopInv ==
    ASSUME GradingInv, gPc # "ended", Around, UNCHANGED gCompleted,
           NEW status \in {"failed", "abandoned"}, NEW reason, NEW outcomes,
           NEW k \in 0..(Len(gChecks) - 1),
           Len(outcomes) \in {k, k + 1}, \A i \in 1..k : outcomes[i] = "passed",
           Len(outcomes) = k + 1 => outcomes[k + 1] = "failed",
           Grading!Stop(status, reason, outcomes),
           gFaults' \subseteq {"workspace", "control", "executable", "host_io"},
           status = "failed" => gFaults' \subseteq {"host_io"},
           status = "failed" => gFaults' = {} \/ reason \in Grading!FileReasons,
           status = "abandoned" => gFaults' # {}
    PROVE  GradingInv'
<1>1. /\ gPc' = "ended" /\ gResult'.status = status /\ gResult'.reason = reason
      /\ gResult'.checks \in Seq(Outcome) /\ Len(gResult'.checks) = Len(gChecks)
      /\ Record(gResult'.checks, k) /\ gResult'.checks[k + 1] # "passed"
  BY StopRecords DEF GradingInv
<1>2. Len(gChecks) \in Nat /\ k \in 0..Len(gChecks) /\ k + 1 \in 1..Len(gChecks) /\ gChecks' = gChecks
  BY DEF GradingInv, GradingShapes, Around
<1>3. Concluded'
  BY <1>1, <1>2 DEF Concluded, Grading!Graded
<1>4. QED
  BY <1>1, <1>3, ShapesKept DEF GradingInv, GoingOn

\* The ends before the first check completes.
LEMMA StopAtOnceInv ==
    ASSUME GradingInv, gPc # "ended", Around, UNCHANGED gCompleted,
           NEW status \in {"failed", "abandoned"}, NEW reason, Grading!Stop(status, reason, <<>>),
           gFaults' \subseteq {"workspace", "control", "executable", "host_io"},
           status = "failed" => gFaults' \subseteq {"host_io"},
           status = "failed" => gFaults' = {} \/ reason \in Grading!FileReasons,
           status = "abandoned" => gFaults' # {}
    PROVE  GradingInv'
<1>1. 0 \in 0..(Len(gChecks) - 1)
  BY DEF GradingInv, GradingShapes
<1>2. /\ Len(<<>>) \in {0, 0 + 1} /\ \A i \in 1..0 : <<>>[i] = "passed"
      /\ Len(<<>>) = 0 + 1 => <<>>[0 + 1] = "failed"
  OBVIOUS
<1>3. QED
  BY <1>1, <1>2, StopInv

LEMMA GotoInv ==
    ASSUME GradingInv, gPc # "ended", Around, NEW step, Grading!Goto(step), Grading!NoFault,
           step \in {"patch_check", "patch_apply", "setup", "script", "inspect", "check"},
           gCompleted' \in Seq(Outcome), Len(gCompleted') \in 0..Len(gChecks),
           \A i \in 1..Len(gCompleted') : gCompleted'[i] = "passed",
           step = "check" => ~Grading!ResultTreeInvalid'
    PROVE  GradingInv'
<1>1. gPc' = step /\ UNCHANGED <<gResult, gFaults>>
  BY DEF Grading!Goto, Grading!NoFault
<1>2. GradingShapes'
  BY <1>1 DEF GradingInv, GradingShapes, Around
<1>3. GoingOn' /\ Concluded'
  BY <1>1 DEF GradingInv, GoingOn, Concluded
<1>4. QED
  BY <1>2, <1>3 DEF GradingInv

LEMMA StartInv ==
    ASSUME GradingInv, Grading!StartRepository \/ Grading!StartTerminal PROVE GradingInv'
<1> USE DEF Grading!Fault, Grading!NoFault, Grading!Untouched, Grading!FileReasons
<1>1. gPc = "start" /\ gFaults = {} /\ Around /\ UNCHANGED gCompleted
  BY DEF Grading!StartRepository, Grading!StartTerminal, GradingInv, GoingOn, GradingShapes, Around
<1>2. CASE \E step \in {"patch_check", "setup"} : Grading!Goto(step) /\ Grading!NoFault
  BY <1>1, <1>2, GotoInv DEF GradingInv, GradingShapes
<1>3. CASE Grading!Stop("abandoned", "WORKSPACE_INVALID", <<>>) /\ Grading!Fault("workspace")
  BY <1>1, <1>3, StopAtOnceInv
<1>4. CASE Grading!Stop("failed", "WORKING_DIRECTORY_INVALID", <<>>) /\ Grading!Fault("host_io")
  BY <1>1, <1>4, StopAtOnceInv
<1>5. CASE \E reason : Grading!Conclude("rejected", reason, <<>>) /\ Grading!NoFault
  BY <1>1, <1>5, ConcludeInv
<1>6. CASE Grading!BaselineUnreadable
  BY <1>1, <1>6, ConcludeInv DEF Grading!BaselineUnreadable
<1>7. QED
  BY <1>2, <1>3, <1>4, <1>5, <1>6 DEF Grading!StartRepository, Grading!StartTerminal,
     Grading!StaticRejection

LEMMA PatchInv ==
    ASSUME GradingInv, Grading!PatchCheck \/ Grading!PatchApply PROVE GradingInv'
<1> USE DEF Grading!Fault, Grading!NoFault, Grading!Untouched, Grading!CandidateWrites, Grading!Missing,
            Grading!FileReasons
<1>1. gPc # "ended" /\ gFaults = {} /\ Around /\ UNCHANGED gCompleted
  BY DEF Grading!PatchCheck, Grading!PatchApply, GradingInv, GoingOn, GradingShapes, Around
<1>2. CASE \E step \in {"patch_apply", "setup"} : Grading!Goto(step) /\ Grading!NoFault
  BY <1>1, <1>2, GotoInv DEF GradingInv, GradingShapes
<1>3. ASSUME NEW status \in {"abandoned", "raised"}, NEW reason,
             NEW f \in {"control", "executable", "host_io"},
             Grading!Conclude(status, reason, <<>>), Grading!Fault(f)
      PROVE  GradingInv'
  BY <1>1, <1>3, ConcludeInv
<1>4. ASSUME NEW reason, Grading!Conclude("rejected", reason, <<>>),
             Grading!NoFault \/ (Grading!Fault("host_io") /\ reason = "RESULT_TREE_INVALID")
      PROVE  GradingInv'
  BY <1>1, <1>4, ConcludeInv
<1>5. CASE Grading!Stop("failed", "WORKING_DIRECTORY_INVALID", <<>>) /\ Grading!Missing(~gDir')
  BY <1>1, <1>5, StopAtOnceInv
<1> HIDE DEF Grading!Fault, Grading!NoFault, Grading!Missing
<1>6. CASE Grading!PatchCheck
  BY <1>2, <1>3, <1>4, <1>6 DEF Grading!PatchCheck
<1>7. CASE Grading!PatchApply
  BY <1>2, <1>3, <1>4, <1>5, <1>7 DEF Grading!PatchApply
<1>8. QED
  BY <1>6, <1>7

LEMMA SetupInv ==
    ASSUME GradingInv, Grading!Setup \/ Grading!Script PROVE GradingInv'
<1> USE DEF Grading!Fault, Grading!NoFault, Grading!Untouched, Grading!CandidateWrites, Grading!Missing,
            Grading!FileReasons
<1>1. gPc # "ended" /\ gFaults = {} /\ Around /\ UNCHANGED gCompleted
  BY DEF Grading!Setup, Grading!Script, GradingInv, GoingOn, GradingShapes, Around
<1>2. CASE \E step \in {"script", "inspect"} : Grading!Goto(step) /\ Grading!NoFault
  BY <1>1, <1>2, GotoInv DEF GradingInv, GradingShapes
<1>3. CASE \E reason : Grading!Stop("abandoned", reason, <<>>) /\ Grading!Fault("control")
  BY <1>1, <1>3, StopAtOnceInv
<1>4. CASE \E reason : /\ Grading!Stop("failed", reason, <<>>)
                       /\ Grading!NoFault \/ (/\ Grading!Missing(~gDir')
                                             /\ reason = "WORKING_DIRECTORY_INVALID")
  BY <1>1, <1>4, StopAtOnceInv
<1>5. QED
  BY <1>2, <1>3, <1>4 DEF Grading!Setup, Grading!Script, Grading!AfterSetup

LEMMA CompletedPassed ==
    ASSUME GradingInv
    PROVE  \A i \in 1..Len(gCompleted) : gCompleted[i] = "passed"
  BY DEF GradingInv, GradingShapes

LEMMA InspectInv ==
    ASSUME GradingInv, Grading!Inspect \/ Grading!InspectSound PROVE GradingInv'
<1> USE DEF Grading!Fault, Grading!NoFault, Grading!FileReasons
<1>1. gPc # "ended" /\ gFaults = {} /\ Around /\ UNCHANGED gCompleted
  BY DEF Grading!Inspect, Grading!InspectSound, GradingInv, GoingOn, GradingShapes, Around
<1>2. CASE Grading!InspectSound
  <2>1. ~Grading!ResultTreeInvalid'
    BY <1>2 DEF Grading!InspectSound, Grading!ResultTreeInvalid
  <2>2. QED
    BY <1>1, <1>2, <2>1, GotoInv DEF Grading!InspectSound, GradingInv, GradingShapes
<1>3. CASE Grading!Inspect
  <2> DEFINE n == Len(gCompleted)
             outcomes == [i \in 1..n |-> IF i = n THEN "failed" ELSE gCompleted[i]]
             k == IF n = 0 THEN 0 ELSE n - 1
  <2>1. n \in Nat /\ k \in 0..(Len(gChecks) - 1) /\ n \in {k, k + 1} /\ (n = k + 1 => k < n)
    BY DEF GradingInv, GradingShapes
  <2>2. /\ \A i \in 1..k : outcomes[i] = "passed"
        /\ n = k + 1 => outcomes[k + 1] = "failed"
    BY <2>1, CompletedPassed
  <2>3. Len(outcomes) = n
    <3>1. outcomes \in [1..n -> Outcome]
      BY <2>1, CompletedPassed DEF Outcome
    <3> HIDE DEF outcomes
    <3>2. QED
      BY <2>1, <3>1, TupleIsSeq
  <2>4. /\ Grading!Stop("failed", "RESULT_TREE_INVALID", outcomes)
        /\ gFaults' = {} \/ gFaults' = {"host_io"}
    BY <1>1, <1>3 DEF Grading!Inspect
  <2> HIDE DEF outcomes, n, k
  <2>5. QED
    BY <1>1, <2>1, <2>2, <2>3, <2>4, StopInv
<1>4. QED
  BY <1>2, <1>3

\* The ends of a check that is reached: it failed, or nothing can be said of it.
LEMMA StopAtCheckInv ==
    ASSUME GradingInv, gPc # "ended", Around, UNCHANGED gCompleted,
           Len(gCompleted) < Len(gChecks),
           NEW status \in {"failed", "abandoned"}, NEW reason,
           \/ Grading!Stop(status, reason, Grading!Failed)
           \/ Grading!Stop(status, reason, gCompleted),
           gFaults' \subseteq {"workspace", "control", "executable", "host_io"},
           status = "failed" => gFaults' \subseteq {"host_io"},
           status = "failed" => gFaults' = {} \/ reason \in Grading!FileReasons,
           status = "abandoned" => gFaults' # {}
    PROVE  GradingInv'
<1> DEFINE k == Len(gCompleted)
<1>1. k \in 0..(Len(gChecks) - 1) /\ k \in Nat
  BY DEF GradingInv, GradingShapes
<1>2. \A i \in 1..k : gCompleted[i] = "passed"
  BY CompletedPassed
<1>3. /\ Len(Grading!Failed) = k + 1 /\ Grading!Failed[k + 1] = "failed"
      /\ \A i \in 1..k : Grading!Failed[i] = "passed"
  <2>1. gCompleted \in Seq(Outcome) /\ "failed" \in Outcome
    BY DEF GradingInv, GradingShapes, Outcome
  <2>2. QED
    BY <1>1, <1>2, <2>1, AppendProperties DEF Grading!Failed
<1> HIDE DEF k
<1>4. CASE Grading!Stop(status, reason, Grading!Failed)
  BY <1>1, <1>3, <1>4, StopInv
<1>5. CASE Grading!Stop(status, reason, gCompleted)
  BY <1>1, <1>2, <1>5, StopInv DEF k
<1>6. QED
  BY <1>4, <1>5

LEMMA PassedGoesOn ==
    ASSUME GradingInv, Len(gCompleted) < Len(gChecks), gCompleted' = Grading!Passed
    PROVE  /\ gCompleted' \in Seq(Outcome) /\ Len(gCompleted') \in 0..Len(gChecks)
           /\ \A i \in 1..Len(gCompleted') : gCompleted'[i] = "passed"
<1> DEFINE k == Len(gCompleted)
<1>1. k \in Nat /\ Len(gChecks) \in Nat /\ gCompleted \in Seq(Outcome) /\ "passed" \in Outcome
  BY DEF GradingInv, GradingShapes, Outcome
<1>2. /\ Append(gCompleted, "passed") \in Seq(Outcome) /\ Len(Append(gCompleted, "passed")) = k + 1
      /\ \A i \in 1..k : Append(gCompleted, "passed")[i] = gCompleted[i]
      /\ Append(gCompleted, "passed")[k + 1] = "passed"
  BY <1>1, AppendProperties
<1>3. QED
  BY <1>1, <1>2, CompletedPassed DEF Grading!Passed

LEMMA InspectionCheckInv == ASSUME GradingInv, Grading!InspectionCheck PROVE GradingInv'
<1> USE DEF Grading!Fault, Grading!NoFault, Grading!Untouched, Grading!FileReasons
<1>1. gPc = "check" /\ gFaults = {} /\ Around /\ Len(gCompleted) < Len(gChecks) /\ UNCHANGED <<gTask, gTree, gDir>>
  BY DEF Grading!InspectionCheck, GradingInv, GoingOn, GradingShapes, Around
<1>2. ~Grading!ResultTreeInvalid /\ Grading!Mountable
  BY <1>1 DEF GradingInv, GoingOn, GradingShapes, Grading!ResultTreeInvalid, Grading!Mountable
<1>3. CASE Grading!Goto("check") /\ Grading!NoFault /\ gCompleted' = Grading!Passed
  <2>1. ~Grading!ResultTreeInvalid'
    BY <1>1, <1>2 DEF Grading!ResultTreeInvalid
  <2>2. QED
    BY <1>1, <1>3, <2>1, PassedGoesOn, GotoInv
<1>4. CASE /\ Grading!Stop("abandoned", "VERIFIER_UNAVAILABLE", Grading!Failed)
           /\ Grading!Fault("executable") /\ UNCHANGED gCompleted
  BY <1>1, <1>4, StopAtCheckInv
<1>5. CASE Grading!Stop("failed", "CHECK_FAILED", Grading!Failed) /\ Grading!NoFault /\ UNCHANGED gCompleted
  BY <1>1, <1>5, StopAtCheckInv
<1>6. CASE /\ Grading!Stop("abandoned", "VERIFIER_UNAVAILABLE", gCompleted)
           /\ Grading!Fault("control") /\ UNCHANGED gCompleted
  BY <1>1, <1>6, StopAtCheckInv
<1> HIDE DEF Grading!Fault, Grading!NoFault
<1>7. QED
  BY <1>2, <1>3, <1>4, <1>5, <1>6 DEF Grading!InspectionCheck, Grading!InspectionEnds, Grading!Ends

LEMMA InvocationCheckInv == ASSUME GradingInv, Grading!InvocationCheck PROVE GradingInv'
<1> USE DEF Grading!Fault, Grading!NoFault, Grading!Untouched, Grading!CandidateWrites, Grading!Missing,
            Grading!FileReasons
<1>1. gPc = "check" /\ gFaults = {} /\ Around /\ Len(gCompleted) < Len(gChecks)
  BY DEF Grading!InvocationCheck, GradingInv, GoingOn, GradingShapes, Around
<1>2. CASE Grading!Goto("inspect") /\ Grading!NoFault /\ gCompleted' = Grading!Passed
  BY <1>1, <1>2, PassedGoesOn, GotoInv
<1>3. CASE /\ Grading!Stop("failed", "WORKING_DIRECTORY_INVALID", Grading!Failed)
           /\ \E gone \in BOOLEAN : Grading!Missing(gone)
           /\ UNCHANGED gCompleted
  BY <1>1, <1>3, StopAtCheckInv
<1>4. CASE Grading!Stop("failed", "CHECK_FAILED", Grading!Failed) /\ Grading!NoFault /\ UNCHANGED gCompleted
  BY <1>1, <1>4, StopAtCheckInv
<1>5. CASE /\ Grading!Stop("abandoned", "VERIFIER_UNAVAILABLE", gCompleted)
           /\ Grading!Fault("control") /\ UNCHANGED gCompleted
  BY <1>1, <1>5, StopAtCheckInv
<1> HIDE DEF Grading!Fault, Grading!NoFault, Grading!Missing
<1>6. QED
  BY <1>2, <1>3, <1>4, <1>5 DEF Grading!InvocationCheck

LEMMA AllPassedInv == ASSUME GradingInv, Grading!AllPassed PROVE GradingInv'
<1>1. /\ gPc = "check" /\ gFaults' = {} /\ Around /\ UNCHANGED <<gCompleted, gTree>>
      /\ gPc' = "ended" /\ gResult'.status = "passed" /\ gResult'.checks = gCompleted
      /\ Len(gCompleted) = Len(gChecks)
  BY DEF Grading!AllPassed, Grading!Conclude, Grading!NoFault, Grading!Untouched, GradingInv, GoingOn,
     GradingShapes, Around
<1>2. gTree = "sound"
  BY <1>1 DEF GradingInv, GoingOn, GradingShapes, Grading!ResultTreeInvalid
<1>3. /\ gCompleted \in Seq(Outcome) /\ Len(gChecks) \in Nat /\ Len(gChecks) > 0
      /\ \A i \in 1..Len(gCompleted) : gCompleted[i] = "passed"
  BY DEF GradingInv, GradingShapes
<1>4. Record(gCompleted, Len(gCompleted))
  BY <1>1, <1>3 DEF Record
<1>5. Concluded'
  BY <1>1, <1>2, <1>3, <1>4 DEF Concluded, Grading!Graded, Around, Grading!FileReasons
<1>6. QED
  BY <1>1, <1>5, ShapesKept DEF GradingInv, GoingOn

LEMMA NextGrading == GradingInv /\ [Next]_vars => GradingInv'
<1> SUFFICES ASSUME GradingInv, [Grading!Next]_gradingVars PROVE GradingInv'
  BY GradingMoves
<1>1. CASE UNCHANGED gradingVars
  BY <1>1 DEF gradingVars, GradingInv, GradingShapes, GoingOn, Concluded, Grading!Graded,
     Grading!ResultTreeInvalid
<1>2. CASE Grading!Next
  BY <1>1, <1>2, StartInv, PatchInv, SetupInv, InspectInv, InspectionCheckInv, InvocationCheckInv,
     AllPassedInv DEF Grading!Next, Grading!Done, Grading!vars, gradingVars
<1>3. QED
  BY <1>1, <1>2

\* The first check that did not pass.
LEMMA FirstOfRecord ==
    ASSUME NEW s, Len(s) \in Nat, NEW k \in 0..Len(s), Record(s, k)
    PROVE  Grading!FirstNotPassed(s) = k + 1
<1>1. CASE k = Len(s)
  BY <1>1 DEF Record, Grading!FirstNotPassed
<1>2. CASE k < Len(s)
  <2>1. k + 1 \in 1..Len(s) /\ s[k + 1] # "passed" /\ \A j \in 1..k : s[j] = "passed"
    BY <1>2 DEF Record
  <2>2. \A i \in 1..Len(s) : s[i] # "passed" /\ (\A j \in 1..(i - 1) : s[j] = "passed") => i = k + 1
    <3> SUFFICES ASSUME NEW i \in 1..Len(s), s[i] # "passed", \A j \in 1..(i - 1) : s[j] = "passed",
                        i # k + 1
                 PROVE  FALSE
      OBVIOUS
    <3>1. CASE i <= k
      BY <2>1, <3>1
    <3>2. CASE k + 1 < i
      BY <2>1, <3>2
    <3>3. QED
      BY <3>1, <3>2
  <2>3. QED
    BY <2>1, <2>2 DEF Grading!FirstNotPassed
<1>3. QED
  BY <1>1, <1>2

\* For manifests of any length: a fault of the containers, of a trusted program or of the
\* workspace gives no miner a verdict, and an error of the host's input and output gives
\* one only as a missing directory or an invalid tree, never as a pass; no submission ends
\* the round for the others; and a verdict agrees with its record of checks
\* (evaluate_repository, evaluate_terminal).
THEOREM VerdictIsFair == Spec => []VerdictFair
<1>1. GradingInv => VerdictFair
  <2> SUFFICES ASSUME GradingInv PROVE Grading!VerdictFair
    BY DEF VerdictFair
  <2>1. Grading!TypeOK
    <3>1. gChecks \in Grading!Manifests
      BY DEF GradingInv, GradingShapes, Grading!Manifests
    <3>2. QED
      BY <3>1 DEF GradingInv, GradingShapes, GoingOn, Concluded, Grading!TypeOK, Grading!NoResult
  <2>2. Grading!OnlyHostErrorsJudge /\ Grading!MinerCannotAbandon
    BY DEF GradingInv, Concluded, Grading!FileReasons, Grading!OnlyHostErrorsJudge, Grading!MinerCannotAbandon,
           Grading!Ended
  <2>3. Grading!VerdictMatchesChecks
    <3> SUFFICES ASSUME gPc = "ended" PROVE Grading!VerdictMatchesChecks
      BY DEF Grading!VerdictMatchesChecks, Grading!Ended
    <3> DEFINE s == gResult.checks
    <3>1. PICK k \in 0..Len(s) : Record(s, k)
      BY DEF GradingInv, Concluded
    <3>2. Len(s) \in Nat /\ Len(s) \in {0, Len(gChecks)}
      BY DEF GradingInv, Concluded, GradingShapes
    <3>3. gResult.status = "passed" <=> Len(s) > 0 /\ k + 1 > Len(s)
      BY <3>1, <3>2 DEF GradingInv, Concluded, Record
    <3>4. gResult.status = "passed" => gTree = "sound"
      BY DEF GradingInv, Concluded
    <3>5. \A i \in (k + 2)..Len(s) : s[i] = "skipped"
      BY <3>1, <3>2 DEF Record
    <3> DEFINE first == Grading!FirstNotPassed(s)
    <3>6. first = k + 1 /\ (k + 1) + 1 = k + 2
      BY <3>1, <3>2, FirstOfRecord
    <3> HIDE DEF first
    <3>7. /\ Len(s) \in {0, Len(gChecks)}
          /\ gResult.status = "passed" <=> Len(s) > 0 /\ first > Len(s)
          /\ gResult.status = "passed" => gTree = "sound"
          /\ \A i \in (first + 1)..Len(s) : s[i] = "skipped"
      BY <3>2, <3>3, <3>4, <3>5, <3>6
    <3>8. QED
      BY <3>7 DEF first, Grading!VerdictMatchesChecks
  <2>4. QED
    BY <2>1, <2>2, <2>3 DEF Grading!VerdictFair
<1>2. QED
  BY <1>1, InitGrading, NextGrading, PTL DEF Spec
-----------------------------------------------------------------------------
(***************************************************************************)
(* A container, in every interleaving of the threads of run_container with *)
(* the daemon.                                                             *)
(***************************************************************************)
\* How a container ended is known from the moment it has: it carries an exit code
\* that says so.
EndedTells ==
    /\ cContainer \in {"none", "created", "running"} => cEnded = "not"
    /\ cContainer = "exited" => cEnded \notin {"not", "removal"}
    /\ cEnded \in {"timeout", "oom", "guard", "watchdog"} => cExitCode \in {124, 137}

\* A result is made of an exited container, which does not change any more but by
\* being removed, and an error is pending wherever there is none.
ResultTells ==
    /\ cMain \in {"starting", "waiting", "stopping", "inspecting"} => ~cResult.made
    /\ cResult.made =>
        /\ cContainer \in {"exited", "removed"} /\ cEnded \notin {"not", "removal"}
        /\ cResult.exitCode = cExitCode /\ cResult.oom = cOom
        /\ cResult.timedOut \/ cResult.oom \/ cExitCode \notin {124, 137}
    /\ cMain \in {"joining", "removing"} => cPending \/ cResult.made
    /\ cMain = "returned" => cResult.made /\ cContainer = "removed"

ContainerInv == Container!TypeOK /\ EndedTells /\ ResultTells

LEMMA InitContainer == Init => ContainerInv
<1> SUFFICES ASSUME Container!Init PROVE ContainerInv
  BY DEF Init
<1>1. /\ cOom \in BOOLEAN /\ cStopGuard \in BOOLEAN /\ cOver \in BOOLEAN
      /\ cRunStarted \in BOOLEAN /\ cWatchdog \in BOOLEAN /\ cPending \in BOOLEAN
  BY DEF Container!Init
<1>2. /\ ~cResult.made
      /\ cResult \in [made : BOOLEAN, exitCode : Container!ExitCodes, oom : BOOLEAN, timedOut : BOOLEAN]
  BY DEF Container!Init, Container!NoResult, Container!ExitCodes
<1>3. QED
  BY <1>1, <1>2 DEF Container!Init, ContainerInv, Container!TypeOK, EndedTells, ResultTells, Container!ExitCodes

LEMMA NextContainer == ContainerInv /\ [Next]_vars => ContainerInv'
<1> SUFFICES ASSUME ContainerInv, [Container!Next]_containerVars PROVE ContainerInv'
  BY ContainerMoves
<1> USE DEF ContainerInv, Container!TypeOK, EndedTells, ResultTells, Container!daemon
<1>1. CASE Container!Unavailable
  BY <1>1 DEF Container!Unavailable
<1>2. CASE Container!GuardUnavailable
  BY <1>2 DEF Container!GuardUnavailable
<1>3. CASE Container!Launch
  <2>1. cPending' \in BOOLEAN /\ cRunStarted' \in BOOLEAN
    BY <1>3 DEF Container!Launch
  <2>2. cMain' = "joining" => cPending'
    BY <1>3 DEF Container!Launch
  <2>3. cMain' \in {"waiting", "joining"} /\ cCli' \in {"alive", "none"}
    BY <1>3 DEF Container!Launch
  <2>4. QED
    BY <1>3, <2>1, <2>2, <2>3 DEF Container!Launch
<1>4. CASE Container!Wait
  <2>1. cWatchdog' \in BOOLEAN /\ cStopGuard' \in BOOLEAN
    BY <1>4 DEF Container!Wait
  <2>2. cMain' \in {"inspecting", "stopping"} /\ cCli' = "gone"
    BY <1>4 DEF Container!Wait
  <2>3. QED
    BY <1>4, <2>1, <2>2 DEF Container!Wait
<1>5. CASE Container!Stop
  <2>1. /\ cPending' \in BOOLEAN /\ (cMain' = "joining" => cPending')
        /\ cResult' = cResult /\ cMain' \in {"joining", "inspecting"}
    BY <1>5 DEF Container!Stop, Container!Fail
  <2>2. CASE Container!Kill("watchdog")
    BY <1>5, <2>1, <2>2 DEF Container!Stop, Container!Kill, Container!ExitCodes
  <2>3. CASE UNCHANGED Container!daemon
    BY <1>5, <2>1, <2>3 DEF Container!Stop
  <2>4. QED
    BY <1>5, <2>2, <2>3 DEF Container!Stop
<1>6. CASE Container!Inspect
  <2>1. CASE Container!Fail
    <3>1. cPending' \in BOOLEAN /\ cPending' /\ cMain' = "joining" /\ cResult' = cResult
      BY <2>1 DEF Container!Fail
    <3>2. QED
      BY <1>6, <3>1 DEF Container!Inspect
  <2>2. CASE ~Container!Fail
    <3>1. /\ cContainer = "exited" /\ cMain' = "joining" /\ cPending' = cPending
          /\ cResult' = [made |-> TRUE, exitCode |-> cExitCode, oom |-> cOom,
                        timedOut |-> Container!TimedOut(cExitCode, cOom)]
      BY <1>6, <2>2 DEF Container!Inspect, Container!Inspected
    <3>2. Container!TimedOut(cExitCode, cOom) \in BOOLEAN
      BY DEF Container!TimedOut
    <3>3. Container!TimedOut(cExitCode, cOom) \/ cOom \/ cExitCode \notin {124, 137}
      BY DEF Container!TimedOut
    <3>4. /\ cResult' \in [made : BOOLEAN, exitCode : Container!ExitCodes, oom : BOOLEAN, timedOut : BOOLEAN]
          /\ cResult'.made /\ cResult'.exitCode = cExitCode /\ cResult'.oom = cOom
          /\ cResult'.timedOut = Container!TimedOut(cExitCode, cOom)
      BY <3>1, <3>2
    <3>5. cResult'.timedOut \/ cResult'.oom \/ cExitCode \notin {124, 137}
      BY <3>3, <3>4
    <3>6. QED
      BY <1>6, <3>1, <3>4, <3>5 DEF Container!Inspect
  <2>3. QED
    BY <2>1, <2>2
<1>7. CASE Container!Join
  BY <1>7 DEF Container!Join
<1>8. CASE Container!Remove
  BY <1>8 DEF Container!Remove, Container!Removal
<1>9. CASE Container!Ask
  BY <1>9 DEF Container!Ask
<1>10. CASE Container!Create
  BY <1>10 DEF Container!Create
<1>11. CASE Container!Start
  BY <1>11 DEF Container!Start
<1>12. CASE Container!ContainerEnds
  <2>1. cOom' \in BOOLEAN
    <3>1. cOom' = cOom \/ cOom' = TRUE
      BY <1>12 DEF Container!ContainerEnds
    <3>2. QED
      BY <3>1
  <2>2. QED
    BY <1>12, <2>1 DEF Container!ContainerEnds, Container!ExitCodes
<1>13. CASE Container!ContainerGrows
  <2>1. cOom' \in BOOLEAN
    <3>1. cOom' = cOom \/ cOom' = TRUE
      BY <1>13 DEF Container!ContainerGrows
    <3>2. QED
      BY <3>1
  <2>2. QED
    BY <1>13, <2>1 DEF Container!ContainerGrows
<1>14. CASE Container!CliReturns
  BY <1>14 DEF Container!CliReturns
<1>15. CASE Container!GuardLooks
  BY <1>15 DEF Container!GuardLooks
<1>16. CASE Container!GuardKills
  BY <1>16 DEF Container!GuardKills, Container!Kill, Container!ExitCodes
<1>17. CASE UNCHANGED containerVars
  BY <1>17 DEF containerVars
<1>18. QED
  BY <1>1, <1>2, <1>3, <1>4, <1>5, <1>6, <1>7, <1>8, <1>9, <1>10, <1>11, <1>12, <1>13,
     <1>14, <1>15, <1>16, <1>17 DEF Container!Next, Container!Caller, Container!Done, Container!vars,
         containerVars

\* Whatever the daemon does late, fails to do or does unasked, a returned result
\* is that of a container which has exited and is removed, and one that was cut
\* short says so (run_container).
THEOREM ResultIsSound == Spec => []ResultSound
<1>1. ContainerInv => ResultSound
  BY DEF ResultSound, Container!ResultSound, ContainerInv, EndedTells, ResultTells, Container!TypeOK, Container!ResultIsSettled,
         Container!CutShortIsReported
<1>2. QED
  BY <1>1, InitContainer, NextContainer, PTL DEF Spec
-----------------------------------------------------------------------------
(***************************************************************************)
(* The fetch of an archive, of any members in any order.                   *)
(***************************************************************************)
FetchSteps == {"request", "receive", "verify", "inspect", "extract", "write", "returned",
               "failed", "died"}
Extracting == fPc \in {"extract", "write", "returned"}

\* The shapes of the variables, and which files there are at which step.
FetchShapes ==
    /\ fPc \in FetchSteps
    /\ fReceived \in 0..(Size + 1)
    /\ fArchive \in {"none", "good"}
    /\ fMembers \in Seq(Fetch!Members) /\ Len(fMembers) \in 0..MaxEntries
    /\ fDone \in 0..Len(fMembers)
    /\ DOMAIN fTree \subseteq Fetch!Paths
    /\ \A p \in DOMAIN fTree : fTree[p] \in {"dir", "file", "part"}

FetchFlags ==
    /\ fHonest \in BOOLEAN /\ fTemp \in BOOLEAN /\ fScratch \in BOOLEAN /\ fDest \in BOOLEAN
    /\ fPc \notin {"receive", "failed", "died"} => ~fTemp
    /\ fPc = "returned" => ~fScratch
    /\ Extracting => fDest
    /\ fPc = "inspect" \/ fDest => fArchive = "good"

\* The members extracted, with the one that is being written.
Begun == IF fPc = "write" THEN fDone + 1 ELSE fDone

\* The paths of the first k members and of the directories above them.
LaidBy(k) ==
    {p \in Fetch!Paths : \E i \in 1..k : \/ p = fMembers[i].path
                                         \/ p \in Fetch!Parents(fMembers[i].path)}

\* What is left of a destination: paths that the members lay, the members as they are
\* listed save the one that is being written.
TreeLeft ==
    /\ ~fDest => fTree = Fetch!EmptyTree
    /\ DOMAIN fTree \subseteq LaidBy(Len(fMembers))
    /\ \A i \in 1..Len(fMembers) :
          fMembers[i].path \in DOMAIN fTree =>
             \/ fTree[fMembers[i].path] = IF fMembers[i].file THEN "file" ELSE "dir"
             \/ i = fDone + 1

\* The destination holds what the members begun so far have laid: directories above
\* every one of them, and those that are done as they are listed.
TreeGrown ==
    /\ Fetch!Accepted(fMembers)
    /\ fPc \in {"request", "receive", "verify", "inspect"} => fTree = Fetch!EmptyTree
    /\ fPc \in {"failed", "died"} => TreeLeft
    /\ fPc \in {"request", "receive", "verify", "inspect"} => fDone = 0 /\ Len(fMembers) = 0
    /\ fPc = "write" => fDone < Len(fMembers) /\ fMembers[fDone + 1].file
    /\ fPc = "returned" => fDone = Len(fMembers)
    /\ Extracting =>
        /\ DOMAIN fTree = LaidBy(Begun)
        /\ \A i \in 1..Begun : \A p \in Fetch!Parents(fMembers[i].path) : fTree[p] = "dir"
        /\ \A i \in 1..fDone : fTree[fMembers[i].path] = IF fMembers[i].file THEN "file" ELSE "dir"

FetchInv == FetchShapes /\ FetchFlags /\ TreeGrown

LEMMA FetchConstants == MaxEntries \in Nat /\ Size \in Nat /\ MaxDepth \in Nat \ {0}
  BY PartsAssumption DEF PartsAssumption, Fetch!FetchAssumption

\* A directory above a path is a path, and a proper prefix of it.
LEMMA ParentsAreAbove ==
    ASSUME NEW q \in Fetch!Paths, NEW p \in Fetch!Parents(q)
    PROVE  p \in Fetch!Paths /\ Fetch!Proper(p, q) /\ p # q
<1>1. PICK m \in 1..MaxDepth : q \in [1..m -> Segments]
  BY DEF Fetch!Paths
<1>2. m \in Nat /\ q \in Seq(Segments) /\ Len(q) = m
  BY <1>1, TupleIsSeq, FetchConstants
<1>3. PICK n \in 1..(m - 1) : p = SubSeq(q, 1, n)
  BY <1>2 DEF Fetch!Parents
<1>4. p \in Seq(Segments) /\ Len(p) = n /\ \A i \in 1..n : p[i] = q[i]
  BY <1>2, <1>3
<1>5. p \in [1..n -> Segments] /\ n \in 1..MaxDepth
  BY <1>1, <1>2, <1>4, FetchConstants
<1>6. SubSeq(p, 1, n) = SubSeq(q, 1, n)
  BY <1>2, <1>3, <1>4
<1>7. QED
  BY <1>2, <1>3, <1>4, <1>5, <1>6 DEF Fetch!Paths, Fetch!Proper, Fetch!IsPrefix

LEMMA MembersArePaths ==
    ASSUME FetchShapes, NEW i \in 1..Len(fMembers)
    PROVE  fMembers[i].path \in Fetch!Paths /\ fMembers[i].file \in BOOLEAN
<1>1. fMembers[i] \in Fetch!Members
  BY DEF FetchShapes
<1>2. QED
  BY <1>1 DEF Fetch!Members

LEMMA AcceptedMembers ==
    ASSUME FetchShapes, Fetch!Accepted(fMembers), NEW i \in 1..Len(fMembers), NEW j \in 1..Len(fMembers)
    PROVE  /\ i # j => fMembers[i].path # fMembers[j].path
           /\ fMembers[i].file => fMembers[i].path \notin Fetch!Parents(fMembers[j].path)
<1>1. DOMAIN fMembers = 1..Len(fMembers)
  BY DEF FetchShapes
<1>2. fMembers[j].path \in Fetch!Paths
  BY MembersArePaths
<1>3. ~(fMembers[i].file /\ Fetch!Proper(fMembers[i].path, fMembers[j].path))
  BY <1>1 DEF Fetch!Accepted
<1>4. QED
  BY <1>1, <1>2, <1>3, ParentsAreAbove DEF Fetch!Accepted

\* An inspected archive extracts without a collision.
LEMMA NeverCollides ==
    ASSUME FetchInv, fPc = "extract", fDone < Len(fMembers)
    PROVE  ~Fetch!Collides(fMembers[fDone + 1])
<1> DEFINE m == fMembers[fDone + 1]
<1>1. /\ fDone + 1 \in 1..Len(fMembers) /\ fDone \in Nat /\ 1..fDone \subseteq 1..Len(fMembers)
      /\ Len(fMembers) \in Nat /\ Begun = fDone
  BY DEF FetchInv, FetchShapes, Begun
<1>2. m.path \in Fetch!Paths /\ m.file \in BOOLEAN
  BY <1>1, MembersArePaths DEF FetchInv
<1>3. FetchShapes /\ Fetch!Accepted(fMembers) /\ DOMAIN fTree = LaidBy(fDone)
  BY <1>1 DEF FetchInv, TreeGrown, Extracting
<1>4. ASSUME NEW p \in Fetch!Parents(m.path), p \in DOMAIN fTree PROVE fTree[p] = "dir"
  <2>1. PICK i \in 1..fDone : p = fMembers[i].path \/ p \in Fetch!Parents(fMembers[i].path)
    BY <1>3, <1>4 DEF LaidBy
  <2>2. CASE p \in Fetch!Parents(fMembers[i].path)
    BY <1>1, <2>2 DEF FetchInv, TreeGrown, Extracting
  <2>3. CASE p = fMembers[i].path
    <3>1. i \in 1..Len(fMembers)
      BY <1>1
    <3>2. ~fMembers[i].file
      BY <1>1, <1>3, <1>4, <2>3, <3>1, AcceptedMembers
    <3>3. fTree[fMembers[i].path] = IF fMembers[i].file THEN "file" ELSE "dir"
      BY <1>1 DEF FetchInv, TreeGrown, Extracting
    <3>4. QED
      BY <2>3, <3>2, <3>3
  <2>4. QED
    BY <2>1, <2>2, <2>3
<1>5. ASSUME m.path \in DOMAIN fTree PROVE ~m.file /\ fTree[m.path] = "dir"
  <2>1. PICK i \in 1..fDone : m.path = fMembers[i].path \/ m.path \in Fetch!Parents(fMembers[i].path)
    BY <1>3, <1>5 DEF LaidBy
  <2>2. i \in 1..Len(fMembers) /\ i # fDone + 1
    BY <1>1
  <2>3. m.path # fMembers[i].path
    BY <1>1, <1>3, <2>2, AcceptedMembers
  <2>4. m.path \in Fetch!Parents(fMembers[i].path)
    BY <2>1, <2>3
  <2>5. ~m.file
    BY <1>1, <1>3, <2>2, <2>4, AcceptedMembers
  <2>6. fTree[m.path] = "dir"
    BY <1>1, <2>4 DEF FetchInv, TreeGrown, Extracting
  <2>7. QED
    BY <2>5, <2>6
<1>6. QED
  BY <1>4, <1>5 DEF Fetch!Collides

LEMMA InitFetch == Init => FetchInv
<1> SUFFICES ASSUME Fetch!Init PROVE FetchInv
  BY DEF Init
<1>1. fMembers \in Seq(Fetch!Members) /\ Len(fMembers) = 0 /\ DOMAIN fMembers = {}
  BY DEF Fetch!Init
<1>2. DOMAIN fTree = {}
  BY DEF Fetch!Init, Fetch!EmptyTree
<1>3. Fetch!Accepted(fMembers)
  BY <1>1, FetchConstants DEF Fetch!Accepted
<1>4. FetchFlags
  BY DEF Fetch!Init, FetchFlags, Extracting
<1>5. QED
  BY <1>1, <1>2, <1>3, <1>4, FetchConstants
  DEF Fetch!Init, FetchInv, FetchShapes, TreeGrown, Extracting, FetchSteps

\* Up to the inspection nothing is extracted.
LEMMA EarlyFetch ==
    ASSUME FetchInv, Fetch!Request \/ Fetch!Receive \/ Fetch!Publish \/ Fetch!Decompress
    PROVE  FetchInv'
<1> USE DEF FetchInv, FetchShapes, FetchFlags, TreeGrown, Extracting, FetchSteps
<1>1. CASE Fetch!Request
  BY <1>1 DEF Fetch!Request
<1>2. CASE Fetch!Receive
  <2>1. fHonest' \in BOOLEAN
    BY <1>2, Zenon DEF Fetch!Receive
  <2>2. fReceived' \in 0..(Size + 1)
    BY <1>2, FetchConstants DEF Fetch!Receive, Fetch!Within
  <2>3. QED
    BY <1>2, <2>1, <2>2 DEF Fetch!Receive
<1>3. CASE Fetch!Publish
  BY <1>3 DEF Fetch!Publish, Fetch!DigestMatches
<1>4. CASE Fetch!Decompress
  BY <1>4 DEF Fetch!Decompress
<1>5. QED
  BY <1>1, <1>2, <1>3, <1>4

LEMMA InspectFetch ==
    ASSUME FetchInv, NEW ms \in Fetch!Archives, Fetch!Inspect(ms) PROVE FetchInv'
<1>1. PICK n \in 0..MaxEntries : ms \in [1..n -> Fetch!Members]
  BY DEF Fetch!Archives
<1>2. n \in Nat /\ ms \in Seq(Fetch!Members) /\ Len(ms) = n
  BY <1>1, TupleIsSeq, FetchConstants
<1>3. fPc = "inspect" /\ fPc' = "extract" /\ fMembers' = ms /\ fDest' = TRUE /\ Fetch!Accepted(ms)
      /\ UNCHANGED <<fReceived, fHonest, fTemp, fArchive, fScratch, fDone, fTree>>
  BY DEF Fetch!Inspect
<1>4. FetchShapes' /\ FetchFlags'
  BY <1>2, <1>3 DEF FetchInv, FetchShapes, FetchFlags, TreeGrown, Extracting, FetchSteps
<1>5. fTree' = Fetch!EmptyTree /\ fDone' = 0 /\ DOMAIN fTree' = {}
  BY <1>3 DEF FetchInv, TreeGrown, Fetch!EmptyTree
<1>6. Begun' = 0 /\ LaidBy(Begun)' = {}
  BY <1>3, <1>5 DEF Begun, LaidBy
<1>7. TreeGrown'
  BY <1>3, <1>5, <1>6 DEF TreeGrown, Extracting, Fetch!Accepted
<1>8. QED
  BY <1>4, <1>7 DEF FetchInv

LEMMA ExtractFetch == ASSUME FetchInv, Fetch!ExtractMember PROVE FetchInv'
<1> DEFINE m == fMembers[fDone + 1]
           k == fDone + 1
<1>1. /\ fPc = "extract" /\ fDone < Len(fMembers) /\ fMembers' = fMembers
      /\ fTree' = [p \in DOMAIN fTree \union Fetch!Parents(m.path) \union {m.path} |->
                     IF p = m.path THEN IF m.file THEN "part" ELSE "dir"
                     ELSE IF p \in Fetch!Parents(m.path) THEN "dir" ELSE fTree[p]]
      /\ IF m.file THEN fPc' = "write" /\ fDone' = fDone ELSE fDone' = k /\ fPc' = "extract"
      /\ UNCHANGED <<fReceived, fHonest, fTemp, fArchive, fScratch, fMembers, fDest>>
  BY DEF Fetch!ExtractMember, Fetch!Current
<1>2. /\ k \in 1..Len(fMembers) /\ fDone \in Nat /\ Len(fMembers) \in Nat /\ Begun = fDone /\ Begun' = k
      /\ k \in Nat
  BY <1>1 DEF FetchInv, FetchShapes, Begun
<1>3. m.path \in Fetch!Paths /\ m.file \in BOOLEAN
  BY <1>2, MembersArePaths DEF FetchInv
<1>4. \A p \in Fetch!Parents(m.path) : p \in Fetch!Paths /\ p # m.path
  BY <1>3, ParentsAreAbove
<1>5. FetchShapes /\ Fetch!Accepted(fMembers) /\ DOMAIN fTree = LaidBy(fDone)
  BY <1>1, <1>2 DEF FetchInv, TreeGrown, Extracting
<1>6. DOMAIN fTree' = DOMAIN fTree \union Fetch!Parents(m.path) \union {m.path}
  BY <1>1
<1>7. ASSUME NEW p \in DOMAIN fTree'
      PROVE  p \in Fetch!Paths /\ fTree'[p] \in {"dir", "file", "part"}
  BY <1>1, <1>3, <1>4, <1>6, <1>7, <1>5 DEF FetchShapes
<1>8. FetchShapes' /\ FetchFlags'
  <2>1. fPc' \in {"extract", "write"} /\ fDone' \in 0..Len(fMembers)
    BY <1>1, <1>2
  <2>2. FetchShapes'
    BY <1>1, <1>5, <1>7, <2>1 DEF FetchShapes, FetchSteps
  <2>3. QED
    BY <1>1, <2>1, <2>2 DEF FetchInv, FetchFlags, Extracting
<1>9. LaidBy(Begun)' = LaidBy(fDone) \union Fetch!Parents(m.path) \union {m.path}
  <2>1. ASSUME NEW p \in LaidBy(fDone) \union Fetch!Parents(m.path) \union {m.path}
        PROVE  p \in LaidBy(Begun)'
    BY <1>1, <1>2, <1>3, <1>4, <2>1 DEF LaidBy
  <2>2. ASSUME NEW p \in LaidBy(Begun)'
        PROVE  p \in LaidBy(fDone) \union Fetch!Parents(m.path) \union {m.path}
    <3>1. PICK i \in 1..k : p = fMembers[i].path \/ p \in Fetch!Parents(fMembers[i].path)
      BY <1>1, <1>2, <2>2 DEF LaidBy
    <3>2. p \in Fetch!Paths /\ (i = k \/ i \in 1..fDone)
      BY <1>2, <2>2 DEF LaidBy
    <3>3. QED
      BY <3>1, <3>2 DEF LaidBy
  <2>3. QED
    BY <2>1, <2>2
<1>10. ASSUME NEW i \in 1..k, NEW p \in Fetch!Parents(fMembers[i].path) PROVE fTree'[p] = "dir"
  <2>1. i \in 1..Len(fMembers) /\ fMembers[i].path \in Fetch!Paths
    BY <1>2, <1>5, MembersArePaths
  <2>2. p \in DOMAIN fTree'
    <3>1. p \in LaidBy(Begun)'
      BY <1>1, <1>2, <1>10, <2>1, ParentsAreAbove DEF LaidBy
    <3>2. QED
      BY <1>5, <1>6, <1>9, <3>1
  <2>3. CASE p = m.path
    BY <1>1, <1>2, <1>5, <1>10, <2>1, <2>2, <2>3, AcceptedMembers
  <2>4. CASE p # m.path /\ p \in Fetch!Parents(m.path)
    BY <1>1, <2>2, <2>4
  <2>5. CASE p # m.path /\ p \notin Fetch!Parents(m.path)
    <3>1. i \in 1..fDone
      BY <1>2, <1>10, <2>5
    <3>2. fTree[p] = "dir"
      BY <1>1, <1>2, <1>10, <3>1 DEF FetchInv, TreeGrown, Extracting
    <3>3. QED
      BY <1>1, <2>2, <2>5, <3>2
  <2>6. QED
    BY <2>3, <2>4, <2>5
<1>11. ASSUME NEW i \in 1..fDone'
       PROVE  fTree'[fMembers[i].path] = IF fMembers[i].file THEN "file" ELSE "dir"
  <2>1. CASE i = k
    BY <1>1, <1>2, <1>6, <1>11, <2>1
  <2>2. CASE i # k
    <3>1. i \in 1..fDone /\ i \in 1..Len(fMembers)
      BY <1>1, <1>2, <1>11, <2>2
    <3>2. fTree[fMembers[i].path] = IF fMembers[i].file THEN "file" ELSE "dir"
      BY <1>1, <1>2, <3>1 DEF FetchInv, TreeGrown, Extracting
    <3>3. fMembers[i].path # m.path /\ fMembers[i].path \in Fetch!Paths
      BY <1>2, <1>5, <2>2, <3>1, AcceptedMembers, MembersArePaths
    <3>4. fMembers[i].path \in DOMAIN fTree /\ fMembers[i].path \in DOMAIN fTree'
      BY <1>5, <1>6, <3>1, <3>3 DEF LaidBy
    <3>5. fMembers[i].path \in Fetch!Parents(m.path) => ~fMembers[i].file
      BY <1>2, <1>5, <3>1, AcceptedMembers
    <3>6. QED
      BY <1>1, <3>2, <3>3, <3>4, <3>5
  <2>3. QED
    BY <2>1, <2>2
<1>12. TreeGrown'
  <2>1. Fetch!Accepted(fMembers)'
    BY <1>1, <1>5 DEF Fetch!Accepted
  <2>2. DOMAIN fTree' = LaidBy(Begun)'
    BY <1>5, <1>6, <1>9
  <2>3. fPc' \in {"extract", "write"} /\ (fPc' = "write" => fDone' < Len(fMembers') /\ fMembers'[fDone' + 1].file)
    BY <1>1
  <2>4. \A i \in 1..Begun' : \A p \in Fetch!Parents(fMembers[i].path)' : fTree'[p] = "dir"
    <3>1. fMembers' = fMembers /\ Begun' = k
      BY <1>1, <1>2
    <3>2. \A i : Fetch!Parents(fMembers[i].path)' = Fetch!Parents(fMembers[i].path)
      BY <3>1 DEF Fetch!Parents
    <3>3. QED
      BY <1>10, <3>1, <3>2
  <2>5. QED
    BY <1>1, <1>11, <2>1, <2>2, <2>3, <2>4 DEF TreeGrown, Extracting
<1>13. QED
  BY <1>8, <1>12 DEF FetchInv

LEMMA WriteFetch == ASSUME FetchInv, Fetch!WriteMember PROVE FetchInv'
<1> DEFINE m == fMembers[fDone + 1]
           k == fDone + 1
<1>1. /\ fPc = "write" /\ fPc' = "extract" /\ fMembers' = fMembers /\ fDone' = k
      /\ fTree' = [fTree EXCEPT ![m.path] = "file"]
      /\ UNCHANGED <<fReceived, fHonest, fTemp, fArchive, fScratch, fMembers, fDest>>
  BY DEF Fetch!WriteMember, Fetch!Current
<1>2. /\ k \in 1..Len(fMembers) /\ fDone \in Nat /\ Len(fMembers) \in Nat /\ Begun = k /\ Begun' = k
      /\ k \in Nat /\ m.file
  BY <1>1 DEF FetchInv, FetchShapes, TreeGrown, Begun
<1>3. FetchShapes /\ Fetch!Accepted(fMembers) /\ DOMAIN fTree = LaidBy(k)
  BY <1>1, <1>2 DEF FetchInv, TreeGrown, Extracting
<1>4. m.path \in Fetch!Paths /\ m.path \in DOMAIN fTree
  BY <1>2, <1>3, MembersArePaths DEF LaidBy
<1>5. DOMAIN fTree' = DOMAIN fTree /\ LaidBy(Begun)' = LaidBy(k)
  BY <1>1, <1>2 DEF LaidBy
<1>6. fTree'[m.path] = "file" /\ \A p \in DOMAIN fTree : p # m.path => fTree'[p] = fTree[p]
  BY <1>1, <1>4
<1>7. FetchShapes' /\ FetchFlags'
  BY <1>1, <1>2, <1>3, <1>5, <1>6 DEF FetchInv, FetchShapes, FetchFlags, Extracting, FetchSteps
<1>8. ASSUME NEW i \in 1..k, NEW p \in Fetch!Parents(fMembers[i].path) PROVE fTree'[p] = "dir"
  <2>1. i \in 1..Len(fMembers) /\ fMembers[i].path \in Fetch!Paths
    BY <1>2, <1>3, MembersArePaths
  <2>2. p \in DOMAIN fTree
    BY <1>3, <1>8, <2>1, ParentsAreAbove DEF LaidBy
  <2>3. p # m.path
    BY <1>2, <1>3, <1>8, <2>1, AcceptedMembers
  <2>4. fTree[p] = "dir"
    BY <1>1, <1>2, <1>8 DEF FetchInv, TreeGrown, Extracting
  <2>5. QED
    BY <1>6, <2>2, <2>3, <2>4
<1>9. ASSUME NEW i \in 1..k
      PROVE  fTree'[fMembers[i].path] = IF fMembers[i].file THEN "file" ELSE "dir"
  <2>1. CASE i = k
    BY <1>2, <1>6, <2>1
  <2>2. CASE i # k
    <3>1. i \in 1..fDone /\ i \in 1..Len(fMembers)
      BY <1>2, <1>9, <2>2
    <3>2. fTree[fMembers[i].path] = IF fMembers[i].file THEN "file" ELSE "dir"
      BY <1>1, <3>1 DEF FetchInv, TreeGrown, Extracting
    <3>3. fMembers[i].path # m.path /\ fMembers[i].path \in DOMAIN fTree
      BY <1>2, <1>3, <2>2, <3>1, AcceptedMembers, MembersArePaths DEF LaidBy
    <3>4. QED
      BY <1>6, <3>2, <3>3
  <2>3. QED
    BY <2>1, <2>2
<1>10. TreeGrown'
  <2>1. Fetch!Accepted(fMembers)'
    BY <1>1, <1>3 DEF Fetch!Accepted
  <2>2. \A i \in 1..Begun' : \A p \in Fetch!Parents(fMembers[i].path)' : fTree'[p] = "dir"
    BY <1>1, <1>2, <1>8 DEF Fetch!Parents
  <2>3. QED
    BY <1>1, <1>3, <1>5, <1>9, <2>1, <2>2 DEF TreeGrown, Extracting
<1>11. QED
  BY <1>7, <1>10 DEF FetchInv

\* What an extraction has laid so far is a part of what it lays.
LEMMA GrownIsLeft == ASSUME FetchInv PROVE TreeLeft
<1>1. CASE fPc \in {"request", "receive", "verify", "inspect"}
  <2>1. fTree = Fetch!EmptyTree /\ DOMAIN fTree = {}
    BY <1>1 DEF FetchInv, TreeGrown, Fetch!EmptyTree
  <2>2. QED
    BY <2>1 DEF TreeLeft
<1>2. CASE fPc \in {"failed", "died"}
  BY <1>2 DEF FetchInv, TreeGrown
<1>3. CASE Extracting
  <2>1. /\ fDest /\ FetchShapes /\ Fetch!Accepted(fMembers) /\ DOMAIN fTree = LaidBy(Begun)
        /\ \A i \in 1..Begun : \A p \in Fetch!Parents(fMembers[i].path) : fTree[p] = "dir"
        /\ \A i \in 1..fDone : fTree[fMembers[i].path] = IF fMembers[i].file THEN "file" ELSE "dir"
    BY <1>3 DEF FetchInv, FetchFlags, TreeGrown
  <2>2. /\ fDone \in Nat /\ Len(fMembers) \in Nat /\ fDone <= Len(fMembers)
        /\ Begun \in Nat /\ Begun <= Len(fMembers) /\ Begun <= fDone + 1
    BY <2>1 DEF FetchInv, FetchShapes, TreeGrown, Begun
  <2>3. DOMAIN fTree \subseteq LaidBy(Len(fMembers))
    BY <2>1, <2>2 DEF LaidBy
  <2>4. ASSUME NEW i \in 1..Len(fMembers), fMembers[i].path \in DOMAIN fTree, i # fDone + 1
        PROVE  fTree[fMembers[i].path] = IF fMembers[i].file THEN "file" ELSE "dir"
    <3>1. CASE i \in 1..fDone
      BY <2>1, <3>1
    <3>2. CASE i \notin 1..fDone
      <4>1. PICK j \in 1..Begun : \/ fMembers[i].path = fMembers[j].path
                                 \/ fMembers[i].path \in Fetch!Parents(fMembers[j].path)
        BY <2>1, <2>4 DEF LaidBy
      <4>2. j \in 1..Len(fMembers) /\ i # j
        BY <2>2, <2>4, <3>2
      <4>3. /\ fMembers[i].path \in Fetch!Parents(fMembers[j].path)
            /\ ~fMembers[i].file
        BY <2>1, <4>1, <4>2, AcceptedMembers
      <4>4. QED
        BY <2>1, <4>3
    <3>3. QED
      BY <3>1, <3>2
  <2>5. QED
    BY <2>1, <2>3, <2>4 DEF TreeLeft
<1>4. QED
  BY <1>1, <1>2, <1>3 DEF FetchInv, FetchShapes, FetchSteps, Extracting

\* Taking paths away from what is left leaves what may be left.
LEMMA LessIsLeft ==
    ASSUME TreeLeft, UNCHANGED <<fMembers, fDone>>, NEW left \in SUBSET DOMAIN fTree,
           fDest' => fDest, ~fDest' => left = {}, fTree' = [p \in left |-> fTree[p]]
    PROVE  TreeLeft'
<1>1. DOMAIN fTree' = left /\ \A p \in left : fTree'[p] = fTree[p]
  OBVIOUS
<1>2. LaidBy(Len(fMembers))' = LaidBy(Len(fMembers))
  BY DEF LaidBy
<1>3. ~fDest' => fTree' = Fetch!EmptyTree
  BY DEF Fetch!EmptyTree
<1>4. QED
  BY <1>1, <1>2, <1>3 DEF TreeLeft

LEMMA EndFetch ==
    ASSUME FetchInv, Fetch!Return \/ Fetch!Fail \/ Fetch!Die PROVE FetchInv'
<1>1. CASE Fetch!Return
  <2>1. /\ fPc = "extract" /\ fPc' = "returned" /\ fScratch' = FALSE /\ fDone = Len(fMembers)
        /\ UNCHANGED <<fReceived, fHonest, fTemp, fArchive, fMembers, fDone, fDest, fTree>>
    BY <1>1 DEF Fetch!Return
  <2>2. Begun' = Begun /\ LaidBy(Begun)' = LaidBy(Begun)
    BY <2>1 DEF Begun, LaidBy
  <2>3. QED
    BY <2>1, <2>2 DEF FetchInv, FetchShapes, FetchFlags, TreeGrown, Extracting, FetchSteps,
       Fetch!Accepted
<1>2. CASE Fetch!Fail
  <2>1. /\ fPc' = "failed" /\ UNCHANGED <<fReceived, fHonest, fArchive, fMembers, fDone>>
        /\ fTemp' \in BOOLEAN /\ fScratch' \in BOOLEAN /\ fDest' \in BOOLEAN
        /\ fDest' => fDest
    <3>1. /\ fPc' = "failed" /\ UNCHANGED <<fReceived, fHonest, fArchive, fMembers, fDone>>
          /\ fTemp' = fTemp \/ fTemp' = FALSE
          /\ fScratch' = fScratch \/ fScratch' = FALSE
          /\ fDest' = fDest \/ fDest' = FALSE
      BY <1>2 DEF Fetch!Fail
    <3>2. fTemp \in BOOLEAN /\ fScratch \in BOOLEAN /\ fDest \in BOOLEAN
      BY DEF FetchInv, FetchFlags
    <3>3. fTemp' \in BOOLEAN /\ fScratch' \in BOOLEAN /\ fDest' \in BOOLEAN
      BY <3>1, <3>2, Zenon
    <3>4. fDest' => fDest
      BY <3>1, <3>2, Zenon
    <3>5. QED
      BY <3>1, <3>3, <3>4, Zenon
  <2>2. PICK left \in SUBSET DOMAIN fTree :
          (~fDest' => left = {}) /\ fTree' = [p \in left |-> fTree[p]]
    BY <1>2 DEF Fetch!Fail
  <2>3. TreeLeft'
    BY <2>1, <2>2, GrownIsLeft, LessIsLeft
  <2>4. DOMAIN fTree' \subseteq DOMAIN fTree /\ \A p \in DOMAIN fTree' : fTree'[p] = fTree[p]
    BY <2>2
  <2>5. FetchShapes'
    BY <2>1, <2>4 DEF FetchInv, FetchShapes, FetchSteps
  <2>6. FetchFlags'
    BY <2>1 DEF FetchInv, FetchFlags, Extracting
  <2>7. TreeGrown'
    BY <2>1, <2>3 DEF FetchInv, TreeGrown, Extracting, Fetch!Accepted
  <2>8. QED
    BY <2>5, <2>6, <2>7 DEF FetchInv
<1>3. CASE Fetch!Die
  <2>1. fPc' = "died" /\ UNCHANGED <<fReceived, fHonest, fTemp, fArchive, fScratch, fMembers,
                                     fDone, fDest, fTree>>
    BY <1>3 DEF Fetch!Die
  <2>2. TreeLeft'
    BY <2>1, GrownIsLeft DEF TreeLeft, LaidBy, Fetch!Parents
  <2>3. QED
    BY <2>1, <2>2 DEF FetchInv, FetchShapes, FetchFlags, TreeGrown, Extracting, FetchSteps,
       Fetch!Accepted
<1>4. QED
  BY <1>1, <1>2, <1>3

LEMMA NextFetch == FetchInv /\ [Next]_vars => FetchInv'
<1> SUFFICES ASSUME FetchInv, [Fetch!Next]_fetchVars PROVE FetchInv'
  BY FetchMoves
<1>1. CASE UNCHANGED fetchVars
  BY <1>1 DEF fetchVars, FetchInv, FetchShapes, FetchFlags, TreeGrown, TreeLeft, Extracting,
     FetchSteps, Fetch!Accepted, LaidBy, Begun, Fetch!Parents
<1>2. CASE Fetch!Next
  BY <1>2, EarlyFetch, InspectFetch, ExtractFetch, WriteFetch, EndFetch DEF Fetch!Next
<1>3. QED
  BY <1>1, <1>2

\* Whatever the store sends, wherever the fetch fails and in whatever order an archive
\* lists its members, a downloaded file holds the bytes of the reference, an inspected
\* archive extracts without a collision, what is returned is whole, and whatever a failed
\* clean-up or a kill leaves belongs to a verified archive, as it lists it, save for the
\* one file that was being written (download_object, extract_archive).
THEOREM FetchIsSound == Spec => []FetchSound
<1>1. FetchInv => FetchSound
  <2> SUFFICES ASSUME FetchInv PROVE Fetch!FetchSound
    BY DEF FetchSound
  <2>1. Fetch!TypeOK
    BY FetchConstants DEF FetchInv, FetchShapes, FetchFlags, FetchSteps, Fetch!TypeOK
  <2>2. Fetch!ArchiveIsVerified
    BY DEF FetchInv, FetchShapes, Fetch!ArchiveIsVerified
  <2>3. Fetch!InspectedNeverCollides
    BY NeverCollides DEF Fetch!InspectedNeverCollides, Fetch!Current
  <2>4. Fetch!ReturnedIsWhole
    <3> SUFFICES ASSUME fPc = "returned" PROVE Fetch!ReturnedIsWhole
      BY DEF Fetch!ReturnedIsWhole
    <3>1. Fetch!ToSet(fMembers) = {fMembers[i] : i \in 1..Len(fMembers)}
      BY DEF Fetch!ToSet, FetchInv, FetchShapes
    <3>2. fDone = Len(fMembers) /\ Begun = Len(fMembers) /\ DOMAIN fTree = LaidBy(Len(fMembers))
      BY DEF FetchInv, TreeGrown, Begun, Extracting
    <3>3. \A i \in 1..Len(fMembers) :
            fTree[fMembers[i].path] = IF fMembers[i].file THEN "file" ELSE "dir"
      BY <3>2 DEF FetchInv, TreeGrown, Extracting
    <3>4. LaidBy(Len(fMembers)) =
            UNION {Fetch!Parents(m.path) \union {m.path} : m \in Fetch!ToSet(fMembers)}
      <4>1. \A i \in 1..Len(fMembers) :
              /\ fMembers[i].path \in Fetch!Paths
              /\ \A p \in Fetch!Parents(fMembers[i].path) : p \in Fetch!Paths
        BY MembersArePaths, ParentsAreAbove DEF FetchInv
      <4>2. QED
        BY <3>1, <4>1 DEF LaidBy
    <3>5. fDest /\ ~fScratch /\ ~fTemp
      BY DEF FetchInv, FetchFlags, Extracting
    <3>6. QED
      BY <3>1, <3>2, <3>3, <3>4, <3>5 DEF Fetch!ReturnedIsWhole, Fetch!Listed, Fetch!AsListed
  <2>5. Fetch!LeftoversAreListed
    <3>1. TreeLeft /\ (fDest => fArchive = "good")
      BY GrownIsLeft DEF FetchInv, FetchFlags
    <3>2. Len(fMembers) \in Nat /\ fDone \in Nat
      BY DEF FetchInv, FetchShapes
    <3>3. Fetch!ToSet(fMembers) = {fMembers[i] : i \in 1..Len(fMembers)}
      BY DEF Fetch!ToSet, FetchInv, FetchShapes
    <3>4. DOMAIN fTree \subseteq Fetch!Listed
      BY <3>1, <3>3 DEF TreeLeft, LaidBy, Fetch!Listed
    <3>5. ASSUME NEW i \in 1..Len(fMembers), fMembers[i].path \in DOMAIN fTree
          PROVE  \/ Fetch!AsListed(fMembers[i])
                 \/ fDone < Len(fMembers) /\ fMembers[i] = Fetch!Current
      BY <3>1, <3>2, <3>5 DEF TreeLeft, Fetch!AsListed, Fetch!Current
    <3>6. QED
      BY <3>1, <3>3, <3>4, <3>5 DEF TreeLeft, Fetch!LeftoversAreListed
  <2>6. QED
    BY <2>1, <2>2, <2>3, <2>4, <2>5 DEF Fetch!FetchSound
<1>2. QED
  BY <1>1, InitFetch, NextFetch, PTL DEF Spec
=============================================================================
