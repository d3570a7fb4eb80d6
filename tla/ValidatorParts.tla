--------------------------- MODULE ValidatorParts ---------------------------
(***************************************************************************)
(* The parts of a validator's round that its coordinator calls: the order  *)
(* of its offers, a POST to the problem server, the fetch of an archive,   *)
(* the grading of a submission, one container, the notices after a round   *)
(* and the evaluation log.                                                 *)
(*                                                                         *)
(* The parts share no variable, so whatever the others do leaves a part's  *)
(* own state alone: a behaviour of the system, seen by one part, is a      *)
(* behaviour of that part with stuttering.  One part moves in a behaviour  *)
(* here and the others rest, which is enough for properties that speak of  *)
(* one part each.                                                          *)
(***************************************************************************)
EXTENDS Integers, Sequences, FiniteSets

CONSTANTS
    Registered, UidOf, Owner, Limit, MaxChanges,                     \* OfferOrder
    Retries, Pacings,                                                \* PostRetry
    Segments, MaxDepth, MaxEntries, Size,                            \* Fetch
    MaxChecks,                                                       \* Grading
    Writable,                                                        \* Supervisor
    Recipients, Concurrency, GateCapacity, SendTimeout,              \* FailureNotices
    BatchDeadline, MaxRecipients,
    Backups, MaxFile, MaxRecord, Records, MaxRecords                 \* EvaluationLog

VARIABLES
    part,     \* the part that moves
    oServing, oPermit, oTrust, oOrder, oPhase, oChanges, oSeen, oLast, oEarned,
    pAttempt, pPc, pWire, pAccepted, pLast, pProtocol, pRetryAfter, pRetryFrom,
    pOutcome, pAnswers,
    fPc, fReceived, fHonest, fTemp, fArchive, fScratch, fMembers, fDone, fDest, fTree,
    gTask, gSetup, gChecks, gPc, gDir, gTree, gCompleted, gResult, gFaults,
    cMain, cCli, cRequest, cContainer, cEnded, cExitCode, cOom, cGuard, cStopGuard,
    cOver, cRunStarted, cWatchdog, cPending, cResult,
    nBatch, nNow, nJobs, nUnsent, nState, nDue, nPermits, nRequests,
    lFiles, lPc, lIndex, lLeft, lRecord, lBegun, lLogged

Offers == INSTANCE OfferOrder WITH
    Miners <- Registered,
    serving <- oServing, permit <- oPermit, trust <- oTrust, order <- oOrder,
    phase <- oPhase, changes <- oChanges, seen <- oSeen, last <- oLast, earned <- oEarned

Post == INSTANCE PostRetry WITH
    attempt <- pAttempt, pc <- pPc, wire <- pWire, accepted <- pAccepted, last <- pLast,
    protocol <- pProtocol, retryAfter <- pRetryAfter, retryFrom <- pRetryFrom,
    outcome <- pOutcome, answers <- pAnswers

Fetch == INSTANCE Fetch WITH
    pc <- fPc, received <- fReceived, honest <- fHonest, temp <- fTemp,
    archive <- fArchive, scratch <- fScratch, members <- fMembers, done <- fDone,
    dest <- fDest, tree <- fTree

Grading == INSTANCE Grading WITH
    task <- gTask, setup <- gSetup, checks <- gChecks, pc <- gPc, dir <- gDir,
    tree <- gTree, completed <- gCompleted, result <- gResult, faults <- gFaults

Container == INSTANCE Supervisor WITH
    main <- cMain, cli <- cCli, request <- cRequest, container <- cContainer,
    ended <- cEnded, exitCode <- cExitCode, oom <- cOom, guard <- cGuard,
    stopGuard <- cStopGuard, over <- cOver, runStarted <- cRunStarted,
    watchdog <- cWatchdog, pending <- cPending, result <- cResult

Notices == INSTANCE FailureNotices WITH
    Miners <- Recipients,
    batch <- nBatch, now <- nNow, jobs <- nJobs, unsent <- nUnsent, state <- nState,
    due <- nDue, permits <- nPermits, requests <- nRequests

Log == INSTANCE EvaluationLog WITH
    Parts <- Records,
    files <- lFiles, pc <- lPc, index <- lIndex, left <- lLeft, record <- lRecord,
    begun <- lBegun, logged <- lLogged

ASSUME PartsAssumption ==
    /\ Offers!OfferAssumption
    /\ Post!PostAssumption
    /\ Fetch!FetchAssumption
    /\ Grading!GradingAssumption
    /\ Container!SupervisorAssumption
    /\ Notices!FailureNoticesAssumption
    /\ Log!EvaluationLogAssumption

offerVars == <<oServing, oPermit, oTrust, oOrder, oPhase, oChanges, oSeen, oLast, oEarned>>
postVars == <<pAttempt, pPc, pWire, pAccepted, pLast, pProtocol, pRetryAfter, pRetryFrom,
              pOutcome, pAnswers>>
fetchVars == <<fPc, fReceived, fHonest, fTemp, fArchive, fScratch, fMembers, fDone, fDest,
               fTree>>
gradingVars == <<gTask, gSetup, gChecks, gPc, gDir, gTree, gCompleted, gResult, gFaults>>
containerVars == <<cMain, cCli, cRequest, cContainer, cEnded, cExitCode, cOom, cGuard,
                   cStopGuard, cOver, cRunStarted, cWatchdog, cPending, cResult>>
noticeVars == <<nBatch, nNow, nJobs, nUnsent, nState, nDue, nPermits, nRequests>>
logVars == <<lFiles, lPc, lIndex, lLeft, lRecord, lBegun, lLogged>>

vars == <<part, offerVars, postVars, fetchVars, gradingVars, containerVars, noticeVars,
          logVars>>

Parts == {"offers", "post", "fetch", "grading", "container", "notices", "log"}

\* A part at rest is in one of its initial states, it does not matter which.
Init ==
    /\ part \in Parts
    /\ Offers!Init /\ Post!Init /\ Fetch!Init /\ Container!Init /\ Notices!Init /\ Log!Init
    /\ part # "offers" => oServing = {}
    /\ Grading!Init
    /\ part # "grading" => gTask = "terminal" /\ gSetup /\ gDir /\ gChecks = <<"inspection">>

\* Only p moves.
Only(p) ==
    /\ part = p /\ UNCHANGED part
    /\ p = "offers"    \/ UNCHANGED offerVars
    /\ p = "post"      \/ UNCHANGED postVars
    /\ p = "fetch"     \/ UNCHANGED fetchVars
    /\ p = "grading"   \/ UNCHANGED gradingVars
    /\ p = "container" \/ UNCHANGED containerVars
    /\ p = "notices"   \/ UNCHANGED noticeVars
    /\ p = "log"       \/ UNCHANGED logVars

Next ==
    \/ Only("offers")    /\ Offers!Next
    \/ Only("post")      /\ Post!Next
    \/ Only("fetch")     /\ Fetch!Next
    \/ Only("grading")   /\ Grading!Next
    \/ Only("container") /\ Container!Next
    \/ Only("notices")   /\ Notices!Next
    \/ Only("log")       /\ Log!Next

\* The fairness of FairSpec of Supervisor.
Spec == Init /\ [][Next]_vars /\ WF_vars(Only("container") /\ Container!Caller)
-----------------------------------------------------------------------------
\* While no draw is earned an offer to the same eligible miners is the same offer, none of
\* them overtakes another, and an offer names only miners that are eligible when it is
\* made (next_offer, round_callback).
OffersFair == Offers!OffersFair

\* However many attempts are sent, lost or late, the server sees one request to act on; a
\* reported success is the server's own, and nothing is posted again after a 200 whose body
\* was received (ProblemServerClient.post_result, lease, commit).
PostedOnce == part = "post" => Post!PostedOnce

\* The outcome of a lease tells apart no answer, a server that failed and nothing that
\* ever answered, and a pause the server asked for survives the attempts after it
\* (post_result, lease).
OutcomeTruthful == Post!OutcomeTruthful

\* Whatever the store sends and wherever the process dies, a downloaded file holds the
\* bytes of the reference; an inspected archive extracts without a collision; what
\* is returned is whole; and what a failure with its clean-up, or a kill, leaves is part of
\* a verified archive, with one file at most cut short (download_object, extract_archive).
FetchSound == part = "fetch" => Fetch!FetchSound

\* A fault of the containers, of a trusted program or of the workspace gives no miner a
\* verdict; an error of the host's input and output may, but only as a missing directory
\* or an invalid tree.  Nothing a submission does ends the round for everyone else, and a
\* verdict agrees with its record of checks (evaluate_repository, evaluate_terminal).
VerdictFair == part = "grading" => Grading!VerdictFair

\* A result is only returned for a container that has exited and is gone, with the exit
\* code it ended with, and one that was cut short is never graded as one that finished
\* (run_container).
ResultSound == part = "container" => Container!ResultSound

\* run_container returns or raises, whatever hangs.
Returns == part = "container" => Container!Returns

\* However the notices end, no permit of the send gate is lost or returned twice, the
\* validator is not held up beyond the batch's deadline, and passes are what goes
\* unsent (send_failure_notices, send_trace_checks).
NoticesBounded == part = "notices" => Notices!NoticesBounded

\* However appends and rotations are cut short, an appended record can be read, what is
\* readable is the latest part of what was logged, and only the removal of the last backup
\* loses a record (EvaluationLog.record_round).
LogKept == Log!LogKept
=============================================================================
