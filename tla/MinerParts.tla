----------------------------- MODULE MinerParts -----------------------------
(***************************************************************************)
(* The parts of the reference miner: the nonces of its requests, its HTTP  *)
(* surface, one solve, the upload of a result and the tools a model has on *)
(* its workspace.                                                          *)
(*                                                                         *)
(* The parts share no variable, so whatever the others do leaves a part's  *)
(* own state alone: a behaviour of the system, seen by one part, is a      *)
(* behaviour of that part with stuttering.  One part moves in a behaviour  *)
(* here and the others rest, which is enough for properties that speak of  *)
(* one part each.                                                          *)
(***************************************************************************)
EXTENDS Integers, Sequences, FiniteSets

CONSTANTS
    Uuids, Delta, MaxEntries, MaxGap, LastNonceTick,                         \* NonceCache
    Calls, Tasks, SolveSlots, PrintSlots, Limit, Ttl, MaxTimeout, LastTick,  \* MinerServer
    Timeout, Reserve, RequestTimeout, MaxRetries, Budget, ReaskLimit,        \* MinerSolve
    MaxCalls,
    Attempts,                                                                \* Upload
    Names, Workspaces, Texts, ListEntries, ReadBytes                         \* WorkspaceReader

VARIABLES
    part,     \* the part that moves
    nNow, nStamp, nSeen, nHandler, nHandled,
    mNow, mCall, mQueue, mServed, mAnswered, mPrinting, mWrites, mLastServed, mPrinted,
    sNow, sPc, sFiles, sThread, sClient, sEvents, sCallsMade, sReasks, sFallback,
    sSubmission, sSentBack, sResult,
    uStored, uSlot, uPc, uAttempt, uAmbiguous, uAnswer, uOutcome,
    wFiles, wText, wTool, wOffset, wGot, wEnded

Nonces == INSTANCE NonceCache WITH
    MaxTime <- LastNonceTick,
    now <- nNow, stamp <- nStamp, seen <- nSeen, handler <- nHandler, handled <- nHandled

Server == INSTANCE MinerServer WITH
    MaxTime <- LastTick,
    now <- mNow, call <- mCall, queue <- mQueue, served <- mServed,
    answered <- mAnswered, printing <- mPrinting, writes <- mWrites,
    lastServed <- mLastServed, printed <- mPrinted

Solve == INSTANCE MinerSolve WITH
    now <- sNow, pc <- sPc, files <- sFiles, thread <- sThread, client <- sClient,
    events <- sEvents, callsMade <- sCallsMade, reasks <- sReasks,
    fallback <- sFallback, submission <- sSubmission, sentBack <- sSentBack,
    result <- sResult

Upload == INSTANCE Upload WITH
    stored <- uStored, slot <- uSlot, pc <- uPc, attempt <- uAttempt,
    ambiguous <- uAmbiguous, answer <- uAnswer, outcome <- uOutcome

Reader == INSTANCE WorkspaceReader WITH
    files <- wFiles, text <- wText, tool <- wTool, offset <- wOffset, got <- wGot,
    ended <- wEnded

ASSUME PartsAssumption ==
    /\ Nonces!NonceCacheAssumption
    /\ Server!MinerServerAssumption
    /\ Solve!MinerSolveAssumption
    /\ Upload!UploadAssumption
    /\ Reader!WorkspaceReaderAssumption

nonceVars == <<nNow, nStamp, nSeen, nHandler, nHandled>>
serverVars == <<mNow, mCall, mQueue, mServed, mAnswered, mPrinting, mWrites, mLastServed,
                mPrinted>>
solveVars == <<sNow, sPc, sFiles, sThread, sClient, sEvents, sCallsMade, sReasks,
               sFallback, sSubmission, sSentBack, sResult>>
uploadVars == <<uStored, uSlot, uPc, uAttempt, uAmbiguous, uAnswer, uOutcome>>
readerVars == <<wFiles, wText, wTool, wOffset, wGot, wEnded>>

vars == <<part, nonceVars, serverVars, solveVars, uploadVars, readerVars>>

Parts == {"nonces", "server", "solve", "upload", "reader"}

\* A part at rest is in one of its initial states, it does not matter which.
Init ==
    /\ part \in Parts
    /\ Nonces!Init /\ Server!Init /\ Solve!Init /\ Upload!Init /\ Reader!Init
    /\ part # "solve" => sNow = 0
    /\ part # "reader" => wTool = "read_file" /\ wText = << >>

\* Only p moves.
Only(p) ==
    /\ part = p /\ UNCHANGED part
    /\ p = "nonces" \/ UNCHANGED nonceVars
    /\ p = "server" \/ UNCHANGED serverVars
    /\ p = "solve"  \/ UNCHANGED solveVars
    /\ p = "upload" \/ UNCHANGED uploadVars
    /\ p = "reader" \/ UNCHANGED readerVars

Next ==
    \/ Only("nonces") /\ Nonces!Next
    \/ Only("server") /\ Server!Next
    \/ Only("solve")  /\ Solve!Next
    \/ Only("upload") /\ Upload!Next
    \/ Only("reader") /\ Reader!Next

\* The fairness of FairSpec of MinerServer and MinerSolve, and of a model that pages on.
Fairness ==
    /\ WF_vars(Only("server") /\ Server!Tick)
    /\ WF_vars(Only("server") /\ \E c \in Calls : Server!TimeOut(c))
    /\ WF_vars(Only("server") /\ \E w \in mWrites : Server!Written(w))
    /\ WF_vars(Only("solve") /\ Solve!Steps)
    /\ WF_vars(Only("solve") /\ Solve!Tick)
    /\ WF_vars(Only("solve") /\ Solve!ThreadEnds)
    /\ WF_vars(Only("solve") /\ \E problem \in BOOLEAN : Solve!CheckEnds(problem))
    /\ WF_vars(Only("reader") /\ Reader!Next)

Spec == Init /\ [][Next]_vars /\ Fairness
-----------------------------------------------------------------------------
\* However often and however late a signed request is delivered, the miner lets it through
\* again only after a window, and only if its timestamp was ahead of the miner's clock;
\* a request never let through is refused only while max_entries others were within the
\* window (verify_signature, NonceCache.check_and_add).
ReplaysRefused == Nonces!ReplaysRefused

\* However calls are cancelled, the print slots in use are counted exactly; the miner's
\* memory of tasks is bounded; a notice acknowledged is written; and one is accepted only
\* for a task answered recently (ServedTasks, handle_failure_notice).
NoticesAccounted == Server!NoticesAccounted

\* What a solve uploads is a trajectory that the validator accepts and that ends with the
\* turn of the submission; a reply kept for correction is lost to a timeout
\* only in a pause after a busy answer that is as long as the reserve for the upload;
\* and extraction and removal of the directory do not overlap (DemoMiner.solve).
SolveSound == Solve!SolveSound

\* A response names two objects that are in their slots, and an upload is not refused
\* because an attempt whose answer was lost created the object (upload_artifact).
UploadSound == Upload!UploadSound

\* The pages a tool returns fit together: nothing is skipped or repeated at an edge
\* (WorkspaceReader.execute).
PagesFit == part = "reader" => Reader!PagesFit

\* Every call is answered (handle_request), every solve ends (DemoMiner.solve) and
\* following next_offset comes to an end (WorkspaceReader.execute), though the download,
\* the model and the upload may hang.
MinerProgresses ==
    /\ Server!EveryCallAnswered
    /\ part = "solve" => Solve!SolveEnds
    /\ part = "reader" => Reader!PagingEnds
=============================================================================
