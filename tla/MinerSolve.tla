----------------------------- MODULE MinerSolve -----------------------------
(***************************************************************************)
(* One solve of the reference miner (DemoMiner.solve): the workspace is    *)
(* downloaded and extracted into a temporary directory, the model is asked *)
(* (BedrockClient.complete) until it gives a submission that passes the    *)
(* miner's own checks or its budget of tool calls, corrections or time     *)
(* runs out, and the submission is uploaded with the trajectory of events  *)
(* that led to it.  The caller cancels the solve at Timeout.               *)
(*                                                                         *)
(* A model turn is identified by its number, and a submission by the turn  *)
(* it came from.  Time passes only where the code waits.                   *)
(***************************************************************************)
EXTENDS Integers, Sequences, FiniteSets

CONSTANTS
    Timeout,        \* timeout_s: the solve deadline, in handle_request's time
    Reserve,        \* bedrock_upload_reserve_s
    RequestTimeout, \* bedrock_request_timeout_s
    MaxRetries,     \* bedrock_max_retries
    Budget,         \* miner_max_workspace_tool_calls
    ReaskLimit,     \* SUBMISSION_REASK_LIMIT
    MaxCalls        \* bound of the model: tool calls in one reply

\* What is assumed of the constants; evaluated in MinerParts.
MinerSolveAssumption ==
    /\ Timeout \in Nat \ {0} /\ Reserve \in Nat \ {0} /\ RequestTimeout \in Nat \ {0}
    /\ MaxRetries \in Nat /\ Budget \in Nat \ {0} /\ ReaskLimit \in Nat /\ MaxCalls \in Nat

VARIABLES
    now,        \* time since the solve deadline was set
    pc,         \* where the solve is
    files,      \* whether the temporary directory exists
    thread,     \* the thread that extracts the archive: "none", "running", "ended"
    client,     \* BedrockClient.complete: [deadline, attempt, began, wake]
    events,     \* the trajectory
    callsMade, reasks,
    fallback,   \* the last submission sent back for correction, with its events
    submission, \* what is uploaded
    sentBack,   \* history: the last turn sent back for correction
    result

vars == <<now, pc, files, thread, client, events, callsMade, reasks, fallback,
          submission, sentBack, result>>

ModelDeadline == Timeout - Reserve

NoClient == [deadline |-> 0, attempt |-> 0, began |-> 0, wake |-> 0]

None == [turn |-> 0, events |-> << >>]

OfType(es, type) == {i \in DOMAIN es : es[i].type = type}

\* The number of model turns in a trajectory.
Turns(es) == Cardinality(OfType(es, "model_turn"))

NewTurn(es) == Append(es, [type |-> "model_turn", id |-> Turns(es) + 1])

\* "submission-validation-0", unlike the "workspace-n" of the model's calls
ValidationId == -1

Least(a, b) == IF a < b THEN a ELSE b

Positive(a) == IF a > 0 THEN a ELSE 0

modelVars == <<events, callsMade, reasks, fallback, sentBack>>
-----------------------------------------------------------------------------
Init ==
    /\ now \in 0..Timeout - 1 /\ pc = "begin"   \* the wait for a slot took some
    /\ files = FALSE /\ thread = "none"
    /\ client = NoClient
    /\ events = << >> /\ callsMade = 0 /\ reasks = 0 /\ fallback = None /\ sentBack = 0
    /\ submission = None
    /\ result = "none"

\* Leaving solve with an exception: the context managers remove the directory.
Fail(why) ==
    /\ pc' = "done" /\ result' = why
    /\ files' = FALSE
    /\ UNCHANGED <<now, thread, client, modelVars, submission>>

Begin ==
    /\ pc = "begin"
    /\ \/ ModelDeadline <= now /\ Fail("timeout")
       \/ /\ now < ModelDeadline
          /\ pc' = "download" /\ files' = TRUE
          /\ UNCHANGED <<now, thread, client, modelVars, submission, result>>

\* open_miner_workspace: limits and free space are checked, the archive is
\* downloaded and checked against its digest, and a thread extracts it.
Download ==
    /\ pc = "download"
    /\ \/ Fail("error")
       \/ /\ pc' = "extract" /\ thread' = "running"
          /\ UNCHANGED <<now, files, client, modelVars, submission, result>>

\* extract_archive ends, in its own time.  A solve cancelled meanwhile waited for
\* it before removing the directory.
ThreadEnds ==
    /\ thread = "running" /\ thread' = "ended"
    /\ \/ /\ pc = "extract"
          /\ pc' = "ask"
          /\ UNCHANGED <<files, result>>
       \/ /\ pc = "extract"
          /\ pc' = "done" /\ result' = "error" /\ files' = FALSE
       \/ /\ pc = "cancelled"
          /\ pc' = "done" /\ result' = "timeout" /\ files' = FALSE
    /\ UNCHANGED <<now, client, modelVars, submission>>

\* Faulty variant: the fallback is uploaded with the events of the turns that followed it.
SubmitShared(s) ==
    /\ submission' = s
    /\ pc' = "upload"
    /\ files' = FALSE
    /\ events' = events \o
         <<[type |-> "tool_call", id |-> ValidationId],
           [type |-> "tool_result", id |-> ValidationId],
           [type |-> "final_submission", id |-> s.turn]>>
    /\ UNCHANGED <<now, thread, client, callsMade, reasks, fallback, sentBack, result>>

\* The submission, its events and the miner's own validation are what is
\* uploaded; the directory is no longer needed.
Submit(s) ==
    /\ submission' = s
    /\ pc' = "upload"
    /\ files' = FALSE
    /\ events' = s.events \o
         <<[type |-> "tool_call", id |-> ValidationId],
           [type |-> "tool_result", id |-> ValidationId],
           [type |-> "final_submission", id |-> s.turn]>>
    /\ UNCHANGED <<now, thread, client, callsMade, reasks, fallback, sentBack, result>>

\* Faulty variant: a timeout of the model fails the solve.
OutOfTimeFails == Fail("timeout")

\* The model did not answer in time: a reply kept for correction is better than none.
OutOfTime ==
    \/ fallback # None /\ Submit(fallback)
    \/ fallback = None /\ Fail("timeout")

\* What complete makes of the time that remains.
ClientDeadline == Least(ModelDeadline, now + RequestTimeout)

\* The top of _generate's loop, and the request that complete prepares.
Ask ==
    /\ pc = "ask"
    /\ \/ ModelDeadline <= now /\ OutOfTime
       \/ /\ now < ModelDeadline
          /\ pc' = "attempt"
          /\ client' = [NoClient EXCEPT !.deadline = ClientDeadline]
          /\ UNCHANGED <<now, files, thread, modelVars, submission, result>>

\* The top of complete's loop.
Attempt ==
    /\ pc = "attempt"
    /\ \/ client.deadline <= now /\ OutOfTime
       \/ /\ now < client.deadline
          /\ pc' = "post"
          /\ client' = [client EXCEPT !.began = now]
          /\ UNCHANGED <<now, files, thread, modelVars, submission, result>>

\* asyncio.wait_for around the post.
PostTimesOut ==
    /\ pc = "post" /\ client.deadline <= now
    /\ OutOfTime

CanRetry == client.attempt < MaxRetries

SleepFor(seconds) ==
    /\ pc' = "sleep"
    /\ client' = [client EXCEPT !.wake = now + seconds]
    /\ UNCHANGED <<now, files, thread, modelVars, submission, result>>

\* 429 or 5xx: the pause is bounded by what remained BEFORE the request, so that it may
\* go on after the client's deadline.
Busy ==
    /\ pc = "post"
    /\ \/ ~CanRetry /\ Fail("error")
       \/ CanRetry /\ SleepFor(Least(2 ^ client.attempt, client.deadline - client.began))

\* A transport error or an httpx timeout: the pause is bounded by what remains.
\* The last error is raised: a timeout is a reason to fall back, another is not.
TransportError ==
    /\ pc = "post"
    /\ \/ ~CanRetry /\ (Fail("error") \/ OutOfTime)
       \/ CanRetry /\ SleepFor(Least(2 ^ client.attempt, Positive(client.deadline - now)))

Wake ==
    /\ pc = "sleep" /\ client.wake <= now
    /\ pc' = "attempt"
    /\ client' = [client EXCEPT !.attempt = @ + 1]
    /\ UNCHANGED <<now, files, thread, modelVars, submission, result>>

\* A response that is not a completion, or a tool call that is not an object.
Invalid ==
    /\ pc = "post"
    /\ Fail("error")

\* The call identifiers run on through the solve.
CallId(i) == callsMade + i

\* Each call is followed by its result.
CallEvents(n) ==
    [k \in 1..2 * n |-> [type |-> IF k % 2 = 1 THEN "tool_call" ELSE "tool_result",
                        id |-> CallId((k - 1) \div 2)]]

\* A reply with n tool calls: they are run together or, over budget, not at all.
ToolCalls(n) ==
    /\ pc = "post"
    /\ \/ /\ callsMade + n <= Budget
          /\ events' = NewTurn(events) \o CallEvents(n)
          /\ callsMade' = callsMade + n
          /\ pc' = "ask"
          /\ UNCHANGED <<now, files, thread, client, reasks, fallback, sentBack, submission, result>>
       \/ /\ callsMade + n > Budget /\ reasks < ReaskLimit
          /\ events' = NewTurn(events)
          /\ reasks' = reasks + 1
          /\ pc' = "ask"
          /\ UNCHANGED <<now, files, thread, client, callsMade, fallback, sentBack, submission, result>>
       \/ callsMade + n > Budget /\ reasks = ReaskLimit /\ Fail("error")

\* A reply without tool calls is taken for a submission and checked.
TextReply ==
    /\ pc = "post"
    /\ events' = NewTurn(events)
    /\ pc' = "check"
    /\ UNCHANGED <<now, files, thread, client, callsMade, reasks, fallback, sentBack, submission, result>>

\* fallback = (completion, list(events), submission)
KeptForCorrection == [turn |-> Turns(events), events |-> events]

\* _check_submission: the format, then git, with what time is left, then git once
\* more when the hunk counts could be repaired.
CheckEnds(problem) ==
    /\ pc = "check"
    /\ IF ~problem \/ reasks = ReaskLimit \/ ModelDeadline <= now
       THEN Submit([turn |-> Turns(events), events |-> events])
       ELSE /\ reasks' = reasks + 1
            /\ fallback' = KeptForCorrection
            /\ sentBack' = Turns(events)
            /\ pc' = "ask"
            /\ UNCHANGED <<now, files, thread, client, events, callsMade, submission, result>>

\* upload_miner_result
Upload ==
    /\ pc = "upload"
    /\ \/ Fail("error")
       \/ Fail("submitted")

\* Faulty variant: only the wait for the model is cut short.
CancelModel ==
    /\ pc \in {"post", "sleep", "check"}
    /\ Timeout <= now
    /\ Fail("timeout")

\* Faulty variant: a cancelled solve leaves at once, whatever the extraction does.
CancelAbandons ==
    /\ pc \in {"download", "extract", "post", "sleep", "check", "upload"}
    /\ Timeout <= now
    /\ Fail("timeout")

\* The caller's wait_for.  An extraction under way is waited for.
Cancel ==
    /\ Timeout <= now
    /\ \/ /\ pc \in {"download", "post", "sleep", "check", "upload"}
          /\ Fail("timeout")
       \/ /\ pc = "extract"
          /\ pc' = "cancelled"
          /\ UNCHANGED <<now, files, thread, client, modelVars, submission, result>>

\* Time passes while the solve waits, up to the next timer.
Tick ==
    /\ now < Timeout
    /\ \/ pc \in {"download", "extract", "upload"}
       \/ pc = "post" /\ now < client.deadline
       \/ pc = "sleep" /\ now < client.wake
       \/ pc = "check" /\ now < ModelDeadline
    /\ now' = now + 1
    /\ UNCHANGED <<pc, files, thread, client, modelVars, submission, result>>

Model ==
    \/ Busy \/ TransportError \/ Invalid \/ TextReply
    \/ \E n \in 1..MaxCalls : ToolCalls(n)

Steps == Begin \/ Ask \/ Attempt \/ PostTimesOut \/ Wake \/ Cancel

Next ==
    \/ Steps \/ Tick
    \/ Download \/ ThreadEnds \/ Model \/ Upload
    \/ \E problem \in BOOLEAN : CheckEnds(problem)

Spec == Init /\ [][Next]_vars

\* The program takes its own steps, time passes, an extraction ends (its work is
\* bounded) and so does git (it is killed).  The download, the model and the upload
\* may hang.
FairSpec ==
    /\ Spec
    /\ WF_vars(Steps) /\ WF_vars(Tick) /\ WF_vars(ThreadEnds)
    /\ WF_vars(\E problem \in BOOLEAN : CheckEnds(problem))
-----------------------------------------------------------------------------
TypeOK ==
    /\ now \in 0..Timeout
    /\ pc \in {"begin", "download", "extract", "ask", "attempt", "post", "sleep", "check",
               "upload", "cancelled", "done"}
    /\ files \in BOOLEAN /\ thread \in {"none", "running", "ended"}
    /\ callsMade \in 0..Budget /\ reasks \in 0..ReaskLimit
    /\ client.attempt \in 0..MaxRetries /\ client.deadline <= Positive(ModelDeadline)
    /\ result \in {"none", "timeout", "error", "submitted"}

\* What Trajectory.validate_events asks of a trajectory: a model turn, one final
\* submission at the end, and every tool call answered once, later.
ValidEvents(es) ==
    LET calls == OfType(es, "tool_call")
        results == OfType(es, "tool_result")
    IN  /\ Len(es) >= 4
        /\ OfType(es, "model_turn") # {}
        /\ OfType(es, "final_submission") = {Len(es)}
        /\ calls # {}
        /\ \A i, j \in calls : es[i].id = es[j].id => i = j
        /\ \A i \in calls :
             \E j \in results : /\ i < j /\ es[i].id = es[j].id
                               /\ \A k \in results : es[k].id = es[i].id => k = j
        /\ \A j \in results : \E i \in calls : es[i].id = es[j].id

\* The last model turn of a trajectory is turn n.
EndsWithTurn(es, n) ==
    \E i \in OfType(es, "model_turn") :
        es[i].id = n /\ \A j \in OfType(es, "model_turn") : j <= i

\* What is uploaded is a trajectory the validator accepts, and it ends with the turn
\* that gave the submission: a fallback is not uploaded with the events of the
\* correction that failed.
TrajectoryIsOfSubmission ==
    pc = "upload" => /\ ValidEvents(events)
                     /\ EndsWithTurn(events, submission.turn)
                     /\ events[Len(events)].id = submission.turn

\* Running out of time while the model is asked does not lose a reply that was sent back
\* for correction: that reply is uploaded.  The one exception is the pause after a 429 or
\* a 5xx, which is bounded by what remained before the request: it may last beyond the
\* caller's deadline, but only where 2^attempt seconds are no less than the reserve for
\* the upload.  (Two retries and a reserve of 20 seconds, the defaults, exclude it; ten
\* retries, which the settings allow, do not.)
OutOfTimeKeepsReply ==
    [][/\ /\ pc \in {"ask", "attempt", "post", "sleep", "check"}
          /\ result' = "timeout" /\ sentBack # 0
          => pc = "sleep" /\ Reserve <= 2 ^ client.attempt
       /\ pc \in {"ask", "attempt", "post", "sleep"} /\ pc' = "upload"
          => submission'.turn = sentBack]_vars

\* The extraction never writes into a removed directory, and a solve that
\* uploads or has ended leaves no directory behind.
FilesOutliveExtraction ==
    /\ thread = "running" => files
    /\ pc \in {"upload", "done"} => ~files

\* Every solve ends, though the download, the model and the upload may hang.
SolveEnds == <>(pc = "done")

\* What a solve hands in and leaves behind (DemoMiner.solve, _generate).
SolveSound ==
    /\ [](TypeOK /\ TrajectoryIsOfSubmission /\ FilesOutliveExtraction)
    /\ OutOfTimeKeepsReply
=============================================================================
