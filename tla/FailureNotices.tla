--------------------------- MODULE FailureNotices ---------------------------
(***************************************************************************)
(* What a validator sends after a round it saved: a notice to every miner  *)
(* it graded (send_failure_notices), then a ticket for a sample of the     *)
(* trajectories to the evaluation service (send_trace_checks).  Both are   *)
(* best effort: a bounded number of requests at a time, a timeout for each *)
(* and a deadline for the batch, at which what is still under way is       *)
(* cancelled.  A notice also needs a permit of the send gate it shares     *)
(* with the dispatch of tasks, so a permit lost here would slow every      *)
(* later round.                                                            *)
(***************************************************************************)
EXTENDS Integers, Sequences, FiniteSets

CONSTANTS
    Miners,          \* registrations
    Concurrency,     \* NOTICE_CONCURRENCY, TRACE_CHECK_CONCURRENCY
    GateCapacity,    \* validator_send_concurrency
    SendTimeout,     \* NOTICE_TIMEOUT_S, TRACE_CHECK_TIMEOUT_S
    BatchDeadline,   \* NOTICE_BATCH_DEADLINE_S, TRACE_CHECK_BATCH_DEADLINE_S
    MaxRecipients    \* NOTICE_MAX_RECIPIENTS

\* What is assumed of the constants; evaluated in ValidatorParts.
FailureNoticesAssumption ==
    /\ Concurrency \in Nat \ {0} /\ GateCapacity \in Nat \ {0}
    /\ SendTimeout \in Nat \ {0} /\ BatchDeadline \in Nat \ {0}
    /\ MaxRecipients \in Nat \ {0} /\ IsFiniteSet(Miners)

VARIABLES
    batch,    \* "none", "notices", "between", "tickets", "done"
    now,      \* time since the batch began
    jobs,     \* the batch: a sequence of [to, passed, display]
    unsent,   \* what the cap on recipients left out
    state,    \* of each job: "waiting", "gate", "post", "repost", "over"
    due,      \* when wait_for cuts a job off
    permits,  \* free permits of the send gate
    requests  \* requests sent for each job

vars == <<batch, now, jobs, unsent, state, due, permits, requests>>

Running == batch \in {"notices", "tickets"}

Jobs == DOMAIN jobs

Active == {j \in Jobs : state[j] \in {"gate", "post", "repost"}}

\* A job that holds a permit: it is past the gate of the notices.
Holding == {j \in Jobs : batch = "notices" /\ state[j] \in {"post", "repost"}}

Outcomes == {"passed", "failed", "detailed"}

Job(m, outcome) ==
    [to |-> m, passed |-> outcome = "passed", display |-> outcome = "detailed"]
-----------------------------------------------------------------------------
Init ==
    /\ batch = "none" /\ now = 0
    /\ jobs = << >> /\ unsent = << >>
    /\ state = << >> /\ due = << >> /\ requests = << >>
    /\ permits = GateCapacity

StartBatch(kind, js, cut) ==
    /\ batch' = kind /\ now' = 0
    /\ jobs' = js /\ unsent' = cut
    /\ state' = [j \in DOMAIN js |-> "waiting"]
    /\ due' = [j \in DOMAIN js |-> 0]
    /\ requests' = [j \in DOMAIN js |-> 0]
    /\ UNCHANGED permits

\* Faulty variant: the jobs keep the order of the evaluations.
FailuresFirstNot(js) == {js}

\* jobs.sort(key = passed), which is stable: a job comes before another if it failed and
\* the other passed, or if it came before it already and they do not differ in that.
Before(js, a, b) == (js[b].passed /\ ~js[a].passed) \/ (js[a].passed = js[b].passed /\ a < b)

FailuresFirst(js) ==
    {[i \in DOMAIN js |-> js[order[i]]] :
       order \in {o \in [DOMAIN js -> DOMAIN js] :
                    \A i, j \in DOMAIN js : i < j => Before(js, o[i], o[j])}}

\* send_failure_notices: a completed round, its graded miners that were assigned
\* and have a client, in the order of the evaluations; build_notice gives a
\* display only where the check that failed may be shown.
Notify(order, outcome) ==
    /\ batch = "none"
    /\ \E all \in FailuresFirst([i \in DOMAIN order |-> Job(order[i], outcome[order[i]])]) :
         LET kept == IF Len(all) < MaxRecipients THEN Len(all) ELSE MaxRecipients
         IN  StartBatch("notices", SubSeq(all, 1, kept), SubSeq(all, kept + 1, Len(all)))

\* send_trace_checks, with the submissions that were drawn; there may have been
\* nobody to notify.
CheckTraces(order) ==
    /\ batch \in {"none", "between"}
    /\ StartBatch("tickets", [i \in DOMAIN order |-> Job(order[i], "passed")], << >>)

Go(j, s) == state' = [state EXCEPT ![j] = s]

Sent(j) == requests' = [requests EXCEPT ![j] = @ + 1]

Room == Cardinality(Active) < Concurrency

\* deliver of send_trace_checks: a ticket needs no permit.
SendTicket(j) == batch = "tickets" /\ Go(j, "post") /\ Sent(j)

\* async with limit, which is first come first served; the timeout starts.
Enter(j) ==
    /\ Running /\ state[j] = "waiting"
    /\ \A i \in 1..(j - 1) : state[i] # "waiting"
    /\ Room
    /\ due' = [due EXCEPT ![j] = now + SendTimeout]
    /\ \/ batch = "notices" /\ Go(j, "gate") /\ UNCHANGED requests
       \/ SendTicket(j)
    /\ UNCHANGED <<batch, now, jobs, unsent, permits>>

\* client.gate.acquire()
Acquire(j) ==
    /\ Running /\ state[j] = "gate" /\ permits > 0
    /\ permits' = permits - 1
    /\ Go(j, "post") /\ Sent(j)
    /\ UNCHANGED <<batch, now, jobs, unsent, due>>

\* The permits of these jobs go back: deliver's finally.
Released(js) == Cardinality(js \intersect Holding)

\* A job is over: answered, or failed.
Over(j) ==
    /\ Running /\ state[j] \in {"post", "repost"}
    /\ Go(j, "over")
    /\ permits' = permits + Released({j})
    /\ UNCHANGED <<batch, now, jobs, unsent, due, requests>>

\* 400 or 413 to a notice with a display: an older miner still gets the reason.
Refused(j) ==
    /\ Running /\ state[j] = "post" /\ jobs[j].display
    /\ Go(j, "repost") /\ Sent(j)
    /\ UNCHANGED <<batch, now, jobs, unsent, due, permits>>

\* wait_for around one job, whether it waits for the gate or for an answer.
JobDue(j) == j \in Active /\ due[j] <= now

\* Faulty variant: a job that is cut off keeps its permit.
JobTimesOutKeeping(j) ==
    /\ Running /\ JobDue(j)
    /\ Go(j, "over")
    /\ UNCHANGED <<batch, now, jobs, unsent, due, requests, permits>>

JobTimesOut(j) ==
    /\ Running /\ JobDue(j)
    /\ Go(j, "over")
    /\ permits' = permits + Released({j})
    /\ UNCHANGED <<batch, now, jobs, unsent, due, requests>>

NextBatch == IF batch = "notices" THEN "between" ELSE "done"

AllOver == \A j \in Jobs : state[j] = "over"

\* Faulty variant: only the single requests have a deadline.
BatchDueNever == FALSE

\* wait_for around the batch.
BatchDue == BatchDeadline <= now

\* The batch returns: every job is over, or the deadline cancels what is not.
BatchEnds ==
    /\ Running
    /\ AllOver \/ BatchDue
    /\ state' = [j \in Jobs |-> "over"]
    /\ permits' = permits + Released(Jobs)
    /\ batch' = NextBatch
    /\ UNCHANGED <<now, jobs, unsent, due, requests>>

\* Timers fire when they are due.
Tick ==
    /\ Running /\ ~AllOver /\ ~BatchDue /\ ~\E j \in Jobs : JobDue(j)
    /\ now' = now + 1
    /\ UNCHANGED <<batch, jobs, unsent, state, due, permits, requests>>

\* Some of the miners, in some order.
Orders ==
    {order \in UNION {[1..n -> Miners] : n \in 1..Cardinality(Miners)} :
        \A i, j \in DOMAIN order : order[i] = order[j] => i = j}

Next ==
    \/ ~Running /\ \E order \in Orders :
         \/ CheckTraces(order)
         \/ \E outcome \in [Miners -> Outcomes] : Notify(order, outcome)
    \/ \E j \in Jobs : Enter(j) \/ Acquire(j) \/ Over(j) \/ Refused(j) \/ JobTimesOut(j)
    \/ BatchEnds \/ Tick

Spec == Init /\ [][Next]_vars
-----------------------------------------------------------------------------
TypeOK ==
    /\ batch \in {"none", "notices", "between", "tickets", "done"}
    /\ now \in Nat
    /\ DOMAIN state = Jobs /\ DOMAIN due = Jobs /\ DOMAIN requests = Jobs
    /\ \A j \in Jobs : state[j] \in {"waiting", "gate", "post", "repost", "over"}
    /\ Cardinality(Active) <= Concurrency
    /\ batch = "notices" => Len(jobs) <= MaxRecipients

\* A permit is either free or held by exactly one request: however jobs end
\* (answered, failed, timed out, or cancelled with the batch), none is lost or
\* returned twice, and all are free when the batch has returned.
PermitsReturned ==
    /\ permits + Cardinality(Holding) = GateCapacity
    /\ ~Running => permits = GateCapacity

\* Feedback never holds the validator up for longer than the batch's deadline.
InTime == Running => now <= BatchDeadline

\* When room or time runs out it is passes that go unsent: no pass is sent or kept
\* while a failure waits or is left out.
PassesGoUnsent ==
    batch = "notices" =>
        \A p \in Jobs : jobs[p].passed =>
            /\ \A i \in DOMAIN unsent : unsent[i].passed
            /\ requests[p] > 0 => \A f \in Jobs : ~jobs[f].passed => state[f] # "waiting"

\* What the batches after a round may cost (send_failure_notices, send_trace_checks): no
\* permit, no time beyond their deadline, and no notice of a failure for one of a pass.
NoticesBounded == TypeOK /\ PermitsReturned /\ InTime /\ PassesGoUnsent
=============================================================================
