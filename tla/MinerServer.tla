----------------------------- MODULE MinerServer -----------------------------
(***************************************************************************)
(* The reference miner's HTTP surface: /solve requests that share a        *)
(* semaphore of solve slots and a deadline each, and /v3/failure notices   *)
(* about tasks the miner answered before.  ServedTasks matches a notice to *)
(* an answered task, for a limited number of tasks and a limited time, and *)
(* a notice is printed in a thread of its own that outlives its request.   *)
(*                                                                         *)
(* A task stands for (validator, challenge, task, uid, hotkey).  A request *)
(* or notice the miner refuses before it touches any of this state (its    *)
(* size, signature, nonce, signer, body, recipient, policy or expiry) is   *)
(* the action Refuse; NonceCache models the nonces.                        *)
(***************************************************************************)
EXTENDS Integers, Sequences, FiniteSets, SequencesExt, Subsequences

CONSTANTS
    Calls,        \* HTTP calls to the miner, numbered as they arrive
    Tasks,        \* what calls are about
    SolveSlots,   \* miner_max_concurrent_requests
    PrintSlots,   \* NOTICE_PRINT_SLOTS
    Limit,        \* SERVED_TASK_LIMIT
    Ttl,          \* SERVED_TASK_TTL_S
    MaxTimeout,   \* bedrock_request_timeout_s
    MaxTime       \* bound of the model: the clock stops here, and no deadline is later

\* What is assumed of the constants; evaluated in MinerParts.
MinerServerAssumption ==
    /\ Calls \subseteq Nat
    /\ SolveSlots \in Nat \ {0} /\ PrintSlots \in Nat \ {0}
    /\ Limit \in Nat \ {0} /\ Ttl \in Nat \ {0}
    /\ MaxTimeout \in Nat \ {0} /\ MaxTime \in Nat

VARIABLES
    now,         \* time.monotonic()
    call,        \* Calls -> [task, phase, deadline, status]
    queue,       \* calls waiting for a solve slot, first come first served
    served,      \* ServedTasks.served: [task, at], least recently used first
    answered,    \* ServedTasks.answered
    printing,    \* printing_notices
    writes,      \* the print tasks that have not finished, by task
    lastServed,  \* history: task -> when it was last answered
    printed      \* history: task -> notices printed since the miner last forgot it

vars == <<now, call, queue, served, answered, printing, writes, lastServed, printed>>

callVars == <<call, queue>>
taskVars == <<served, answered, lastServed>>
printVars == <<printing, writes, printed>>

Never == -1

NewCall == [task |-> "none", phase |-> "new", deadline |-> 0, status |-> "none"]

Phase(p) == {c \in Calls : call[c].phase = p}

Busy == Phase("queued") \union Phase("solving") \union Phase("printing")

Arrives(c) == c \in Phase("new") /\ \A d \in Phase("new") : c <= d

Known(entries) == {entries[i].task : i \in DOMAIN entries}

\* The reply: 200, an error status, or none since the caller is gone.
Reply(c, status) == [call EXCEPT ![c] = [NewCall EXCEPT !.phase = "done", !.status = status]]
-----------------------------------------------------------------------------
Init ==
    /\ now = 0
    /\ call = [c \in Calls |-> NewCall]
    /\ queue = << >>
    /\ served = << >> /\ answered = {}
    /\ printing = 0 /\ writes = {}
    /\ lastServed = [t \in Tasks |-> Never]
    /\ printed = [t \in Tasks |-> 0]

\* The early returns of handle_request and handle_failure_notice.
Refuse(c) ==
    /\ Arrives(c)
    /\ call' = Reply(c, "error")
    /\ UNCHANGED <<now, queue, taskVars, printVars>>

\* handle_request: the deadline is the earlier of the task's expiry and the
\* miner's own limit; the call then waits for a solve slot.
Accept(c, task, timeout) ==
    /\ Arrives(c)
    /\ now + timeout <= MaxTime
    /\ call' = [call EXCEPT ![c] = [task |-> task, phase |-> "queued",
                                    deadline |-> now + timeout, status |-> "none"]]
    /\ queue' = Append(queue, c)
    /\ UNCHANGED <<now, taskVars, printVars>>

\* Faulty variant: one call more than there are slots.
SlotFreeOffByOne == Cardinality(Phase("solving")) <= SolveSlots

\* async with self.solve_slots
SlotFree == Cardinality(Phase("solving")) < SolveSlots

\* solve_with_slot: the wait may have used up the time that was left.
Start(c) ==
    /\ queue # << >> /\ c = Head(queue)
    /\ SlotFree
    /\ call' = IF call[c].deadline <= now THEN Reply(c, "error")
               ELSE [call EXCEPT ![c].phase = "solving"]
    /\ queue' = Tail(queue)
    /\ UNCHANGED <<now, taskVars, printVars>>

\* ServedTasks._drop_expired
Expired(entry) == now - entry.at >= Ttl

Live == Where(served, {e \in ToSet(served) : ~Expired(e)})

\* entries without the one of task, if any.
Without(entries, task) == Where(entries, {e \in ToSet(entries) : e.task # task})

\* Faulty variant: only an expired task loses its mark, an evicted one keeps it.
ForgottenExpired(entries) ==
    {e.task : e \in {x \in ToSet(served) : Expired(x)}}

\* Faulty variant: an expired task that is served again keeps its mark.
ForgottenEvicted(entries) == answered \ Known(entries)

\* What leaves served leaves answered too: first what has expired (_drop_expired), then
\* what is not in the entries that are kept.  An expired task loses its mark even if it
\* is added again at once.
Forgotten(entries) == answered \ (Known(Live) \intersect Known(entries))

\* ServedTasks.add: the newest entry goes to the end, the oldest are evicted.
Added(task) ==
    LET all  == Append(Without(Live, task), [task |-> task, at |-> now])
        over == IF Len(all) > Limit THEN Len(all) - Limit ELSE 0
    IN  SubSeq(all, over + 1, Len(all))

\* The miner keeps entries and forgets every other task, and what it knew of an expired
\* one.
Forget(entries) ==
    /\ served' = entries
    /\ printed' = [t \in Tasks |-> IF t \in Known(Live) \intersect Known(entries)
                                  THEN printed[t] ELSE 0]

\* The model answered and the uploads succeeded: the task is recorded
\* before the reply is sent.  The validator may never read the reply.
Solved(c) ==
    /\ c \in Phase("solving")
    /\ LET entries == Added(call[c].task)
       IN  /\ Forget(entries)
           /\ answered' = answered \ Forgotten(entries)
    /\ lastServed' = [lastServed EXCEPT ![call[c].task] = now]
    /\ call' = Reply(c, "ok")
    /\ UNCHANGED <<now, queue, printing, writes>>

\* The model, the workspace or an upload failed.
SolveFails(c) ==
    /\ c \in Phase("solving")
    /\ call' = Reply(c, "error")
    /\ UNCHANGED <<now, queue, taskVars, printVars>>

\* Faulty variant: the deadline covers solving, not the wait for a slot.
TimeOutSolving(c) ==
    /\ c \in Phase("solving")
    /\ call[c].deadline <= now
    /\ call' = Reply(c, "error")
    /\ UNCHANGED <<now, queue, taskVars, printVars>>

\* asyncio.wait_for cancels the call, queued or solving, at its deadline.
TimeOut(c) ==
    /\ c \in Phase("queued") \union Phase("solving")
    /\ call[c].deadline <= now
    /\ call' = Reply(c, "error")
    /\ queue' = Where(queue, Calls \ {c})
    /\ UNCHANGED <<now, taskVars, printVars>>

\* Faulty variant: recognising a task renews it.
ClassifiedRenewed(task) ==
    Append(Without(Live, task), [task |-> task, at |-> now])

\* ServedTasks.classify: recognising a task counts as use of it, and leaves the
\* time at which it expires alone.
Classified(task) ==
    LET entry == CHOOSE e \in ToSet(Live) : e.task = task
    IN  Append(Without(Live, task), entry)

Unknown(c, task) ==
    /\ task \notin Known(Live)
    /\ Forget(Live)
    /\ answered' = answered \ Forgotten(Live)
    /\ call' = Reply(c, "error")
    /\ UNCHANGED <<printing, writes>>

Duplicate(c, task) ==
    /\ task \in Known(Live) /\ task \in answered \ Forgotten(Live)
    /\ Forget(Classified(task))
    /\ answered' = answered \ Forgotten(Live)
    /\ call' = Reply(c, "ok")
    /\ UNCHANGED <<printing, writes>>

\* The write starts at once, in a thread; the call waits for it.
New(c, task) ==
    /\ task \in Known(Live) /\ task \notin answered \ Forgotten(Live)
    /\ Forget(Classified(task))
    /\ answered' = (answered \ Forgotten(Live)) \union {task}
    /\ printing' = printing + 1
    /\ writes' = writes \union {[call |-> c, task |-> task]}
    /\ call' = [call EXCEPT ![c].task = task, ![c].phase = "printing"]

\* Faulty variant: the notice is classified before it is admitted.
NoticeMarked(c, task) ==
    /\ Arrives(c)
    /\ \/ /\ printing >= PrintSlots
          /\ call' = Reply(c, "error")
          /\ answered' = answered \union ({task} \intersect Known(Live))
          /\ UNCHANGED <<served, printVars>>
       \/ /\ printing < PrintSlots
          /\ Unknown(c, task) \/ Duplicate(c, task) \/ New(c, task)
    /\ UNCHANGED <<now, queue, lastServed>>

\* handle_failure_notice: a busy miner refuses before it marks the task answered.
Notice(c, task) ==
    /\ Arrives(c)
    /\ \/ /\ printing >= PrintSlots
          /\ call' = Reply(c, "error")
          /\ UNCHANGED <<served, answered, printVars>>
       \/ /\ printing < PrintSlots
          /\ Unknown(c, task) \/ Duplicate(c, task) \/ New(c, task)
    /\ UNCHANGED <<now, queue, lastServed>>

\* The thread ends, printed or not (print_feedback swallows what goes wrong), and
\* the done callback frees the slot.
Written(w) ==
    /\ w \in writes
    /\ writes' = writes \ {w}
    /\ printing' = IF printing > 0 THEN printing - 1 ELSE 0
    /\ printed' = IF w.task \in answered THEN [printed EXCEPT ![w.task] = @ + 1]
                  ELSE printed
    /\ call' = IF call[w.call].phase = "printing" THEN Reply(w.call, "ok") ELSE call
    /\ UNCHANGED <<now, queue, taskVars>>

\* Faulty variant: the slot is freed with the request that took it.
HangUpFrees(c) ==
    /\ c \in Busy
    /\ call' = Reply(c, "none")
    /\ queue' = Where(queue, Calls \ {c})
    /\ printing' = IF call[c].phase = "printing" THEN printing - 1 ELSE printing
    /\ UNCHANGED <<now, taskVars, writes, printed>>

\* The caller hangs up and the server cancels the call: a queued or solving call
\* gives its place up, a write under way goes on (asyncio.shield).
HangUp(c) ==
    /\ c \in Busy
    /\ call' = Reply(c, "none")
    /\ queue' = Where(queue, Calls \ {c})
    /\ UNCHANGED <<now, taskVars, printVars>>

Tick ==
    /\ now < MaxTime
    /\ now' = now + 1
    /\ UNCHANGED <<callVars, taskVars, printVars>>

Next ==
    \/ \E c \in Calls :
         \/ Refuse(c)
         \/ \E t \in Tasks, d \in 1..MaxTimeout : Accept(c, t, d)
         \/ Start(c) \/ Solved(c) \/ SolveFails(c) \/ TimeOut(c) \/ HangUp(c)
         \/ \E t \in Tasks : Notice(c, t)
    \/ \E w \in writes : Written(w)
    \/ Tick

Spec == Init /\ [][Next]_vars

\* Time passes, the event loop runs the timer of every deadline, and a write ends.
\* Neither the model nor an upload need ever answer.
Fairness ==
    /\ WF_vars(Tick)
    /\ WF_vars(\E c \in Calls : TimeOut(c))
    /\ WF_vars(\E w \in writes : Written(w))

FairSpec == Spec /\ Fairness
-----------------------------------------------------------------------------
TypeOK ==
    /\ now \in 0..MaxTime
    /\ call \in [Calls -> [task : Tasks \union {"none"},
                           phase : {"new", "queued", "solving", "printing", "done"},
                           deadline : 0..MaxTime, status : {"none", "ok", "error"}]]
    /\ IsInjective(queue) /\ ToSet(queue) = Phase("queued")
    /\ Cardinality(Phase("solving")) <= SolveSlots
    /\ \A i \in DOMAIN served : served[i] \in [task : Tasks, at : 0..now]
    /\ lastServed \in [Tasks -> {Never} \union 0..now]
    /\ printed \in [Tasks -> Nat]

\* However calls are cancelled, at most PrintSlots writes run at a time, and the
\* counter that admits notices counts exactly those that run.
WritesCounted ==
    /\ printing = Cardinality(writes)
    /\ printing <= PrintSlots

\* What the miner remembers is bounded: at most Limit tasks, each once, and marks
\* for no others.  Otherwise a miner that runs for long would fill up.
MemoryBounded ==
    /\ Len(served) <= Limit
    /\ Cardinality(Known(served)) = Len(served)
    /\ answered \subseteq Known(served)

\* A notice is not acknowledged and then lost: a task marked as answered has a notice
\* written, or being written, since the miner last forgot it.  (A busy miner must refuse
\* before it marks; and a mark may not outlive the task's entry, or the notice about a
\* later answer to the same task would pass for a duplicate.)
MarkedIsWritten ==
    \A t \in answered : printed[t] > 0 \/ \E w \in writes : w.task = t

\* A notice is accepted only for a task the miner answered less than Ttl ago, no
\* matter how often the task was recognised since.
AcceptedIsRecent ==
    [][\A c \in Calls : \A t \in Tasks :
         Notice(c, t) /\ (call'[c].status = "ok" \/ call'[c].phase = "printing")
           => lastServed[t] # Never /\ now - lastServed[t] < Ttl]_vars

\* Every call is answered, even when the model and the uploads hang: no call waits
\* for a slot beyond its deadline, so once calls stop arriving none is under way.
EveryCallAnswered == <>[](Busy = {})

\* What the miner keeps of tasks and notices (ServedTasks, handle_failure_notice).
NoticesAccounted ==
    /\ [](TypeOK /\ WritesCounted /\ MemoryBounded /\ MarkedIsWritten)
    /\ AcceptedIsRecent
=============================================================================
