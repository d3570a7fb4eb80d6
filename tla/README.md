# Verification of the Hone validator and reference miner (protocol V3)

TLA+ models, TLC runs and TLAPS proofs for the V3 validator and the reference
miner of this repository: `rlvr/neurons` (the processes), `rlvr/v3` (the round),
`rlvr/problemserver` (the client), `rlvr/protocol.py` (request authentication) and
`rlvr/scoring` (the score window). `PROJECT.json` lists components, runs, the source lines of every
definition, known hazards, findings and theorems.

Run a model with `tlc -workers 2 -config <cfg> <module>` (the `runs` of
`PROJECT.json` name both), check the proofs with `tlapm` on each of the modules
whose name ends in `Proofs`.

## 1. The system

A validator repeats one *round*: it leases a challenge from the problem server
for miners it chose itself, sends every miner the task, commits their signed
answers, learns the verifier only then, grades the answers in containers and
records payments. From time to time it sends the recorded scores to the chain as
weights.

| Component | State | Operations | Hard behaviour |
|---|---|---|---|
| Run loop (`neurons/validator.py`, `base.py`) | last round block, weights gate, pause | poll, start a round, defer, submit weights | two cadences and a pause; a block number read before a round and used after it; RPC outages |
| Process (`neurons/decentralized.py`) | engine, metagraph snapshot, offer order, score file | `round_callback`, `_load_scores`, `_save_scores`, `_submit_local_weights` | chain turnover, crash between scoring, saving and telling; old score files |
| Score engine (`scoring/eval_engine.py`) | histories, hotkeys, scores | `resize`, `sync`, `update`, `record_nonserving`, `_restore`, `get_weights` | three maps that must change together |
| Round (`v3/round.py`) | lease, answers, reveal, evaluations, `round_dead` | `evaluate_round`, `dispatch`, `grade` | concurrent grading under a semaphore, about twenty ways to abandon, an untrusted server |
| Dispatch (`neurons/live.py`) | send gate, permits, deadlines | `solve_v3` | one permit released from several places, four timers, silent miners |
| Workspace cache (`v3/workspace.py`, sweep in `v3/round.py`) | cache, staging and round directories | sweep, extract, publish, remove | kills and failed removals; what the next round finds |
| Problem-server client (`problemserver/client.py`, `v3/client.py`; wire models in `v3/api.py`) | evidence of the attempts of one POST | post, retry, classify | lost and late answers, what a later attempt forgets of an earlier one |
| Selection (`v3/selection.py`) | offer order | `eligible_miners`, `next_offer` | order kept across abandoned rounds |
| Grading (`v3/grading.py`, `manifest.py`, `patch.py`, `tree.py`) | working tree, completed checks | `evaluate_repository`, `evaluate_terminal` | candidate code changes the tree between two looks at it; whose fault a failure is |
| Container (`v3/supervisor.py`) | docker command, guard thread, container | `run_container` | a container outlives the command that started it; two threads and a daemon race |
| Transfer (`v3/download.py`, `upload.py`, `archive.py`, `artifacts.py`) | files, objects in the store | download, extract, upload | limits while streaming, partial files, a put whose answer is lost |
| Evaluation log (`v3/diagnostics.py`) | log and backups | append, rotate | death inside an append or between two renames |
| Feedback (`neurons/feedback_sender.py`, `trace_check.py`) | batch, permits of the send gate | notify, check traces | best effort inside three limits; a gate shared with the dispatch |
| Reference miner, server (`neurons/demo_miner.py`) | slots, served tasks, notices being printed | solve, notice | deadlines, clients that hang up, a print that outlives its request |
| Reference miner, solve (`neurons/demo_miner.py`, `v3/miner.py`, `miner_workspace.py`) | temporary directory, trajectory, budgets | download, ask, correct, upload; paged tools | cancellation at any await; a thread that goes on after it |
| Request authentication (`protocol.py`) | nonce cache | `verify_signature`, `check_and_add` | two windows on two clocks |
| Payments, configuration, dataset, scripts | settings | compute, read, write | none that a step depends on |
| Protocol 1 (`orchestrator.py`, `execution/`, `dataset/`) | none shared with V3 | simulate, run code | not reached by the V3 validator |

Interaction: the run loop awaits `round_callback`; the callback syncs metagraph
and engine, awaits `evaluate_round`, applies its result, saves, then tells miners.
Everything runs on one event loop, so the concurrency is that of coroutines at
their awaits (dispatch, grading) plus the outside: server, miners, chain, disk,
clock, kills. Grading and container supervision run in threads of their own, and
so do extraction and printing in the miner.

What makes each part correct:

- *Scores*: every observation, score, file entry and weight belongs to the hotkey
  that earned it; scores are always the function of the histories; every file
  the validator writes it can read; what a miner was told is on disk.
- *Round*: all of the drawn miners are judged, or none; by what they signed before
  the verifier was known; equal bytes get equal verdicts; it ends.
- *Dispatch*: the commit keeps its reserve, permits are conserved, calls return.
- *Loop*: pauses are kept and bounded, cadences are kept, weights keep flowing.
- *Cache*: a name stands for a whole workspace, storage is reclaimed, rounds
  recover.
- *Selection*: no answer of the server and no abandoned round buys another draw.
- *Client*: however often a request is sent it acts once; the reported outcome is
  what happened, and a pause the server asked for is not lost in a retry.
- *Grading*: the validator's faults never judge a miner, and a miner's never end
  the round; a verdict agrees with its checks.
- *Container*: a result is that of a container that exited and is gone; one cut
  short says so; the call returns.
- *Transfer*: a file is verified or absent; an inspected archive extracts whole or
  leaves nothing; a lost answer does not fail an upload.
- *Log*: what was appended can be read, and the oldest records are lost first.
- *Feedback*: no permit is lost, the deadline holds, failures are sent before
  passes.
- *Miner*: a signed request is let through once; every call is answered; what is
  uploaded is what the model said, with the events that led to it.

## 2. Modules

| Module | Models | Notes |
|---|---|---|
| `EvalEngine` | `scoring/eval_engine.py` as operators on an engine record | no state of its own; scores are fractions, timestamps are challenge numbers (never compared by the code) |
| `ScoreWindow` | `round_callback`, load, save, weights; chain, crash, restart | extends `EvalEngine` |
| `MCScoreWindow` | its instance for TLC | old score files, symmetry of hotkeys |
| `ScoreWindowProofs` | the theorems | extends `ScoreWindow` |
| `SealedRound` | what a round promises | abstract specification |
| `Round` | `evaluate_round` | refines `SealedRound` (`ImplementsSealedRound`) |
| `MCRound` | its instance for TLC | used by two runs |
| `Dispatch` | a wave of `solve_v3` calls behind the send gate | justifies the guard on `Tick` in `Round` |
| `ValidatorLoop` | `ValidatorNeuron.run` | relative, saturating times: behaviours are unbounded |
| `WorkspaceCache` | the sweep, `ensure_cached_workspace`, the round directory | kills at every point |
| `OfferOrder` | `eligible_miners`, `next_offer` and the order `round_callback` keeps | a random draw is any order |
| `PostRetry` | `post_result` and what `lease`, `commit`, `feedback` make of it | network and server external |
| `Fetch` | `download_object`, `extract_archive` | store external; death between any two steps |
| `Grading` | `evaluate_repository`, `evaluate_terminal`, patch and tree inspection | a container is one step |
| `Supervisor` | `run_container` | that step; the docker daemon is external |
| `FailureNotices` | `send_failure_notices`, `send_trace_checks` | shares the gate of `Dispatch` |
| `EvaluationLog` | `record_round`, append, `_rotate` | files are sequences of bytes |
| `NonceCache` | `verify_signature`'s freshness, `NonceCache.check_and_add` | clocks of sender and miner differ |
| `MinerServer` | the `/solve` and `/v3/failure` handlers, `ServedTasks` | hanging up, deadlines |
| `MinerSolve` | `DemoMiner.solve`, `BedrockClient.complete` | model and transport external |
| `Upload` | `upload_miner_result`, `upload_artifact` | store external |
| `WorkspaceReader` | `find_files`, `list_files`, `read_file` | the pages a model follows |
| `Subsequences` | the list comprehension `[x for x in s if ...]` | without recursion, so that it can be proved about; used by `OfferOrder` and `MinerServer` |
| `ValidatorParts`, `MinerParts` | the seven parts of the validator and the five of the miner beside each other | see below |
| `MCValidatorParts`, `MCMinerParts` | their instances for TLC | values of constants only |
| `RoundProofs`, `DispatchProofs`, `ValidatorLoopProofs`, `WorkspaceCacheProofs`, `MinerPartsProofs` | the theorems of the module each extends | section 4 |
| `ValidatorPartsProofs`, `GradingPartsProofs` | the theorems of `ValidatorParts`: its offers, posts and notices; its fetches, gradings and containers | section 4 |

`ValidatorParts` and `MinerParts` put parts beside each other that share no
variable. Whatever the other parts do leaves a part's state alone, so a behaviour
of the system, seen by one part, is a behaviour of that part with stuttering: in a
behaviour of these modules one part moves and the others rest in an initial
state. Every property there speaks of one part (`MinerProgresses` is three such
properties). `PartsAssumption` conjoins the assumptions of the parts. Where two parts
have a constant of one name, one of them is renamed: `LastNonceTick` and `LastTick`
are the `MaxTime` of `NonceCache` and of `MinerServer`.

How the parts meet: a step `Evaluate` of `Round` is a run of `Grading`, whose
container steps are runs of `Supervisor`; the downloads of `Round`,
`WorkspaceCache` and `MinerSolve` are runs of `Fetch`; lease, commit and feedback
are runs of `PostRetry`, whose retry-after is the pause of `ValidatorLoop`; the
solvers of `Round` are an offer of `OfferOrder`; a request `Dispatch` sends passes
`NonceCache`, is a call of `MinerServer`, whose solve is `MinerSolve` and ends with
`Upload`; `FailureNotices` follows `TellMiners` of `ScoreWindow`, and its notices
are those `MinerServer` receives.

Definitions called *faulty variant* in the modules are plausible mistakes in the
code they stand next to; each property of a passing run is violated when one of
them takes the place of the definition it varies.

### State and actions against the code

**ScoreWindow.** `eng` is the `EvalEngine`, `meta` the metagraph of the last sync,
`file` the score file, `phase` the position of the event loop between awaits.
`Start` is `setup_bittensor`, the constructor and `_load_scores` with its
validation, the migration of version 1 and the save after it. `RoundStart` is
`metagraph.sync`, `resize`, `sync` and the snapshot of solvers; `RoundCompleted`
is a completed `evaluate_round` with `apply_round_scores`; `SaveScores` is
temporary file, `fsync` and `os.replace`, one atomic change of `file` or none;
`TellMiners` is the rest of the callback. Each observation carries the owner and
the challenge it belongs to as ghost data. `InitialFiles` are files of earlier
releases; they load and are owned. A file that cannot be read at all is
`StartUnreadable`.

**Round.** `pc` follows the coroutine; each grading coroutine has a state of its
own. A submission is known by its digest. The server may answer anything the wire
models accept: any pool, quorum, expiry and profile (`Leases`), any grants and
failures in any order with any contents (`Reveals`). A group of byte-identical
submissions is known by the first grant that names them, so the order of the grants
is the order in which gradings are started and faults decide. Every path to `finish` is a
disjunct; `VALIDATOR_ERROR` is the reason of exceptions nobody names.
`EVALUATION_ABANDONED` stands for the reason code the grader returns. Two exceptions
that only abandon are left out: one while the requests are built
(`round.py:439`, `480`) and one on leaving the temporary directory (`690`).

**Dispatch.** `at[s]` is where solver `s` is; `free` is the value of the semaphore.
The permit given back by the body stream and again by the `finally` clause is one
`Release` operator that looks at `_released`. Time is discrete, timers and runnable
coroutines are prompt. The bounds of the code are scaled down and keep their
order; `DispatchAssumption` names what `CommitReserveKept` needs of them: the
queue at the gate is over before the minimum lease is.

**ValidatorLoop.** One unit is a block; a pause is counted in the same unit. A
poll and a decision take no time, a round takes up to `MaxRound` units, sleeping
and weight inclusion one. "Submission" is the call of the weight setter, which may
still decline for lack of evidence. Times are ages that saturate at `Old`, beyond
which the code cannot tell them apart. `RoundRaises` ends and restarts the
process; an exception of `submit_weights`, which does the same, is not a step of its
own.

**WorkspaceCache.** Directories are `absent`, `partial` or `whole`; a staging
directory exists or not. `_remove_tree` accepts round, digest and miner names, so a
staging directory is refused. `broken` is ghost.

**OfferOrder.** A miner is a registration, so a uid that changes its hotkey is
another miner. `order` is `offer_state["order"]`, kept in memory only (`Restart`);
`RoundEnds` drops it for a completed round and a missed quorum and keeps it
otherwise. `earned`, `seen` and `last` are ghosts.

**PostRetry.** A request on the wire may be processed by the server at any time
after it is sent, also when the client has given it up and sent another; `accepted`
is what the server took up, by the `request_id` in the body. `last`, `protocol`,
`retryAfter` and `retryFrom` are the variables of the loop; the answers each attempt
really got are a ghost. `LeaseOutcome` is what `lease` makes of the `PostOutcome`.

**Fetch.** The store sends any number of chunks of any bytes. An archive lists any
members in any order; `Accepted` is the inspection of their names, and extraction
collides exactly where the file system would. `Fail` is every exception and
cancellation with the clean-up that follows, which may itself fail: a failed `unlink`
of the temporary file is ignored (`download.py:126`), `rmtree` may stop half way or
not be reached (`archive.py:246`), so any of the files, and any part of the tree, may
stay. `Die` is a kill.

**Grading.** `tree` and `dir` are what candidate code can make of the workspace
between two inspections. Each step has every ending its container can have; the
ghost `faults` says which of them were the validator's. One of these the code puts
down to the miner: `host_io`, an `OSError` of the host while a directory is looked up
(`Missing`) or a tree inspected. A manifest is a sequence of invocations and
inspections.

**Supervisor.** `main` is the calling thread, `cli` the `docker run` process,
`guard` the thread that measures writable mounts. What `docker run` asked of the
daemon is in `request` and may be done after the process is gone. Kill, inspect and
remove fail or succeed. The one wait without a timeout is for the `docker run` process
after its SIGKILL (`supervisor.py:233`), which is taken to end; a thread that
cannot be started is not modelled.

**FailureNotices.** Both batches are the same machine: jobs enter while there is
room, a notice takes a permit of the send gate, is posted, possibly posted again
without its display, and is over; timeouts and the deadline of the batch cut it off.

**EvaluationLog.** `Abandon` is a kill or an error between two steps or, with
`Torn`, in the middle of a write. A later append starts with a
newline if the file does not end with one. `Readable` is what a reader that skips
broken lines finds, oldest file first.

**NonceCache.** A request may be delivered any number of times. Verification and
`check_and_add` read the clock one after the other, `MaxGap` apart at most. The
cache forgets a nonce a window after it RECORDED it, the signature lapses a window
after the timestamp it carries. The sender's clock may show any time, so timestamps up
to a window ahead of the miner's clock are accepted, and such a request can be let
through again. `ReplayedOnlyAhead` says exactly when: not within the window after
the last time, and only if the timestamp was ahead the time before.

**MinerServer.** Calls arrive one after the other and may hang up at any await.
`Accept` queues for a solve slot under a deadline, `Solved` enters the task into
`ServedTasks` after dropping the expired ones (so that an expired task served again
loses its mark), `Notice` is classified, counted against the print slots and written
by `Written`, which goes on when its call was cancelled.

**MinerSolve.** Time passes only at awaits. A model turn is its number; a
submission is the turn it came from with the events it carries. `CheckEnds` is the
miner's own check of a submission, which sends it back or not; `OutOfTime` falls
back on a reply sent back before; the pause after a busy answer is bounded by what
remained of the time before the request; the extraction thread is not cancelled with the
solve that waits for it.

**Upload.** The store creates an object once. The answer may be lost, a 503 may
come before or after the object was created, and a PUT may arrive late. A 409 or 412
is taken to mean that the object is there, as `upload.py:52` does.

**WorkspaceReader.** Bytes are grouped into units that are a character or a
malformed piece, at most four bytes; the incremental decoder keeps back what it cannot
decide at the edge of a page. A list is sorted by rank: an element's place is the
number of elements before it.

## 3. Runs

| Run | Bounds | Shows |
|---|---|---|
| `score_window` | 2 uids, 3 hotkeys, window of 2, payments 0 and 1, 2 challenges, 2 chain changes, 1 crash, files of version 1 and 2 with a larger window | ownership, derived scores, loadable files, durable results, one slot per challenge, no move without a completed challenge, exact migration |
| `round` | 3 miners, 3 contents, quorum 2, 2 grading slots, clock to 2 | refinement of `SealedRound`, no grading after a fault, storage, first fault decides |
| `round_live` | pool of 2 of 3, 1 slot | termination |
| `dispatch` | 4 solvers, 2 permits, leases of 6 to 8 | conservation of permits, commit reserve, every call returns |
| `validator_loop` | cadences 3 and 4 (or 2 when the limit cannot be read), pauses asked up to 8 and capped at 3, rounds up to 5, outages of 2 | pacing, cadence, bounded silence, weights recur |
| `workspace_cache` | 3 workspaces, 2 kills | atomic publication, reclaimed storage, rounds recur unless a staging directory is left |
| `validator_parts` | 5 registrations on 4 uids, 2 offered, 2 chain changes; 3 attempts, pacing 30 and 60; archives of 3 members in 2 levels, 2 chunks; manifests of 3 checks; one container with a writable mount; 3 miners, 2 recipients, 1 permit, concurrency 2, timeout 2, deadline 3; 2 backups, files of 4 bytes, 4 records of up to 3 | `OffersFair`, `PostedOnce`, `OutcomeTruthful`, `FetchSound`, `VerdictFair`, `ResultSound`, `Returns`, `NoticesBounded`, `LogKept` |
| `miner_parts` | 3 requests, cache of 2, window 2, gap 1, clock to 4 and timestamps anywhere on it; 4 calls on 2 tasks, 1 slot of each kind, 1 task for 2 ticks; solve of 6 with reserve 2, 2 retries, 2 tool calls, 2 corrections; 3 upload attempts; workspaces of 4 files, texts of 4 units on pages of 4 bytes | `ReplaysRefused`, `NoticesAccounted`, `SolveSound`, `UploadSound`, `PagesFit`, `MinerProgresses` |
| `weights_spaced`, `rounds_recover`, `verified_workspace`, `contacted_with_minimum` | the same instances (dispatch with 2 solvers on 1 permit) | the four disagreements of section 5 |

Why the bounds suffice: a uid can be taken over and taken over again or trimmed
and regrown (two chain changes) around a crash; a window of 2 overflows with a
version 2 file of 3; three groups on two slots have one that holds, one that
fails and one that waits; four solvers on two permits have a second wave; a round
of 5 is longer than both cadences and the pause; three workspaces have one leased,
one removed and one half removed. In the parts: two offers out of four eligible
miners leave some out, and a uid changes hands between two offers; three attempts
have a first, one that is neither and a last; three members have a file, a
directory of its name and one below it, in every order; three checks have one
before and one after an inspection; three miners behind one permit have one that
holds it, one that waits and one cut by the cap; two backups have one that moves
and one that is lost, and four records fill all three files; a cache of two is
full for the third request, and a timestamp a window ahead is fresh after its entry
is pruned; four calls have a
solve, its notice, a repeated notice and one that waits; a reply can be sent back,
corrected, sent back again and timed out, and the pause before the second retry is as
long as the reserve.

A property named for a component in the last two runs is a conjunction of the
named properties of its module (the type invariant among them), each stated and
explained there: `PostedOnce` is `OneChallengePerLease` and `SuccessIsReal`;
`OutcomeTruthful` is `CategoryTruthful` and `PacingSurvives`; `FetchSound` is
`ArchiveIsVerified`, `InspectedNeverCollides`, `ReturnedIsWhole` and
`LeftoversAreListed`; `VerdictFair` is `OnlyHostErrorsJudge`,
`MinerCannotAbandon` and `VerdictMatchesChecks`; `ResultSound` is `ResultIsSettled`
and `CutShortIsReported`; `NoticesBounded` is `PermitsReturned`, `InTime` and
`PassesGoUnsent`; `OffersFair` is `NoDrawWithoutEarning` and `OfferIsCurrent`;
`LogKept` is `OldestLostFirst`, `AppendedIsReadable` and `OnlyTheOldestIsRemoved`;
`ReplaysRefused` is `ReplayedOnlyAhead` and `RefusedOnlyWhenSaturated`;
`NoticesAccounted` is `WritesCounted`, `MemoryBounded`, `MarkedIsWritten` and
`AcceptedIsRecent`; `SolveSound` is `TrajectoryIsOfSubmission`,
`OutOfTimeKeepsReply` and `FilesOutliveExtraction`; `UploadSound` is
`ReturnedIsStored` and `LostAnswerHarmless`; `MinerProgresses` is
`EveryCallAnswered`, `SolveEnds` and `PagingEnds`. Elsewhere too the type invariant
is the first conjunct of a property, except in `score_window`, where it is listed.

Fairness. `Round`: every await has a timeout of its own (downloads, commit,
`solve_v3` by `Dispatch`, the grader by its container timeouts), so every step
that can be taken is taken; failing is always among the outcomes and nothing is
assumed of it. `Dispatch`: time passes and what is due happens; miners and
transport owe nothing. `ValidatorLoop`: the loop goes on, and rounds that return
keep happening (strong fairness on `RoundEnds`; without it every round could end
the process, and no weights would ever be due). `WorkspaceCache`: rounds keep
coming, and an operation that is tried again and again does not fail every time;
kills are bounded. `Supervisor`: the calling thread goes on, since each of its waits
has a timeout; neither the daemon nor the guard nor the container owes anything.
`MinerServer`: time passes, `wait_for` fires when it is due and a print ends; solves
and callers owe nothing. `MinerSolve`: time passes, the event loop runs what is due,
and the extraction thread and the local check of a submission end; download, model
and upload may hang. `WorkspaceReader`: the model turns the page, which is the
premise of asking whether the pages end.

Deadlock is checked in every run but `validator_parts` and `miner_parts`, where
each part ends or reaches its bounds. `Round` and `Dispatch` end in an explicit
stuttering step, and in the bounded `ScoreWindow` a round can always end.

## 4. Proofs

Every theorem holds for all values of the constants that satisfy the assumptions of
its module: the runs of section 3 show a property on a small instance, the theorem
says that no larger one breaks it. Few of the properties are inductive. For each
there is an invariant that is, named below, with one lemma per action that the
action preserves it.

### ScoreWindow

`ScoreWindowProofs` proves, for every number of uids, hotkeys, window sizes,
payments, challenges, chain changes and crashes, the invariants `TypeOK`,
`OwnHistory`, `ScoresDerived`, `FileLoads`, `ToldIsDurable`, `WeightsEarned` and
`OneSlotPerChallenge` and the action property `OnlyCompletedAdvances`. Assumptions:
`EngineAssumption` and `WindowAssumption` (sizes are naturals,
`1 <= MinSamples <= MaxSamples`, initial files load and are owned, and their
observations have the ghost challenge number 0: they precede the behaviour).

`OwnHistory` needs to know that a uid without a tracked hotkey has no history, or
`set_hotkeys` and `sync` would adopt one: `Sound(eng)`. Recording a round for the
hotkeys of the metagraph keeps ownership only because the engine tracks that
metagraph from `RoundStart` on: `InStep`. `ScoresDerived` after a restart needs what
is in the file: `FileOK(file)`. `WeightsEarned` needs that after the first round of a
run the window is in step with `meta`, which is what the gate on `rounds_done`
gives. `ToldIsDurable` needs `Progress`, which relates the challenge the engine
reflects to the phase and to the file. `Inv` is their conjunction. One lemma per
engine operation says what it does to `Sound` (`ResizeSound`, `SyncSound`,
`RecordAllSound`, `ApplyRoundScoresSound`, `RestoreSound`, `LoadScoresSound`), one
per action that it preserves `Inv`, and `NextInv` combines them.

`OneSlotPerChallenge` needs more than order: a crash takes the engine back to an
older file, and what is recorded afterwards must still be newer than what the file
holds. `OrderInv` says that no history, in memory or on disk, knows a challenge
that has not been completed, and that each is in the order of challenges
(`InOrder`); cutting a history to the window shifts it (`LastNShifts`), which keeps
the order. `OnlyCompletedAdvances` goes through the engine operations the same
way: each leaves the newest observation of a uid alone or drops the history.

### Round

`RoundProofs` proves `FirstFaultDecides`, `NoGradingAfterFault`, `StorageReserved` and
the refinement `ImplementsSealedRound`.

Whether a waiting grading may start is decided by `round_dead`, so `DeadTells` ties
it to the gradings that failed. The bound on workspaces counts those that are
active OR on disk (`SlotsHold`): a failed removal leaves a workspace whose slot is
free again, but only after a fault, when no slot is given out any more.

The refinement maps the coroutine to the phases of `SealedRound`. `SealInv` is
what each place of the coroutine knows: that only drawn miners are asked
(`AnswersBound`); that from the commit on the reveal names no miner twice, after its
check names the drawn miners, and after the check of grants holds what they signed
(`RevealBound`); that a round without a fault has a verdict for every group
(`VerdictsTell`); and that the list of evaluations is made of these (`EvalsTell`).
An answer is an `Answer`, the end of the dispatch with its quorum a `Seal`, `Complete`
a `Judge` and every other ending a `Void`; all other steps stutter.

### The other modules

| Module | Property | Inductive invariant, and why the property alone is not enough |
|---|---|---|
| `DispatchProofs` | `PermitsConserved`, `CommitReserveKept` | A permit is out exactly while its solver sends (`ReleasedTells`). The reserve needs a bound on the wait at the gate: the gate is first in, first out (`Fifo`), and whenever the clock ticks past a waiting solver all permits are out, so by the pigeonhole principle one of their holders is `Capacity` places ahead of it; hence `Capacity * now <= (s - 1) * SendBudget` (`QueueMoves`) |
| `ValidatorLoopProofs` | `PacingObeyed`, `CadenceKept`, `LeasingNotSilenced`, `WeightsNotStarved` | The bounds hold of every state only because tighter ones hold at each place of the loop (`EndTells`, `SubmitTells`); the pause needs to know when it was installed (`PauseTells`) |
| `WorkspaceCacheProofs` | `PublishedWhole`, `Reclaimed` | Their conjunction is inductive: each phase says which directories can exist |
| `ValidatorPartsProofs` | `PostedOnce`, `OutcomeTruthful` | `PostInv`: the server has taken up one request as soon as any attempt is delivered (`Delivered`); all answers but the one that ends the call were worth another attempt (`AnsweredInOrder`); `last` and `retryAfter` are the latest of what was answered (`EvidenceKept`). The outcome is then one of four (`OutcomeTells`) |
| | `NoticesBounded` | `NoticesInv`: free permits and jobs that hold one add up (`PermitsCounted`); failures precede passes in the batch and in what the cap cut off, and jobs start in their order (`FailuresLead`), so that at the deadline it is passes that wait |
| | `OffersFair` | `OffersInv`: the order names nobody twice, and while no draw is earned it is the last offer, as long as those eligible then allowed (`KeptIsLast`). `OfferLineup` says of `next_offer` that before its cut it is a list of all who are eligible, those offered before in front and in their old order |
| `GradingPartsProofs` | `VerdictFair` | `GradingInv`: a thread that goes on has met no fault, and at a check the tree is sound (`GoingOn`); a result's checks are passes, then at most one that is not, then skipped ones (`Concluded`) |
| | `FetchSound` | `FetchInv`: the destination holds exactly the paths of the members begun and the directories above them (`TreeGrown`). From what the inspection accepted it follows that the next member is not among them, or is a directory where one is wanted. What a failure or a kill leaves is part of that tree, so that every file in it but the one begun last is as listed |
| | `ResultSound` | What an exited container's exit code says of its end (`EndedTells`), and that the result was copied from a container that can only be removed any more (`ResultTells`) |
| `MinerPartsProofs` | `UploadSound` | An object found in the slot is this solve's own: before the first ambiguous attempt the slot is empty (`OwnObject`), and an answer on its way tells about the slot (`AnswerTells`) |
| | `ReplaysRefused` | Every request let through is still in the cache or was let through longer ago than the window (`HandledIsRemembered`), so one the cache does not know is no copy of a recent one (`UnknownIsOver`); and one that is verified was fresh at most `MaxGap` ago (`VerifiedIsFresh`), so that the time it was let through before lies before its timestamp or less than `MaxGap` after it. That a new request is refused only while the cache is full of recent ones needs that what pruning leaves are different requests of the window (`CacheInv`, `PrunedEntries`) |
| | `NoticesAccounted` | `ServerInv`: the queue lists the waiting calls, each once (`QueueTells`); an entry of `ServedTasks` has the time of the last answer to its task (`ServedTells`); the counter is the number of prints that still run, also of cancelled calls (`WritesTell`); a mark has its print, done or running, since the miner last forgot the task (`MarkedIsWritten`) |
| | `SolveSound` | `SolveInv`: while a solve goes on every call in its trajectory is followed by its result, identifiers are those of the calls made so far and the last turn carries the number of turns (`Trail`); a reply kept for correction has the trajectory up to it (`ReplyKept`); the model's deadline is at least the reserve before the caller's, and a pause lasts beyond it by at most `2^attempt` (`TimeTells`). Closing such a trajectory with the submission gives a valid one (`TrajectoryIsOfSubmission`) |
| | `PagesFit` | `ReaderInv`: what has been shown of a list is its first `offset` elements (`Paged`), and of a text the units before the one that starts at `offset` (`TextPaged`). `TextPage` finds the end of a page of text: the least unit that starts at or after the window's end, or the one before it if the decoder keeps that back. Every element is shown because ranks under a total order fill `0..n - 1` (`RanksFill`) and the walk is one on paths of which none is a prefix of another (`WalkOrders`) |

`next_offer` and `ServedTasks` filter lists. `SelectSeq` is defined by recursion, and
what it returns cannot be proved here, so `Subsequences` writes the comprehension
with ranks: the k-th element kept is the one with k kept places up to it. The lemma
`WherePicks` gives the list of kept places (increasing, exactly those that qualify),
from a bijection between kept places and ranks; everything else is proved from it.
It is stated in the two modules that use it.

The arms of a CASE in a module that is proved about exclude each other, in the order
in which the code tests them: the language leaves the choice between arms that
overlap open, and a proof may not rely on the arm TLC takes.

Assumptions. They are those of the modules: sizes and times are naturals or
positive, sets of miners are finite, placeholders are not values, a workspace is a finite set
of paths of which none is a prefix of another, a page of text holds any character and
one byte more (`READ_BYTES` is 32 KiB), and one that carries an argument:
`DispatchAssumption` says that the queue at the gate is over before the minimum lease
less its reserve (`|Solvers| * SendBudget <= Capacity * (MinLease - Reserve)`; with the
defaults 128 * 6 s against 32 * 570 s). Clocks of senders and supervision of a container
need none.

Only model-checked:

- liveness and everything under fairness, which is out of the prover's reach:
  `Terminates`, `EveryCallReturns`, `WeightsRecur`, `BlockedOnlyByStaging`, `Returns`,
  `MinerProgresses`;
- `MigrationPreservesScore`: it is about sums over sequences, an induction over
  data. The other proofs about `ScoreWindow` only use that a window's score is a
  function of its history;
- `LogKept`: it compares lists that are flattened by a recursive operator of the
  library. It could be restated as `OffersFair` was.

## 5. Findings

1. `weights_spaced`: the weights gate is anchored at the block polled before the
   round, so a round longer than the 20 block margin makes the next submission
   fall inside the chain's limit.
2. `rounds_recover`: a kill during extraction leaves a `.workspace-*` directory
   that the sweep refuses, and every later round is abandoned.
3. `verified_workspace`: an unfinished removal leaves part of a workspace under
   its digest, and a later round uses it without verification.
4. `contacted_with_minimum`: the send gate is narrower than the pool, so miners
   wait for a slot in spite of the comment, and get less than the minimum.

Each is quoted with its lines in `PROJECT.json`.

Noticed while modelling, and not the subject of a run:

- `post_result` can return a protocol error of one attempt beside the response of
  another (`problemserver/client.py`).
- A watchdog that fires when the container has finished but its command hangs is
  reported as a timeout of the candidate (`v3/supervisor.py`).
- An `OSError` of the host while a task directory is looked up or a tree inspected
  counts as an invalid result of the miner (`v3/grading.py`, `v3/tree.py`). `Grading`
  models it as the fault `host_io`, and `OnlyHostErrorsJudge` says that no other fault of
  the validator is borne by a miner.
- After a busy answer the miner's pause can last into its upload reserve, and past the
  deadline of the caller when it is as long as the reserve (`demo_miner.py:405`): then a
  reply kept for correction is lost. With the default two retries and 20 seconds it
  is not; up to ten retries are allowed. `OutOfTimeKeepsReply` has it as its exception.
- A miner that refuses a notice with its display gets a second request
  (`feedback_sender.py`), though the module's docstring says there are no retries.
- `find_files` lists the files of a directory before its subdirectories, which is
  not the order of full paths.
- A request from a clock that is ahead outlives the memory of its nonce by the lead and
  can be handled again, though the docstring of `NonceCache` (`protocol.py:350`) says
  that a replay whose timestamp is still fresh is rejected. `ReplayedOnlyAhead` gives
  the exact condition.
- A 200 whose body breaks off is retried (`problemserver/client.py:381`), so a call the
  server has already carried out may be posted again, under the same request id.

## 6. Not modelled, and the plan

Not modelled:

- protocol 1 (`orchestrator.py`, `execution/`, `dataset/`): not reached from the V3
  validator, mostly subprocess and container input and output;
- payments and the decay in `rank_weights`: floating-point arithmetic, which neither
  TLC nor TLAPS has; `ScoreWindow` takes payments from a set and checks who is
  weighted, not by how much;
- some exceptions that only end a round or the process: those named in section 2 for
  `Round`, `ValidatorLoop` and `Supervisor`;
- configuration and policy: settings are the constants of the models;
- operator scripts and images, start-up and preflight checks;
- formats: canonical encoding and signatures, URLs, the syntax of manifests,
  patches and command lines, the repair of hunk counts, prompts, the wording of
  errors, notices and log records. What a parsed value guarantees is in the guards
  of the modules that use it.

What is left of the plan, in this order:

1. `LogKept` as a theorem, given a definition of `Readable` that uses no recursion.
2. `Grading` as an implementation of the one step `Evaluate` of `Round`, and
   `Supervisor` of a container step of `Grading`, as refinements.
3. Composition of `ValidatorLoop` with `ScoreWindow`: weights are sent by the loop
   while the callback is not running, which `ScoreWindow` states as a guard.
