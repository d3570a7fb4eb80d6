----------------------------- MODULE ScoreWindow -----------------------------
(***************************************************************************)
(* The validator's score window through rounds, chain turnover, crashes    *)
(* and restarts: round_callback, _load_scores, _save_scores and            *)
(* _submit_local_weights of rlvr/neurons/decentralized.py around the       *)
(* engine of EvalEngine.                                                   *)
(*                                                                         *)
(* The chain changes at any time; the validator sees it only through its   *)
(* metagraph snapshot `meta`. The process can die between any two steps    *)
(* and keeps nothing but the score file.                                   *)
(***************************************************************************)
EXTENDS EvalEngine

CONSTANTS Payments,         \* payments a passing evaluation can earn
          InitialFiles,     \* score files a first start may find
          NoFile,           \* no score file exists
          MinObservations,  \* min_weight_observations
          MaxChallenges,    \* bound: completed challenges
          MaxTurnover,      \* bound: registrations that change on the chain
          MaxCrashes        \* bound: crashes of the process

VARIABLES chain,     \* registrations on the chain: [size, hk]
          meta,      \* validator.metagraph, as of the last sync
          eng,       \* the engine
          phase,     \* where the single event loop is
          live,      \* uids of the live_solvers snapshot of this round
          pool,      \* uids this round's challenge was leased for
          done,      \* rounds_done > 0
          file,      \* the score file on disk
          scored,    \* the round in hand completed
          saved,     \* what _save_scores returned
          challenge, \* ghost: completed challenges so far
          applied,   \* ghost: last challenge the engine reflects
          notified,  \* ghost: last challenge whose miners were told the result
          unread,    \* ghost: a start could not read the file
          weighted,  \* ghost: whom the last weight submission named and credited
          turnover, crashes

vars == <<chain, meta, eng, phase, live, pool, done, file, scored, saved,
          challenge, applied, notified, unread, weighted, turnover, crashes>>

Phases == {"down", "idle", "round", "saving", "telling"}
Chain == [size: 0..MaxUids, hk: [Uids -> Hotkeys]]

\* A score file: version 2 as _save_scores writes it, version 1 of old releases.
FileV2 == [version: {2}, size: Nat, max: Nat, min: Nat,
           hist: [Uids -> Seq(Observation)], hk: [Uids -> Owner], upto: Nat]
FileV1 == [version: {1}, size: Nat, score: [Uids -> Nat], hk: [Uids -> Owner]]

(***************************************************************************)
(* Persistence.                                                            *)
(***************************************************************************)
\* The content _save_scores writes. The stored scores are derived and not read
\* back. `upto` is ghost: the last challenge the histories reflect.
Snapshot(e, c) == [version |-> 2, size |-> e.size, max |-> MaxSamples, min |-> MinSamples,
                   hist |-> e.hist, hk |-> e.hk, upto |-> c]

HotkeysInRange(f) == \A u \in Uids : f.hk[u] # NoHotkey => u < f.size

\* The validation of a version 2 file.
AcceptsV2(f) ==
    /\ HotkeysInRange(f)
    /\ f.min \in 1..f.max
    /\ \A u \in Uids : f.hist[u] # <<>> => u < f.size /\ Len(f.hist[u]) <= f.max
    /\ \A u \in Uids : HasPayment(LastN(f.hist[u], MaxSamples)) => f.hk[u] # NoHotkey

\* The validation of a version 1 file: a scalar score per uid.
AcceptsV1(f) ==
    /\ HotkeysInRange(f)
    /\ \A u \in Uids : f.score[u] > 0 => u < f.size /\ f.hk[u] # NoHotkey

Accepts(f) == IF f.version = 1 THEN AcceptsV1(f) ELSE AcceptsV2(f)

\* Every observation of a window was earned by the hotkey tracked for its uid.
Owned(hist, hk) == \A u \in Uids : \A i \in DOMAIN hist[u] : hist[u][i].owner = hk[u]

\* A first start finds nothing, or a file an earlier release wrote: its observations are
\* of challenges before the first one here, which all count as challenge 0.
ASSUME WindowAssumption ==
    /\ Payments \subseteq Nat
    /\ MinObservations \in Nat
    /\ MaxChallenges \in Nat /\ MaxTurnover \in Nat /\ MaxCrashes \in Nat
    /\ NoFile \notin FileV1 \cup FileV2
    /\ \A f \in InitialFiles :
          /\ f \in FileV1 \cup FileV2 /\ Accepts(f)
          /\ f.size <= MaxUids
          /\ f.version = 2 => /\ f.upto = 0 /\ Owned(f.hist, f.hk)
                              /\ \A u \in Uids : \A i \in DOMAIN f.hist[u] : f.hist[u][i].round = 0

\* Faulty variant: the scalar becomes one observation.
MigratedOnce(f) ==
    [u \in Uids |-> IF f.hk[u] # NoHotkey /\ f.score[u] > 0
                    THEN <<[reward |-> f.score[u], round |-> 0, owner |-> f.hk[u]]>>
                    ELSE <<>>]

\* Migration fills MinSamples slots with the scalar, so the score is preserved.
Migrated(f) ==
    [u \in Uids |-> IF f.hk[u] # NoHotkey /\ f.score[u] > 0
                    THEN [i \in 1..MinSamples |->
                            [reward |-> f.score[u], round |-> 0, owner |-> f.hk[u]]]
                    ELSE <<>>]

\* _load_scores into a fresh engine; anything invalid starts at zero.
LoadScores(fresh, f) ==
    IF f = NoFile \/ ~Accepts(f) THEN fresh
    ELSE Restore(f.size, IF f.version = 1 THEN Migrated(f) ELSE f.hist, f.hk)

(***************************************************************************)
(* apply_round_scores: evaluations of a hotkey that no longer holds its    *)
(* uid in the round's snapshot are dropped, the rest are recorded, and     *)
(* observed uids that do not serve get their zero.                         *)
(***************************************************************************)
ApplyRoundScores(e, evaluated, hotkey, pay, active, m, c) ==
    LET eligible == {u \in evaluated : u \in active /\ m.hk[u] = hotkey[u]}
    IN  RecordNonserving(Update(e, eligible, pay, hotkey, eligible, c), active, c, m.hk)

-----------------------------------------------------------------------------
Init ==
    /\ chain \in [size: 1..MaxUids, hk: {f \in [Uids -> Hotkeys] : IsInjective(f)}]
    /\ meta = chain
    /\ file \in InitialFiles \cup {NoFile}
    /\ eng = Fresh(chain.size)
    /\ phase = "down"
    /\ live = {} /\ pool = {}
    /\ done = FALSE /\ scored = FALSE /\ saved = FALSE
    /\ challenge = 0 /\ applied = 0 /\ notified = 0 /\ unread = FALSE /\ weighted = {}
    /\ turnover = 0 /\ crashes = 0

(***************************************************************************)
(* The chain (external): a uid is taken over by another hotkey, a uid is   *)
(* added, or the last uid is trimmed.                                      *)
(***************************************************************************)
Registered == {chain.hk[u] : u \in 0..(chain.size - 1)}

Turnover(c) ==
    /\ turnover < MaxTurnover
    /\ turnover' = turnover + 1
    /\ chain' = c
    /\ UNCHANGED <<meta, eng, phase, live, pool, done, file, scored, saved,
                   challenge, applied, notified, unread, weighted, crashes>>

ChainReplace ==
    \E u \in 0..(chain.size - 1), h \in Hotkeys \ Registered :
        Turnover([chain EXCEPT !.hk[u] = h])

ChainGrow ==
    /\ chain.size < MaxUids
    /\ \E h \in Hotkeys \ Registered :
          Turnover([size |-> chain.size + 1, hk |-> [chain.hk EXCEPT ![chain.size] = h]])

ChainTrim ==
    /\ chain.size > 1
    /\ Turnover([chain EXCEPT !.size = @ - 1])

(***************************************************************************)
(* Startup: setup_bittensor takes a metagraph, the engine is created at    *)
(* its size and the score file is loaded. A file that cannot be read or    *)
(* is not valid starts at zero. A migrated file is saved at once (or not:  *)
(* an OSError is only logged).                                             *)
(***************************************************************************)
Start ==
    /\ phase = "down"
    /\ phase' = "idle"
    /\ meta' = chain
    /\ eng' = LoadScores(Fresh(chain.size), file)
    /\ done' = FALSE
    /\ applied' = IF file \in FileV2 /\ Accepts(file) THEN file.upto ELSE 0
    /\ \/ UNCHANGED file
       \/ /\ file \in FileV1 /\ Accepts(file)
          /\ file' = Snapshot(eng', 0)
    /\ UNCHANGED <<chain, live, pool, scored, saved, challenge, notified, unread,
                   weighted, turnover, crashes>>

StartUnreadable ==
    /\ phase = "down" /\ file # NoFile
    /\ phase' = "idle"
    /\ meta' = chain
    /\ eng' = Fresh(chain.size)
    /\ done' = FALSE
    /\ applied' = 0
    /\ unread' = TRUE
    /\ UNCHANGED <<chain, live, pool, file, scored, saved, challenge, notified,
                   weighted, turnover, crashes>>

\* round_callback up to evaluate_round: metagraph.sync, resize, sync, and the
\* snapshot of serving miners. Without anyone to offer the round ends here.
RoundStart ==
    /\ phase = "idle"
    /\ meta' = chain
    /\ eng' = Sync(Resize(eng, chain.size), chain)
    /\ \E serving \in SUBSET (0..(chain.size - 1)) : \E offered \in SUBSET serving :
          IF offered = {} THEN /\ phase' = "idle" /\ done' = TRUE
                               /\ live' = {} /\ pool' = {}
                          ELSE /\ phase' = "round" /\ UNCHANGED done
                               /\ live' = serving /\ pool' = offered
    /\ weighted' = {}
    /\ UNCHANGED <<chain, file, scored, saved, challenge, applied, notified,
                   unread, turnover, crashes>>

\* evaluate_round completed: every leased miner has an evaluation.
RoundCompleted ==
    /\ phase = "round"
    /\ challenge < MaxChallenges
    /\ challenge' = challenge + 1
    /\ applied' = challenge + 1
    /\ \E pay \in [pool -> Payments] :
          eng' = ApplyRoundScores(eng, pool, meta.hk, pay, live, meta, challenge + 1)
    /\ scored' = TRUE
    /\ live' = {} /\ pool' = {}
    /\ phase' = "saving"
    /\ UNCHANGED <<chain, meta, done, file, saved, notified, unread, weighted,
                   turnover, crashes>>

\* Faulty variant: an abandoned round punishes the absent.
RoundNotCompletedScores ==
    /\ phase = "round"
    /\ eng' = RecordNonserving(eng, live, challenge + 1, meta.hk)
    /\ scored' = FALSE
    /\ live' = {} /\ pool' = {}
    /\ phase' = "saving"
    /\ UNCHANGED <<chain, meta, done, file, saved, challenge,
                   applied, notified, unread, weighted, turnover, crashes>>

\* evaluate_round was unavailable or abandoned: no score moves, but the
\* callback still saves.
RoundNotCompleted ==
    /\ phase = "round"
    /\ scored' = FALSE
    /\ live' = {} /\ pool' = {}
    /\ phase' = "saving"
    /\ UNCHANGED <<chain, meta, eng, done, file, saved, challenge,
                   applied, notified, unread, weighted, turnover, crashes>>

\* _save_scores: the temporary file is complete and synced before os.replace,
\* so the file changes at once or, on OSError, not at all.
SaveScores ==
    /\ phase = "saving"
    /\ phase' = "telling"
    /\ \/ file' = Snapshot(eng, applied) /\ saved' = TRUE
       \/ UNCHANGED file /\ saved' = FALSE
    /\ UNCHANGED <<chain, meta, eng, live, pool, done, scored, challenge,
                   applied, notified, unread, weighted, turnover, crashes>>

\* Faulty variant: the result of _save_scores is ignored.
TellMinersUnsaved ==
    /\ phase = "telling"
    /\ phase' = "idle"
    /\ done' = TRUE
    /\ notified' = IF scored THEN challenge ELSE notified
    /\ scored' = FALSE /\ saved' = FALSE
    /\ UNCHANGED <<chain, meta, eng, live, pool, file, challenge, applied,
                   unread, weighted, turnover, crashes>>

\* The rest of the callback: failure notices and trace checks go out only for
\* a saved round, and only a completed one has results to tell.
TellMiners ==
    /\ phase = "telling"
    /\ phase' = "idle"
    /\ done' = TRUE
    /\ notified' = IF saved /\ scored THEN challenge ELSE notified
    /\ scored' = FALSE /\ saved' = FALSE
    /\ UNCHANGED <<chain, meta, eng, live, pool, file, challenge, applied,
                   unread, weighted, turnover, crashes>>

\* Faulty variant: weights are sent before the first round.
SubmitWeightsUngated ==
    /\ phase = "idle"
    /\ \E u \in Uids : Len(eng.hist[u]) >= MinObservations
    /\ Weighted(eng, meta.size) # {}
    /\ weighted' = UNION {{[named |-> meta.hk[u], earner |-> eng.hist[u][i].owner] :
                              i \in DOMAIN eng.hist[u]} : u \in Weighted(eng, meta.size)}
    /\ UNCHANGED <<chain, meta, eng, phase, live, pool, done, file, scored,
                   saved, challenge, applied, notified, unread, turnover, crashes>>

\* submit_weights, gated on rounds_done: enough evidence, then a vector over
\* the metagraph's uids. Ghost: who each weight names and who earned it.
SubmitWeights ==
    /\ phase = "idle"
    /\ done
    /\ \E u \in Uids : Len(eng.hist[u]) >= MinObservations
    /\ Weighted(eng, meta.size) # {}
    /\ weighted' = UNION {{[named |-> meta.hk[u], earner |-> eng.hist[u][i].owner] :
                              i \in DOMAIN eng.hist[u]} : u \in Weighted(eng, meta.size)}
    /\ UNCHANGED <<chain, meta, eng, phase, live, pool, done, file, scored,
                   saved, challenge, applied, notified, unread, turnover, crashes>>

\* The process dies: only the file is left.
Crash ==
    /\ phase # "down"
    /\ crashes < MaxCrashes
    /\ crashes' = crashes + 1
    /\ phase' = "down"
    /\ eng' = Fresh(meta.size)
    /\ live' = {} /\ pool' = {}
    /\ done' = FALSE /\ scored' = FALSE /\ saved' = FALSE /\ applied' = 0
    /\ UNCHANGED <<chain, meta, file, challenge, notified, unread, weighted, turnover>>

Next ==
    \/ ChainReplace \/ ChainGrow \/ ChainTrim
    \/ Start \/ StartUnreadable \/ RoundStart \/ RoundCompleted \/ RoundNotCompleted
    \/ SaveScores \/ TellMiners \/ SubmitWeights \/ Crash

Spec == Init /\ [][Next]_vars
-----------------------------------------------------------------------------
TypeOK ==
    /\ chain \in Chain /\ meta \in Chain
    /\ eng.size \in 0..MaxUids /\ eng.hist \in [Uids -> Seq(Observation)]
    /\ eng.hk \in [Uids -> Owner] /\ DOMAIN eng.score = Uids
    /\ phase \in Phases
    /\ live \in SUBSET Uids /\ pool \in SUBSET live
    /\ done \in BOOLEAN /\ scored \in BOOLEAN /\ saved \in BOOLEAN
    /\ file \in FileV1 \cup FileV2 \cup {NoFile}
    /\ unread \in BOOLEAN
    /\ challenge \in Nat /\ applied \in Nat /\ notified \in Nat
    /\ weighted \in SUBSET [named: Hotkeys, earner: Hotkeys]
    /\ turnover \in Nat /\ crashes \in Nat

(***************************************************************************)
(* Properties.                                                             *)
(***************************************************************************)
\* No miner inherits another's results: every observation kept for a uid was
\* earned by the hotkey tracked there, in memory and on disk, across hotkey
\* turnover during a round, shrinking and growing metagraphs, and restarts
\* (sync, resize, _restore, _save_scores).
OwnHistory ==
    /\ Owned(eng.hist, eng.hk)
    /\ file \in FileV2 => Owned(file.hist, file.hk)

\* "every uid advances by at most one history slot per challenge"
\* (record_nonserving): the paths that append to a history never both append
\* for one challenge, and a restart never replays a challenge.
OneSlotPerChallenge ==
    \A u \in Uids : \A i, j \in DOMAIN eng.hist[u] :
        i < j => \/ eng.hist[u][i].round < eng.hist[u][j].round
                 \/ eng.hist[u][j].round = 0

\* The score vector always says what the histories say, whatever operation last
\* touched them, and uids beyond the vector keep no state.
ScoresDerived ==
    \A u \in Uids :
        /\ eng.score[u] = Score(eng.hist[u])
        /\ u >= eng.size => eng.hist[u] = <<>> /\ eng.hk[u] = NoHotkey

\* Whatever was saved can be loaded: no reachable score file fails the
\* validation of _load_scores, which would restart every miner at zero.
FileLoads ==
    file # NoFile => Accepts(file)

\* A miner is told about a challenge only once its scores are on disk, and they
\* stay there: a crash never takes back a result a miner was told
\* (_save_scores: "a round whose scores could not be written tells miners
\* nothing about that round"). Only a start that cannot read the file loses it.
ToldIsDurable ==
    notified > 0 /\ ~unread => file \in FileV2 /\ file.upto >= notified

\* Every weight submitted names, in the metagraph it is sent with, the hotkey
\* whose observations earned it; in particular a restarted validator does not
\* send restored scores before it has reconciled them with the metagraph.
WeightsEarned == \A w \in weighted : w.named = w.earner

\* Histories only advance by completing a challenge: an unavailable or
\* abandoned round, a save or a weight submission adds no observation.
Newest(h) == IF h = <<>> THEN 0 ELSE h[Len(h)].round
OnlyCompletedAdvances ==
    [][ (\E u \in Uids : Newest(eng'.hist[u]) > Newest(eng.hist[u]))
          => challenge' = challenge + 1 \/ phase = "down" ]_vars

\* Starting from a version 1 file that can be read, every score is exactly the migrated scalar.
MigrationPreservesScore ==
    [][ (phase = "down" /\ phase' = "idle" /\ file \in FileV1 /\ ~unread')
          => \A u \in Uids : eng'.score[u].num = file.score[u] * eng'.score[u].den ]_vars
=============================================================================
