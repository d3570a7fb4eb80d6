------------------------------ MODULE EvalEngine ------------------------------
(***************************************************************************)
(* rlvr/scoring/eval_engine.py: the per-uid window of payments.            *)
(*                                                                         *)
(* An engine is a record                                                   *)
(*   size   the length of the score vector,                                *)
(*   hist   uid -> the latest observations, oldest first; <<>> is a uid    *)
(*          with no entry in the sparse `histories` dictionary,            *)
(*   hk     uid -> the last hotkey observed there; NoHotkey is no entry,   *)
(*   score  uid -> the derived score, a fraction; uids at or beyond `size` *)
(*          have no slot and carry Zero.                                   *)
(*                                                                         *)
(* An observation is the payment, the number of the challenge it belongs   *)
(* to (in place of the timestamp, which the code never compares) and, as   *)
(* ghost data the code does not keep, the hotkey it was earned by.         *)
(***************************************************************************)
EXTENDS Integers, Sequences, Functions

CONSTANTS MaxUids,      \* uids a subnet can register
          Hotkeys,      \* miner hotkeys
          NoHotkey,     \* "this uid has no entry"
          MaxSamples,   \* score_window_max_samples
          MinSamples,   \* score_window_min_samples
          Decay         \* decay_nonresponders

ASSUME EngineAssumption ==
    /\ MaxUids \in Nat \ {0}
    /\ NoHotkey \notin Hotkeys
    /\ MaxSamples \in Nat
    /\ MinSamples \in 1..MaxSamples
    /\ Decay \in BOOLEAN

Uids == 0..(MaxUids - 1)
Owner == Hotkeys \cup {NoHotkey}
Observation == [reward: Nat, round: Nat, owner: Hotkeys]

\* A score is a fraction; the empty history scores 0.0.
Zero == [num |-> 0, den |-> 1]

Larger(a, b) == IF a >= b THEN a ELSE b

(***************************************************************************)
(* Helpers of the class.                                                   *)
(***************************************************************************)
SumRewards(h) == SumFunction([i \in DOMAIN h |-> h[i].reward])

\* Some observation was paid: payments are not negative, so their sum is positive.
HasPayment(h) == \E i \in DOMAIN h : h[i].reward > 0

\* _refresh_score: the sum over at least MinSamples observations.
Score(h) == IF h = <<>> THEN Zero
            ELSE [num |-> SumRewards(h), den |-> Larger(Len(h), MinSamples)]

\* values[-n:] of a list.
LastN(h, n) == IF Len(h) > n THEN SubSeq(h, Len(h) - n + 1, Len(h)) ELSE h

\* _record on one history: clamp, append, drop the oldest beyond MaxSamples.
Clamp(x) == IF x < 0 THEN 0 ELSE x
Push(h, reward, round, owner) ==
    LastN(Append(h, [reward |-> Clamp(reward), round |-> round, owner |-> owner]), MaxSamples)

\* _ensure_capacity for every uid of S: the vector reaches the largest of them.
EnsureCapacity(size, S) ==
    CHOOSE n \in size..MaxUids : (\A u \in S : u < n) /\ (n = size \/ n - 1 \in S)

\* _record for every uid of S (their order does not matter: one history each).
\* pay and owner give the observation of each.
RecordAll(e, S, pay, round, owner) ==
    LET hist == [u \in Uids |-> IF u \in S THEN Push(e.hist[u], pay[u], round, owner[u])
                                           ELSE e.hist[u]]
    IN  [e EXCEPT !.size = EnsureCapacity(@, S),
                  !.hist = hist,
                  !.score = [u \in Uids |-> IF u \in S THEN Score(hist[u]) ELSE @[u]]]

Fresh(n) == [size |-> n, hist |-> [u \in Uids |-> <<>>],
             hk |-> [u \in Uids |-> NoHotkey], score |-> [u \in Uids |-> Zero]]

(***************************************************************************)
(* The operations.                                                         *)
(***************************************************************************)
\* Faulty variants: an allocation of one slot too many; a shrink that forgets
\* the histories and not the hotkeys.
ResizeOffByOne(e, n) == [e EXCEPT !.size = n + 1]
ResizeKeepsHotkeys(e, n) ==
    [e EXCEPT !.size = n, !.hist = [u \in Uids |-> IF u < n THEN @[u] ELSE <<>>],
              !.score = [u \in Uids |-> IF u < n THEN @[u] ELSE Zero]]

\* resize: growing zero-fills the vector, shrinking forgets the dropped uids.
Resize(e, n) ==
    LET keep(f, default) == [u \in Uids |-> IF u < n THEN f[u] ELSE default]
    IN  IF n >= e.size THEN [e EXCEPT !.size = n]
        ELSE [size |-> n, hist |-> keep(e.hist, <<>>),
              hk |-> keep(e.hk, NoHotkey), score |-> keep(e.score, Zero)]

\* sync(hotkeys): a uid whose hotkey changed is a new miner and starts empty.
Reused(e, meta) == {u \in 0..(meta.size - 1) : e.hk[u] # NoHotkey /\ e.hk[u] # meta.hk[u]}
\* Faulty variants: a reused uid keeps its history, or its score.
SyncKeepsHistory(e, meta) ==
    [e EXCEPT !.size = Larger(@, meta.size),
              !.hk = [u \in Uids |-> IF u < meta.size THEN meta.hk[u] ELSE @[u]]]
SyncKeepsScore(e, meta) ==
    [e EXCEPT !.size = Larger(@, meta.size),
              !.hist = [u \in Uids |-> IF u \in Reused(e, meta) THEN <<>> ELSE @[u]],
              !.hk = [u \in Uids |-> IF u < meta.size THEN meta.hk[u] ELSE @[u]]]
Sync(e, meta) ==
    LET reset == Reused(e, meta)
    IN  [size  |-> Larger(e.size, meta.size),
         hist  |-> [u \in Uids |-> IF u \in reset THEN <<>> ELSE e.hist[u]],
         hk    |-> [u \in Uids |-> IF u < meta.size THEN meta.hk[u] ELSE e.hk[u]],
         score |-> [u \in Uids |-> IF u \in reset THEN Zero ELSE e.score[u]]]

\* set_hotkeys on the uids of S.
SetHotkeys(e, S, hotkeys) ==
    [e EXCEPT !.size = EnsureCapacity(@, S),
              !.hk = [u \in Uids |-> IF u \in S THEN hotkeys[u] ELSE @[u]]]

\* update(rewards, hotkeys, dispatched): responders append their payment, and
\* with decay a dispatched uid without a reward appends zero.
Update(e, responders, pay, hotkeys, dispatched, round) ==
    LET zeroed == IF Decay THEN dispatched \ responders ELSE {}
    IN  RecordAll(SetHotkeys(e, responders, hotkeys), responders \cup zeroed,
                  [u \in Uids |-> IF u \in responders THEN pay[u] ELSE 0], round, hotkeys)

\* Faulty variant: serving uids get the zero too.
RecordNonservingAll(e, active, round, hotkeys) ==
    RecordAll(e, {u \in Uids : e.hist[u] # <<>>}, [u \in Uids |-> 0], round, hotkeys)

\* record_nonserving(active): every observed uid that does not serve gets a zero.
RecordNonserving(e, active, round, hotkeys) ==
    IF ~Decay THEN e
    ELSE RecordAll(e, {u \in Uids : e.hist[u] # <<>> /\ u \notin active},
                   [u \in Uids |-> 0], round, hotkeys)

\* _restore: install validated histories, keeping the latest MaxSamples.
Restore(n, hist, hk) ==
    LET kept == [u \in Uids |-> LastN(hist[u], MaxSamples)]
    IN  [size |-> n, hist |-> kept, hk |-> hk, score |-> [u \in Uids |-> Score(kept[u])]]

\* get_weights(n) gives weight to the uids below n with a positive score.
Weighted(e, n) == {u \in Uids : u < n /\ u < e.size /\ e.score[u].num > 0}
=============================================================================
