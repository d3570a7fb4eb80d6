-------------------------- MODULE ScoreWindowProofs --------------------------
(***************************************************************************)
(* The safety of ScoreWindow for every number of uids, hotkeys, window     *)
(* size, payment and score file. Each operation of the engine keeps a      *)
(* window Sound; Inv then ties the engine to the metagraph and the file.   *)
(***************************************************************************)
EXTENDS ScoreWindow, TLAPS, SequenceTheorems

\* What the scores of a window can be; the sum itself stays abstract here.
Histories == [Uids -> Seq(Observation)]
Scores == {[u \in Uids |-> Score(h[u])] : h \in Histories}
Window == [size: 0..MaxUids, hist: Histories, hk: [Uids -> Owner], score: Scores]

Sound(e) ==
    /\ e \in Window
    /\ e.score = [u \in Uids |-> Score(e.hist[u])]
    /\ \A u \in Uids : Len(e.hist[u]) <= MaxSamples
    /\ \A u \in Uids : u >= e.size => e.hist[u] = <<>> /\ e.hk[u] = NoHotkey
    /\ Owned(e.hist, e.hk)

\* The engine tracks exactly the hotkeys of a metagraph.
Tracks(e, m) ==
    /\ e.size = m.size
    /\ \A u \in Uids : u < m.size => e.hk[u] = m.hk[u]

-----------------------------------------------------------------------------
(* Helpers of the engine. *)

\* values[-n:] keeps a history's elements and is not longer than n.
LEMMA LastNProperties ==
    ASSUME NEW h \in Seq(Observation), NEW n \in Nat
    PROVE  /\ LastN(h, n) \in Seq(Observation)
           /\ Len(LastN(h, n)) <= n
           /\ \A i \in DOMAIN LastN(h, n) : \E j \in DOMAIN h : LastN(h, n)[i] = h[j]
<1>1. CASE Len(h) <= n
  BY <1>1 DEF LastN
<1>2. CASE Len(h) > n
  <2>1. Len(h) - n + 1 \in 1..(Len(h) + 1) /\ Len(h) \in Nat
    BY <1>2
  <2>2. /\ LastN(h, n) = SubSeq(h, Len(h) - n + 1, Len(h))
        /\ \A i \in (Len(h) - n + 1)..Len(h) : h[i] \in Observation
    BY <1>2 DEF LastN
  <2>3. /\ LastN(h, n) \in Seq(Observation)
        /\ Len(LastN(h, n)) = n
        /\ \A i \in 1..n : LastN(h, n)[i] = h[Len(h) - n + i]
    BY <2>1, <2>2, <1>2, SubSeqProperties
  <2>4. QED
    BY <2>3, <1>2
<1>3. QED
  BY <1>1, <1>2

\* _record appends one observation of the owner and keeps the bound.
LEMMA PushProperties ==
    ASSUME NEW h \in Seq(Observation), NEW reward \in Int, NEW round \in Nat,
           NEW owner \in Hotkeys,
           \A i \in DOMAIN h : h[i].owner = owner
    PROVE  /\ Push(h, reward, round, owner) \in Seq(Observation)
           /\ Len(Push(h, reward, round, owner)) <= MaxSamples
           /\ \A i \in DOMAIN Push(h, reward, round, owner) :
                 Push(h, reward, round, owner)[i].owner = owner
<1> DEFINE o == [reward |-> Clamp(reward), round |-> round, owner |-> owner]
           a == Append(h, o)
<1>1. o \in Observation
  BY DEF Clamp, Observation
<1>2. a \in Seq(Observation) /\ \A i \in DOMAIN a : a[i].owner = owner
  BY <1>1
<1>3. MaxSamples \in Nat
  BY EngineAssumption
<1>4. Push(h, reward, round, owner) = LastN(a, MaxSamples)
  BY DEF Push
<1> HIDE DEF a
<1>5. QED
  BY <1>2, <1>3, <1>4, LastNProperties

\* A vector that covers the uids stays as it is.
LEMMA CapacityKept ==
    ASSUME NEW size \in 0..MaxUids, NEW S, \A u \in S : u \in Int /\ u < size
    PROVE  EnsureCapacity(size, S) = size
<1>1. size \in size..MaxUids /\ (\A u \in S : u < size)
  BY EngineAssumption
<1>2. \A n \in size..MaxUids : (n = size \/ n - 1 \in S) => n = size
  BY EngineAssumption
<1>3. QED
  BY <1>1, <1>2 DEF EnsureCapacity

-----------------------------------------------------------------------------
(* Operations of the engine keep a window sound. *)

\* A new engine.
LEMMA FreshSound ==
    ASSUME NEW n \in 0..MaxUids
    PROVE  Sound(Fresh(n))
<1>1. [u \in Uids |-> <<>>] \in Histories
  BY DEF Histories
<1>2. [u \in Uids |-> Zero] = [u \in Uids |-> Score([v \in Uids |-> <<>>][u])]
  BY DEF Score
<1>3. [u \in Uids |-> Zero] \in Scores
  BY <1>1, <1>2 DEF Scores
<1>4. Fresh(n) \in Window
  BY <1>1, <1>3 DEF Fresh, Window, Owner
<1>5. QED
  BY <1>2, <1>4, EngineAssumption DEF Fresh, Sound, Owned

\* Any window whose scores are recomputed is sound when its histories are bounded,
\* owned and within the vector.
LEMMA RebuiltSound ==
    ASSUME NEW n \in 0..MaxUids, NEW hist \in Histories, NEW hk \in [Uids -> Owner],
           \A u \in Uids : Len(hist[u]) <= MaxSamples,
           \A u \in Uids : u >= n => hist[u] = <<>> /\ hk[u] = NoHotkey,
           Owned(hist, hk)
    PROVE  Sound([size |-> n, hist |-> hist, hk |-> hk,
                  score |-> [u \in Uids |-> Score(hist[u])]])
<1>1. [u \in Uids |-> Score(hist[u])] \in Scores
  BY DEF Scores
<1>2. QED
  BY <1>1 DEF Sound, Window

\* resize.
LEMMA ResizeSound ==
    ASSUME NEW e, Sound(e), NEW n \in 0..MaxUids
    PROVE  Sound(Resize(e, n)) /\ Resize(e, n).size = n
<1>1. CASE n >= e.size
  <2>1. Resize(e, n) = [size |-> n, hist |-> e.hist, hk |-> e.hk,
                        score |-> [u \in Uids |-> Score(e.hist[u])]]
    BY <1>1 DEF Resize, Sound, Window
  <2>2. \A u \in Uids : u >= n => u >= e.size
    BY <1>1, EngineAssumption DEF Sound, Window, Uids
  <2>3. QED
    BY <2>1, <2>2, RebuiltSound DEF Sound, Window
<1>2. CASE ~(n >= e.size)
  <2> DEFINE hist == [u \in Uids |-> IF u < n THEN e.hist[u] ELSE <<>>]
             hk == [u \in Uids |-> IF u < n THEN e.hk[u] ELSE NoHotkey]
  <2>1. hist \in Histories /\ hk \in [Uids -> Owner] /\ Owned(hist, hk)
    BY DEF Sound, Window, Histories, Owner, Owned
  <2>2. [u \in Uids |-> IF u < n THEN e.score[u] ELSE Zero] = [u \in Uids |-> Score(hist[u])]
    BY DEF Sound, Score
  <2>3. \A u \in Uids : Len(hist[u]) <= MaxSamples
    BY EngineAssumption DEF Sound
  <2>4. \A u \in Uids : u >= n => hist[u] = <<>> /\ hk[u] = NoHotkey
    BY EngineAssumption DEF Uids
  <2>5. Resize(e, n) = [size |-> n, hist |-> hist, hk |-> hk,
                        score |-> [u \in Uids |-> Score(hist[u])]]
    BY <1>2, <2>2 DEF Resize
  <2> HIDE DEF hist, hk
  <2>6. QED
    BY <2>1, <2>3, <2>4, <2>5, RebuiltSound
<1>3. QED
  BY <1>1, <1>2

\* sync: a uid that changed hands starts empty, and an unknown uid has nothing.
LEMMA SyncSound ==
    ASSUME NEW e, Sound(e), NEW m \in Chain, e.size = m.size
    PROVE  Sound(Sync(e, m)) /\ Tracks(Sync(e, m), m)
<1> DEFINE reset == Reused(e, m)
           hist == [u \in Uids |-> IF u \in reset THEN <<>> ELSE e.hist[u]]
           hk == [u \in Uids |-> IF u < m.size THEN m.hk[u] ELSE e.hk[u]]
<1>1. m.size \in 0..MaxUids /\ m.hk \in [Uids -> Hotkeys]
  BY DEF Chain
<1>2. hist \in Histories /\ hk \in [Uids -> Owner]
  BY <1>1 DEF Sound, Window, Histories, Owner
<1>3. [u \in Uids |-> IF u \in reset THEN Zero ELSE e.score[u]] = [u \in Uids |-> Score(hist[u])]
  BY DEF Sound, Score
<1>4. \A u \in Uids : Len(hist[u]) <= MaxSamples
  BY EngineAssumption DEF Sound
<1>5. \A u \in Uids : u >= m.size => hist[u] = <<>> /\ hk[u] = NoHotkey
  BY <1>1, EngineAssumption DEF Sound, Uids
<1>6. Owned(hist, hk)
  <2>1. SUFFICES ASSUME NEW u \in Uids, NEW i \in DOMAIN hist[u]
                 PROVE  hist[u][i].owner = hk[u]
    BY DEF Owned
  <2>2. u \notin reset /\ hist[u] = e.hist[u]
    BY <2>1
  <2>3. e.hist[u][i].owner = e.hk[u] /\ e.hist[u][i].owner \in Hotkeys
    <3>1. e.hist[u] \in Seq(Observation)
      BY DEF Sound, Window, Histories
    <3>2. e.hist[u][i] \in Observation
      BY <2>1, <2>2, <3>1
    <3>3. QED
      BY <2>1, <2>2, <3>2 DEF Sound, Owned, Observation
  <2>4. CASE u < m.size
    <3>1. u \in 0..(m.size - 1)
      BY <2>4, <1>1, EngineAssumption DEF Uids
    <3>2. e.hk[u] # NoHotkey
      BY <2>3, EngineAssumption
    <3>3. e.hk[u] = m.hk[u]
      BY <2>2, <3>1, <3>2 DEF Reused
    <3>4. QED
      BY <2>2, <2>3, <2>4, <3>3
  <2>5. CASE ~(u < m.size)
    BY <2>2, <2>3, <2>5
  <2>6. QED
    BY <2>4, <2>5
<1>7. Sync(e, m) = [size |-> m.size, hist |-> hist, hk |-> hk,
                    score |-> [u \in Uids |-> Score(hist[u])]]
  BY <1>1, <1>3 DEF Sync, Larger
<1> HIDE DEF hist
<1>8. Sound(Sync(e, m))
  BY <1>1, <1>2, <1>4, <1>5, <1>6, <1>7, RebuiltSound
<1>9. QED
  BY <1>7, <1>8 DEF Tracks

\* _record on a set of uids of the vector, each for the hotkey tracked there.
LEMMA RecordAllSound ==
    ASSUME NEW e, Sound(e), NEW S \in SUBSET Uids, NEW pay, NEW round \in Nat, NEW owner,
           \A u \in S : /\ u < e.size
                        /\ pay[u] \in Int
                        /\ owner[u] \in Hotkeys /\ owner[u] = e.hk[u]
    PROVE  /\ Sound(RecordAll(e, S, pay, round, owner))
           /\ RecordAll(e, S, pay, round, owner).size = e.size
           /\ RecordAll(e, S, pay, round, owner).hk = e.hk
<1> DEFINE hist == [u \in Uids |-> IF u \in S THEN Push(e.hist[u], pay[u], round, owner[u])
                                              ELSE e.hist[u]]
<1>1. e.size \in 0..MaxUids /\ e.hist \in Histories /\ e.hk \in [Uids -> Owner]
  BY DEF Sound, Window
<1>2. EnsureCapacity(e.size, S) = e.size
  <2>1. \A u \in S : u \in Int /\ u < e.size
    BY EngineAssumption DEF Uids
  <2>2. QED
    BY <1>1, <2>1, CapacityKept
<1>3. \A u \in Uids : /\ hist[u] \in Seq(Observation)
                      /\ Len(hist[u]) <= MaxSamples
                      /\ \A i \in DOMAIN hist[u] : hist[u][i].owner = e.hk[u]
  <2>1. SUFFICES ASSUME NEW u \in Uids
                 PROVE  /\ hist[u] \in Seq(Observation)
                        /\ Len(hist[u]) <= MaxSamples
                        /\ \A i \in DOMAIN hist[u] : hist[u][i].owner = e.hk[u]
    OBVIOUS
  <2>2. e.hist[u] \in Seq(Observation) /\ \A i \in DOMAIN e.hist[u] : e.hist[u][i].owner = e.hk[u]
    BY <1>1 DEF Histories, Sound, Owned
  <2>3. CASE u \in S
    <3>1. pay[u] \in Int /\ owner[u] \in Hotkeys /\ owner[u] = e.hk[u]
      BY <2>3
    <3>2. \A i \in DOMAIN e.hist[u] : e.hist[u][i].owner = owner[u]
      BY <2>2, <3>1
    <3>3. /\ Push(e.hist[u], pay[u], round, owner[u]) \in Seq(Observation)
          /\ Len(Push(e.hist[u], pay[u], round, owner[u])) <= MaxSamples
          /\ \A i \in DOMAIN Push(e.hist[u], pay[u], round, owner[u]) :
                Push(e.hist[u], pay[u], round, owner[u])[i].owner = owner[u]
      BY <2>2, <3>1, <3>2, PushProperties
    <3>4. hist[u] = Push(e.hist[u], pay[u], round, owner[u])
      BY <2>3
    <3>5. QED
      BY <3>1, <3>3, <3>4
  <2>4. CASE u \notin S
    BY <2>2, <2>4 DEF Sound
  <2>5. QED
    BY <2>3, <2>4
<1>4. hist \in Histories /\ Owned(hist, e.hk)
  BY <1>3 DEF Histories, Owned
<1>5. \A u \in Uids : u >= e.size => hist[u] = <<>> /\ e.hk[u] = NoHotkey
  BY <1>1, EngineAssumption DEF Sound, Uids
<1>6. [u \in Uids |-> IF u \in S THEN Score(hist[u]) ELSE e.score[u]]
        = [u \in Uids |-> Score(hist[u])]
  BY DEF Sound
<1>7. RecordAll(e, S, pay, round, owner) =
        [size |-> e.size, hist |-> hist, hk |-> e.hk, score |-> [u \in Uids |-> Score(hist[u])]]
  <2>1. RecordAll(e, S, pay, round, owner) =
          [e EXCEPT !.size = EnsureCapacity(e.size, S), !.hist = hist,
                    !.score = [u \in Uids |-> IF u \in S THEN Score(hist[u]) ELSE e.score[u]]]
    BY DEF RecordAll
  <2> HIDE DEF hist
  <2>2. QED
    BY <1>2, <1>6, <2>1 DEF Sound, Window
<1> HIDE DEF hist
<1>8. QED
  BY <1>1, <1>3, <1>4, <1>5, <1>7, RebuiltSound

\* apply_round_scores, for a round whose snapshot of serving miners is the
\* metagraph the engine tracks.
LEMMA ApplyRoundScoresSound ==
    ASSUME NEW e, Sound(e), NEW m \in Chain, Tracks(e, m),
           NEW active \in SUBSET Uids, \A u \in active : u < m.size,
           NEW evaluated \in SUBSET active, NEW pay \in [evaluated -> Payments],
           NEW c \in Nat
    PROVE  /\ Sound(ApplyRoundScores(e, evaluated, m.hk, pay, active, m, c))
           /\ Tracks(ApplyRoundScores(e, evaluated, m.hk, pay, active, m, c), m)
<1> DEFINE eligible == {u \in evaluated : u \in active /\ m.hk[u] = m.hk[u]}
           zero == [u \in Uids |-> 0]
           rewards == [u \in Uids |-> IF u \in eligible THEN pay[u] ELSE 0]
           updated == Update(e, eligible, pay, m.hk, eligible, c)
           absent == {u \in Uids : updated.hist[u] # <<>> /\ u \notin active}
<1>1. m.size \in 0..MaxUids /\ m.hk \in [Uids -> Hotkeys] /\ e.size \in 0..MaxUids
  BY DEF Chain, Sound, Window
<1>2. \A u \in Uids : u < e.size => m.hk[u] \in Hotkeys /\ m.hk[u] = e.hk[u]
  BY <1>1 DEF Tracks
<1>3. eligible = evaluated /\ evaluated \in SUBSET Uids /\ \A u \in evaluated : u < e.size
  BY DEF Tracks
<1>4. SetHotkeys(e, eligible, m.hk) = e
  <2>1. \A u \in evaluated : u \in Int /\ u < e.size
    BY <1>3, EngineAssumption DEF Uids
  <2>2. EnsureCapacity(e.size, evaluated) = e.size
    BY <1>1, <2>1, CapacityKept
  <2>3. [u \in Uids |-> IF u \in evaluated THEN m.hk[u] ELSE e.hk[u]] = e.hk
    BY <1>2, <1>3 DEF Sound, Window
  <2>4. QED
    BY <1>3, <2>2, <2>3 DEF SetHotkeys, Sound, Window
<1>5. updated = RecordAll(e, evaluated, rewards, c, m.hk)
  <2>1. evaluated \cup (IF Decay THEN evaluated \ evaluated ELSE {}) = evaluated
    OBVIOUS
  <2>2. QED
    BY <1>3, <1>4, <2>1 DEF Update
<1>6. \A u \in evaluated : rewards[u] \in Int
  <2>1. SUFFICES ASSUME NEW u \in evaluated
                 PROVE  rewards[u] \in Int
    OBVIOUS
  <2>2. pay[u] \in Nat /\ u \in Uids
    BY <1>3, WindowAssumption
  <2>3. QED
    BY <2>2
<1> HIDE DEF updated, rewards, eligible
<1>7. Sound(updated) /\ updated.size = e.size /\ updated.hk = e.hk
  <2>1. \A u \in evaluated : /\ u < e.size
                             /\ rewards[u] \in Int
                             /\ m.hk[u] \in Hotkeys /\ m.hk[u] = e.hk[u]
    BY <1>2, <1>3, <1>6
  <2>2. QED
    BY <1>3, <1>5, <2>1, RecordAllSound
<1>8. \A u \in absent : /\ u < updated.size
                        /\ zero[u] \in Int
                        /\ m.hk[u] \in Hotkeys /\ m.hk[u] = updated.hk[u]
  <2>1. SUFFICES ASSUME NEW u \in absent
                 PROVE  u < updated.size /\ zero[u] \in Int /\ m.hk[u] \in Hotkeys
                        /\ m.hk[u] = updated.hk[u]
    OBVIOUS
  <2>2. u \in Uids /\ updated.hist[u] # <<>>
    BY <2>1
  <2>3. u < updated.size
    BY <1>1, <1>7, <2>2, EngineAssumption DEF Sound, Uids
  <2>4. QED
    BY <1>2, <1>7, <2>2, <2>3
<1>9. ApplyRoundScores(e, evaluated, m.hk, pay, active, m, c)
        = IF ~Decay THEN updated ELSE RecordAll(updated, absent, zero, c, m.hk)
  BY DEF ApplyRoundScores, RecordNonserving, updated, eligible
<1> HIDE DEF zero
<1>10. /\ Sound(RecordAll(updated, absent, zero, c, m.hk))
       /\ RecordAll(updated, absent, zero, c, m.hk).size = updated.size
       /\ RecordAll(updated, absent, zero, c, m.hk).hk = updated.hk
  <2>1. absent \in SUBSET Uids
    OBVIOUS
  <2> HIDE DEF absent
  <2>2. QED
    BY <1>7, <1>8, <2>1, RecordAllSound
<1>11. QED
  BY <1>7, <1>9, <1>10 DEF Tracks

-----------------------------------------------------------------------------
(* The score file. *)

\* What is on disk can be loaded and holds no miner's results under another's name.
FileOK(f) ==
    \/ f = NoFile
    \/ /\ f \in FileV1 \cup FileV2
       /\ Accepts(f)
       /\ f.size <= MaxUids
       /\ f.version = 2 => Owned(f.hist, f.hk)

\* Migration makes a sound history out of a scalar.
LEMMA MigratedProperties ==
    ASSUME NEW f \in FileV1, AcceptsV1(f)
    PROVE  /\ Migrated(f) \in Histories
           /\ Owned(Migrated(f), f.hk)
           /\ \A u \in Uids : u >= f.size => Migrated(f)[u] = <<>>
<1>1. f.size \in Nat /\ f.score \in [Uids -> Nat] /\ f.hk \in [Uids -> Owner]
  BY DEF FileV1
<1>2. MinSamples \in Nat
  BY EngineAssumption
<1>3. \A u \in Uids : Migrated(f)[u] \in Seq(Observation)
  <2>1. SUFFICES ASSUME NEW u \in Uids
                 PROVE  Migrated(f)[u] \in Seq(Observation)
    OBVIOUS
  <2>2. CASE f.hk[u] # NoHotkey /\ f.score[u] > 0
    <3> DEFINE o == [reward |-> f.score[u], round |-> 0, owner |-> f.hk[u]]
    <3>1. o \in Observation
      BY <1>1, <2>2 DEF Observation, Owner
    <3>2. Migrated(f)[u] = [i \in 1..MinSamples |-> o]
      BY <2>2 DEF Migrated
    <3> HIDE DEF o
    <3>3. QED
      BY <1>2, <3>1, <3>2
  <2>3. CASE ~(f.hk[u] # NoHotkey /\ f.score[u] > 0)
    BY <2>3 DEF Migrated
  <2>4. QED
    BY <2>2, <2>3
<1>4. Migrated(f) \in Histories
  BY <1>3 DEF Migrated, Histories
<1>5. Owned(Migrated(f), f.hk)
  BY DEF Migrated, Owned
<1>6. \A u \in Uids : u >= f.size => Migrated(f)[u] = <<>>
  BY <1>1, EngineAssumption DEF Migrated, AcceptsV1, HotkeysInRange, Uids
<1>7. QED
  BY <1>4, <1>5, <1>6

\* _restore keeps the latest observations of histories within the vector.
LEMMA RestoreSound ==
    ASSUME NEW n \in 0..MaxUids, NEW hist \in Histories, NEW hk \in [Uids -> Owner],
           Owned(hist, hk),
           \A u \in Uids : u >= n => hist[u] = <<>> /\ hk[u] = NoHotkey
    PROVE  Sound(Restore(n, hist, hk))
<1> DEFINE kept == [u \in Uids |-> LastN(hist[u], MaxSamples)]
<1>1. MaxSamples \in Nat
  BY EngineAssumption
<1>2. \A u \in Uids : /\ kept[u] \in Seq(Observation)
                      /\ Len(kept[u]) <= MaxSamples
                      /\ \A i \in DOMAIN kept[u] : kept[u][i].owner = hk[u]
                      /\ u >= n => kept[u] = <<>>
  <2>1. SUFFICES ASSUME NEW u \in Uids
                 PROVE  /\ kept[u] \in Seq(Observation)
                        /\ Len(kept[u]) <= MaxSamples
                        /\ \A i \in DOMAIN kept[u] : kept[u][i].owner = hk[u]
                        /\ u >= n => kept[u] = <<>>
    OBVIOUS
  <2>2. hist[u] \in Seq(Observation) /\ kept[u] = LastN(hist[u], MaxSamples)
    BY DEF Histories
  <2>3. /\ kept[u] \in Seq(Observation)
        /\ Len(kept[u]) <= MaxSamples
        /\ \A i \in DOMAIN kept[u] : \E j \in DOMAIN hist[u] : kept[u][i] = hist[u][j]
    BY <1>1, <2>2, LastNProperties
  <2>4. \A j \in DOMAIN hist[u] : hist[u][j].owner = hk[u]
    BY DEF Owned
  <2>5. u >= n => kept[u] = <<>>
    BY <1>1, <2>2 DEF LastN
  <2>6. QED
    BY <2>3, <2>4, <2>5
<1>3. kept \in Histories /\ Owned(kept, hk)
  BY <1>2 DEF Histories, Owned
<1>4. Restore(n, hist, hk) =
        [size |-> n, hist |-> kept, hk |-> hk, score |-> [u \in Uids |-> Score(kept[u])]]
  BY DEF Restore
<1> HIDE DEF kept
<1>5. QED
  BY <1>2, <1>3, <1>4, RebuiltSound

\* _load_scores.
LEMMA LoadScoresSound ==
    ASSUME NEW n \in 0..MaxUids, NEW f, FileOK(f)
    PROVE  Sound(LoadScores(Fresh(n), f))
<1>1. CASE f = NoFile
  BY <1>1, FreshSound DEF LoadScores
<1>2. CASE f \in FileV1 /\ f # NoFile /\ Accepts(f) /\ f.size <= MaxUids
  <2>1. f.version = 1 /\ f.size \in 0..MaxUids /\ f.hk \in [Uids -> Owner]
    BY <1>2, EngineAssumption DEF FileV1
  <2>2. AcceptsV1(f) /\ HotkeysInRange(f)
    BY <1>2, <2>1 DEF Accepts, AcceptsV1
  <2>3. \A u \in Uids : u >= f.size => f.hk[u] = NoHotkey
    BY <2>1, <2>2, EngineAssumption DEF HotkeysInRange, Uids
  <2>4. LoadScores(Fresh(n), f) = Restore(f.size, Migrated(f), f.hk)
    BY <1>2, <2>1 DEF LoadScores
  <2>5. QED
    BY <1>2, <2>1, <2>2, <2>3, <2>4, MigratedProperties, RestoreSound
<1>3. CASE f \in FileV2 /\ f # NoFile /\ Accepts(f) /\ f.size <= MaxUids /\ Owned(f.hist, f.hk)
  <2>1. f.version = 2 /\ f.size \in 0..MaxUids /\ f.hk \in [Uids -> Owner] /\ f.hist \in Histories
    BY <1>3, EngineAssumption DEF FileV2, Histories
  <2>2. AcceptsV2(f)
    BY <1>3, <2>1 DEF Accepts
  <2>3. \A u \in Uids : u >= f.size => f.hist[u] = <<>> /\ f.hk[u] = NoHotkey
    BY <2>1, <2>2, EngineAssumption DEF AcceptsV2, HotkeysInRange, Uids
  <2>4. LoadScores(Fresh(n), f) = Restore(f.size, f.hist, f.hk)
    BY <1>3, <2>1 DEF LoadScores
  <2>5. QED
    BY <1>3, <2>1, <2>3, <2>4, RestoreSound
<1>4. QED
  BY <1>1, <1>2, <1>3 DEF FileOK, FileV2

\* _save_scores writes a file that _load_scores accepts.
LEMMA SnapshotOK ==
    ASSUME NEW e, Sound(e), NEW c \in Nat
    PROVE  Snapshot(e, c) \in FileV2 /\ FileOK(Snapshot(e, c))
<1> DEFINE f == Snapshot(e, c)
<1>1. e.size \in 0..MaxUids /\ e.hist \in Histories /\ e.hk \in [Uids -> Owner]
  BY DEF Sound, Window
<1>2. f \in FileV2
  BY <1>1, EngineAssumption DEF Snapshot, FileV2, Histories
<1>3. HotkeysInRange(f)
  BY <1>1, EngineAssumption DEF Snapshot, HotkeysInRange, Sound, Uids
<1>4. \A u \in Uids : e.hist[u] # <<>> => u < e.size /\ Len(e.hist[u]) <= MaxSamples
  BY <1>1, EngineAssumption DEF Sound, Uids
<1>5. \A u \in Uids : HasPayment(LastN(e.hist[u], MaxSamples)) => e.hk[u] # NoHotkey
  <2>1. SUFFICES ASSUME NEW u \in Uids, HasPayment(LastN(e.hist[u], MaxSamples))
                 PROVE  e.hk[u] # NoHotkey
    OBVIOUS
  <2>2. e.hist[u] \in Seq(Observation) /\ MaxSamples \in Nat
    BY <1>1, EngineAssumption DEF Histories
  <2>3. PICK i \in DOMAIN LastN(e.hist[u], MaxSamples) : TRUE
    BY <2>1 DEF HasPayment
  <2>4. PICK j \in DOMAIN e.hist[u] : LastN(e.hist[u], MaxSamples)[i] = e.hist[u][j]
    BY <2>2, <2>3, LastNProperties
  <2>5. e.hist[u][j] \in Observation
    BY <2>2, <2>4
  <2>6. e.hist[u][j].owner \in Hotkeys /\ e.hist[u][j].owner = e.hk[u]
    BY <2>4, <2>5 DEF Observation, Sound, Owned
  <2>7. QED
    BY <2>6, EngineAssumption
<1>6. /\ f.version = 2 /\ f.size = e.size /\ f.max = MaxSamples /\ f.min = MinSamples
      /\ f.hist = e.hist /\ f.hk = e.hk
  BY DEF Snapshot
<1> HIDE DEF f
<1>7. AcceptsV2(f)
  BY <1>3, <1>4, <1>5, <1>6, EngineAssumption DEF AcceptsV2
<1>8. FileOK(f)
  BY <1>1, <1>2, <1>6, <1>7 DEF FileOK, Accepts, Sound
<1>9. QED
  BY <1>2, <1>8 DEF f

-----------------------------------------------------------------------------
(* The inductive invariant. *)

\* From the sync that opens a round on, the engine tracks the metagraph; before the
\* first round of a process it need not, and no weights are sent.
InStep ==
    /\ phase \in {"round", "saving", "telling"} \/ done => Tracks(eng, meta)
    /\ phase = "down" => ~done
    /\ \A u \in live : u < meta.size
    /\ phase # "round" => live = {}

\* How far memory, disk and what miners were told have come.
Progress ==
    /\ notified <= challenge
    /\ phase # "down" /\ ~unread => applied >= notified
    /\ scored => phase \in {"saving", "telling"} /\ applied = challenge
    /\ saved => phase = "telling" /\ file \in FileV2 /\ file.upto = applied

Inv ==
    /\ TypeOK
    /\ Sound(eng)
    /\ InStep
    /\ FileOK(file)
    /\ WeightsEarned
    /\ Progress
    /\ ToldIsDurable

\* The parts of TypeOK that speak of the engine and the file.
LEMMA SoundTyped ==
    ASSUME NEW e, Sound(e)
    PROVE  /\ e.size \in 0..MaxUids /\ e.hist \in [Uids -> Seq(Observation)]
           /\ e.hk \in [Uids -> Owner] /\ DOMAIN e.score = Uids
BY DEF Sound, Window, Histories

\* The validator has not started; only a score file of an earlier release may exist.
LEMMA InitInv == Init => Inv
<1> SUFFICES ASSUME Init PROVE Inv
  OBVIOUS
<1>1. chain \in Chain /\ meta \in Chain /\ chain.size \in 0..MaxUids
  BY EngineAssumption DEF Init, Chain
<1>2. Sound(eng)
  BY <1>1, FreshSound DEF Init
<1>3. FileOK(file) /\ file \in FileV1 \cup FileV2 \cup {NoFile}
  BY WindowAssumption DEF Init, FileOK
<1>4. TypeOK
  <2>1. /\ eng.size \in 0..MaxUids /\ eng.hist \in [Uids -> Seq(Observation)]
        /\ eng.hk \in [Uids -> Owner] /\ DOMAIN eng.score = Uids
    BY <1>2, SoundTyped
  <2>2. QED
    BY <1>1, <1>3, <2>1 DEF Init, TypeOK, Phases
<1>5. InStep /\ WeightsEarned /\ Progress /\ ToldIsDurable
  BY DEF Init, InStep, WeightsEarned, Progress, ToldIsDurable
<1>6. QED
  BY <1>2, <1>3, <1>4, <1>5 DEF Inv

\* The chain moves; the validator does not see it.
LEMMA TurnoverInv ==
    ASSUME Inv, NEW c \in Chain, Turnover(c)
    PROVE  Inv'
<1>1. /\ chain' \in Chain
      /\ turnover' \in Nat
      /\ UNCHANGED <<meta, eng, phase, live, pool, done, file, scored, saved,
                     challenge, applied, notified, unread, weighted, crashes>>
  BY DEF Turnover, Inv, TypeOK
<1>2. TypeOK'
  BY <1>1 DEF Inv, TypeOK
<1>3. InStep' /\ WeightsEarned' /\ Progress' /\ ToldIsDurable'
  BY <1>1 DEF Inv, InStep, WeightsEarned, Progress, ToldIsDurable
<1>4. Sound(eng') /\ FileOK(file')
  BY <1>1 DEF Inv
<1>5. QED
  BY <1>2, <1>3, <1>4 DEF Inv

\* A start loads the file into a sound window that reflects what the file reflects.
LEMMA StartInv ==
    ASSUME Inv, Start
    PROVE  Inv'
<1>1. chain.size \in 0..MaxUids /\ meta' = chain /\ chain' = chain /\ chain \in Chain
  BY DEF Inv, TypeOK, Chain, Start
<1>2. Sound(eng')
  BY <1>1, LoadScoresSound DEF Inv, Start
<1>3. /\ FileOK(file') /\ file' \in FileV1 \cup FileV2 \cup {NoFile}
      /\ file' = file \/ (file \in FileV1 /\ file' \in FileV2)
  <2>1. CASE file' = file
    BY <2>1 DEF Inv, TypeOK
  <2>2. CASE file \in FileV1 /\ file' = Snapshot(eng', 0)
    BY <1>2, <2>2, SnapshotOK
  <2>3. QED
    BY <2>1, <2>2 DEF Start
<1>4. applied' \in Nat /\ (file \in FileV2 => applied' = file.upto)
  <2>1. file \in FileV2 => Accepts(file) /\ file.upto \in Nat
    BY WindowAssumption DEF Inv, FileOK, FileV2
  <2>2. QED
    BY <2>1 DEF Start
<1>5. TypeOK'
  <2>1. /\ eng'.size \in 0..MaxUids /\ eng'.hist \in [Uids -> Seq(Observation)]
        /\ eng'.hk \in [Uids -> Owner] /\ DOMAIN eng'.score = Uids
    BY <1>2, SoundTyped
  <2>2. QED
    BY <1>1, <1>3, <1>4, <2>1 DEF Inv, TypeOK, Start, Phases
<1>6. live' = {} /\ ~saved' /\ ~scored' /\ ~done' /\ phase' = "idle"
  BY DEF Inv, InStep, Progress, Start
<1>7. InStep'
  BY <1>6 DEF InStep
<1>8. ToldIsDurable'
  BY <1>3 DEF Inv, ToldIsDurable, Start, FileV1, FileV2
<1>9. Progress'
  BY <1>4, <1>6 DEF Inv, Progress, ToldIsDurable, Start, TypeOK
<1>10. WeightsEarned'
  BY DEF Inv, WeightsEarned, Start
<1>11. QED
  BY <1>2, <1>3, <1>5, <1>7, <1>8, <1>9, <1>10 DEF Inv

\* A start that cannot read the file has an empty window and gives up ToldIsDurable.
LEMMA StartUnreadableInv ==
    ASSUME Inv, StartUnreadable
    PROVE  Inv'
<1>1. chain.size \in 0..MaxUids /\ meta' = chain /\ chain' = chain /\ chain \in Chain
  BY DEF Inv, TypeOK, Chain, StartUnreadable
<1>2. Sound(eng') /\ FileOK(file')
  BY <1>1, FreshSound DEF Inv, StartUnreadable
<1>3. TypeOK'
  <2>1. /\ eng'.size \in 0..MaxUids /\ eng'.hist \in [Uids -> Seq(Observation)]
        /\ eng'.hk \in [Uids -> Owner] /\ DOMAIN eng'.score = Uids
    BY <1>2, SoundTyped
  <2>2. QED
    BY <1>1, <2>1 DEF Inv, TypeOK, StartUnreadable, Phases
<1>4. InStep' /\ WeightsEarned' /\ Progress' /\ ToldIsDurable'
  BY DEF Inv, InStep, WeightsEarned, Progress, ToldIsDurable, StartUnreadable
<1>5. QED
  BY <1>2, <1>3, <1>4 DEF Inv

\* resize and sync put the window in step with the new metagraph.
LEMMA RoundStartInv ==
    ASSUME Inv, RoundStart
    PROVE  Inv'
<1>1. chain.size \in 0..MaxUids /\ meta' = chain /\ chain' = chain /\ chain \in Chain
  BY DEF Inv, TypeOK, Chain, RoundStart
<1>2. Sound(eng') /\ Tracks(eng', meta')
  <2>1. Sound(Resize(eng, chain.size)) /\ Resize(eng, chain.size).size = chain.size
    BY <1>1, ResizeSound DEF Inv
  <2>2. QED
    BY <1>1, <2>1, SyncSound DEF RoundStart
<1>3. PICK serving \in SUBSET (0..(chain.size - 1)) : \E offered \in SUBSET serving :
         IF offered = {} THEN phase' = "idle" /\ done' = TRUE /\ live' = {} /\ pool' = {}
                         ELSE phase' = "round" /\ done' = done /\ live' = serving /\ pool' = offered
  BY DEF RoundStart
<1>4. serving \subseteq Uids /\ \A u \in serving : u < chain.size
  BY <1>1, EngineAssumption DEF Uids
<1>5. FileOK(file')
  BY DEF Inv, RoundStart
<1>6. TypeOK'
  <2>1. /\ eng'.size \in 0..MaxUids /\ eng'.hist \in [Uids -> Seq(Observation)]
        /\ eng'.hk \in [Uids -> Owner] /\ DOMAIN eng'.score = Uids
    BY <1>2, SoundTyped
  <2>2. /\ phase' \in Phases /\ live' \in SUBSET Uids /\ pool' \in SUBSET live'
        /\ done' \in BOOLEAN
    BY <1>3, <1>4 DEF Inv, TypeOK, Phases
  <2>3. QED
    BY <1>1, <2>1, <2>2 DEF Inv, TypeOK, RoundStart
<1>7. InStep'
  BY <1>1, <1>2, <1>3, <1>4 DEF InStep
<1>8. Progress'
  BY <1>3 DEF Inv, Progress, RoundStart
<1>9. WeightsEarned' /\ ToldIsDurable'
  BY DEF Inv, WeightsEarned, ToldIsDurable, RoundStart
<1>10. QED
  BY <1>2, <1>5, <1>6, <1>7, <1>8, <1>9 DEF Inv

\* A completed round records for the hotkeys the window tracks.
LEMMA RoundCompletedInv ==
    ASSUME Inv, RoundCompleted
    PROVE  Inv'
<1>1. meta \in Chain /\ meta' = meta /\ challenge + 1 \in Nat
  BY DEF Inv, TypeOK, RoundCompleted
<1>2. Tracks(eng, meta) /\ live \in SUBSET Uids /\ pool \in SUBSET live /\ \A u \in live : u < meta.size
  BY DEF Inv, InStep, TypeOK, RoundCompleted
<1>3. Sound(eng') /\ Tracks(eng', meta')
  <2>1. PICK pay \in [pool -> Payments] :
           eng' = ApplyRoundScores(eng, pool, meta.hk, pay, live, meta, challenge + 1)
    BY DEF RoundCompleted
  <2>2. QED
    BY <1>1, <1>2, <2>1, ApplyRoundScoresSound DEF Inv
<1>4. TypeOK'
  <2>1. /\ eng'.size \in 0..MaxUids /\ eng'.hist \in [Uids -> Seq(Observation)]
        /\ eng'.hk \in [Uids -> Owner] /\ DOMAIN eng'.score = Uids
    BY <1>3, SoundTyped
  <2>2. QED
    BY <1>1, <2>1 DEF Inv, TypeOK, RoundCompleted, Phases
<1>5. InStep'
  BY <1>3 DEF Inv, InStep, RoundCompleted
<1>6. Progress'
  BY DEF Inv, Progress, RoundCompleted, TypeOK
<1>7. FileOK(file') /\ WeightsEarned' /\ ToldIsDurable'
  BY DEF Inv, WeightsEarned, ToldIsDurable, RoundCompleted
<1>8. QED
  BY <1>3, <1>4, <1>5, <1>6, <1>7 DEF Inv

\* A round that did not complete leaves window and file alone.
LEMMA RoundNotCompletedInv ==
    ASSUME Inv, RoundNotCompleted
    PROVE  Inv'
<1>1. TypeOK'
  BY DEF Inv, TypeOK, RoundNotCompleted, Phases
<1>2. Sound(eng') /\ FileOK(file')
  BY DEF Inv, RoundNotCompleted
<1>3. InStep' /\ WeightsEarned' /\ ToldIsDurable'
  BY DEF Inv, InStep, WeightsEarned, ToldIsDurable, RoundNotCompleted
<1>4. Progress'
  BY DEF Inv, Progress, RoundNotCompleted
<1>5. QED
  BY <1>1, <1>2, <1>3, <1>4 DEF Inv

\* The saved file is the window, or the file stays as it was.
LEMMA SaveScoresInv ==
    ASSUME Inv, SaveScores
    PROVE  Inv'
<1>1. \/ file' = Snapshot(eng, applied) /\ saved' = TRUE
      \/ file' = file /\ saved' = FALSE
  BY DEF SaveScores
<1>2. /\ FileOK(file') /\ file' \in FileV1 \cup FileV2 \cup {NoFile}
      /\ saved' => file' \in FileV2 /\ file'.upto = applied
  BY <1>1, SnapshotOK DEF Inv, TypeOK, Snapshot
<1>3. TypeOK'
  BY <1>1, <1>2 DEF Inv, TypeOK, SaveScores, Phases
<1>4. Sound(eng') /\ InStep' /\ WeightsEarned'
  BY DEF Inv, InStep, WeightsEarned, SaveScores
<1>5. Progress'
  BY <1>2 DEF Inv, Progress, SaveScores
<1>6. ToldIsDurable'
  BY <1>1, <1>2 DEF Inv, Progress, ToldIsDurable, SaveScores
<1>7. QED
  BY <1>2, <1>3, <1>4, <1>5, <1>6 DEF Inv

\* Miners are told of a challenge only when the file reflects it.
LEMMA TellMinersInv ==
    ASSUME Inv, TellMiners
    PROVE  Inv'
<1>1. TypeOK'
  BY DEF Inv, TypeOK, TellMiners, Phases
<1>2. Sound(eng') /\ FileOK(file') /\ InStep' /\ WeightsEarned'
  BY DEF Inv, InStep, WeightsEarned, TellMiners
<1>3. Progress'
  BY DEF Inv, Progress, TellMiners, TypeOK
<1>4. ToldIsDurable'
  BY DEF Inv, Progress, ToldIsDurable, TellMiners, TypeOK
<1>5. QED
  BY <1>1, <1>2, <1>3, <1>4 DEF Inv

\* After a round the window is in step with the metagraph the weights are sent with.
LEMMA SubmitWeightsInv ==
    ASSUME Inv, SubmitWeights
    PROVE  Inv'
<1>1. Tracks(eng, meta) /\ meta \in Chain /\ Sound(eng)
  BY DEF Inv, InStep, TypeOK, SubmitWeights
<1>2. \A w \in weighted' : \E u \in Weighted(eng, meta.size) : \E i \in DOMAIN eng.hist[u] :
         w = [named |-> meta.hk[u], earner |-> eng.hist[u][i].owner]
  BY DEF SubmitWeights
<1>3. \A w \in weighted' : w \in [named: Hotkeys, earner: Hotkeys] /\ w.named = w.earner
  <2>1. SUFFICES ASSUME NEW u \in Weighted(eng, meta.size), NEW i \in DOMAIN eng.hist[u]
                 PROVE  meta.hk[u] \in Hotkeys /\ meta.hk[u] = eng.hist[u][i].owner
    BY <1>2
  <2>2. u \in Uids /\ u < meta.size
    BY DEF Weighted
  <2>3. eng.hk[u] = meta.hk[u] /\ meta.hk[u] \in Hotkeys
    BY <1>1, <2>2 DEF Tracks, Chain
  <2>4. QED
    BY <1>1, <2>2, <2>3 DEF Sound, Owned
<1>4. TypeOK' /\ WeightsEarned'
  BY <1>3 DEF Inv, TypeOK, WeightsEarned, SubmitWeights
<1>5. Sound(eng') /\ FileOK(file') /\ InStep' /\ Progress' /\ ToldIsDurable'
  BY DEF Inv, InStep, Progress, ToldIsDurable, SubmitWeights
<1>6. QED
  BY <1>4, <1>5 DEF Inv

\* A crash leaves the file.
LEMMA CrashInv ==
    ASSUME Inv, Crash
    PROVE  Inv'
<1>1. meta.size \in 0..MaxUids
  BY DEF Inv, TypeOK, Chain
<1>2. Sound(eng') /\ FileOK(file')
  BY <1>1, FreshSound DEF Inv, Crash
<1>3. TypeOK'
  <2>1. /\ eng'.size \in 0..MaxUids /\ eng'.hist \in [Uids -> Seq(Observation)]
        /\ eng'.hk \in [Uids -> Owner] /\ DOMAIN eng'.score = Uids
    BY <1>2, SoundTyped
  <2>2. crashes' \in Nat /\ applied' \in Nat /\ phase' \in Phases
    BY DEF Inv, TypeOK, Crash, Phases
  <2>3. /\ live' \in SUBSET Uids /\ pool' \in SUBSET live'
        /\ done' \in BOOLEAN /\ scored' \in BOOLEAN /\ saved' \in BOOLEAN
    BY DEF Crash
  <2>4. UNCHANGED <<chain, meta, file, challenge, notified, unread, weighted, turnover>>
    BY DEF Crash
  <2>5. QED
    BY <2>1, <2>2, <2>3, <2>4 DEF Inv, TypeOK
<1>4. InStep' /\ WeightsEarned' /\ Progress' /\ ToldIsDurable'
  BY DEF Inv, InStep, WeightsEarned, Progress, ToldIsDurable, Crash
<1>5. QED
  BY <1>2, <1>3, <1>4 DEF Inv

-----------------------------------------------------------------------------
(* The theorems. *)

\* Every step preserves the invariant.
LEMMA NextInv == Inv /\ [Next]_vars => Inv'
<1> SUFFICES ASSUME Inv, [Next]_vars PROVE Inv'
  OBVIOUS
<1>1. chain \in Chain
  BY DEF Inv, TypeOK
<1>2. CASE ChainReplace
  <2>1. PICK u \in 0..(chain.size - 1), h \in Hotkeys : Turnover([chain EXCEPT !.hk[u] = h])
    BY <1>2 DEF ChainReplace
  <2>2. [chain EXCEPT !.hk[u] = h] \in Chain
    <3>1. [chain.hk EXCEPT ![u] = h] \in [Uids -> Hotkeys]
      BY <1>1 DEF Chain
    <3>2. [chain EXCEPT !.hk[u] = h] = [chain EXCEPT !.hk = [chain.hk EXCEPT ![u] = h]]
      BY <1>1 DEF Chain
    <3>3. QED
      BY <1>1, <3>1, <3>2 DEF Chain
  <2>3. QED
    BY <2>1, <2>2, TurnoverInv
<1>3. CASE ChainGrow
  <2>1. PICK h \in Hotkeys :
           Turnover([size |-> chain.size + 1, hk |-> [chain.hk EXCEPT ![chain.size] = h]])
    BY <1>3 DEF ChainGrow
  <2>2. [size |-> chain.size + 1, hk |-> [chain.hk EXCEPT ![chain.size] = h]] \in Chain
    <3>1. chain.size \in 0..MaxUids /\ chain.size < MaxUids
      BY <1>1, <1>3 DEF Chain, ChainGrow
    <3>2. chain.size + 1 \in 0..MaxUids
      BY <3>1, EngineAssumption
    <3>3. [chain.hk EXCEPT ![chain.size] = h] \in [Uids -> Hotkeys]
      BY <1>1 DEF Chain
    <3>4. QED
      BY <3>2, <3>3 DEF Chain
  <2>3. QED
    BY <2>1, <2>2, TurnoverInv
<1>4. CASE ChainTrim
  <2>1. Turnover([chain EXCEPT !.size = @ - 1]) /\ [chain EXCEPT !.size = @ - 1] \in Chain
    BY <1>1, <1>4, EngineAssumption DEF Chain, ChainTrim
  <2>2. QED
    BY <2>1, TurnoverInv
<1>5. CASE Start
  BY <1>5, StartInv
<1>6. CASE StartUnreadable
  BY <1>6, StartUnreadableInv
<1>7. CASE RoundStart
  BY <1>7, RoundStartInv
<1>8. CASE RoundCompleted
  BY <1>8, RoundCompletedInv
<1>9. CASE RoundNotCompleted
  BY <1>9, RoundNotCompletedInv
<1>10. CASE SaveScores
  BY <1>10, SaveScoresInv
<1>11. CASE TellMiners
  BY <1>11, TellMinersInv
<1>12. CASE SubmitWeights
  BY <1>12, SubmitWeightsInv
<1>13. CASE Crash
  BY <1>13, CrashInv
<1>14. CASE UNCHANGED vars
  <2>1. TypeOK'
    BY <1>14 DEF vars, Inv, TypeOK
  <2>2. Sound(eng') /\ FileOK(file') /\ InStep' /\ WeightsEarned' /\ Progress' /\ ToldIsDurable'
    BY <1>14 DEF vars, Inv, InStep, WeightsEarned, Progress, ToldIsDurable
  <2>3. QED
    BY <2>1, <2>2 DEF Inv
<1>15. QED
  BY <1>2, <1>3, <1>4, <1>5, <1>6, <1>7, <1>8, <1>9, <1>10, <1>11, <1>12, <1>13, <1>14
     DEF Next

\* Inv holds in every reachable state.
THEOREM Invariance == Spec => []Inv
BY InitInv, NextInv, PTL DEF Spec

\* Type correctness of the validator's state, through every operation and restart.
THEOREM TypeCorrect == Spec => []TypeOK
<1>1. Inv => TypeOK
  BY DEF Inv
<1>2. QED
  BY <1>1, Invariance, PTL

\* No miner ever inherits another's observations, in memory or on disk, for any
\* number of uids and hotkeys and any turnover (sync, resize, _restore).
THEOREM NoInheritance == Spec => []OwnHistory
<1>1. Inv => OwnHistory
  <2>1. SUFFICES ASSUME Inv PROVE OwnHistory
    OBVIOUS
  <2>2. Owned(eng.hist, eng.hk)
    BY <2>1 DEF Inv, Sound
  <2>3. file \in FileV2 => Owned(file.hist, file.hk)
    BY <2>1, WindowAssumption DEF Inv, FileOK, FileV2
  <2>4. QED
    BY <2>2, <2>3 DEF OwnHistory
<1>2. QED
  BY <1>1, Invariance, PTL

\* The score vector is always the function of the histories that _refresh_score
\* computes, and uids beyond it keep nothing.
THEOREM ScoresFollowHistories == Spec => []ScoresDerived
<1>1. Inv => ScoresDerived
  BY DEF Inv, Sound, ScoresDerived
<1>2. QED
  BY <1>1, Invariance, PTL

\* Every file _save_scores leaves is one _load_scores accepts.
THEOREM SavedLoads == Spec => []FileLoads
<1>1. Inv => FileLoads
  BY DEF Inv, FileOK, FileLoads
<1>2. QED
  BY <1>1, Invariance, PTL

\* A crash never takes back a result that miners were told.
THEOREM ToldStays == Spec => []ToldIsDurable
<1>1. Inv => ToldIsDurable
  BY DEF Inv
<1>2. QED
  BY <1>1, Invariance, PTL

\* Every weight submitted goes to the hotkey that earned it.
THEOREM WeightsGoToEarners == Spec => []WeightsEarned
<1>1. Inv => WeightsEarned
  BY DEF Inv
<1>2. QED
  BY <1>1, Invariance, PTL
-----------------------------------------------------------------------------
(* The order of observations. *)

\* A history is in order up to challenge c: later observations belong to later
\* challenges, unless they are older than the first one.
InOrder(h, c) ==
    /\ \A i \in DOMAIN h : h[i].round <= c
    /\ \A i, j \in DOMAIN h : i < j => h[i].round < h[j].round \/ h[j].round = 0

\* No history in memory or on disk knows a challenge that has not been completed.
OrderInv ==
    /\ \A u \in Uids : InOrder(eng.hist[u], challenge)
    /\ file \in FileV2 => \A u \in Uids : InOrder(file.hist[u], challenge)

\* values[-n:] is the history shifted.
LEMMA LastNShifts ==
    ASSUME NEW h \in Seq(Observation), NEW n \in Nat
    PROVE  \E d \in Nat : \A i \in DOMAIN LastN(h, n) :
              i + d \in DOMAIN h /\ LastN(h, n)[i] = h[i + d]
<1>1. CASE Len(h) <= n
  <2>1. LastN(h, n) = h /\ \A i \in DOMAIN h : i + 0 = i
    BY <1>1 DEF LastN
  <2>2. QED
    BY <2>1
<1>2. CASE Len(h) > n
  <2> DEFINE d == Len(h) - n
  <2>1. d \in Nat /\ d + 1 \in 1..(Len(h) + 1) /\ Len(h) \in Nat
    BY <1>2
  <2>2. LastN(h, n) = SubSeq(h, d + 1, Len(h)) /\ \A i \in (d + 1)..Len(h) : h[i] \in Observation
    BY <1>2 DEF LastN
  <2>3. /\ LastN(h, n) \in Seq(Observation)
        /\ Len(LastN(h, n)) = n
        /\ \A i \in 1..n : LastN(h, n)[i] = h[d + i]
    BY <2>1, <2>2, <1>2, SubSeqProperties
  <2>4. \A i \in DOMAIN LastN(h, n) : i + d \in DOMAIN h /\ LastN(h, n)[i] = h[i + d]
    BY <2>1, <2>3
  <2> HIDE DEF d
  <2>5. QED
    BY <2>1, <2>4
<1>3. QED
  BY <1>1, <1>2

LEMMA LastNInOrder ==
    ASSUME NEW h \in Seq(Observation), NEW n \in Nat, NEW c, InOrder(h, c)
    PROVE  InOrder(LastN(h, n), c)
<1>1. PICK d \in Nat : \A i \in DOMAIN LastN(h, n) :
         i + d \in DOMAIN h /\ LastN(h, n)[i] = h[i + d]
  BY LastNShifts
<1>2. DOMAIN LastN(h, n) \subseteq Int
  BY LastNProperties
<1>3. \A i, j \in DOMAIN LastN(h, n) : i < j => i + d < j + d
  BY <1>2
<1>4. QED
  BY <1>1, <1>3 DEF InOrder

\* _record for a challenge the history does not know yet.
LEMMA PushInOrder ==
    ASSUME NEW h \in Seq(Observation), NEW reward \in Int, NEW owner \in Hotkeys,
           NEW c \in Nat, InOrder(h, c)
    PROVE  InOrder(Push(h, reward, c + 1, owner), c + 1)
<1> DEFINE o == [reward |-> Clamp(reward), round |-> c + 1, owner |-> owner]
           a == Append(h, o)
<1>1. o \in Observation /\ o.round = c + 1
  BY DEF Clamp, Observation
<1> HIDE DEF o
<1>2. /\ a \in Seq(Observation) /\ Len(a) = Len(h) + 1 /\ a[Len(h) + 1] = o
      /\ \A i \in DOMAIN h : a[i] = h[i] /\ i <= Len(h)
      /\ DOMAIN h = 1..Len(h) /\ DOMAIN a = 1..(Len(h) + 1) /\ Len(h) \in Nat
  BY <1>1
<1>3. \A i \in DOMAIN h : h[i].round \in Nat
  <2>1. \A i \in DOMAIN h : h[i] \in Observation
    OBVIOUS
  <2>2. QED
    BY <2>1 DEF Observation
<1>4. InOrder(a, c + 1)
  <2> HIDE DEF a
  <2>1. \A i \in DOMAIN a : i = Len(h) + 1 \/ i \in DOMAIN h
    BY <1>2
  <2>2. \A i \in DOMAIN h : a[i].round <= c
    BY <1>2 DEF InOrder
  <2>3. \A i \in DOMAIN a : a[i].round <= c + 1
    BY <1>1, <1>2, <1>3, <2>1, <2>2
  <2>4. ASSUME NEW i \in DOMAIN a, NEW j \in DOMAIN a, i < j
        PROVE  a[i].round < a[j].round \/ a[j].round = 0
    <3>1. i \in DOMAIN h
      BY <1>2, <2>4
    <3>2. CASE j \in DOMAIN h
      BY <1>2, <2>4, <3>1, <3>2 DEF InOrder
    <3>3. CASE j = Len(h) + 1
      BY <1>1, <1>2, <1>3, <2>2, <3>1, <3>3
    <3>4. QED
      BY <2>1, <3>2, <3>3
  <2>5. QED
    BY <2>3, <2>4 DEF InOrder
<1>5. Push(h, reward, c + 1, owner) = LastN(a, MaxSamples) /\ MaxSamples \in Nat
  BY EngineAssumption DEF Push, o
<1> HIDE DEF a
<1>6. QED
  BY <1>2, <1>4, <1>5, LastNInOrder

\* A history in order stays so when more challenges are completed.
LEMMA LaterInOrder ==
    ASSUME NEW h \in Seq(Observation), NEW c \in Nat, InOrder(h, c)
    PROVE  InOrder(h, c + 1)
<1>1. \A i \in DOMAIN h : h[i] \in Observation
  OBVIOUS
<1>2. \A i \in DOMAIN h : h[i].round \in Nat
  BY <1>1 DEF Observation
<1>3. QED
  BY <1>2 DEF InOrder

\* _record on a set of uids: each history gets one observation or none.
LEMMA RecordAllHistories ==
    ASSUME NEW e, e \in Window, NEW S \in SUBSET Uids, NEW pay, NEW round, NEW owner
    PROVE  RecordAll(e, S, pay, round, owner).hist =
              [u \in Uids |-> IF u \in S THEN Push(e.hist[u], pay[u], round, owner[u])
                                         ELSE e.hist[u]]
  BY DEF RecordAll, Window

\* apply_round_scores appends to the histories of the evaluated and of the absent, and
\* no uid is both.
LEMMA ApplyRoundScoresInOrder ==
    ASSUME NEW e, Sound(e), NEW m \in Chain, Tracks(e, m),
           NEW active \in SUBSET Uids, \A u \in active : u < m.size,
           NEW evaluated \in SUBSET active, NEW pay \in [evaluated -> Payments],
           NEW c \in Nat, \A u \in Uids : InOrder(e.hist[u], c)
    PROVE  \A u \in Uids :
              InOrder(ApplyRoundScores(e, evaluated, m.hk, pay, active, m, c + 1).hist[u], c + 1)
<1> DEFINE eligible == {u \in evaluated : u \in active /\ m.hk[u] = m.hk[u]}
           zero == [u \in Uids |-> 0]
           rewards == [u \in Uids |-> IF u \in eligible THEN pay[u] ELSE 0]
           tracked == SetHotkeys(e, eligible, m.hk)
           updated == Update(e, eligible, pay, m.hk, eligible, c + 1)
           absent == {u \in Uids : updated.hist[u] # <<>> /\ u \notin active}
           result == ApplyRoundScores(e, evaluated, m.hk, pay, active, m, c + 1)
<1>1. eligible = evaluated /\ evaluated \in SUBSET Uids
  OBVIOUS
<1>2. m.hk \in [Uids -> Hotkeys] /\ m.size \in 0..MaxUids
  BY DEF Chain
<1>3. tracked = e
  <2>1. \A u \in evaluated : u \in Int /\ u < e.size
    BY <1>1, EngineAssumption DEF Tracks, Uids
  <2>2. EnsureCapacity(e.size, evaluated) = e.size
    BY <2>1, CapacityKept DEF Sound, Window
  <2>3. [u \in Uids |-> IF u \in evaluated THEN m.hk[u] ELSE e.hk[u]] = e.hk
    BY <1>2 DEF Tracks, Sound, Window
  <2>4. QED
    BY <1>1, <2>2, <2>3 DEF SetHotkeys, Sound, Window
<1>4. updated = RecordAll(e, evaluated, rewards, c + 1, m.hk)
  <2>1. evaluated \cup (IF Decay THEN evaluated \ evaluated ELSE {}) = evaluated
    OBVIOUS
  <2>2. QED
    BY <1>1, <1>3, <2>1 DEF Update
<1>5. \A u \in evaluated : rewards[u] \in Int /\ m.hk[u] \in Hotkeys
  <2>1. SUFFICES ASSUME NEW u \in evaluated PROVE rewards[u] \in Int /\ m.hk[u] \in Hotkeys
    OBVIOUS
  <2>2. pay[u] \in Nat /\ u \in Uids
    BY <1>1, WindowAssumption
  <2>3. QED
    BY <1>2, <2>2
<1>6. updated.hist = [u \in Uids |-> IF u \in evaluated
                                     THEN Push(e.hist[u], rewards[u], c + 1, m.hk[u])
                                     ELSE e.hist[u]]
  <2> HIDE DEF rewards
  <2>1. QED
    BY <1>1, <1>4, RecordAllHistories DEF Sound
<1> HIDE DEF updated, rewards, eligible
<1>7. e.hist \in Histories /\ \A u \in Uids : e.hist[u] \in Seq(Observation)
  BY DEF Sound, Window, Histories
<1>8. \A u \in Uids : InOrder(updated.hist[u], c + 1)
  <2> SUFFICES ASSUME NEW u \in Uids PROVE InOrder(updated.hist[u], c + 1)
    OBVIOUS
  <2>1. CASE u \in evaluated
    BY <1>5, <1>6, <1>7, <2>1, PushInOrder
  <2>2. CASE u \notin evaluated
    BY <1>6, <1>7, <2>2, LaterInOrder
  <2>3. QED
    BY <2>1, <2>2
<1>9. result = IF ~Decay THEN updated ELSE RecordAll(updated, absent, zero, c + 1, m.hk)
  BY DEF ApplyRoundScores, RecordNonserving, updated, eligible
<1>10. updated \in Window
  <2>1. \A u \in evaluated : /\ u < e.size
                             /\ rewards[u] \in Int
                             /\ m.hk[u] \in Hotkeys /\ m.hk[u] = e.hk[u]
    BY <1>1, <1>5 DEF Tracks
  <2>2. Sound(updated)
    BY <1>1, <1>4, <2>1, RecordAllSound
  <2>3. QED
    BY <2>2 DEF Sound
<1>11. RecordAll(updated, absent, zero, c + 1, m.hk).hist =
         [u \in Uids |-> IF u \in absent THEN Push(updated.hist[u], zero[u], c + 1, m.hk[u])
                                         ELSE updated.hist[u]]
  <2>1. absent \in SUBSET Uids
    OBVIOUS
  <2> HIDE DEF absent, zero
  <2>2. QED
    BY <1>10, <2>1, RecordAllHistories
<1>12. ASSUME NEW u \in Uids PROVE InOrder(result.hist[u], c + 1)
  <2>1. CASE Decay /\ u \in absent
    <3>1. updated.hist[u] = e.hist[u]
      BY <1>6, <2>1
    <3>2. result.hist[u] = Push(e.hist[u], 0, c + 1, m.hk[u])
      BY <1>9, <1>11, <2>1, <3>1
    <3>3. QED
      BY <1>2, <1>7, <3>2, PushInOrder
  <2>2. CASE ~(Decay /\ u \in absent)
    <3>1. result.hist[u] = updated.hist[u]
      BY <1>9, <1>11, <2>2
    <3>2. QED
      BY <1>8, <3>1
  <2>3. QED
    BY <2>1, <2>2
<1>13. QED
  BY <1>12

LEMMA EmptyInOrder == ASSUME NEW c PROVE InOrder(<<>>, c)
  BY DEF InOrder

\* What a start makes of the file.
LEMMA LoadInOrder ==
    ASSUME NEW n, NEW f, FileOK(f), NEW c \in Nat,
           f \in FileV2 => \A u \in Uids : InOrder(f.hist[u], c)
    PROVE  \A u \in Uids : InOrder(LoadScores(Fresh(n), f).hist[u], c)
<1> SUFFICES ASSUME NEW u \in Uids PROVE InOrder(LoadScores(Fresh(n), f).hist[u], c)
  OBVIOUS
<1>1. CASE f = NoFile
  BY <1>1, EmptyInOrder DEF LoadScores, Fresh
<1>2. CASE f \in FileV1 /\ f # NoFile /\ Accepts(f)
  <2>1. f.version = 1 /\ AcceptsV1(f)
    BY <1>2 DEF FileV1, Accepts
  <2>2. LoadScores(Fresh(n), f).hist[u] = LastN(Migrated(f)[u], MaxSamples)
    BY <1>2, <2>1 DEF LoadScores, Restore
  <2>3. Migrated(f)[u] \in Seq(Observation) /\ MaxSamples \in Nat
    BY <1>2, <2>1, MigratedProperties, EngineAssumption DEF Histories
  <2>4. \A i \in DOMAIN Migrated(f)[u] : Migrated(f)[u][i].round = 0
    BY DEF Migrated
  <2>5. InOrder(Migrated(f)[u], c)
    BY <2>4 DEF InOrder
  <2>6. QED
    BY <2>2, <2>3, <2>5, LastNInOrder
<1>3. CASE f \in FileV2 /\ f # NoFile /\ Accepts(f)
  <2>1. f.version = 2 /\ f.hist[u] \in Seq(Observation) /\ MaxSamples \in Nat
    BY <1>3, EngineAssumption DEF FileV2
  <2>2. LoadScores(Fresh(n), f).hist[u] = LastN(f.hist[u], MaxSamples)
    BY <1>3, <2>1 DEF LoadScores, Restore
  <2>3. QED
    BY <1>3, <2>1, <2>2, LastNInOrder
<1>4. QED
  BY <1>1, <1>2, <1>3 DEF FileOK

\* resize and sync keep a history or forget it.
LEMMA SyncedHistories ==
    ASSUME NEW e, Sound(e), NEW m \in Chain, NEW u \in Uids
    PROVE  Sync(Resize(e, m.size), m).hist[u] \in {<<>>, e.hist[u]}
<1>1. Resize(e, m.size).hist[u] \in {<<>>, e.hist[u]}
  BY DEF Resize, Sound, Window
<1>2. QED
  BY <1>1 DEF Sync

LEMMA InitOrder == Init => OrderInv
<1> SUFFICES ASSUME Init PROVE OrderInv
  OBVIOUS
<1>1. \A u \in Uids : InOrder(eng.hist[u], challenge)
  BY EmptyInOrder DEF Init, Fresh
<1>2. ASSUME file \in FileV2, NEW u \in Uids PROVE InOrder(file.hist[u], challenge)
  <2>1. file \in InitialFiles /\ file.version = 2
    BY <1>2, WindowAssumption DEF Init, FileV2
  <2>2. \A i \in DOMAIN file.hist[u] : file.hist[u][i].round = 0
    BY <2>1, WindowAssumption
  <2>3. QED
    BY <2>2 DEF Init, InOrder
<1>3. QED
  BY <1>1, <1>2 DEF OrderInv

LEMMA NextOrder == Inv /\ OrderInv /\ [Next]_vars => OrderInv'
<1> SUFFICES ASSUME Inv, OrderInv, [Next]_vars PROVE OrderInv'
  OBVIOUS
<1>1. CASE ChainReplace \/ ChainGrow \/ ChainTrim
  <2>1. UNCHANGED <<eng, file, challenge>>
    BY <1>1 DEF ChainReplace, ChainGrow, ChainTrim, Turnover
  <2>2. QED
    BY <2>1 DEF OrderInv
<1>2. CASE Start
  <2>1. challenge \in Nat /\ challenge' = challenge /\ FileOK(file)
    BY <1>2 DEF Start, Inv, TypeOK
  <2>2. \A u \in Uids : InOrder(eng'.hist[u], challenge)
    BY <1>2, <2>1, LoadInOrder DEF Start, OrderInv
  <2>3. file' = file \/ file'.hist = eng'.hist
    BY <1>2 DEF Start, Snapshot
  <2>4. QED
    BY <2>1, <2>2, <2>3 DEF OrderInv
<1>3. CASE StartUnreadable \/ Crash
  <2>1. file' = file /\ challenge' = challenge /\ \A u \in Uids : eng'.hist[u] = <<>>
    BY <1>3 DEF StartUnreadable, Crash, Fresh
  <2>2. QED
    BY <2>1, EmptyInOrder DEF OrderInv
<1>4. CASE RoundStart
  <2>1. /\ file' = file /\ challenge' = challenge /\ chain \in Chain
        /\ eng' = Sync(Resize(eng, chain.size), chain) /\ Sound(eng)
    BY <1>4 DEF RoundStart, Inv, TypeOK
  <2>2. \A u \in Uids : eng'.hist[u] \in {<<>>, eng.hist[u]}
    BY <2>1, SyncedHistories
  <2>3. QED
    BY <2>1, <2>2, EmptyInOrder DEF OrderInv
<1>5. CASE RoundCompleted
  <2>1. challenge \in Nat /\ challenge' = challenge + 1 /\ file' = file
    BY <1>5 DEF RoundCompleted, Inv, TypeOK
  <2>2. /\ meta \in Chain /\ Tracks(eng, meta) /\ Sound(eng)
        /\ live \in SUBSET Uids /\ pool \in SUBSET live /\ \A u \in live : u < meta.size
    BY <1>5 DEF Inv, InStep, TypeOK, RoundCompleted
  <2>3. PICK pay \in [pool -> Payments] :
          eng' = ApplyRoundScores(eng, pool, meta.hk, pay, live, meta, challenge + 1)
    BY <1>5 DEF RoundCompleted
  <2>4. \A u \in Uids : InOrder(eng'.hist[u], challenge + 1)
    BY <2>1, <2>2, <2>3, ApplyRoundScoresInOrder DEF OrderInv
  <2>5. file \in FileV2 => \A u \in Uids : InOrder(file.hist[u], challenge + 1)
    <3> SUFFICES ASSUME file \in FileV2, NEW u \in Uids PROVE InOrder(file.hist[u], challenge + 1)
      OBVIOUS
    <3>1. file.hist[u] \in Seq(Observation)
      BY DEF FileV2
    <3>2. QED
      BY <2>1, <3>1, LaterInOrder DEF OrderInv
  <2>6. QED
    BY <2>1, <2>4, <2>5 DEF OrderInv
<1>6. CASE RoundNotCompleted \/ TellMiners \/ SubmitWeights
  <2>1. UNCHANGED <<eng, file, challenge>>
    BY <1>6 DEF RoundNotCompleted, TellMiners, SubmitWeights
  <2>2. QED
    BY <2>1 DEF OrderInv
<1>7. CASE SaveScores
  <2>1. eng' = eng /\ challenge' = challenge /\ (file' = file \/ file'.hist = eng.hist)
    BY <1>7 DEF SaveScores, Snapshot
  <2>2. QED
    BY <2>1 DEF OrderInv
<1>8. CASE UNCHANGED vars
  BY <1>8 DEF vars, OrderInv
<1>9. QED
  BY <1>1, <1>2, <1>3, <1>4, <1>5, <1>6, <1>7, <1>8 DEF Next

\* "every uid advances by at most one history slot per challenge" (record_nonserving):
\* for any number of uids, challenges, crashes and restarts, no history has two
\* observations of one challenge, and they are in the order of the challenges.
THEOREM OneSlotEach == Spec => []OneSlotPerChallenge
<1>1. OrderInv => OneSlotPerChallenge
  BY DEF OrderInv, InOrder, OneSlotPerChallenge
<1>2. QED
  BY <1>1, Invariance, InitOrder, NextOrder, PTL DEF Spec

\* Only completing a challenge adds an observation: neither an abandoned round, a sync, a
\* save, a weight submission nor a crash makes a history newer (round_callback).
THEOREM OnlyCompletionAdvances == Spec => OnlyCompletedAdvances
<1>1. Inv /\ [Next]_vars =>
        [(\E u \in Uids : Newest(eng'.hist[u]) > Newest(eng.hist[u]))
           => challenge' = challenge + 1 \/ phase = "down"]_vars
  <2> SUFFICES ASSUME Inv, [Next]_vars, phase # "down",
                      NEW u \in Uids, Newest(eng'.hist[u]) > Newest(eng.hist[u])
               PROVE  challenge' = challenge + 1
    OBVIOUS
  <2>1. Newest(eng.hist[u]) \in Nat
    <3>1. eng.hist[u] \in Seq(Observation)
      BY DEF Inv, TypeOK
    <3>2. eng.hist[u] # <<>> => eng.hist[u][Len(eng.hist[u])] \in Observation
      BY <3>1
    <3>3. QED
      BY <3>2 DEF Newest, Observation
  <2>2. eng'.hist[u] # <<>> /\ eng'.hist[u] # eng.hist[u]
    BY <2>1 DEF Newest
  <2>3. CASE RoundStart
    BY <2>2, <2>3, SyncedHistories DEF RoundStart, Inv, TypeOK
  <2>4. CASE RoundCompleted
    BY <2>4 DEF RoundCompleted
  <2>5. CASE Crash
    BY <2>2, <2>5 DEF Crash, Fresh
  <2>6. CASE Start \/ StartUnreadable
    BY <2>6 DEF Start, StartUnreadable
  <2>7. CASE eng' = eng
    BY <2>2, <2>7
  <2>8. QED
    BY <2>3, <2>4, <2>5, <2>6, <2>7 DEF Next, vars, ChainReplace, ChainGrow, ChainTrim, Turnover,
       RoundNotCompleted, SaveScores, TellMiners, SubmitWeights
<1>2. QED
  BY <1>1, Invariance, PTL DEF Spec, OnlyCompletedAdvances
=============================================================================
