-------------------------- MODULE MinerPartsProofs --------------------------
(***************************************************************************)
(* The parts of MinerParts for every value of their constants: the upload  *)
(* of a result, the nonces of requests, the calls, tasks and notices of    *)
(* the HTTP surface, a solve and its trajectory, and the pages of a        *)
(* workspace.                                                              *)
(***************************************************************************)
EXTENDS MinerParts, Subsequences, SequenceTheorems, FiniteSetTheorems, WellFoundedInduction,
        TLAPS

\* What the others do leaves a part alone.
LEMMA NoncesMove == [Next]_vars => [Nonces!Next]_nonceVars
  BY DEF Next, vars, Only

LEMMA UploadMoves == [Next]_vars => [Upload!Next]_uploadVars
  BY DEF Next, vars, Only
-----------------------------------------------------------------------------
(***************************************************************************)
(* The upload of a result.                                                 *)
(***************************************************************************)
\* An object is there only because this upload put it there: before its first
\* unclear attempt the slot is empty.
OwnObject ==
    /\ uSlot = 2 => uStored[1]
    /\ uSlot = 1 => ~uStored[2]
    /\ uPc \in {"put", "sleep"} /\ uStored[uSlot] => uAmbiguous

\* What an answer on its way says of the slot.
AnswerTells ==
    uPc = "sent" =>
        /\ uAnswer \in {200, 201, 409, 412} => uStored[uSlot]
        /\ uAnswer \in {409, 412} => uAmbiguous

\* An upload that pauses has an attempt left, and one that goes on has failed nothing.
OutcomeTells ==
    /\ uPc = "sleep" => uAttempt < Attempts - 1
    /\ uPc # "done" => uOutcome = "none"
    /\ uOutcome = "returned" => uSlot = 2 /\ uStored[2]

UploadInv ==
    /\ Upload!UploadAssumption
    /\ Upload!TypeOK
    /\ OwnObject
    /\ AnswerTells
    /\ OutcomeTells
    /\ Upload!LostAnswerHarmless

LEMMA InitUpload == Init => UploadInv
<1> SUFFICES ASSUME Upload!UploadAssumption, Upload!Init PROVE UploadInv
  BY PartsAssumption DEF Init
<1>1. Upload!TypeOK
  <2>1. uStored \in [1..2 -> BOOLEAN] /\ uAmbiguous \in BOOLEAN
    BY DEF Upload!Init
  <2>2. uAttempt \in 0..Attempts - 1
    BY DEF Upload!UploadAssumption, Upload!Init
  <2>3. QED
    BY <2>1, <2>2 DEF Upload!Init, Upload!TypeOK
<1>2. OwnObject /\ AnswerTells /\ OutcomeTells /\ Upload!LostAnswerHarmless
  BY DEF Upload!Init, OwnObject, AnswerTells, OutcomeTells, Upload!LostAnswerHarmless
<1>3. QED
  BY <1>1, <1>2 DEF UploadInv

LEMMA NextUpload == UploadInv /\ [Next]_vars => UploadInv'
<1> SUFFICES ASSUME UploadInv, [Upload!Next]_uploadVars PROVE UploadInv'
  BY UploadMoves
<1> USE DEF UploadInv, Upload!UploadAssumption, Upload!TypeOK
<1>1. CASE Upload!Refuse
  BY <1>1 DEF OwnObject, AnswerTells, OutcomeTells, Upload!LostAnswerHarmless, Upload!Refuse
<1>2. CASE Upload!Put
  <2>1. Upload!TypeOK'
    <3>1. uStored' \in [1..2 -> BOOLEAN]
      <4>1. uStored' = [uStored EXCEPT ![uSlot] = TRUE] \/ uStored' = uStored
        BY <1>2 DEF Upload!Put
      <4>2. [uStored EXCEPT ![uSlot] = TRUE] \in [1..2 -> BOOLEAN]
        OBVIOUS
      <4>3. uStored \in [1..2 -> BOOLEAN]
        OBVIOUS
      <4> HIDE DEF UploadInv, Upload!TypeOK
      <4> DEFINE Slots == [1..2 -> BOOLEAN]
      <4>4. uStored' \in Slots
        <5> HIDE DEF Slots
        <5>1. [uStored EXCEPT ![uSlot] = TRUE] \in Slots /\ uStored \in Slots
          BY <4>2, <4>3 DEF Slots
        <5>2. QED
          BY <4>1, <5>1
      <4>5. QED
        BY <4>4
    <3>2. uAnswer' \in {0, 200, 201, 403, 409, 412, 503}
      BY <1>2 DEF Upload!Put
    <3>3. /\ uSlot' = uSlot /\ uAttempt' = uAttempt /\ uAmbiguous' = uAmbiguous
          /\ uOutcome' = uOutcome /\ uPc = "put" /\ uPc' = "sent"
      BY <1>2 DEF Upload!Put
    <3>4. QED
      BY <3>1, <3>2, <3>3
  <2>2. OwnObject'
    BY <1>2 DEF Upload!Put, OwnObject
  <2>3. AnswerTells'
    BY <1>2 DEF Upload!Put, OwnObject, AnswerTells
  <2>4. OutcomeTells' /\ Upload!LostAnswerHarmless'
    BY <1>2 DEF Upload!Put, OutcomeTells, Upload!LostAnswerHarmless
  <2>5. QED
    BY <2>1, <2>2, <2>3, <2>4
<1>3. CASE Upload!TakeAnswer
  <2>1. CASE Upload!Created /\ uSlot = 1 /\ Upload!NextSlot
    <3>1. Upload!TypeOK'
      <4>1. /\ uSlot' = 2 /\ uPc' = "put" /\ uAttempt' = 0 /\ uAmbiguous' = FALSE
            /\ uStored' = uStored /\ uAnswer' = uAnswer /\ uOutcome' = uOutcome
        BY <1>3, <2>1 DEF Upload!TakeAnswer, Upload!NextSlot
      <4>2. 0 \in 0..Attempts - 1
        OBVIOUS
      <4>3. uAmbiguous' \in BOOLEAN
        BY <4>1
      <4>4. ~uAmbiguous'
        BY <4>1
      <4>5. QED
        BY <4>1, <4>2, <4>3, <4>4
    <3>2. OwnObject'
      BY <1>3, <2>1 DEF Upload!TakeAnswer, Upload!NextSlot, OwnObject, AnswerTells, Upload!Created
    <3>3. AnswerTells' /\ OutcomeTells' /\ Upload!LostAnswerHarmless'
      BY <1>3, <2>1
      DEF Upload!TakeAnswer, Upload!NextSlot, AnswerTells, OutcomeTells,
          Upload!LostAnswerHarmless
    <3>4. QED
      BY <3>1, <3>2, <3>3
  <2>2. CASE Upload!Created /\ uSlot = 2 /\ Upload!Stop("returned")
    BY <1>3, <2>2 DEF OwnObject, AnswerTells, OutcomeTells, Upload!LostAnswerHarmless,
                      Upload!TakeAnswer, Upload!Created, Upload!Stop
  <2>3. CASE /\ Upload!Unclear /\ uAttempt < Attempts - 1
             /\ uAmbiguous' = TRUE /\ uPc' = "sleep"
             /\ UNCHANGED <<uSlot, uAttempt, uOutcome>>
    BY <1>3, <2>3
    DEF OwnObject, AnswerTells, OutcomeTells, Upload!LostAnswerHarmless, Upload!TakeAnswer
  <2>4. CASE /\ Upload!Unclear /\ uAttempt = Attempts - 1
             /\ Upload!Stop(IF uAnswer = 0 THEN "failed" ELSE "rejected")
    BY <1>3, <2>4 DEF OwnObject, AnswerTells, OutcomeTells, Upload!LostAnswerHarmless,
                      Upload!TakeAnswer, Upload!Unclear, Upload!Stop
  <2>5. CASE ~Upload!Created /\ ~Upload!Unclear /\ Upload!Stop("rejected")
    BY <1>3, <2>5 DEF OwnObject, AnswerTells, OutcomeTells, Upload!LostAnswerHarmless,
                      Upload!TakeAnswer, Upload!Created, Upload!Unclear, Upload!Stop
  <2>6. QED
    BY <1>3, <2>1, <2>2, <2>3, <2>4, <2>5 DEF Upload!TakeAnswer
<1>4. CASE Upload!Again
  BY <1>4 DEF OwnObject, AnswerTells, OutcomeTells, Upload!LostAnswerHarmless, Upload!Again
<1>5. CASE Upload!LateArrival
  BY <1>5 DEF OwnObject, AnswerTells, OutcomeTells, Upload!LostAnswerHarmless, Upload!LateArrival
<1>6. CASE UNCHANGED uploadVars
  BY <1>6 DEF OwnObject, AnswerTells, OutcomeTells, Upload!LostAnswerHarmless, uploadVars
<1>7. QED
  BY <1>1, <1>2, <1>3, <1>4, <1>5, <1>6 DEF Upload!Next

\* For any number of attempts, lost answers and late arrivals: the state is well typed,
\* a response names objects that were created, and no upload is refused because of an
\* object that it created itself (upload_miner_result, upload_artifact).
THEOREM UploadIsSound == Spec => []UploadSound
<1>1. UploadInv => UploadSound
  BY DEF UploadInv, UploadSound, Upload!UploadSound, Upload!ReturnedIsStored,
         Upload!TypeOK, OwnObject, OutcomeTells
<1>2. QED
  BY <1>1, InitUpload, NextUpload, PTL DEF Spec
-----------------------------------------------------------------------------
(***************************************************************************)
(* The nonces of requests.                                                 *)
(***************************************************************************)
Entries == [uuid : Uuids, at : Nat]

Types ==
    /\ nNow \in Nat
    /\ DOMAIN nStamp \subseteq Uuids /\ \A u \in DOMAIN nStamp : nStamp[u] \in Nat
    /\ nSeen \in Seq(Entries)
    /\ nHandled \in [Uuids -> SUBSET Nat]

\* A request whose signature was verified was fresh a moment ago.
VerifiedIsFresh ==
    \/ Nonces!Idle
    \/ /\ nHandler.uuid \in DOMAIN nStamp /\ nHandler.verified \in Nat
       /\ nHandler.verified <= nNow /\ nNow <= nHandler.verified + MaxGap
       /\ nHandler.verified <= nStamp[nHandler.uuid] + Delta

\* A request that was let through is remembered until its window is over.
InSeen(u, t) == \E i \in DOMAIN nSeen : nSeen[i].uuid = u /\ nSeen[i].at = t
HandledIsRemembered ==
    \A u \in Uuids : \A t \in nHandled[u] :
        /\ u \in DOMAIN nStamp
        /\ t <= nNow
        /\ InSeen(u, t) \/ t + Delta < nNow

NoncesInv ==
    /\ Nonces!NonceCacheAssumption
    /\ Types /\ VerifiedIsFresh /\ HandledIsRemembered /\ Nonces!ReplayedOnlyAhead
-----------------------------------------------------------------------------
LEMMA LeastNatural ==
    ASSUME NEW T, T \subseteq Nat, T # {}
    PROVE  \E x \in T : \A y \in T : x <= y
<1>1. PICK x \in T : \A y \in T : ~(<<y, x>> \in OpToRel(<, Nat))
  BY WFMin, NatLessThanWellFounded
<1>2. \A y \in T : x <= y
  <2> SUFFICES ASSUME NEW y \in T, y < x PROVE FALSE
    OBVIOUS
  <2>1. <<y, x>> \in Nat \X Nat /\ <<y, x>>[1] = y /\ <<y, x>>[2] = x
    OBVIOUS
  <2>2. <<y, x>> \in {ss \in Nat \X Nat : ss[1] < ss[2]}
    BY <2>1
  <2>3. <<y, x>> \in OpToRel(<, Nat)
    BY <2>2 DEF OpToRel
  <2>4. QED
    BY <1>1, <2>3
<1>3. QED
  BY <1>2

\* _prune stops at the first entry that is recent enough.
LEMMA FirstFreshIsFirst ==
    ASSUME Types
    PROVE  /\ Nonces!FirstFresh \in 1..Len(nSeen) + 1
           /\ \A i \in 1..Nonces!FirstFresh - 1 : Nonces!Stale(nSeen[i])
           /\ Nonces!FirstFresh <= Len(nSeen) => ~Nonces!Stale(nSeen[Nonces!FirstFresh])
<1> DEFINE T == {k \in 1..Len(nSeen) + 1 : k <= Len(nSeen) => ~Nonces!Stale(nSeen[k])}
<1>1. Len(nSeen) \in Nat
  BY DEF Types
<1>2. T \subseteq Nat /\ T # {}
  <2>1. Len(nSeen) + 1 \in T
    BY <1>1
  <2>2. QED
    BY <1>1, <2>1
<1>3. PICK k \in T : \A y \in T : k <= y
  BY <1>2, LeastNatural
<1>4. \A i \in 1..k - 1 : Nonces!Stale(nSeen[i])
  BY <1>1, <1>3
<1> DEFINE First(n) == /\ \A i \in 1..n - 1 : Nonces!Stale(nSeen[i])
                       /\ n <= Len(nSeen) => ~Nonces!Stale(nSeen[n])
           top == Len(nSeen) + 1
<1>5. Nonces!FirstFresh = CHOOSE n \in 1..top : First(n)
  BY DEF Nonces!FirstFresh
<1>6. k \in 1..top /\ First(k)
  BY <1>3, <1>4
<1>7. Nonces!FirstFresh \in 1..top /\ First(Nonces!FirstFresh)
  <2> HIDE DEF First, top
  <2>1. QED
    BY <1>5, <1>6
<1>8. QED
  BY <1>7

\* What is pruned is stale, and nothing is added.
LEMMA PruneKeepsFresh ==
    ASSUME Types
    PROVE  /\ Nonces!Prune \in Seq(Entries)
           /\ \A i \in DOMAIN nSeen :
                \/ Nonces!Stale(nSeen[i])
                \/ \E j \in DOMAIN Nonces!Prune : Nonces!Prune[j] = nSeen[i]
<1> DEFINE k == Nonces!FirstFresh
           n == Len(nSeen)
<1>1. n \in Nat /\ k \in 1..n + 1 /\ \A i \in 1..k - 1 : Nonces!Stale(nSeen[i])
  BY FirstFreshIsFirst DEF Types
<1>2. \A i \in k..n : nSeen[i] \in Entries
  BY <1>1 DEF Types
<1> HIDE DEF k, n
<1>3. /\ SubSeq(nSeen, k, n) \in Seq(Entries)
      /\ Len(SubSeq(nSeen, k, n)) = IF k <= n THEN n - k + 1 ELSE 0
      /\ \A i \in 1..n - k + 1 : SubSeq(nSeen, k, n)[i] = nSeen[k + i - 1]
  BY <1>1, <1>2, SubSeqProperties
<1>4. ASSUME NEW i \in DOMAIN nSeen, ~Nonces!Stale(nSeen[i])
      PROVE  \E j \in DOMAIN SubSeq(nSeen, k, n) : SubSeq(nSeen, k, n)[j] = nSeen[i]
  <2>1. i \in 1..n /\ i >= k
    BY <1>1, <1>4 DEF n, Types
  <2>2. i - k + 1 \in 1..n - k + 1 /\ i - k + 1 \in DOMAIN SubSeq(nSeen, k, n)
    BY <1>1, <1>3, <2>1
  <2>3. SubSeq(nSeen, k, n)[i - k + 1] = nSeen[k + (i - k + 1) - 1]
    BY <1>3, <2>2
  <2>4. k + (i - k + 1) - 1 = i
    BY <1>1, <2>1
  <2>5. QED
    BY <2>2, <2>3, <2>4
<1>5. QED
  BY <1>3, <1>4 DEF Nonces!Prune, k, n
-----------------------------------------------------------------------------
LEMMA InitNonces == Init => NoncesInv
<1> SUFFICES ASSUME Nonces!NonceCacheAssumption, Nonces!Init PROVE NoncesInv
  BY PartsAssumption DEF Init
<1>1. Types
  BY DEF Nonces!Init, Types
<1>2. VerifiedIsFresh
  BY DEF Nonces!Init, VerifiedIsFresh, Nonces!Idle
<1>3. HandledIsRemembered /\ Nonces!ReplayedOnlyAhead
  BY DEF Nonces!Init, HandledIsRemembered, Nonces!ReplayedOnlyAhead
<1>4. QED
  BY <1>1, <1>2, <1>3 DEF NoncesInv

LEMMA SignInv ==
    ASSUME NoncesInv, NEW u \in Uuids, NEW t \in 0..LastNonceTick, Nonces!Sign(u, t)
    PROVE  NoncesInv'
<1> USE DEF NoncesInv, Nonces!Sign, Nonces!NonceCacheAssumption
<1>1. DOMAIN nStamp' = DOMAIN nStamp \cup {u} /\ \A v \in DOMAIN nStamp : nStamp'[v] = nStamp[v]
  OBVIOUS
<1>2. Types'
  BY <1>1 DEF Types
<1>3. VerifiedIsFresh'
  BY <1>1 DEF VerifiedIsFresh, Nonces!Idle, Types
<1>4. HandledIsRemembered'
  BY <1>1 DEF HandledIsRemembered, InSeen, Types
<1>5. Nonces!ReplayedOnlyAhead'
  BY <1>1 DEF Nonces!ReplayedOnlyAhead, HandledIsRemembered
<1>6. QED
  BY <1>2, <1>3, <1>4, <1>5

LEMMA VerifyInv == ASSUME NoncesInv, NEW u \in Uuids, Nonces!Verify(u) PROVE NoncesInv'
<1> USE DEF NoncesInv, Nonces!Verify, Nonces!NonceCacheAssumption
<1>1. Types' /\ HandledIsRemembered' /\ Nonces!ReplayedOnlyAhead'
  BY DEF Types, HandledIsRemembered, InSeen, Nonces!ReplayedOnlyAhead
<1>2. VerifiedIsFresh'
  BY DEF VerifiedIsFresh, Nonces!Fresh, Types
<1>3. QED
  BY <1>1, <1>2

LEMMA TickInv == ASSUME NoncesInv, Nonces!Tick PROVE NoncesInv'
<1> USE DEF NoncesInv, Nonces!Tick, Nonces!NonceCacheAssumption
<1>1. Types' /\ Nonces!ReplayedOnlyAhead'
  BY DEF Types, Nonces!ReplayedOnlyAhead
<1>2. HandledIsRemembered'
  BY DEF Types, HandledIsRemembered, InSeen
<1>3. VerifiedIsFresh'
  BY DEF VerifiedIsFresh, Nonces!Idle, Types
<1>4. QED
  BY <1>1, <1>2, <1>3

\* What was remembered is remembered after pruning, or its window is over.
LEMMA RememberedAfterPrune ==
    ASSUME NoncesInv, NEW u \in Uuids, NEW t \in nHandled[u]
    PROVE  \/ \E j \in DOMAIN Nonces!Prune : Nonces!Prune[j].uuid = u /\ Nonces!Prune[j].at = t
           \/ t + Delta < nNow
<1>1. CASE InSeen(u, t)
  <2>1. PICK i \in DOMAIN nSeen : nSeen[i].uuid = u /\ nSeen[i].at = t
    BY <1>1 DEF InSeen
  <2>2. t \in Nat /\ nNow \in Nat
    BY DEF NoncesInv, Types
  <2>3. CASE Nonces!Stale(nSeen[i])
    BY <2>1, <2>2, <2>3 DEF Nonces!Stale, NoncesInv, Nonces!NonceCacheAssumption
  <2>4. CASE ~Nonces!Stale(nSeen[i])
    BY <2>1, <2>4, PruneKeepsFresh DEF NoncesInv
  <2>5. QED
    BY <2>3, <2>4
<1>2. CASE ~InSeen(u, t)
  BY <1>2 DEF NoncesInv, HandledIsRemembered
<1>3. QED
  BY <1>1, <1>2

\* What the cache does not know was let through more than a window ago, if ever.
LEMMA UnknownIsOver ==
    ASSUME NoncesInv, NEW u \in Uuids, ~Nonces!Known(u), NEW t \in nHandled[u]
    PROVE  t + Delta < nNow
BY RememberedAfterPrune DEF Nonces!Known

LEMMA CheckAndAddInv == ASSUME NoncesInv, Nonces!CheckAndAdd PROVE NoncesInv'
<1> DEFINE u == nHandler.uuid
           new == ~Nonces!Known(u) /\ ~Nonces!Full
           entry == [uuid |-> u, at |-> nNow]
<1>1. u \in Uuids /\ u \in DOMAIN nStamp /\ nNow \in Nat
  BY DEF NoncesInv, VerifiedIsFresh, Types, Nonces!CheckAndAdd
<1>2. Nonces!Prune \in Seq(Entries) /\ entry \in Entries
  BY <1>1, PruneKeepsFresh DEF NoncesInv, Entries
<1>3. /\ nNow' = nNow /\ nStamp' = nStamp /\ nHandler' = Nonces!NoHandler
      /\ nSeen' = IF new THEN Append(Nonces!Prune, entry) ELSE Nonces!Prune
      /\ nHandled' = IF new THEN [nHandled EXCEPT ![u] = nHandled[u] \union {nNow}] ELSE nHandled
  BY DEF Nonces!CheckAndAdd
<1>4. Nonces!NonceCacheAssumption' /\ VerifiedIsFresh'
  BY <1>3
  DEF NoncesInv, Nonces!NonceCacheAssumption, VerifiedIsFresh, Nonces!Idle, Nonces!NoHandler
<1>5. \A j \in DOMAIN Nonces!Prune : j \in DOMAIN nSeen' /\ nSeen'[j] = Nonces!Prune[j]
  BY <1>2, <1>3
<1>6. new => \E j \in DOMAIN nSeen' : nSeen'[j] = entry
  <2>1. new => Len(Nonces!Prune) + 1 \in DOMAIN nSeen' /\ nSeen'[Len(Nonces!Prune) + 1] = entry
    BY <1>2, <1>3
  <2>2. QED
    BY <2>1
<1>7. new => \A t \in nHandled[u] : t + Delta < nNow
  BY <1>1, UnknownIsOver
<1>8. \A v \in Uuids :
        nHandled'[v] = IF new /\ v = u THEN nHandled[v] \union {nNow} ELSE nHandled[v]
  BY <1>1, <1>3 DEF NoncesInv, Types
<1>9. Types'
  <2>1. nSeen' \in Seq(Entries)
    BY <1>2, <1>3
  <2>2. nHandled' \in [Uuids -> SUBSET Nat]
    BY <1>1, <1>3 DEF NoncesInv, Types
  <2>3. QED
    BY <1>3, <2>1, <2>2 DEF NoncesInv, Types
<1>10. Nonces!ReplayedOnlyAhead'
  <2> SUFFICES ASSUME NEW v \in Uuids, NEW s \in nHandled'[v], NEW t \in nHandled'[v], s < t
               PROVE  s + Delta < t /\ s < nStamp[v] + MaxGap
    BY <1>3 DEF Nonces!ReplayedOnlyAhead
  <2>1. CASE s \in nHandled[v] /\ t \in nHandled[v]
    BY <2>1 DEF NoncesInv, Nonces!ReplayedOnlyAhead
  <2>2. CASE ~(s \in nHandled[v] /\ t \in nHandled[v])
    <3>1. new /\ v = u
      BY <1>8, <2>2
    <3>2. \A x \in nHandled[u] : x <= nNow /\ x \in Nat
      BY <1>1 DEF NoncesInv, Types, HandledIsRemembered
    <3>3. s \in nHandled[u] /\ t = nNow
      <4>1. (s \in nHandled[u] \/ s = nNow) /\ (t \in nHandled[u] \/ t = nNow)
        BY <1>8, <3>1
      <4>2. s # nNow
        BY <1>1, <3>2, <4>1
      <4>3. QED
        BY <2>2, <3>1, <4>1, <4>2
    <3>4. s + Delta < nNow
      BY <1>7, <3>1, <3>3
    <3>5. /\ nNow <= nHandler.verified + MaxGap /\ nHandler.verified <= nStamp[u] + Delta
          /\ nHandler.verified \in Nat /\ nStamp[u] \in Nat
      BY <1>1 DEF NoncesInv, VerifiedIsFresh, Types, Nonces!CheckAndAdd
    <3>6. Delta \in Nat /\ MaxGap \in Nat /\ s \in Nat
      BY <3>2, <3>3 DEF NoncesInv, Nonces!NonceCacheAssumption
    <3>7. QED
      BY <1>1, <3>1, <3>3, <3>4, <3>5, <3>6
  <2>3. QED
    BY <2>1, <2>2
<1>11. HandledIsRemembered'
  <2> SUFFICES ASSUME NEW v \in Uuids, NEW t \in nHandled'[v]
               PROVE  /\ v \in DOMAIN nStamp /\ t <= nNow
                      /\ InSeen(v, t)' \/ t + Delta < nNow
    BY <1>3 DEF HandledIsRemembered
  <2>1. CASE new /\ v = u /\ t = nNow
    <3>1. PICK j \in DOMAIN nSeen' : nSeen'[j] = entry
      BY <1>6, <2>1
    <3>2. nSeen'[j].uuid = v /\ nSeen'[j].at = t
      BY <2>1, <3>1
    <3>3. InSeen(v, t)'
      BY <3>2 DEF InSeen
    <3>4. QED
      BY <1>1, <2>1, <3>3
  <2>2. CASE ~(new /\ v = u /\ t = nNow)
    <3>1. t \in nHandled[v]
      BY <1>8, <2>2
    <3>2. v \in DOMAIN nStamp /\ t <= nNow
      BY <3>1 DEF NoncesInv, HandledIsRemembered
    <3>3. InSeen(v, t)' \/ t + Delta < nNow
      BY <1>5, <3>1, RememberedAfterPrune DEF InSeen
    <3>4. QED
      BY <3>2, <3>3
  <2>3. QED
    BY <2>1, <2>2
<1>12. QED
  BY <1>4, <1>9, <1>10, <1>11 DEF NoncesInv

LEMMA NextNonces == NoncesInv /\ [Next]_vars => NoncesInv'
<1> SUFFICES ASSUME NoncesInv, [Nonces!Next]_nonceVars PROVE NoncesInv'
  BY NoncesMove
<1>1. CASE UNCHANGED nonceVars
  BY <1>1
  DEF nonceVars, NoncesInv, Nonces!NonceCacheAssumption, Types, VerifiedIsFresh,
      Nonces!Idle, HandledIsRemembered, InSeen, Nonces!ReplayedOnlyAhead
<1>2. QED
  BY <1>1, SignInv, VerifyInv, CheckAndAddInv, TickInv DEF Nonces!Next

\* Beyond that a request is let through in the past, and only finitely many are.
Passed == {u \in Uuids : nHandled[u] # {}}
CacheInv ==
    /\ NoncesInv /\ Nonces!TypeOK
    /\ \A u \in Uuids : \A t \in nHandled[u] : t <= nNow
    /\ IsFiniteSet(Passed)

\* What is left after pruning is a part of the cache, in its order, and recent.
LEMMA PrunedEntries ==
    ASSUME CacheInv
    PROVE  /\ Len(Nonces!Prune) \in Nat /\ Len(Nonces!Prune) <= Len(nSeen)
           /\ DOMAIN Nonces!Prune = 1..Len(Nonces!Prune)
           /\ \E d \in Nat : \A i \in 1..Len(Nonces!Prune) :
                /\ i + d \in DOMAIN nSeen /\ Nonces!Prune[i] = nSeen[i + d]
                /\ ~Nonces!Stale(Nonces!Prune[i])
<1> DEFINE k == Nonces!FirstFresh
           n == Len(nSeen)
<1>1. /\ n \in Nat /\ k \in 1..n + 1
      /\ k <= n => ~Nonces!Stale(nSeen[k])
  BY FirstFreshIsFirst DEF CacheInv, NoncesInv, Types
<1>2. \A i \in k..n : nSeen[i] \in Entries /\ i \in DOMAIN nSeen
  BY <1>1 DEF CacheInv, NoncesInv, Types
<1>3. \A i \in k..n : ~Nonces!Stale(nSeen[i])
  <2> SUFFICES ASSUME NEW i \in k..n PROVE ~Nonces!Stale(nSeen[i])
    OBVIOUS
  <2>1. nSeen[k].at <= nSeen[i].at
    <3>1. CASE i = k
      BY <1>1, <1>2, <3>1 DEF Entries
    <3>2. CASE k < i
      BY <1>1, <1>2, <3>2 DEF CacheInv, Nonces!TypeOK
    <3>3. QED
      BY <1>1, <3>1, <3>2
  <2>2. nSeen[k].at \in Nat /\ nSeen[i].at \in Nat /\ nNow \in Nat /\ Delta \in Nat
    BY <1>1, <1>2 DEF Entries, CacheInv, NoncesInv, Types, Nonces!NonceCacheAssumption
  <2>3. QED
    BY <1>1, <2>1, <2>2 DEF Nonces!Stale
<1> HIDE DEF k, n
<1>4. /\ SubSeq(nSeen, k, n) \in Seq(Entries)
      /\ Len(SubSeq(nSeen, k, n)) = IF k <= n THEN n - k + 1 ELSE 0
      /\ \A i \in 1..n - k + 1 : SubSeq(nSeen, k, n)[i] = nSeen[k + i - 1]
  BY <1>1, <1>2, SubSeqProperties
<1>5. Nonces!Prune = SubSeq(nSeen, k, n)
  BY DEF Nonces!Prune, k, n
<1>6. /\ Len(Nonces!Prune) \in Nat /\ Len(Nonces!Prune) <= n
      /\ DOMAIN Nonces!Prune = 1..Len(Nonces!Prune)
  BY <1>1, <1>4, <1>5
<1>7. k - 1 \in Nat
  BY <1>1
<1>8. \A i \in 1..Len(Nonces!Prune) :
        /\ i + (k - 1) \in DOMAIN nSeen /\ Nonces!Prune[i] = nSeen[i + (k - 1)]
        /\ ~Nonces!Stale(Nonces!Prune[i])
  <2> SUFFICES ASSUME NEW i \in 1..Len(Nonces!Prune)
               PROVE  /\ i + (k - 1) \in DOMAIN nSeen /\ Nonces!Prune[i] = nSeen[i + (k - 1)]
                      /\ ~Nonces!Stale(Nonces!Prune[i])
    OBVIOUS
  <2>1. i \in 1..n - k + 1 /\ k + i - 1 = i + (k - 1) /\ i + (k - 1) \in k..n
    BY <1>1, <1>4, <1>5
  <2>2. Nonces!Prune[i] = nSeen[i + (k - 1)]
    BY <1>4, <1>5, <2>1
  <2>3. QED
    BY <1>2, <1>3, <2>1, <2>2
<1>9. QED
  BY <1>6, <1>7, <1>8 DEF n

LEMMA InitCache == Init => CacheInv
<1> SUFFICES ASSUME Init PROVE CacheInv
  OBVIOUS
<1>1. NoncesInv
  BY InitNonces
<1>2. Nonces!Init /\ Nonces!NonceCacheAssumption
  BY PartsAssumption DEF Init
<1>3. Passed = {}
  BY <1>2 DEF Nonces!Init, Passed
<1>4. Nonces!TypeOK
  BY <1>2
  DEF Nonces!Init, Nonces!TypeOK, Nonces!Times, Nonces!NoHandler, Nonces!NonceCacheAssumption
<1>5. \A u \in Uuids : \A t \in nHandled[u] : t <= nNow
  BY <1>2 DEF Nonces!Init
<1>6. QED
  BY <1>1, <1>3, <1>4, <1>5, FS_EmptySet DEF CacheInv

LEMMA AddKeepsCache == ASSUME CacheInv, NoncesInv', Nonces!CheckAndAdd PROVE CacheInv'
<1> DEFINE u == nHandler.uuid
           new == ~Nonces!Known(u) /\ ~Nonces!Full
           entry == [uuid |-> u, at |-> nNow]
           pruned == Nonces!Prune
<1>1. u \in Uuids /\ u \in DOMAIN nStamp /\ nNow \in Nat /\ nNow \in 0..LastNonceTick
  BY DEF CacheInv, NoncesInv, VerifiedIsFresh, Types, Nonces!TypeOK, Nonces!Times,
     Nonces!CheckAndAdd
<1>2. /\ nNow' = nNow /\ nStamp' = nStamp /\ nHandler' = Nonces!NoHandler
      /\ nSeen' = IF new THEN Append(pruned, entry) ELSE pruned
      /\ nHandled' = IF new THEN [nHandled EXCEPT ![u] = nHandled[u] \union {nNow}] ELSE nHandled
  BY DEF Nonces!CheckAndAdd
<1>3. nHandled \in [Uuids -> SUBSET (0..LastNonceTick)]
  BY DEF CacheInv, Nonces!TypeOK, Nonces!Times
<1>4. \A v \in Uuids :
        nHandled'[v] = IF new /\ v = u THEN nHandled[v] \union {nNow} ELSE nHandled[v]
  BY <1>1, <1>2, <1>3
<1>5. nHandled' \in [Uuids -> SUBSET (0..LastNonceTick)]
  BY <1>1, <1>2, <1>3
<1>6. pruned \in Seq(Entries) /\ entry \in Entries
  BY <1>1, PruneKeepsFresh DEF CacheInv, NoncesInv, Entries
<1>7. PICK d \in Nat : \A i \in 1..Len(pruned) :
        /\ i + d \in DOMAIN nSeen /\ pruned[i] = nSeen[i + d]
        /\ ~Nonces!Stale(pruned[i])
  BY PrunedEntries
<1>8. Len(pruned) \in Nat /\ Len(pruned) <= Len(nSeen) /\ DOMAIN pruned = 1..Len(pruned)
  BY PrunedEntries
<1>9. \A i \in 1..Len(pruned) : /\ pruned[i].uuid \in Uuids
                                /\ pruned[i].at \in nHandled[pruned[i].uuid]
                                /\ pruned[i].at <= nNow
  BY <1>7 DEF CacheInv, Nonces!TypeOK
<1>10. \A i, j \in 1..Len(pruned) :
         i < j => pruned[i].at <= pruned[j].at /\ pruned[i].uuid # pruned[j].uuid
  <2> SUFFICES ASSUME NEW i \in 1..Len(pruned), NEW j \in 1..Len(pruned), i < j
               PROVE  pruned[i].at <= pruned[j].at /\ pruned[i].uuid # pruned[j].uuid
    OBVIOUS
  <2>1. i + d \in DOMAIN nSeen /\ j + d \in DOMAIN nSeen /\ i + d < j + d
    BY <1>7, <1>8
  <2>2. QED
    BY <1>7, <2>1 DEF CacheInv, Nonces!TypeOK
<1>11. new => /\ \A i \in 1..Len(pruned) : pruned[i].uuid # u
              /\ Len(pruned) < MaxEntries
  <2>1. MaxEntries \in Nat
    BY DEF CacheInv, NoncesInv, Nonces!NonceCacheAssumption
  <2>2. QED
    BY <1>8, <2>1 DEF Nonces!Known, Nonces!Full
<1> HIDE DEF pruned
<1>12. /\ Len(nSeen') <= MaxEntries
       /\ \A i \in DOMAIN nSeen' : /\ nSeen'[i].uuid \in Uuids
                                   /\ nSeen'[i].at \in nHandled'[nSeen'[i].uuid]
       /\ \A i, j \in DOMAIN nSeen' :
            i < j => nSeen'[i].at <= nSeen'[j].at /\ nSeen'[i].uuid # nSeen'[j].uuid
  <2>1. CASE new
    <3> DEFINE n == Len(pruned)
    <3> HIDE DEF new
    <3>1. /\ Len(nSeen') = n + 1 /\ DOMAIN nSeen' = 1..n + 1
          /\ nSeen'[n + 1] = entry /\ \A i \in 1..n : nSeen'[i] = pruned[i]
      BY <1>2, <1>6, <2>1
    <3>2. entry.uuid = u /\ entry.at = nNow
      OBVIOUS
    <3>3. MaxEntries \in Nat
      BY DEF CacheInv, NoncesInv, Nonces!NonceCacheAssumption
    <3>4. Len(nSeen') <= MaxEntries
      BY <1>8, <1>11, <2>1, <3>1, <3>3
    <3>5. ASSUME NEW i \in 1..n + 1
          PROVE  nSeen'[i].uuid \in Uuids /\ nSeen'[i].at \in nHandled'[nSeen'[i].uuid]
      <4>1. CASE i = n + 1
        <5>1. nSeen'[i].uuid = u /\ nSeen'[i].at = nNow
          BY <3>1, <3>2, <4>1
        <5>2. nNow \in nHandled'[u]
          BY <1>1, <1>4, <2>1
        <5>3. QED
          BY <1>1, <5>1, <5>2
      <4>2. CASE i # n + 1
        <5>1. i \in 1..n /\ nSeen'[i] = pruned[i]
          BY <1>8, <3>1, <4>2
        <5>2. QED
          BY <1>4, <1>9, <5>1
      <4>3. QED
        BY <4>1, <4>2
    <3>6. ASSUME NEW i \in 1..n + 1, NEW j \in 1..n + 1, i < j
          PROVE  nSeen'[i].at <= nSeen'[j].at /\ nSeen'[i].uuid # nSeen'[j].uuid
      <4>1. i \in 1..n /\ nSeen'[i] = pruned[i]
        BY <1>8, <3>1, <3>6
      <4>2. CASE j = n + 1
        BY <1>9, <1>11, <2>1, <3>1, <3>2, <4>1, <4>2
      <4>3. CASE j # n + 1
        <5>1. j \in 1..n /\ nSeen'[j] = pruned[j]
          BY <1>8, <3>1, <4>3
        <5>2. QED
          BY <1>10, <3>6, <4>1, <5>1
      <4>4. QED
        BY <4>2, <4>3
    <3>7. QED
      BY <3>1, <3>4, <3>5, <3>6
  <2>2. CASE ~new
    <3>1. nSeen' = pruned /\ nHandled' = nHandled
      BY <1>2, <2>2
    <3>2. Len(nSeen) <= MaxEntries /\ MaxEntries \in Nat /\ Len(nSeen) \in Nat
      BY DEF CacheInv, Nonces!TypeOK, NoncesInv, Nonces!NonceCacheAssumption, Types
    <3>3. QED
      BY <1>8, <1>9, <1>10, <3>1, <3>2
  <2>3. QED
    BY <2>1, <2>2
<1>13. nHandler' \in [uuid : DOMAIN nStamp' \union {"none"}, verified : 0..LastNonceTick]
  BY <1>1, <1>2 DEF Nonces!NoHandler, CacheInv, NoncesInv, Nonces!NonceCacheAssumption
<1>14. Nonces!TypeOK'
  <2>1. nNow' \in 0..LastNonceTick /\ DOMAIN nStamp' \subseteq Uuids
    BY <1>1, <1>2 DEF CacheInv, Nonces!TypeOK
  <2>2. \A v \in DOMAIN nStamp' : nStamp'[v] \in 0..LastNonceTick
    BY <1>2 DEF CacheInv, Nonces!TypeOK, Nonces!Times
  <2>3. QED
    BY <1>5, <1>12, <1>13, <2>1, <2>2 DEF Nonces!TypeOK, Nonces!Times
<1>15. \A v \in Uuids : \A t \in nHandled'[v] : t <= nNow'
  <2> SUFFICES ASSUME NEW v \in Uuids, NEW t \in nHandled'[v] PROVE t <= nNow
    BY <1>2
  <2>1. t = nNow \/ t \in nHandled[v]
    BY <1>4
  <2>2. QED
    BY <1>1, <2>1 DEF CacheInv
<1>16. IsFiniteSet(Passed')
  <2>1. Passed' \subseteq Passed \union {u}
    BY <1>4 DEF Passed
  <2>2. IsFiniteSet(Passed \union {u})
    BY FS_AddElement DEF CacheInv
  <2>3. QED
    BY <2>1, <2>2, FS_Subset
<1>17. QED
  BY <1>14, <1>15, <1>16 DEF CacheInv

LEMMA NextCache == CacheInv /\ [Next]_vars => CacheInv'
<1> SUFFICES ASSUME CacheInv, [Next]_vars PROVE CacheInv'
  OBVIOUS
<1>1. NoncesInv' /\ [Nonces!Next]_nonceVars
  BY NextNonces, NoncesMove DEF CacheInv
<1>2. CASE Nonces!CheckAndAdd
  BY <1>1, <1>2, AddKeepsCache
<1> USE DEF CacheInv, Nonces!TypeOK, Nonces!Times, Passed
<1>3. ASSUME NEW u \in Uuids, NEW t \in 0..LastNonceTick, Nonces!Sign(u, t) PROVE CacheInv'
  <2>1. DOMAIN nStamp' = DOMAIN nStamp \cup {u} /\ \A v \in DOMAIN nStamp : nStamp'[v] = nStamp[v]
    BY <1>3 DEF Nonces!Sign
  <2>2. \A v \in DOMAIN nStamp' : nStamp'[v] \in 0..LastNonceTick
    BY <1>3 DEF Nonces!Sign
  <2>3. nHandler \in [uuid : DOMAIN nStamp' \union {"none"}, verified : 0..LastNonceTick]
    BY <2>1
  <2>4. /\ nNow' = nNow /\ nSeen' = nSeen /\ nHandler' = nHandler /\ nHandled' = nHandled
    BY <1>3 DEF Nonces!Sign
  <2>5. QED
    BY <1>1, <2>1, <2>2, <2>3, <2>4
<1>4. ASSUME NEW u \in Uuids, Nonces!Verify(u) PROVE CacheInv'
  <2>1. nHandler' \in [uuid : DOMAIN nStamp' \union {"none"}, verified : 0..LastNonceTick]
    BY <1>4 DEF Nonces!Verify
  <2>2. /\ nNow' = nNow /\ nSeen' = nSeen /\ nStamp' = nStamp /\ nHandled' = nHandled
    BY <1>4 DEF Nonces!Verify
  <2>3. QED
    BY <1>1, <2>1, <2>2
<1>5. CASE Nonces!Tick
  <2>1. /\ nSeen' = nSeen /\ nStamp' = nStamp /\ nHandled' = nHandled /\ nHandler' = nHandler
        /\ nNow' = nNow + 1 /\ nNow < LastNonceTick
    BY <1>5 DEF Nonces!Tick
  <2>2. LastNonceTick \in Nat
    BY DEF NoncesInv, Nonces!NonceCacheAssumption
  <2>3. nNow' \in 0..LastNonceTick
    BY <2>1, <2>2
  <2>4. \A v \in Uuids : \A t \in nHandled[v] : t <= nNow'
    BY <2>1, <2>2
  <2>5. QED
    BY <1>1, <2>1, <2>3, <2>4
<1>6. CASE UNCHANGED nonceVars
  BY <1>1, <1>6 DEF nonceVars
<1>7. QED
  BY <1>1, <1>2, <1>3, <1>4, <1>5, <1>6 DEF Nonces!Next

\* A new request that is refused met a cache full of recent requests.
LEMMA RefusedWhenSaturated ==
    ASSUME CacheInv, Nonces!CheckAndAdd, nHandled[nHandler.uuid] = {}, nHandled' = nHandled
    PROVE  Cardinality(Nonces!Recent) >= MaxEntries
<1> DEFINE u == nHandler.uuid
           n == Len(Nonces!Prune)
           f == [i \in 1..n |-> Nonces!Prune[i].uuid]
<1>1. u \in Uuids /\ nNow \in Nat
  BY DEF CacheInv, NoncesInv, VerifiedIsFresh, Types, Nonces!CheckAndAdd
<1>2. PICK d \in Nat : \A i \in 1..n :
        /\ i + d \in DOMAIN nSeen /\ Nonces!Prune[i] = nSeen[i + d]
        /\ ~Nonces!Stale(Nonces!Prune[i])
  BY PrunedEntries
<1>3. n \in Nat /\ DOMAIN Nonces!Prune = 1..n
  BY PrunedEntries
<1>4. ~Nonces!Known(u)
  <2> SUFFICES ASSUME NEW i \in 1..n, Nonces!Prune[i].uuid = u PROVE FALSE
    BY <1>3 DEF Nonces!Known
  <2>1. Nonces!Prune[i].at \in nHandled[u]
    BY <1>2 DEF CacheInv, Nonces!TypeOK
  <2>2. QED
    BY <2>1
<1>5. Nonces!Full
  <2> SUFFICES ASSUME ~Nonces!Full PROVE FALSE
    OBVIOUS
  <2>1. nHandled' = [nHandled EXCEPT ![u] = nHandled[u] \union {nNow}]
    BY <1>4 DEF Nonces!CheckAndAdd
  <2>2. nNow \in nHandled'[u]
    BY <1>1, <2>1 DEF CacheInv, Nonces!TypeOK
  <2>3. QED
    BY <2>2
<1>6. \A i \in 1..n : Nonces!Prune[i].uuid \in Nonces!Recent
  <2> SUFFICES ASSUME NEW i \in 1..n PROVE Nonces!Prune[i].uuid \in Nonces!Recent
    OBVIOUS
  <2>1. /\ Nonces!Prune[i].uuid \in Uuids
        /\ Nonces!Prune[i].at \in nHandled[Nonces!Prune[i].uuid]
    BY <1>2 DEF CacheInv, Nonces!TypeOK
  <2>2. Nonces!Prune[i].at \in Nat /\ Delta \in Nat
    BY <2>1 DEF CacheInv, NoncesInv, Types, Nonces!NonceCacheAssumption
  <2>3. Nonces!Prune[i].at >= nNow - Delta
    BY <1>1, <1>2, <2>2 DEF Nonces!Stale
  <2>4. QED
    BY <2>1, <2>3 DEF Nonces!Recent
<1>7. \A i, j \in 1..n : Nonces!Prune[i].uuid = Nonces!Prune[j].uuid => i = j
  <2> SUFFICES ASSUME NEW i \in 1..n, NEW j \in 1..n, i < j
               PROVE  Nonces!Prune[i].uuid # Nonces!Prune[j].uuid
    BY <1>3
  <2>1. i + d \in DOMAIN nSeen /\ j + d \in DOMAIN nSeen /\ i + d < j + d
    BY <1>2, <1>3
  <2>2. QED
    BY <1>2, <2>1 DEF CacheInv, Nonces!TypeOK
<1>8. f \in Injection(1..n, Nonces!Recent)
  <2>1. f \in [1..n -> Nonces!Recent]
    BY <1>6
  <2>2. \A i, j \in 1..n : f[i] = f[j] => i = j
    BY <1>7
  <2>3. QED
    BY <2>1, <2>2 DEF Injection, IsInjective
<1>9. IsFiniteSet(Nonces!Recent)
  <2>1. Nonces!Recent \subseteq Passed
    BY DEF Nonces!Recent, Passed
  <2>2. QED
    BY <2>1, FS_Subset DEF CacheInv
<1>10. Cardinality(1..n) <= Cardinality(Nonces!Recent)
  <2> HIDE DEF f
  <2>1. QED
    BY <1>8, <1>9, FS_Injection
<1>11. Cardinality(1..n) = n
  BY <1>3, FS_Interval
<1>12. n >= MaxEntries
  BY <1>5 DEF Nonces!Full
<1>13. Cardinality(Nonces!Recent) \in Nat /\ MaxEntries \in Nat
  BY <1>9, FS_CardinalityType DEF CacheInv, NoncesInv, Nonces!NonceCacheAssumption
<1>14. QED
  BY <1>3, <1>10, <1>11, <1>12, <1>13

\* For every window, capacity, number of requests and deliveries, and whatever the senders'
\* clocks show: no signed request is let through twice within a window; none is let through
\* a second time unless its timestamp was ahead of the miner's clock, to within MaxGap, the
\* first time; and a request never let through before is refused only while max_entries
\* others were let through within the window (verify_signature, check_and_add).
THEOREM ReplaysAreRefused == Spec => ReplaysRefused
<1>1. CacheInv => Nonces!TypeOK /\ Nonces!ReplayedOnlyAhead
  BY DEF CacheInv, NoncesInv
<1>2. CacheInv /\ [Next]_vars =>
        [Nonces!CheckAndAdd /\ nHandled[nHandler.uuid] = {} /\ nHandled' = nHandled
           => Nonces!Cardinality(Nonces!Recent) >= MaxEntries]_(Nonces!vars)
  <2>1. \A S : Nonces!Cardinality(S) = Cardinality(S)
    BY DEF Nonces!Cardinality, Cardinality
  <2>2. QED
    BY <2>1, RefusedWhenSaturated
<1>3. QED
  BY <1>1, <1>2, InitCache, NextCache, PTL
     DEF Spec, ReplaysRefused, Nonces!ReplaysRefused, Nonces!RefusedOnlyWhenSaturated
-----------------------------------------------------------------------------
(***************************************************************************)
(* What Where picks out of a sequence.                                     *)
(***************************************************************************)
LEMMA PlacesCounted ==
    ASSUME NEW s, NEW S, NEW n \in Nat, DOMAIN s = 1..n
    PROVE  /\ IsFiniteSet(Places(s, S)) /\ Cardinality(Places(s, S)) \in Nat
           /\ Cardinality(Places(s, S)) <= n
<1>1. IsFiniteSet(1..n) /\ Cardinality(1..n) = n
  BY FS_Interval
<1>2. Places(s, S) \subseteq 1..n
  BY DEF Places
<1> QED
  BY <1>1, <1>2, FS_Subset, FS_CardinalityType

LEMMA RanksGrow ==
    ASSUME NEW s, NEW S, NEW n \in Nat, DOMAIN s = 1..n,
           NEW i \in Places(s, S), NEW j \in Places(s, S)
    PROVE  /\ Rank(s, S, i) \in 1..Cardinality(Places(s, S))
           /\ i < j => Rank(s, S, i) < Rank(s, S, j)
<1> DEFINE P == Places(s, S)
           Upto(k) == {l \in P : l <= k}
<1>0. IsFiniteSet(P)
  BY PlacesCounted
<1>1. IsFiniteSet(P) /\ i \in Nat /\ j \in Nat
  BY <1>0 DEF Places
<1>2. \A k \in P : Rank(s, S, k) = Cardinality(Upto(k))
  BY DEF Rank
<1>3. IsFiniteSet(Upto(i)) /\ Cardinality(Upto(i)) \in Nat /\ Cardinality(Upto(i)) <= Cardinality(P)
  BY <1>1, FS_Subset, FS_CardinalityType
<1>4. Upto(i) # {}
  BY <1>1
<1>5. Cardinality(Upto(i)) # 0
  <2> HIDE DEF Upto
  <2> QED BY <1>3, <1>4, FS_EmptySet
<1>6. ASSUME i < j PROVE Cardinality(Upto(i)) < Cardinality(Upto(j))
  <2>1. Upto(i) \subseteq Upto(j) /\ j \in Upto(j) /\ j \notin Upto(i)
    BY <1>1, <1>6 DEF Places
  <2>2. IsFiniteSet(Upto(j)) /\ Cardinality(Upto(j)) \in Nat
    BY <1>1, FS_Subset, FS_CardinalityType
  <2> HIDE DEF Upto
  <2> QED BY <2>1, <2>2, <1>3, FS_Subset
<1>7. Cardinality(P) \in Nat
  BY <1>1, FS_CardinalityType
<1> HIDE DEF Upto
<1> QED
  BY <1>2, <1>3, <1>5, <1>6, <1>7

\* Every rank is taken, since no two places have the same.
LEMMA RanksMet ==
    ASSUME NEW s, NEW S, NEW n \in Nat, DOMAIN s = 1..n,
           NEW k \in 1..Cardinality(Places(s, S))
    PROVE  \E i \in Places(s, S) : Rank(s, S, i) = k
<1> DEFINE P == Places(s, S)
           m == Cardinality(P)
           f == [i \in P |-> Rank(s, S, i)]
           R == {Rank(s, S, i) : i \in P}
<1>1. IsFiniteSet(P) /\ m \in Nat
  BY PlacesCounted
<1>2. R \subseteq 1..m
  BY RanksGrow
<1>3. \A i, j \in P : f[i] = f[j] => i = j
  <2> SUFFICES ASSUME NEW i \in P, NEW j \in P, f[i] = f[j] PROVE i = j
    OBVIOUS
  <2>1. i \in Nat /\ j \in Nat
    BY DEF Places
  <2>2. Rank(s, S, i) \in Nat /\ Rank(s, S, j) \in Nat
    BY RanksGrow, <1>1
  <2>3. ~(i < j) /\ ~(j < i)
    BY RanksGrow, <2>2
  <2> QED BY <2>1, <2>3
<1>4. f \in Bijection(P, R)
  BY <1>3 DEF Bijection, Injection, Surjection, IsInjective
<1>5. IsFiniteSet(R) /\ Cardinality(R) = m
  <2> HIDE DEF f, R, P
  <2> QED BY <1>1, <1>4, FS_Bijection DEF ExistsBijection, m
<1>6. IsFiniteSet(1..m) /\ Cardinality(1..m) = m
  BY <1>1, FS_Interval
<1>7. R = 1..m
  <2> HIDE DEF R, P, m
  <2> QED BY <1>1, <1>2, <1>5, <1>6, FS_Subset
<1> QED
  BY <1>7

\* o is the list of the m places that Where(s, S) picks out of s, in their order.
Picks(s, S, n, m, o) ==
    /\ m \in 0..n /\ o \in [1..m -> 1..n]
    /\ Where(s, S) = [k \in 1..m |-> s[o[k]]]
    /\ \A k, l \in 1..m : k < l => o[k] < o[l]
    /\ \A i \in 1..n : s[i] \in S <=> \E k \in 1..m : o[k] = i

LEMMA WherePicks ==
    ASSUME NEW s, NEW S, NEW n \in Nat, DOMAIN s = 1..n
    PROVE  \E m, o : Picks(s, S, n, m, o)
<1> DEFINE P == Places(s, S)
           m == Cardinality(P)
           o == [k \in 1..m |-> Place(s, S, k)]
<1>1. m \in 0..n
  BY PlacesCounted
<1>2. \A k \in 1..m : o[k] \in P /\ Rank(s, S, o[k]) = k
  BY RanksMet DEF Place
<1>3. P \subseteq 1..n /\ \A i \in 1..n : i \in P <=> s[i] \in S
  BY DEF Places
<1>4. Where(s, S) = [k \in 1..m |-> s[o[k]]]
  BY DEF Where
<1>5. o \in [1..m -> 1..n]
  BY <1>2, <1>3
<1>6. \A k, l \in 1..m : k < l => o[k] < o[l]
  <2> SUFFICES ASSUME NEW k \in 1..m, NEW l \in 1..m, k < l PROVE o[k] < o[l]
    OBVIOUS
  <2> HIDE DEF o, m
  <2>1. o[k] \in P /\ o[l] \in P /\ Rank(s, S, o[k]) = k /\ Rank(s, S, o[l]) = l
    BY <1>2
  <2>2. o[k] \in Nat /\ o[l] \in Nat /\ k \in Nat /\ l \in Nat
    BY <1>3, <1>1, <2>1
  <2>3. o[k] # o[l] /\ ~(o[l] < o[k])
    BY <2>1, <2>2, RanksGrow
  <2> QED BY <2>2, <2>3
<1>7. \A i \in P : \E k \in 1..m : o[k] = i
  <2> SUFFICES ASSUME NEW i \in P PROVE o[Rank(s, S, i)] = i /\ Rank(s, S, i) \in 1..m
    OBVIOUS
  <2>1. Rank(s, S, i) \in 1..m
    BY RanksGrow
  <2> DEFINE j == o[Rank(s, S, i)]
  <2>2. j \in P /\ Rank(s, S, j) = Rank(s, S, i)
    BY <1>2, <2>1
  <2>3. i \in Nat /\ j \in Nat /\ Rank(s, S, i) \in Nat
    BY <1>1, <1>3, <2>1, <2>2
  <2> HIDE DEF o, m, j
  <2>4. ~(i < j) /\ ~(j < i)
    BY <2>2, <2>3, RanksGrow
  <2>5. i = j
    BY <2>3, <2>4
  <2> QED BY <2>1, <2>5 DEF j
<1> HIDE DEF o, m, P
<1>8. \A i \in 1..n : s[i] \in S <=> \E k \in 1..m : o[k] = i
  BY <1>2, <1>3, <1>7
<1>9. Picks(s, S, n, m, o)
  BY <1>1, <1>4, <1>5, <1>6, <1>8 DEF Picks
<1> QED
  BY <1>9
-----------------------------------------------------------------------------
(***************************************************************************)
(* The miner's HTTP surface: the constants, the operators of the instance. *)
(***************************************************************************)
LEMMA ServerConstants ==
    /\ Calls \subseteq Nat /\ SolveSlots \in Nat \ {0} /\ PrintSlots \in Nat \ {0}
    /\ Limit \in Nat \ {0} /\ Ttl \in Nat \ {0} /\ MaxTimeout \in Nat \ {0} /\ LastTick \in Nat
  BY PartsAssumption DEF PartsAssumption, Server!MinerServerAssumption

LEMMA ServerCardinality == \A S : Server!Cardinality(S) = Cardinality(S)
  BY DEF Server!Cardinality, Cardinality

LEMMA ServerWhere == \A s, S : Server!Where(s, S) = Where(s, S)
<1>1. \A s, S : Server!Places(s, S) = Places(s, S)
  BY DEF Server!Places, Places
<1>2. \A s, S, i : Server!Rank(s, S, i) = Rank(s, S, i)
  BY <1>1, ServerCardinality DEF Server!Rank, Rank
<1> SUFFICES ASSUME NEW s, NEW S PROVE Server!Where(s, S) = Where(s, S)
  OBVIOUS
<1>3. \A k : Server!Place(s, S, k) = Place(s, S, k)
  BY <1>1, <1>2 DEF Server!Place, Place
<1>4. QED
  BY <1>1, <1>3, ServerCardinality DEF Server!Where, Where

LEMMA InjectiveLength ==
    ASSUME NEW L \in Nat, NEW S, NEW f \in [1..L -> S],
           \A i, j \in 1..L : f[i] = f[j] => i = j,
           \A x \in S : \E i \in 1..L : f[i] = x
    PROVE  IsFiniteSet(S) /\ Cardinality(S) = L
<1>1. f \in Bijection(1..L, S)
  BY DEF Bijection, Injection, Surjection, IsInjective
<1>2. IsFiniteSet(1..L) /\ Cardinality(1..L) = L
  BY FS_Interval
<1>3. QED
  BY <1>1, <1>2, FS_Bijection DEF ExistsBijection
-----------------------------------------------------------------------------
(***************************************************************************)
(* ServedTasks: lists of entries with a task each.                         *)
(***************************************************************************)
Entry == [task : Tasks, at : 0..LastTick]

EntryList(s, n) ==
    /\ n \in Nat /\ s \in [1..n -> Entry]
    /\ \A i, j \in 1..n : s[i].task = s[j].task => i = j

EntriesOf(s, n) == {s[i] : i \in 1..n}

LEMMA WhereEntries ==
    ASSUME NEW s, NEW n, EntryList(s, n), NEW S
    PROVE  \E m \in 0..n : /\ EntryList(Where(s, S), m)
                           /\ EntriesOf(Where(s, S), m) = EntriesOf(s, n) \cap S
<1>1. n \in Nat /\ DOMAIN s = 1..n
  BY DEF EntryList
<1>2. PICK m, o : Picks(s, S, n, m, o)
  BY <1>1, WherePicks
<1> DEFINE w == Where(s, S)
<1>3. /\ m \in 0..n /\ o \in [1..m -> 1..n] /\ w = [k \in 1..m |-> s[o[k]]]
      /\ \A k, l \in 1..m : k < l => o[k] < o[l]
      /\ \A i \in 1..n : s[i] \in S <=> \E k \in 1..m : o[k] = i
  BY <1>2 DEF Picks
<1> HIDE DEF w
<1>4. \A k \in 1..m : o[k] \in 1..n /\ w[k] = s[o[k]] /\ w[k] \in Entry /\ w[k] \in S
  BY <1>3 DEF EntryList
<1>5. w \in [1..m -> Entry]
  BY <1>3, <1>4
<1>6. ASSUME NEW k \in 1..m, NEW l \in 1..m, w[k].task = w[l].task PROVE k = l
  <2>1. o[k] = o[l]
    BY <1>4, <1>6 DEF EntryList
  <2>2. ~(k < l) /\ ~(l < k)
    BY <1>3, <2>1
  <2> QED BY <1>3, <2>2
<1>7. EntryList(w, m)
  BY <1>3, <1>5, <1>6 DEF EntryList
<1>8. EntriesOf(w, m) \subseteq EntriesOf(s, n) \cap S
  BY <1>4 DEF EntriesOf
<1>9. ASSUME NEW i \in 1..n, s[i] \in S PROVE s[i] \in EntriesOf(w, m)
  <2>1. PICK k \in 1..m : o[k] = i
    BY <1>3, <1>9
  <2> QED BY <1>4, <2>1 DEF EntriesOf
<1>10. EntriesOf(w, m) = EntriesOf(s, n) \cap S
  BY <1>8, <1>9 DEF EntriesOf
<1>11. QED
  BY <1>3, <1>7, <1>10 DEF w

LEMMA AppendEntry ==
    ASSUME NEW s, NEW n, EntryList(s, n), NEW e \in Entry, \A x \in EntriesOf(s, n) : x.task # e.task
    PROVE  /\ EntryList(Append(s, e), n + 1)
           /\ EntriesOf(Append(s, e), n + 1) = EntriesOf(s, n) \cup {e}
<1>1. n \in Nat /\ s \in Seq(Entry) /\ Len(s) = n
  BY DEF EntryList
<1> DEFINE a == Append(s, e)
<1>2. a \in Seq(Entry) /\ Len(a) = n + 1 /\ a[n + 1] = e /\ \A i \in 1..n : a[i] = s[i]
  BY <1>1
<1> HIDE DEF a
<1>3. a \in [1..(n + 1) -> Entry]
  BY <1>1, <1>2
<1>4. \A i \in 1..(n + 1) : i \in 1..n \/ i = n + 1
  BY <1>1
<1>5. \A i \in 1..n : s[i] \in EntriesOf(s, n) /\ i \in 1..(n + 1)
  BY <1>1 DEF EntriesOf
<1>6. \A i, j \in 1..(n + 1) : a[i].task = a[j].task => i = j
  BY <1>2, <1>4, <1>5 DEF EntryList
<1>7. EntriesOf(a, n + 1) = EntriesOf(s, n) \cup {e}
  <2>1. EntriesOf(a, n + 1) \subseteq EntriesOf(s, n) \cup {e}
    BY <1>2, <1>4, <1>5 DEF EntriesOf
  <2>2. e \in EntriesOf(a, n + 1)
    BY <1>1, <1>2 DEF EntriesOf
  <2>3. EntriesOf(s, n) \subseteq EntriesOf(a, n + 1)
    BY <1>2, <1>5 DEF EntriesOf
  <2> QED BY <2>1, <2>2, <2>3
<1>8. QED
  BY <1>1, <1>3, <1>6, <1>7 DEF EntryList, a

LEMMA LastEntries ==
    ASSUME NEW s, NEW n, EntryList(s, n), NEW k \in 0..n
    PROVE  /\ EntryList(SubSeq(s, k + 1, Len(s)), n - k)
           /\ EntriesOf(SubSeq(s, k + 1, Len(s)), n - k) \subseteq EntriesOf(s, n)
<1>1. n \in Nat /\ s \in Seq(Entry) /\ Len(s) = n /\ n - k \in Nat
  BY DEF EntryList
<1> DEFINE a == SubSeq(s, k + 1, n)
<1>2. a \in Seq(Entry) /\ Len(a) = n - k
  BY <1>1
<1>3. \A i \in 1..(n - k) : a[i] = s[k + i] /\ k + i \in 1..n
  BY <1>1
<1> HIDE DEF a
<1>4. a \in [1..(n - k) -> Entry]
  BY <1>1, <1>2
<1>5. \A i, j \in 1..(n - k) : a[i].task = a[j].task => i = j
  <2> SUFFICES ASSUME NEW i \in 1..(n - k), NEW j \in 1..(n - k), a[i].task = a[j].task
               PROVE  i = j
    OBVIOUS
  <2>1. k + i = k + j
    BY <1>3 DEF EntryList
  <2> QED BY <1>1, <2>1
<1>6. EntriesOf(a, n - k) \subseteq EntriesOf(s, n)
  BY <1>3 DEF EntriesOf
<1>7. EntryList(a, n - k)
  BY <1>1, <1>4, <1>5 DEF EntryList
<1>8. QED
  BY <1>1, <1>6, <1>7 DEF a

LEMMA EntriesCounted ==
    ASSUME NEW s, NEW n, EntryList(s, n)
    PROVE  /\ Cardinality(EntriesOf(s, n)) = n
           /\ Server!ToSet(s) = EntriesOf(s, n) /\ Len(s) = n /\ DOMAIN s = 1..n
           /\ Server!Known(s) = {e.task : e \in EntriesOf(s, n)}
           /\ Cardinality(Server!Known(s)) = n
<1>1. n \in Nat /\ DOMAIN s = 1..n /\ Len(s) = n /\ s \in [1..n -> Entry]
  BY DEF EntryList
<1>2. Server!ToSet(s) = EntriesOf(s, n)
  BY <1>1 DEF Server!ToSet, EntriesOf
<1>3. Server!Known(s) = {s[i].task : i \in 1..n}
  BY <1>1 DEF Server!Known
<1>4. {e.task : e \in EntriesOf(s, n)} = {s[i].task : i \in 1..n}
  BY DEF EntriesOf
<1>5. Cardinality(EntriesOf(s, n)) = n
  <2>1. \A i, j \in 1..n : s[i] = s[j] => i = j
    BY DEF EntryList
  <2>2. \A x \in EntriesOf(s, n) : \E i \in 1..n : s[i] = x
    BY DEF EntriesOf
  <2>3. s \in [1..n -> EntriesOf(s, n)]
    BY <1>1 DEF EntriesOf
  <2> QED BY <1>1, <2>1, <2>2, <2>3, InjectiveLength
<1>6. Cardinality(Server!Known(s)) = n
  <2> DEFINE K == {s[i].task : i \in 1..n}
             f == [i \in 1..n |-> s[i].task]
  <2>1. f \in [1..n -> K] /\ \A x \in K : \E i \in 1..n : f[i] = x
    OBVIOUS
  <2>2. \A i, j \in 1..n : f[i] = f[j] => i = j
    BY DEF EntryList
  <2> HIDE DEF K, f
  <2>3. Cardinality(K) = n
    BY <1>1, <2>1, <2>2, InjectiveLength
  <2> QED BY <1>3, <2>3 DEF K
<1>7. QED
  BY <1>1, <1>2, <1>3, <1>4, <1>5, <1>6

LEMMA LiveEntries ==
    ASSUME NEW n, EntryList(mServed, n)
    PROVE  \E m \in 0..n : /\ EntryList(Server!Live, m)
                           /\ EntriesOf(Server!Live, m)
                                = {e \in EntriesOf(mServed, n) : ~Server!Expired(e)}
<1> DEFINE S == {e \in EntriesOf(mServed, n) : ~Server!Expired(e)}
<1>1. Server!Live = Where(mServed, S)
  BY ServerWhere, EntriesCounted DEF Server!Live
<1>2. EntriesOf(mServed, n) \cap S = S
  OBVIOUS
<1> HIDE DEF S
<1>3. PICK m \in 0..n : /\ EntryList(Where(mServed, S), m)
                        /\ EntriesOf(Where(mServed, S), m) = EntriesOf(mServed, n) \cap S
  BY WhereEntries
<1>4. QED
  BY <1>1, <1>2, <1>3 DEF S

LEMMA WithoutEntries ==
    ASSUME NEW s, NEW n, EntryList(s, n), NEW t
    PROVE  \E m \in 0..n : /\ EntryList(Server!Without(s, t), m)
                           /\ EntriesOf(Server!Without(s, t), m)
                                = {e \in EntriesOf(s, n) : e.task # t}
<1> DEFINE S == {e \in EntriesOf(s, n) : e.task # t}
<1>1. Server!Without(s, t) = Where(s, S)
  BY ServerWhere, EntriesCounted DEF Server!Without
<1>2. EntriesOf(s, n) \cap S = S
  OBVIOUS
<1> HIDE DEF S
<1>3. PICK m \in 0..n : /\ EntryList(Where(s, S), m)
                        /\ EntriesOf(Where(s, S), m) = EntriesOf(s, n) \cap S
  BY WhereEntries
<1>4. QED
  BY <1>1, <1>2, <1>3 DEF S

\* ServedTasks.add keeps what is live, but for the task itself and what is evicted.
LEMMA AddedEntries ==
    ASSUME NEW n, EntryList(mServed, n), mNow \in 0..LastTick, NEW t \in Tasks
    PROVE  \E m \in 0..Limit :
             /\ EntryList(Server!Added(t), m)
             /\ \A e \in EntriesOf(Server!Added(t), m) :
                  \/ e = [task |-> t, at |-> mNow]
                  \/ e \in EntriesOf(mServed, n) /\ e.task # t
<1>1. PICK a \in 0..n : /\ EntryList(Server!Live, a)
                        /\ EntriesOf(Server!Live, a) \subseteq EntriesOf(mServed, n)
  BY LiveEntries
<1> DEFINE rest == Server!Without(Server!Live, t)
           e0 == [task |-> t, at |-> mNow]
           all == Append(rest, e0)
           over == IF Len(all) > Limit THEN Len(all) - Limit ELSE 0
<1>2. PICK b \in 0..a : /\ EntryList(rest, b)
                        /\ EntriesOf(rest, b) = {e \in EntriesOf(Server!Live, a) : e.task # t}
  BY <1>1, WithoutEntries
<1>3. Server!Added(t) = SubSeq(all, over + 1, Len(all))
  BY DEF Server!Added
<1> HIDE DEF rest
<1>4. e0 \in Entry /\ \A x \in EntriesOf(rest, b) : x.task # e0.task
  BY <1>2 DEF Entry
<1> HIDE DEF e0
<1>5. EntryList(all, b + 1) /\ EntriesOf(all, b + 1) = EntriesOf(rest, b) \cup {e0}
  BY <1>2, <1>4, AppendEntry
<1> HIDE DEF all
<1>6. b + 1 \in Nat /\ Len(all) = b + 1
  BY <1>5, EntriesCounted DEF EntryList
<1>7. over \in 0..(b + 1) /\ (b + 1) - over \in 0..Limit
  BY <1>6, ServerConstants
<1> HIDE DEF over
<1>8. /\ EntryList(Server!Added(t), (b + 1) - over)
      /\ EntriesOf(Server!Added(t), (b + 1) - over) \subseteq EntriesOf(all, b + 1)
  BY <1>3, <1>5, <1>7, LastEntries
<1>9. \A e \in EntriesOf(all, b + 1) :
        e = e0 \/ (e \in EntriesOf(mServed, n) /\ e.task # t)
  BY <1>1, <1>2, <1>5
<1>10. QED
  BY <1>7, <1>8, <1>9 DEF e0

\* ServedTasks.classify keeps what is live.
LEMMA ClassifiedEntries ==
    ASSUME NEW n, EntryList(mServed, n), NEW t \in Server!Known(Server!Live)
    PROVE  \E m \in 0..n : /\ EntryList(Server!Classified(t), m)
                           /\ EntriesOf(Server!Classified(t), m)
                                = {e \in EntriesOf(mServed, n) : ~Server!Expired(e)}
<1> DEFINE S == {e \in EntriesOf(mServed, n) : ~Server!Expired(e)}
<1>1. PICK a \in 0..n : EntryList(Server!Live, a) /\ EntriesOf(Server!Live, a) = S
  BY LiveEntries
<1> HIDE DEF S
<1>2. Server!ToSet(Server!Live) = S /\ Cardinality(S) = a
  BY <1>1, EntriesCounted
<1>3. \E e \in S : e.task = t
  BY <1>1, EntriesCounted
<1> DEFINE rest == Server!Without(Server!Live, t)
           e0 == CHOOSE e \in S : e.task = t
<1>4. Server!Classified(t) = Append(rest, e0)
  BY <1>2 DEF Server!Classified
<1>5. e0 \in S /\ e0.task = t
  BY <1>3
<1>6. PICK b \in 0..a : EntryList(rest, b) /\ EntriesOf(rest, b) = {e \in S : e.task # t}
  BY <1>1, WithoutEntries
<1> HIDE DEF rest, e0
<1>7. \A x, y \in S : x.task = y.task => x = y
  BY <1>1 DEF EntryList, EntriesOf
<1>8. e0 \in Entry
  BY <1>1, <1>5 DEF EntryList, EntriesOf
<1>9. \A x \in EntriesOf(rest, b) : x.task # e0.task
  BY <1>5, <1>6
<1>10. /\ EntryList(Append(rest, e0), b + 1)
       /\ EntriesOf(Append(rest, e0), b + 1) = EntriesOf(rest, b) \cup {e0}
  BY <1>6, <1>8, <1>9, AppendEntry
<1>11. EntriesOf(rest, b) \cup {e0} = S
  BY <1>5, <1>6, <1>7
<1>12. b + 1 = a
  BY <1>2, <1>10, <1>11, EntriesCounted
<1>13. QED
  BY <1>4, <1>10, <1>11, <1>12 DEF S
-----------------------------------------------------------------------------
(***************************************************************************)
(* The inductive invariant of the miner's HTTP surface.                    *)
(***************************************************************************)
CallRecord ==
    [task : Tasks \union {"none"}, phase : {"new", "queued", "solving", "printing", "done"},
     deadline : 0..LastTick, status : {"none", "ok", "error"}]

ServerShapes ==
    /\ mNow \in 0..LastTick /\ mCall \in [Calls -> CallRecord]
    /\ \A c \in Calls : mCall[c].phase \in {"queued", "solving"} => mCall[c].task \in Tasks
    /\ mLastServed \in [Tasks -> {-1} \union 0..mNow]
    /\ mPrinted \in [Tasks -> Nat]

\* The queue of the semaphore: the calls that wait for a slot, each once.
QueueTells ==
    \E n \in Nat : /\ mQueue \in [1..n -> Calls]
                   /\ \A i, j \in 1..n : mQueue[i] = mQueue[j] => i = j
                   /\ \A c \in Calls : mCall[c].phase = "queued" <=> \E i \in 1..n : mQueue[i] = c

SlotsKept ==
    IsFiniteSet(Server!Phase("solving")) /\ Cardinality(Server!Phase("solving")) <= SolveSlots

\* An entry has the time of the last answer to its task.
ServedTells ==
    \E n \in 0..Limit :
        /\ EntryList(mServed, n)
        /\ \A e \in EntriesOf(mServed, n) : e.at = mLastServed[e.task] /\ e.at <= mNow

MarksKept == mAnswered \subseteq Server!Known(mServed)

WritesTell ==
    /\ IsFiniteSet(mWrites) /\ mWrites \subseteq [call : Calls, task : Tasks]
    /\ mPrinting = Cardinality(mWrites) /\ mPrinting <= PrintSlots
    /\ \A w \in mWrites : mCall[w.call].phase # "new"

MarkedIsWritten == \A t \in mAnswered : mPrinted[t] > 0 \/ \E w \in mWrites : w.task = t

ServerInv ==
    /\ ServerShapes /\ QueueTells /\ SlotsKept
    /\ ServedTells /\ MarksKept
    /\ WritesTell /\ MarkedIsWritten

LEMMA ServerMoves == [Next]_vars => [Server!Next]_serverVars
  BY DEF Next, vars, Only

LEMMA InitServer == Init => ServerInv
<1> SUFFICES ASSUME Server!Init PROVE ServerInv
  BY DEF Init
<1>1. ServerShapes
  BY ServerConstants DEF Server!Init, ServerShapes, Server!NewCall, CallRecord, Server!Never
<1>2. QueueTells
  <2>1. mQueue \in [1..0 -> Calls] /\ \A c \in Calls : mCall[c].phase = "new"
    BY DEF Server!Init, Server!NewCall
  <2> QED BY <2>1 DEF QueueTells
<1>3. SlotsKept
  <2>1. Server!Phase("solving") = {}
    BY DEF Server!Init, Server!Phase, Server!NewCall
  <2> QED BY <2>1, FS_EmptySet, ServerConstants DEF SlotsKept
<1>4. ServedTells /\ MarksKept
  <2>1. mServed \in [1..0 -> Entry] /\ 0 \in 0..Limit
    BY ServerConstants DEF Server!Init
  <2>2. EntryList(mServed, 0) /\ EntriesOf(mServed, 0) = {}
    BY <2>1 DEF EntryList, EntriesOf
  <2> QED BY <2>1, <2>2 DEF ServedTells, MarksKept, Server!Init
<1>5. WritesTell /\ MarkedIsWritten
  BY FS_EmptySet, ServerConstants DEF Server!Init, WritesTell, MarkedIsWritten
<1>6. QED
  BY <1>1, <1>2, <1>3, <1>4, <1>5 DEF ServerInv
-----------------------------------------------------------------------------
\* A call moves to r, which is not new.
Moved(c, r) ==
    /\ r \in CallRecord /\ r.phase # "new"
    /\ r.phase \in {"queued", "solving"} => r.task \in Tasks
    /\ mCall' = [mCall EXCEPT ![c] = r]

LEMMA ReplyMoves ==
    ASSUME NEW c, NEW status \in {"none", "ok", "error"}, mCall' = Server!Reply(c, status)
    PROVE  \E r : Moved(c, r) /\ r.phase = "done" /\ r.status = status
<1> DEFINE r == [Server!NewCall EXCEPT !.phase = "done", !.status = status]
<1>1. mCall' = [mCall EXCEPT ![c] = r]
  BY DEF Server!Reply
<1>2. r.phase = "done" /\ r.status = status
  BY DEF Server!NewCall
<1>3. r \in CallRecord
  <2>1. Server!NewCall \in CallRecord
    BY ServerConstants DEF Server!NewCall, CallRecord
  <2> QED BY <2>1 DEF CallRecord
<1> HIDE DEF r
<1>4. QED
  BY <1>1, <1>2, <1>3 DEF Moved

LEMMA CallMoves ==
    ASSUME ServerInv, NEW c \in Calls, NEW r, Moved(c, r)
    PROVE  /\ mCall' \in [Calls -> CallRecord] /\ mCall'[c] = r
           /\ \A d \in Calls : d # c => mCall'[d] = mCall[d]
           /\ \A d \in Calls : mCall'[d].phase \in {"queued", "solving"} => mCall'[d].task \in Tasks
           /\ \A w \in mWrites : mCall'[w.call].phase # "new"
<1>1. /\ mCall' \in [Calls -> CallRecord] /\ mCall'[c] = r
      /\ \A d \in Calls : d # c => mCall'[d] = mCall[d]
  BY DEF ServerInv, ServerShapes, Moved
<1>2. \A d \in Calls : mCall'[d].phase \in {"queued", "solving"} => mCall'[d].task \in Tasks
  BY <1>1 DEF ServerInv, ServerShapes, Moved
<1>3. \A w \in mWrites : w.call \in Calls
  BY DEF ServerInv, WritesTell
<1>4. \A w \in mWrites : mCall'[w.call].phase # "new"
  BY <1>1, <1>3 DEF ServerInv, WritesTell, Moved
<1>5. QED
  BY <1>1, <1>2, <1>4

LEMMA SlotsMove ==
    ASSUME ServerInv, NEW c \in Calls, NEW r, Moved(c, r),
           r.phase # "solving" \/ Server!SlotFree
    PROVE  SlotsKept'
<1> DEFINE P == Server!Phase("solving")
           Q == {d \in Calls : mCall'[d].phase = "solving"}
<1>1. Server!Phase("solving")' = Q
  BY DEF Server!Phase
<1>2. IsFiniteSet(P) /\ Cardinality(P) \in Nat /\ Cardinality(P) <= SolveSlots
  BY FS_CardinalityType DEF ServerInv, SlotsKept
<1>3. \A d \in Calls : d # c => (d \in P <=> d \in Q)
  BY CallMoves DEF Server!Phase
<1>4. c \in Q <=> r.phase = "solving"
  BY CallMoves
<1>5. P \subseteq Calls /\ Q \subseteq Calls
  BY DEF Server!Phase
<1> HIDE DEF P, Q
<1>6. CASE r.phase # "solving"
  <2>1. Q \subseteq P
    BY <1>3, <1>4, <1>5, <1>6
  <2>2. IsFiniteSet(Q) /\ Cardinality(Q) \in Nat /\ Cardinality(Q) <= Cardinality(P)
    BY <1>2, <2>1, FS_Subset, FS_CardinalityType
  <2> QED BY <1>1, <1>2, <2>2, ServerConstants DEF SlotsKept
<1>7. CASE r.phase = "solving"
  <2>1. Cardinality(P) < SolveSlots
    BY <1>7, ServerCardinality DEF Server!SlotFree, P
  <2>2. Q = P \cup {c}
    BY <1>3, <1>4, <1>5, <1>7
  <2>3. IsFiniteSet(Q) /\ Cardinality(Q) <= Cardinality(P) + 1
    BY <1>2, <2>2, FS_AddElement
  <2>4. Cardinality(Q) \in Nat
    BY <2>3, FS_CardinalityType
  <2> QED BY <1>1, <1>2, <2>1, <2>3, <2>4, ServerConstants DEF SlotsKept
<1>8. QED
  BY <1>6, <1>7

\* The queue loses a call wherever it is.
LEMMA QueueDrops ==
    ASSUME ServerInv, NEW c \in Calls, NEW r, Moved(c, r), r.phase # "queued",
           mQueue' = Server!Where(mQueue, Calls \ {c})
    PROVE  QueueTells'
<1>1. PICK n \in Nat :
        /\ mQueue \in [1..n -> Calls]
        /\ \A i, j \in 1..n : mQueue[i] = mQueue[j] => i = j
        /\ \A d \in Calls : mCall[d].phase = "queued" <=> \E i \in 1..n : mQueue[i] = d
  BY DEF ServerInv, QueueTells
<1> DEFINE S == Calls \ {c}
           w == Where(mQueue, S)
<1>2. mQueue' = w
  BY ServerWhere
<1>3. PICK m, o : Picks(mQueue, S, n, m, o)
  BY <1>1, WherePicks
<1>4. /\ m \in 0..n /\ o \in [1..m -> 1..n] /\ w = [k \in 1..m |-> mQueue[o[k]]]
      /\ \A k, l \in 1..m : k < l => o[k] < o[l]
      /\ \A i \in 1..n : mQueue[i] \in S <=> \E k \in 1..m : o[k] = i
  BY <1>3 DEF Picks
<1> HIDE DEF w
<1>5. \A k \in 1..m : o[k] \in 1..n /\ w[k] = mQueue[o[k]] /\ w[k] \in S
  BY <1>4
<1>6. m \in Nat /\ w \in [1..m -> Calls]
  BY <1>4, <1>5
<1>7. ASSUME NEW k \in 1..m, NEW l \in 1..m, w[k] = w[l] PROVE k = l
  <2>1. o[k] = o[l]
    BY <1>1, <1>5, <1>7
  <2>2. ~(k < l) /\ ~(l < k)
    BY <1>4, <2>1
  <2> QED BY <1>4, <2>2
<1>8. ASSUME NEW d \in Calls PROVE mCall'[d].phase = "queued" <=> \E k \in 1..m : w[k] = d
  <2>1. CASE d = c
    BY <2>1, <1>5, CallMoves
  <2>2. CASE d # c
    <3>1. mCall'[d].phase = "queued" <=> \E i \in 1..n : mQueue[i] = d
      BY <1>1, <2>2, CallMoves
    <3>2. ASSUME NEW i \in 1..n, mQueue[i] = d PROVE \E k \in 1..m : w[k] = d
      <4>1. PICK k \in 1..m : o[k] = i
        BY <1>4, <2>2, <3>2
      <4> QED BY <1>5, <3>2, <4>1
    <3>3. ASSUME NEW k \in 1..m, w[k] = d PROVE \E i \in 1..n : mQueue[i] = d
      BY <1>5, <3>3
    <3> QED BY <3>1, <3>2, <3>3
  <2> QED BY <2>1, <2>2
<1>9. /\ m \in Nat /\ mQueue' \in [1..m -> Calls]
      /\ \A k, l \in 1..m : mQueue'[k] = mQueue'[l] => k = l
      /\ \A d \in Calls : mCall'[d].phase = "queued" <=> \E k \in 1..m : mQueue'[k] = d
  BY <1>2, <1>6, <1>7, <1>8
<1>10. QED
  BY <1>9 DEF QueueTells

\* A call that does not wait leaves the queue alone.
LEMMA QueueStays ==
    ASSUME ServerInv, NEW c \in Calls, NEW r, Moved(c, r), r.phase # "queued",
           mCall[c].phase # "queued", mQueue' = mQueue
    PROVE  QueueTells'
<1>1. PICK n \in Nat :
        /\ mQueue \in [1..n -> Calls]
        /\ \A i, j \in 1..n : mQueue[i] = mQueue[j] => i = j
        /\ \A d \in Calls : mCall[d].phase = "queued" <=> \E i \in 1..n : mQueue[i] = d
  BY DEF ServerInv, QueueTells
<1>2. \A d \in Calls : mCall'[d].phase = "queued" <=> mCall[d].phase = "queued"
  BY CallMoves
<1>3. QED
  BY <1>1, <1>2 DEF QueueTells

LEMMA QueueGrows ==
    ASSUME ServerInv, NEW c \in Calls, NEW r, Moved(c, r), r.phase = "queued",
           mCall[c].phase # "queued", mQueue' = Append(mQueue, c)
    PROVE  QueueTells'
<1>1. PICK n \in Nat :
        /\ mQueue \in [1..n -> Calls]
        /\ \A i, j \in 1..n : mQueue[i] = mQueue[j] => i = j
        /\ \A d \in Calls : mCall[d].phase = "queued" <=> \E i \in 1..n : mQueue[i] = d
  BY DEF ServerInv, QueueTells
<1>2. mQueue \in Seq(Calls) /\ Len(mQueue) = n
  BY <1>1
<1> DEFINE a == Append(mQueue, c)
<1>3. a \in Seq(Calls) /\ Len(a) = n + 1 /\ a[n + 1] = c /\ \A i \in 1..n : a[i] = mQueue[i]
  BY <1>1, <1>2
<1> HIDE DEF a
<1>4. n + 1 \in Nat /\ a \in [1..(n + 1) -> Calls]
  BY <1>3
<1>5. \A i \in 1..(n + 1) : i \in 1..n \/ i = n + 1
  OBVIOUS
<1>6. \A i \in 1..n : i \in 1..(n + 1) /\ mQueue[i] # c
  BY <1>1
<1>7. \A i, j \in 1..(n + 1) : a[i] = a[j] => i = j
  BY <1>1, <1>3, <1>5, <1>6
<1>8. ASSUME NEW d \in Calls
      PROVE  mCall'[d].phase = "queued" <=> \E i \in 1..(n + 1) : a[i] = d
  <2>1. CASE d = c
    <3>1. n + 1 \in 1..(n + 1)
      OBVIOUS
    <3> QED BY <1>3, <2>1, <3>1, CallMoves
  <2>2. CASE d # c
    BY <1>1, <1>3, <1>5, <1>6, <2>2, CallMoves
  <2> QED BY <2>1, <2>2
<1>9. QED
  BY <1>4, <1>7, <1>8 DEF QueueTells, a

LEMMA QueueServes ==
    ASSUME ServerInv, NEW c \in Calls, NEW r, Moved(c, r), r.phase # "queued",
           mQueue # << >>, c = Head(mQueue), mQueue' = Tail(mQueue)
    PROVE  QueueTells'
<1>1. PICK n \in Nat :
        /\ mQueue \in [1..n -> Calls]
        /\ \A i, j \in 1..n : mQueue[i] = mQueue[j] => i = j
        /\ \A d \in Calls : mCall[d].phase = "queued" <=> \E i \in 1..n : mQueue[i] = d
  BY DEF ServerInv, QueueTells
<1>2. mQueue \in Seq(Calls) /\ Len(mQueue) = n /\ n > 0 /\ c = mQueue[1]
  <2>1. mQueue \in Seq(Calls) /\ Len(mQueue) = n
    BY <1>1
  <2> QED BY <2>1
<1> DEFINE a == Tail(mQueue)
<1>3. a \in Seq(Calls) /\ Len(a) = n - 1 /\ n - 1 \in Nat
  BY <1>2
<1>4. \A i \in 1..(n - 1) : a[i] = mQueue[i + 1] /\ i + 1 \in 1..n /\ i + 1 # 1
  BY <1>2
<1> HIDE DEF a
<1>5. a \in [1..(n - 1) -> Calls]
  BY <1>3
<1>6. ASSUME NEW i \in 1..(n - 1), NEW j \in 1..(n - 1), a[i] = a[j] PROVE i = j
  <2>1. i + 1 = j + 1
    BY <1>1, <1>4, <1>6
  <2> QED BY <1>3, <2>1
<1>7. ASSUME NEW d \in Calls
      PROVE  mCall'[d].phase = "queued" <=> \E i \in 1..(n - 1) : a[i] = d
  <2>1. CASE d = c
    <3>1. ASSUME NEW i \in 1..(n - 1) PROVE a[i] # mQueue[1]
      <4>1. 1 \in 1..n /\ i + 1 \in 1..n /\ i + 1 # 1 /\ a[i] = mQueue[i + 1]
        BY <1>2, <1>4
      <4> QED BY <1>1, <4>1
    <3> QED BY <1>2, <2>1, <3>1, CallMoves
  <2>2. CASE d # c
    <3>1. mCall'[d].phase = "queued" <=> \E i \in 1..n : mQueue[i] = d
      BY <1>1, <2>2, CallMoves
    <3>2. ASSUME NEW i \in 1..n, mQueue[i] = d PROVE i - 1 \in 1..(n - 1) /\ a[i - 1] = d
      <4>1. i # 1
        BY <1>2, <2>2, <3>2
      <4>2. i - 1 \in 1..(n - 1) /\ (i - 1) + 1 = i
        BY <1>2, <4>1
      <4> QED BY <1>4, <3>2, <4>2
    <3>3. \A i \in 1..(n - 1) : a[i] = d => \E j \in 1..n : mQueue[j] = d
      BY <1>4
    <3> QED BY <3>1, <3>2, <3>3
  <2> QED BY <2>1, <2>2
<1>8. QED
  BY <1>3, <1>5, <1>6, <1>7 DEF QueueTells, a
-----------------------------------------------------------------------------
\* A step that only moves a call keeps what the miner remembers and prints.
LEMMA OnlyCallMoves ==
    ASSUME ServerInv, NEW c \in Calls, NEW r, Moved(c, r), UNCHANGED <<mNow, mServed, mAnswered,
             mLastServed, mPrinting, mWrites, mPrinted>>
    PROVE  ServerShapes' /\ ServedTells' /\ MarksKept' /\ WritesTell' /\ MarkedIsWritten'
<1>1. ServerShapes'
  BY CallMoves DEF ServerInv, ServerShapes
<1>2. ServedTells' /\ MarksKept'
  BY DEF ServerInv, ServedTells, MarksKept, Server!Known
<1>3. WritesTell' /\ MarkedIsWritten'
  BY CallMoves DEF ServerInv, WritesTell, MarkedIsWritten
<1>4. QED
  BY <1>1, <1>2, <1>3

\* The replies that give no slot and no place away.
LEMMA ReplyKeeps ==
    ASSUME ServerInv, NEW c \in Calls, mCall[c].phase # "queued",
           NEW status \in {"none", "ok", "error"}, mCall' = Server!Reply(c, status),
           UNCHANGED <<mNow, mQueue, mServed, mAnswered, mLastServed, mPrinting, mWrites,
                       mPrinted>>
    PROVE  ServerInv'
<1>1. PICK r : Moved(c, r) /\ r.phase = "done"
  BY ReplyMoves
<1>2. QueueTells' /\ SlotsKept'
  BY <1>1, QueueStays, SlotsMove
<1>3. QED
  BY <1>1, <1>2, OnlyCallMoves DEF ServerInv

LEMMA RefuseServer ==
    ASSUME ServerInv, NEW c \in Calls, Server!Refuse(c) \/ Server!SolveFails(c)
    PROVE  ServerInv'
<1>1. mCall[c].phase # "queued" /\ mCall' = Server!Reply(c, "error")
  BY DEF Server!Refuse, Server!SolveFails, Server!Arrives, Server!Phase
<1>2. UNCHANGED <<mNow, mQueue, mServed, mAnswered, mLastServed, mPrinting, mWrites, mPrinted>>
  BY DEF Server!Refuse, Server!SolveFails, Server!taskVars, Server!printVars
<1>3. QED
  BY <1>1, <1>2, ReplyKeeps

LEMMA AcceptServer ==
    ASSUME ServerInv, NEW c \in Calls, NEW t \in Tasks, NEW d \in 1..MaxTimeout,
           Server!Accept(c, t, d)
    PROVE  ServerInv'
<1> DEFINE r == [task |-> t, phase |-> "queued", deadline |-> mNow + d, status |-> "none"]
<1>1. mNow + d \in 0..LastTick
  BY ServerConstants DEF Server!Accept, ServerInv, ServerShapes
<1>2. r \in CallRecord
  BY <1>1 DEF CallRecord
<1>3. Moved(c, r) /\ r.phase = "queued"
  BY <1>2 DEF Moved, Server!Accept
<1>4. mCall[c].phase # "queued" /\ mQueue' = Append(mQueue, c)
  BY DEF Server!Accept, Server!Arrives, Server!Phase
<1>5. UNCHANGED <<mNow, mServed, mAnswered, mLastServed, mPrinting, mWrites, mPrinted>>
  BY DEF Server!Accept, Server!taskVars, Server!printVars
<1> HIDE DEF r
<1>6. QueueTells' /\ SlotsKept'
  BY <1>3, <1>4, QueueGrows, SlotsMove
<1>7. QED
  BY <1>3, <1>5, <1>6, OnlyCallMoves DEF ServerInv

LEMMA StartServer ==
    ASSUME ServerInv, NEW c \in Calls, Server!Start(c)
    PROVE  ServerInv'
<1>1. mQueue # << >> /\ c = Head(mQueue) /\ mQueue' = Tail(mQueue) /\ Server!SlotFree
  BY DEF Server!Start
<1>2. UNCHANGED <<mNow, mServed, mAnswered, mLastServed, mPrinting, mWrites, mPrinted>>
  BY DEF Server!Start, Server!taskVars, Server!printVars
<1>3. \E r : Moved(c, r) /\ r.phase # "queued"
  <2>1. CASE mCall[c].deadline <= mNow
    BY <2>1, ReplyMoves DEF Server!Start
  <2>2. CASE ~(mCall[c].deadline <= mNow)
    <3> DEFINE r == [mCall[c] EXCEPT !.phase = "solving"]
    <3>1. mCall[c] \in CallRecord /\ mCall[c].phase = "queued"
      <4>1. PICK n \in Nat :
              /\ mQueue \in [1..n -> Calls]
              /\ \A e \in Calls : mCall[e].phase = "queued" <=> \E i \in 1..n : mQueue[i] = e
        BY DEF ServerInv, QueueTells
      <4>2. mQueue \in Seq(Calls) /\ Len(mQueue) = n
        BY <4>1
      <4>3. 1 \in 1..n /\ mQueue[1] = c
        BY <1>1, <4>1, <4>2
      <4> QED BY <4>1, <4>3 DEF ServerInv, ServerShapes
    <3>2. r \in CallRecord /\ r.phase = "solving" /\ r.task = mCall[c].task
      BY <3>1 DEF CallRecord
    <3>3. mCall[c].task \in Tasks
      BY <3>1 DEF ServerInv, ServerShapes
    <3>4. mCall' = [mCall EXCEPT ![c] = r]
      BY <2>2 DEF Server!Start
    <3> HIDE DEF r
    <3> QED BY <3>2, <3>3, <3>4 DEF Moved
  <2> QED BY <2>1, <2>2
<1>4. PICK r : Moved(c, r) /\ r.phase # "queued"
  BY <1>3
<1>5. QueueTells' /\ SlotsKept'
  BY <1>1, <1>4, QueueServes, SlotsMove
<1>6. QED
  BY <1>2, <1>4, <1>5, OnlyCallMoves DEF ServerInv

LEMMA DropServer ==
    ASSUME ServerInv, NEW c \in Calls, Server!TimeOut(c) \/ Server!HangUp(c)
    PROVE  ServerInv'
<1>1. PICK status \in {"none", "ok", "error"} : mCall' = Server!Reply(c, status)
  BY DEF Server!TimeOut, Server!HangUp
<1>2. mQueue' = Server!Where(mQueue, Calls \ {c})
  BY DEF Server!TimeOut, Server!HangUp
<1>3. UNCHANGED <<mNow, mServed, mAnswered, mLastServed, mPrinting, mWrites, mPrinted>>
  BY DEF Server!TimeOut, Server!HangUp, Server!taskVars, Server!printVars
<1>4. PICK r : Moved(c, r) /\ r.phase = "done"
  BY <1>1, ReplyMoves
<1>5. QueueTells' /\ SlotsKept'
  BY <1>2, <1>4, QueueDrops, SlotsMove
<1>6. QED
  BY <1>3, <1>4, <1>5, OnlyCallMoves DEF ServerInv

LEMMA TickServer == ASSUME ServerInv, Server!Tick PROVE ServerInv'
<1>1. mNow < LastTick /\ mNow' = mNow + 1
  BY DEF Server!Tick
<1>2. UNCHANGED <<mCall, mQueue, mServed, mAnswered, mLastServed, mPrinting, mWrites, mPrinted>>
  BY DEF Server!Tick, Server!callVars, Server!taskVars, Server!printVars
<1>3. mNow \in Nat /\ mNow' \in 0..LastTick /\ 0..mNow \subseteq 0..mNow'
  BY <1>1, ServerConstants DEF ServerInv, ServerShapes
<1>4. ServerShapes'
  BY <1>2, <1>3 DEF ServerInv, ServerShapes
<1>5. QueueTells' /\ SlotsKept' /\ MarksKept' /\ WritesTell' /\ MarkedIsWritten'
  BY <1>2 DEF ServerInv, QueueTells, SlotsKept, MarksKept, WritesTell, MarkedIsWritten,
     Server!Phase, Server!Known
<1>6. ServedTells'
  <2>1. PICK n \in 0..Limit :
          /\ EntryList(mServed, n)
          /\ \A e \in EntriesOf(mServed, n) : e.at = mLastServed[e.task] /\ e.at <= mNow
    BY DEF ServerInv, ServedTells
  <2>2. \A e \in EntriesOf(mServed, n) : e.at \in Nat
    BY <2>1, ServerConstants DEF EntryList, EntriesOf, Entry
  <2>3. \A e \in EntriesOf(mServed, n) : e.at <= mNow'
    BY <1>1, <1>3, <2>1, <2>2
  <2> QED BY <1>2, <2>1, <2>3 DEF ServedTells
<1>7. QED
  BY <1>4, <1>5, <1>6 DEF ServerInv
-----------------------------------------------------------------------------
\* The miner remembers the entries of s and nothing else.
LEMMA Remembers ==
    ASSUME ServerInv, NEW s, NEW m \in 0..Limit, EntryList(s, m), Server!Forget(s),
           \A e \in EntriesOf(s, m) : e.at = mLastServed'[e.task] /\ e.at <= mNow'
    PROVE  /\ ServedTells' /\ mPrinted' \in [Tasks -> Nat]
           /\ mServed' = s /\ Server!Known(s) \subseteq Tasks
           /\ \A t \in Server!Known(Server!Live) \cap Server!Known(s) :
                mPrinted'[t] = mPrinted[t]
<1>1. mServed' = s
  BY DEF Server!Forget
<1>2. mPrinted' = [t \in Tasks |-> IF t \in Server!Known(Server!Live) \cap Server!Known(s)
                                  THEN mPrinted[t] ELSE 0]
  BY DEF Server!Forget
<1>3. Server!Known(s) \subseteq Tasks
  BY DEF EntryList, Entry, Server!Known
<1>4. ServedTells'
  BY <1>1 DEF ServedTells
<1>5. mPrinted' \in [Tasks -> Nat]
  BY <1>2 DEF ServerInv, ServerShapes
<1>6. QED
  BY <1>1, <1>2, <1>3, <1>4, <1>5

LEMMA SolvedServer ==
    ASSUME ServerInv, NEW c \in Calls, Server!Solved(c)
    PROVE  ServerInv'
<1> DEFINE t == mCall[c].task
           s == Server!Added(t)
<1>1. /\ mCall[c].phase = "solving" /\ Server!Forget(s)
      /\ mAnswered' = mAnswered \ Server!Forgotten(s)
      /\ mLastServed' = [mLastServed EXCEPT ![t] = mNow]
      /\ mCall' = Server!Reply(c, "ok") /\ UNCHANGED <<mNow, mQueue, mPrinting, mWrites>>
  BY DEF Server!Solved, Server!Phase
<1>2. t \in Tasks /\ mNow \in 0..LastTick
  BY <1>1 DEF ServerInv, ServerShapes
<1>3. PICK n \in 0..Limit :
        /\ EntryList(mServed, n)
        /\ \A e \in EntriesOf(mServed, n) : e.at = mLastServed[e.task] /\ e.at <= mNow
  BY DEF ServerInv, ServedTells
<1>4. PICK m \in 0..Limit :
        /\ EntryList(s, m)
        /\ \A e \in EntriesOf(s, m) : \/ e = [task |-> t, at |-> mNow]
                                      \/ e \in EntriesOf(mServed, n) /\ e.task # t
  BY <1>2, <1>3, AddedEntries
<1> HIDE DEF s, t
<1>5. mLastServed' \in [Tasks -> {-1} \union 0..mNow]
  BY <1>1, <1>2, ServerConstants DEF ServerInv, ServerShapes
<1>6. ASSUME NEW e \in EntriesOf(s, m) PROVE e.at = mLastServed'[e.task] /\ e.at <= mNow'
  <2>1. e.task \in Tasks
    BY <1>4 DEF EntryList, EntriesOf, Entry
  <2>2. CASE e = [task |-> t, at |-> mNow]
    <3>1. e.task = t /\ e.at = mNow
      BY <2>2
    <3> QED BY <1>1, <1>2, <3>1, ServerConstants DEF ServerInv, ServerShapes
  <2>3. CASE e \in EntriesOf(mServed, n) /\ e.task # t
    BY <1>1, <1>2, <1>3, <2>1, <2>3 DEF ServerInv, ServerShapes
  <2> QED BY <1>4, <2>2, <2>3
<1>7. /\ ServedTells' /\ mPrinted' \in [Tasks -> Nat] /\ mServed' = s
      /\ \A x \in Server!Known(Server!Live) \cap Server!Known(s) : mPrinted'[x] = mPrinted[x]
  BY <1>1, <1>4, <1>6, Remembers
<1>8. mAnswered' = mAnswered \cap (Server!Known(Server!Live) \cap Server!Known(s))
  BY <1>1 DEF Server!Forgotten
<1>9. MarksKept'
  BY <1>7, <1>8 DEF MarksKept, Server!Known
<1>10. PICK r : Moved(c, r) /\ r.phase = "done"
  BY <1>1, ReplyMoves
<1>11. QueueTells' /\ SlotsKept'
  BY <1>1, <1>10, QueueStays, SlotsMove
<1>12. ServerShapes'
  BY <1>1, <1>2, <1>5, <1>7, <1>10, CallMoves DEF ServerShapes
<1>13. WritesTell'
  BY <1>1, <1>10, CallMoves DEF ServerInv, WritesTell
<1>14. MarkedIsWritten'
  BY <1>1, <1>7, <1>8 DEF ServerInv, MarkedIsWritten
<1>15. QED
  BY <1>7, <1>9, <1>11, <1>12, <1>13, <1>14 DEF ServerInv

\* A notice the miner takes up: it remembers what is live, and no mark of anything else.
LEMMA NoticeRemembers ==
    ASSUME ServerInv, NEW s, UNCHANGED <<mNow, mLastServed>>, Server!Forget(s),
           \/ s = Server!Live
           \/ \E t \in Server!Known(Server!Live) : s = Server!Classified(t)
    PROVE  /\ ServedTells' /\ mPrinted' \in [Tasks -> Nat] /\ mServed' = s
           /\ Server!Known(s) = Server!Known(Server!Live) /\ Server!Known(s) \subseteq Tasks
           /\ \A t \in Server!Known(s) : mPrinted'[t] = mPrinted[t]
<1>1. PICK n \in 0..Limit :
        /\ EntryList(mServed, n)
        /\ \A e \in EntriesOf(mServed, n) : e.at = mLastServed[e.task] /\ e.at <= mNow
  BY DEF ServerInv, ServedTells
<1> DEFINE S == {e \in EntriesOf(mServed, n) : ~Server!Expired(e)}
<1>2. PICK a \in 0..n : EntryList(Server!Live, a) /\ EntriesOf(Server!Live, a) = S
  BY <1>1, LiveEntries
<1>3. \E m \in 0..n : EntryList(s, m) /\ EntriesOf(s, m) = S
  <2>1. CASE s = Server!Live
    BY <1>2, <2>1
  <2>2. ASSUME NEW t \in Server!Known(Server!Live), s = Server!Classified(t)
        PROVE  \E m \in 0..n : EntryList(s, m) /\ EntriesOf(s, m) = S
    BY <1>1, <2>2, ClassifiedEntries
  <2> QED BY <2>1, <2>2
<1>4. PICK m \in 0..n : EntryList(s, m) /\ EntriesOf(s, m) = S
  BY <1>3
<1>5. \A e \in S : e.at = mLastServed'[e.task] /\ e.at <= mNow'
  BY <1>1
<1> HIDE DEF S
<1>6. Server!Known(s) = Server!Known(Server!Live)
  BY <1>2, <1>4, EntriesCounted
<1>7. m \in 0..Limit
  BY <1>4, ServerConstants
<1>8. QED
  BY <1>4, <1>5, <1>6, <1>7, Remembers

LEMMA NoticeServer ==
    ASSUME ServerInv, NEW c \in Calls, NEW t \in Tasks, Server!Notice(c, t)
    PROVE  ServerInv'
<1> DEFINE K == Server!Known(Server!Live)
<1>1. /\ mCall[c].phase = "new" /\ mCall[c].phase # "queued"
      /\ UNCHANGED <<mNow, mQueue, mLastServed>>
  BY DEF Server!Notice, Server!Arrives, Server!Phase
<1>2. CASE /\ mCall' = Server!Reply(c, "error")
           /\ UNCHANGED <<mServed, mAnswered, mPrinting, mWrites, mPrinted>>
  BY <1>1, <1>2, ReplyKeeps
<1>3. mAnswered \ Server!Forgotten(Server!Live) = mAnswered \cap K
  BY DEF Server!Forgotten
<1>4. CASE Server!Unknown(c, t) \/ Server!Duplicate(c, t)
  <2>1. PICK s : /\ Server!Forget(s)
                 /\ \/ s = Server!Live
                    \/ \E u \in K : s = Server!Classified(u)
    BY <1>4 DEF Server!Unknown, Server!Duplicate
  <2>2. mAnswered' = mAnswered \cap K /\ UNCHANGED <<mPrinting, mWrites>>
    BY <1>3, <1>4 DEF Server!Unknown, Server!Duplicate
  <2> HIDE DEF K
  <2>3. /\ ServedTells' /\ mPrinted' \in [Tasks -> Nat] /\ mServed' = s
        /\ Server!Known(s) = K /\ \A u \in K : mPrinted'[u] = mPrinted[u]
    BY <1>1, <2>1, NoticeRemembers DEF K
  <2>4. PICK r : Moved(c, r) /\ r.phase = "done"
    BY <1>4, ReplyMoves DEF Server!Unknown, Server!Duplicate
  <2>5. QueueTells' /\ SlotsKept'
    BY <1>1, <2>4, QueueStays, SlotsMove
  <2>6. ServerShapes'
    BY <1>1, <2>3, <2>4, CallMoves DEF ServerInv, ServerShapes
  <2>7. MarksKept'
    BY <2>2, <2>3 DEF MarksKept, Server!Known
  <2>8. WritesTell'
    BY <2>2, <2>4, CallMoves DEF ServerInv, WritesTell
  <2>9. MarkedIsWritten'
    BY <2>2, <2>3 DEF ServerInv, MarkedIsWritten
  <2>10. QED
    BY <2>3, <2>5, <2>6, <2>7, <2>8, <2>9 DEF ServerInv
<1>5. CASE mPrinting < PrintSlots /\ Server!New(c, t)
  <2> DEFINE s == Server!Classified(t)
             w == [call |-> c, task |-> t]
             r == [mCall[c] EXCEPT !.task = t, !.phase = "printing"]
  <2>1. /\ t \in K /\ Server!Forget(s) /\ mAnswered' = (mAnswered \cap K) \cup {t}
        /\ mPrinting' = mPrinting + 1 /\ mWrites' = mWrites \cup {w}
        /\ mCall' = [mCall EXCEPT ![c].task = t, ![c].phase = "printing"]
    BY <1>3, <1>5 DEF Server!New
  <2>2. mCall[c] \in CallRecord
    BY DEF ServerInv, ServerShapes
  <2>3. r \in CallRecord /\ r.phase = "printing"
    BY <2>2 DEF CallRecord
  <2>4. mCall' = [mCall EXCEPT ![c] = r]
    BY <2>1 DEF ServerInv, ServerShapes
  <2>5. w \in [call : Calls, task : Tasks] /\ w.call = c /\ w.task = t
    OBVIOUS
  <2> HIDE DEF K, s, w, r
  <2>6. Moved(c, r)
    BY <2>3, <2>4 DEF Moved
  <2>7. /\ ServedTells' /\ mPrinted' \in [Tasks -> Nat] /\ mServed' = s
        /\ Server!Known(s) = K /\ \A u \in K : mPrinted'[u] = mPrinted[u]
    BY <1>1, <2>1, NoticeRemembers DEF K, s
  <2>8. QueueTells' /\ SlotsKept'
    BY <1>1, <2>3, <2>6, QueueStays, SlotsMove
  <2>9. ServerShapes'
    BY <1>1, <2>6, <2>7, CallMoves DEF ServerInv, ServerShapes
  <2>10. MarksKept'
    BY <2>1, <2>7 DEF MarksKept, Server!Known
  <2>11. w \notin mWrites
    BY <1>1, <2>5 DEF ServerInv, WritesTell
  <2>12. IsFiniteSet(mWrites') /\ Cardinality(mWrites') = Cardinality(mWrites) + 1
    BY <2>1, <2>11, FS_AddElement DEF ServerInv, WritesTell
  <2>13. \A x \in mWrites' : mCall'[x.call].phase # "new"
    BY <2>1, <2>3, <2>5, <2>6, CallMoves
  <2>14. mPrinting' = Cardinality(mWrites') /\ mPrinting' <= PrintSlots
    <3>1. mPrinting \in Nat
      BY FS_CardinalityType DEF ServerInv, WritesTell
    <3> QED BY <1>5, <2>1, <2>12, <3>1, ServerConstants DEF ServerInv, WritesTell
  <2>15. mWrites' \subseteq [call : Calls, task : Tasks]
    BY <2>1, <2>5 DEF ServerInv, WritesTell
  <2>16. WritesTell'
    BY <2>12, <2>13, <2>14, <2>15 DEF WritesTell
  <2>17. MarkedIsWritten'
    BY <2>1, <2>5, <2>7 DEF ServerInv, MarkedIsWritten
  <2>18. QED
    BY <2>7, <2>8, <2>9, <2>10, <2>16, <2>17 DEF ServerInv
<1>6. QED
  BY <1>2, <1>4, <1>5 DEF Server!Notice, Server!printVars

LEMMA WrittenServer ==
    ASSUME ServerInv, NEW w \in mWrites, Server!Written(w)
    PROVE  ServerInv'
<1>1. /\ mWrites' = mWrites \ {w} /\ mPrinting' = IF mPrinting > 0 THEN mPrinting - 1 ELSE 0
      /\ mPrinted' = IF w.task \in mAnswered
                     THEN [mPrinted EXCEPT ![w.task] = mPrinted[w.task] + 1] ELSE mPrinted
      /\ mCall' = IF mCall[w.call].phase = "printing" THEN Server!Reply(w.call, "ok") ELSE mCall
      /\ UNCHANGED <<mNow, mQueue, mServed, mAnswered, mLastServed>>
  BY DEF Server!Written, Server!taskVars
<1>2. w.call \in Calls /\ w.task \in Tasks
  BY DEF ServerInv, WritesTell
<1>3. mPrinted \in [Tasks -> Nat]
  BY DEF ServerInv, ServerShapes
<1>4. mPrinted' \in [Tasks -> Nat] /\ \A t \in Tasks : mPrinted'[t] >= mPrinted[t]
  BY <1>1, <1>2, <1>3
<1>5. IsFiniteSet(mWrites') /\ Cardinality(mWrites') = Cardinality(mWrites) - 1
  BY <1>1, FS_RemoveElement DEF ServerInv, WritesTell
<1>6. mPrinting' = Cardinality(mWrites') /\ mPrinting' <= PrintSlots
  <2>1. mPrinting = Cardinality(mWrites) /\ mPrinting \in Nat /\ Cardinality(mWrites') \in Nat
    BY <1>5, FS_CardinalityType DEF ServerInv, WritesTell
  <2> QED BY <1>1, <1>5, <2>1, ServerConstants DEF ServerInv, WritesTell
<1>7. mAnswered \subseteq Tasks
  <2>1. PICK n \in 0..Limit : EntryList(mServed, n)
    BY DEF ServerInv, ServedTells
  <2>2. Server!Known(mServed) \subseteq Tasks
    BY <2>1 DEF EntryList, Entry, Server!Known
  <2> QED BY <2>2 DEF ServerInv, MarksKept
<1>8. MarkedIsWritten'
  <2> SUFFICES ASSUME NEW t \in mAnswered PROVE mPrinted'[t] > 0 \/ \E x \in mWrites' : x.task = t
    BY <1>1 DEF MarkedIsWritten
  <2>1. CASE t = w.task
    BY <1>1, <1>2, <1>3, <2>1
  <2>2. CASE t # w.task
    BY <1>1, <1>2, <1>3, <1>4, <1>7, <2>2 DEF ServerInv, MarkedIsWritten
  <2> QED BY <2>1, <2>2
<1>9. ServedTells' /\ MarksKept'
  BY <1>1 DEF ServerInv, ServedTells, MarksKept, Server!Known
<1>10. CASE mCall[w.call].phase = "printing"
  <2>1. PICK r : Moved(w.call, r) /\ r.phase = "done"
    BY <1>1, <1>10, ReplyMoves
  <2>2. QueueTells' /\ SlotsKept'
    BY <1>1, <1>2, <1>10, <2>1, QueueStays, SlotsMove
  <2>3. ServerShapes'
    BY <1>1, <1>2, <1>4, <2>1, CallMoves DEF ServerInv, ServerShapes
  <2>4. WritesTell'
    BY <1>1, <1>2, <1>5, <1>6, <2>1, CallMoves DEF ServerInv, WritesTell
  <2> QED BY <1>8, <1>9, <2>2, <2>3, <2>4 DEF ServerInv
<1>11. CASE mCall[w.call].phase # "printing"
  <2>1. mCall' = mCall
    BY <1>1, <1>11
  <2>2. QueueTells'
    BY <1>1, <2>1 DEF ServerInv, QueueTells
  <2>6. SlotsKept'
    BY <2>1 DEF ServerInv, SlotsKept, Server!Phase
  <2>3. ServerShapes'
    BY <1>1, <1>4, <2>1 DEF ServerInv, ServerShapes
  <2>4. WritesTell'
    BY <1>1, <1>5, <1>6, <2>1 DEF ServerInv, WritesTell
  <2> QED BY <1>8, <1>9, <2>2, <2>6, <2>3, <2>4 DEF ServerInv
<1>12. QED
  BY <1>10, <1>11

LEMMA NextServer == ServerInv /\ [Next]_vars => ServerInv'
<1> SUFFICES ASSUME ServerInv, [Server!Next]_serverVars PROVE ServerInv'
  BY ServerMoves
<1>1. CASE UNCHANGED serverVars
  BY <1>1 DEF serverVars, ServerInv, ServerShapes, QueueTells, SlotsKept, ServedTells,
     MarksKept, WritesTell, MarkedIsWritten, Server!Phase, Server!Known
<1>2. ASSUME NEW c \in Calls,
             \/ Server!Refuse(c)
             \/ \E t \in Tasks, d \in 1..MaxTimeout : Server!Accept(c, t, d)
             \/ Server!Start(c) \/ Server!Solved(c) \/ Server!SolveFails(c)
             \/ Server!TimeOut(c) \/ Server!HangUp(c)
             \/ \E t \in Tasks : Server!Notice(c, t)
      PROVE  ServerInv'
  BY <1>2, RefuseServer, AcceptServer, StartServer, SolvedServer, DropServer, NoticeServer
<1>3. QED
  BY <1>1, <1>2, WrittenServer, TickServer DEF Server!Next
-----------------------------------------------------------------------------
LEMMA ServerTyped == ServerInv => Server!TypeOK
<1> SUFFICES ASSUME ServerInv PROVE Server!TypeOK
  OBVIOUS
<1>1. PICK n \in Nat :
        /\ mQueue \in [1..n -> Calls]
        /\ \A i, j \in 1..n : mQueue[i] = mQueue[j] => i = j
        /\ \A d \in Calls : mCall[d].phase = "queued" <=> \E i \in 1..n : mQueue[i] = d
  BY DEF ServerInv, QueueTells
<1>2. Server!IsInjective(mQueue)
  BY <1>1 DEF Server!IsInjective
<1>3. Server!ToSet(mQueue) = Server!Phase("queued")
  BY <1>1 DEF Server!ToSet, Server!Phase
<1>4. Server!Cardinality(Server!Phase("solving")) <= SolveSlots
  BY ServerCardinality DEF ServerInv, SlotsKept
<1>5. ASSUME NEW i \in DOMAIN mServed PROVE mServed[i] \in [task : Tasks, at : 0..mNow]
  <2>1. PICK m \in 0..Limit :
          /\ EntryList(mServed, m)
          /\ \A e \in EntriesOf(mServed, m) : e.at = mLastServed[e.task] /\ e.at <= mNow
    BY DEF ServerInv, ServedTells
  <2>2. mServed[i] \in Entry /\ mServed[i].at <= mNow
    BY <2>1 DEF EntryList, EntriesOf
  <2>3. mNow \in Nat
    BY ServerConstants DEF ServerInv, ServerShapes
  <2> QED BY <2>2, <2>3, ServerConstants DEF Entry
<1>6. QED
  BY <1>2, <1>3, <1>4, <1>5 DEF ServerInv, ServerShapes, CallRecord, Server!TypeOK, Server!Never

LEMMA ServerBounded ==
    ServerInv => Server!WritesCounted /\ Server!MemoryBounded /\ Server!MarkedIsWritten
<1> SUFFICES ASSUME ServerInv
             PROVE  Server!WritesCounted /\ Server!MemoryBounded /\ Server!MarkedIsWritten
  OBVIOUS
<1>1. Server!WritesCounted /\ Server!MarkedIsWritten
  BY ServerCardinality
  DEF ServerInv, WritesTell, MarkedIsWritten, Server!WritesCounted, Server!MarkedIsWritten
<1>2. PICK n \in 0..Limit : EntryList(mServed, n)
  BY DEF ServerInv, ServedTells
<1>3. Len(mServed) = n /\ Cardinality(Server!Known(mServed)) = n
  BY <1>2, EntriesCounted
<1>4. QED
  BY <1>1, <1>2, <1>3, ServerCardinality, ServerConstants
  DEF ServerInv, MarksKept, Server!MemoryBounded

LEMMA NoticeIsRecent ==
    ASSUME ServerInv, NEW c \in Calls, NEW t \in Tasks, Server!Notice(c, t),
           mCall'[c].status = "ok" \/ mCall'[c].phase = "printing"
    PROVE  mLastServed[t] # Server!Never /\ mNow - mLastServed[t] < Ttl
<1>1. mCall' # Server!Reply(c, "error")
  <2> SUFFICES ASSUME mCall' = Server!Reply(c, "error") PROVE FALSE
    OBVIOUS
  <2>1. PICK r : Moved(c, r) /\ r.phase = "done" /\ r.status = "error"
    BY ReplyMoves
  <2> QED BY <2>1, CallMoves
<1>2. t \in Server!Known(Server!Live)
  BY <1>1 DEF Server!Notice, Server!Unknown, Server!Duplicate, Server!New
<1>3. PICK n \in 0..Limit :
        /\ EntryList(mServed, n)
        /\ \A e \in EntriesOf(mServed, n) : e.at = mLastServed[e.task] /\ e.at <= mNow
  BY DEF ServerInv, ServedTells
<1>4. PICK m \in 0..n : /\ EntryList(Server!Live, m)
                        /\ EntriesOf(Server!Live, m)
                             = {e \in EntriesOf(mServed, n) : ~Server!Expired(e)}
  BY <1>3, LiveEntries
<1>5. PICK e \in EntriesOf(Server!Live, m) : e.task = t
  BY <1>2, <1>4, EntriesCounted
<1>6. e \in EntriesOf(mServed, n) /\ ~(mNow - e.at >= Ttl) /\ e.at = mLastServed[t]
  BY <1>3, <1>4, <1>5 DEF Server!Expired
<1>7. e.at \in Nat /\ mNow \in Nat
  BY <1>3, <1>6, ServerConstants DEF EntryList, EntriesOf, Entry, ServerInv, ServerShapes
<1>8. QED
  BY <1>6, <1>7, ServerConstants DEF Server!Never

\* The miner's memory of tasks and notices (ServedTasks, handle_failure_notice): for any
\* number of calls, tasks and slots, and however calls are cancelled, the writes under way
\* are counted exactly, no more is remembered than the limit, a task marked as answered
\* has a notice written since the miner last forgot it (by expiry or eviction), and a
\* notice is accepted only for a task answered recently.
THEOREM NoticesAreAccounted == Spec => NoticesAccounted
<1>1. ServerInv => /\ Server!TypeOK /\ Server!WritesCounted /\ Server!MemoryBounded
                   /\ Server!MarkedIsWritten
  BY ServerTyped, ServerBounded
<1>2. ServerInv =>
        [\A c \in Calls : \A t \in Tasks :
           Server!Notice(c, t) /\ (mCall'[c].status = "ok" \/ mCall'[c].phase = "printing")
             => mLastServed[t] # Server!Never /\ mNow - mLastServed[t] < Ttl]_(Server!vars)
  BY NoticeIsRecent
<1>3. Spec => []ServerInv
  BY InitServer, NextServer, PTL DEF Spec
<1>4. Spec => Server!AcceptedIsRecent
  BY <1>2, <1>3, PTL DEF Server!AcceptedIsRecent
<1>5. QED
  BY <1>1, <1>3, <1>4, PTL DEF NoticesAccounted, Server!NoticesAccounted
-----------------------------------------------------------------------------
(***************************************************************************)
(* One solve, and the trajectory it uploads.                               *)
(***************************************************************************)
LEMMA SolveMoves == [Next]_vars => [Solve!Next]_solveVars
  BY DEF Next, vars, Only

LEMMA SolveConstants ==
    /\ Timeout \in Nat \ {0} /\ Reserve \in Nat \ {0} /\ RequestTimeout \in Nat \ {0}
    /\ MaxRetries \in Nat /\ Budget \in Nat \ {0} /\ ReaskLimit \in Nat /\ MaxCalls \in Nat
  BY PartsAssumption DEF PartsAssumption, Solve!MinerSolveAssumption

LEMMA SolveCardinality == \A S : Solve!Cardinality(S) = Cardinality(S)
  BY DEF Solve!Cardinality, Cardinality

Event == [type : {"model_turn", "tool_call", "tool_result"}, id : Int]

TurnsOf(es) == Solve!OfType(es, "model_turn")

\* The trajectory of a solve that goes on: each of the n calls made is followed by its
\* result and no two have one identifier, and the last turn carries the number of turns.
Trail(es, n) ==
    /\ es \in Seq(Event)
    /\ \A i \in DOMAIN es : es[i].type = "tool_call" =>
          /\ i + 1 \in DOMAIN es /\ es[i + 1] = [type |-> "tool_result", id |-> es[i].id]
          /\ es[i].id \in 0..n - 1
    /\ \A i \in DOMAIN es : es[i].type = "tool_result" =>
          i - 1 \in DOMAIN es /\ es[i - 1] = [type |-> "tool_call", id |-> es[i].id]
    /\ \A i, j \in DOMAIN es :
          es[i].type = "tool_call" /\ es[j].type = "tool_call" /\ es[i].id = es[j].id => i = j
    /\ IsFiniteSet(TurnsOf(es))
    /\ TurnsOf(es) # {} => Solve!EndsWithTurn(es, Solve!Turns(es))

\* A reply kept for correction has the trajectory up to it.
ReplyKept ==
    /\ sFallback = Solve!None <=> sSentBack = 0
    /\ sFallback # Solve!None =>
          /\ sFallback.turn = sSentBack
          /\ Trail(sFallback.events, sCallsMade) /\ TurnsOf(sFallback.events) # {}
          /\ sFallback.turn = Solve!Turns(sFallback.events)

TrailTells ==
    /\ sPc \notin {"upload", "done"} => Trail(sEvents, sCallsMade) /\ ReplyKept
    /\ sPc = "check" => TurnsOf(sEvents) # {}

\* Where the directory is, and the thread that writes into it.
FilesTell ==
    /\ sPc \in {"begin", "upload", "done"} => ~sFiles
    /\ sPc \notin {"begin", "upload", "done"} => sFiles
    /\ sThread = "running" <=> sPc \in {"extract", "cancelled"}
    /\ sPc # "done" => sResult = "none"

ClientTells ==
    /\ sClient = [deadline |-> sClient.deadline, attempt |-> sClient.attempt,
                  began |-> sClient.began, wake |-> sClient.wake]
    /\ sClient.deadline \in Int /\ sClient.began \in Int /\ sClient.wake \in Int
    /\ sPc = "sleep" => sClient.attempt < MaxRetries

\* How late it can be while the model is asked.
TimeTells ==
    /\ sPc \in {"attempt", "post", "sleep"} => sClient.deadline <= Solve!ModelDeadline
    /\ sPc = "post" => sNow <= sClient.deadline
    /\ sPc = "check" => sNow <= Solve!ModelDeadline
    /\ sPc = "sleep" => /\ sNow <= sClient.deadline \/ sNow <= sClient.wake
                        /\ sClient.wake <= sClient.deadline + 2 ^ sClient.attempt

SolveInv ==
    /\ Solve!TypeOK /\ FilesTell /\ ClientTells /\ TimeTells
    /\ TrailTells /\ Solve!TrajectoryIsOfSubmission

LEMMA TrailEmpty == Trail(<< >>, 0)
<1>1. TurnsOf(<< >>) = {}
  BY DEF TurnsOf, Solve!OfType
<1>2. QED
  BY <1>1, FS_EmptySet DEF Trail

LEMMA TrailMore ==
    ASSUME NEW es, NEW n \in Nat, NEW m \in Nat, n <= m, Trail(es, n)
    PROVE  Trail(es, m)
  BY DEF Trail

LEMMA TrailTurn ==
    ASSUME NEW es, NEW n \in Nat, Trail(es, n)
    PROVE  Trail(Solve!NewTurn(es), n) /\ TurnsOf(Solve!NewTurn(es)) # {}
<1> DEFINE e == [type |-> "model_turn", id |-> Solve!Turns(es) + 1]
           fs == Append(es, e)
           l == Len(es)
<1>1. Solve!NewTurn(es) = fs
  BY DEF Solve!NewTurn
<1>2. es \in Seq(Event) /\ l \in Nat /\ DOMAIN es = 1..l
  BY DEF Trail
<1>3. IsFiniteSet(TurnsOf(es)) /\ Solve!Turns(es) = Cardinality(TurnsOf(es))
  BY SolveCardinality DEF Trail, Solve!Turns, TurnsOf
<1>4. Solve!Turns(es) \in Nat
  BY <1>3, FS_CardinalityType
<1>5. e \in Event /\ e.type = "model_turn"
  BY <1>4 DEF Event
<1>6. /\ fs \in Seq(Event) /\ DOMAIN fs = 1..l + 1 /\ fs[l + 1] = e
      /\ \A i \in 1..l : fs[i] = es[i]
  BY <1>2, <1>5
<1>7. TurnsOf(fs) = TurnsOf(es) \union {l + 1} /\ l + 1 \notin TurnsOf(es)
  BY <1>2, <1>5, <1>6 DEF TurnsOf, Solve!OfType
<1>8. IsFiniteSet(TurnsOf(fs)) /\ Solve!Turns(fs) = Solve!Turns(es) + 1
  BY <1>3, <1>7, FS_AddElement, SolveCardinality DEF Solve!Turns, TurnsOf
<1>9. Solve!EndsWithTurn(fs, Solve!Turns(fs))
  <2>1. \A j \in TurnsOf(fs) : j <= l + 1
    BY <1>2, <1>6 DEF TurnsOf, Solve!OfType
  <2>2. l + 1 \in TurnsOf(fs) /\ fs[l + 1].id = Solve!Turns(fs)
    BY <1>6, <1>7, <1>8
  <2>3. QED
    BY <2>1, <2>2 DEF Solve!EndsWithTurn, TurnsOf
<1>10. \A i \in DOMAIN fs : fs[i].type # "model_turn" => i \in 1..l /\ fs[i] = es[i]
  BY <1>2, <1>5, <1>6
<1>11. Trail(fs, n)
  <2> HIDE DEF fs, e, l
  <2>1. \A i \in DOMAIN fs : fs[i].type = "tool_call" =>
          /\ i + 1 \in DOMAIN fs /\ fs[i + 1] = [type |-> "tool_result", id |-> fs[i].id]
          /\ fs[i].id \in 0..n - 1
    BY <1>2, <1>6, <1>10 DEF Trail
  <2>2. \A i \in DOMAIN fs : fs[i].type = "tool_result" =>
          i - 1 \in DOMAIN fs /\ fs[i - 1] = [type |-> "tool_call", id |-> fs[i].id]
    BY <1>2, <1>6, <1>10 DEF Trail
  <2>3. \A i, j \in DOMAIN fs :
          fs[i].type = "tool_call" /\ fs[j].type = "tool_call" /\ fs[i].id = fs[j].id => i = j
    BY <1>2, <1>10 DEF Trail
  <2>4. QED
    BY <1>6, <1>8, <1>9, <2>1, <2>2, <2>3 DEF Trail
<1>12. QED
  BY <1>1, <1>7, <1>11

\* Events that are no turns leave the last turn the last.
LEMMA TurnsStay ==
    ASSUME NEW es, NEW l \in Nat, DOMAIN es = 1..l, NEW fs, NEW m \in Nat, l <= m,
           DOMAIN fs = 1..m, \A i \in 1..l : fs[i] = es[i],
           \A i \in l + 1..m : fs[i].type # "model_turn"
    PROVE  /\ TurnsOf(fs) = TurnsOf(es) /\ Solve!Turns(fs) = Solve!Turns(es)
           /\ \A t : Solve!EndsWithTurn(es, t) => Solve!EndsWithTurn(fs, t)
<1>1. TurnsOf(fs) = TurnsOf(es)
  BY DEF TurnsOf, Solve!OfType
<1>2. \A i \in TurnsOf(es) : fs[i] = es[i]
  BY DEF TurnsOf, Solve!OfType
<1>3. QED
  BY <1>1, <1>2 DEF Solve!Turns, Solve!EndsWithTurn, TurnsOf

\* A list of calls with their results, identified from n up to below m.
Pairs(cs, n, m) ==
    /\ cs \in Seq(Event)
    /\ \A i \in DOMAIN cs :
          /\ cs[i].type \in {"tool_call", "tool_result"}
          /\ cs[i].type = "tool_call" =>
                /\ i + 1 \in DOMAIN cs /\ cs[i + 1] = [type |-> "tool_result", id |-> cs[i].id]
                /\ n <= cs[i].id /\ cs[i].id < m
          /\ cs[i].type = "tool_result" =>
                i - 1 \in DOMAIN cs /\ cs[i - 1] = [type |-> "tool_call", id |-> cs[i].id]
    /\ \A i, j \in DOMAIN cs :
          cs[i].type = "tool_call" /\ cs[j].type = "tool_call" /\ cs[i].id = cs[j].id => i = j

LEMMA CallsArePairs ==
    ASSUME NEW k \in Nat, sCallsMade \in Nat
    PROVE  Pairs(Solve!CallEvents(k), sCallsMade, sCallsMade + k)
<1> DEFINE n == sCallsMade
           cs == Solve!CallEvents(k)
           half(i) == (i - 1) \div 2
           odd(i) == i % 2 = 1
<1>1. /\ DOMAIN cs = 1..2 * k
      /\ \A i \in 1..2 * k :
           /\ odd(i) => cs[i] = [type |-> "tool_call", id |-> n + half(i)]
           /\ ~odd(i) => cs[i] = [type |-> "tool_result", id |-> n + half(i)]
  BY DEF Solve!CallEvents, Solve!CallId
<1>2. \A i \in 1..2 * k : half(i) \in 0..k - 1
  OBVIOUS
<1>3. \A i \in 1..2 * k : odd(i) => i + 1 \in 1..2 * k /\ ~odd(i + 1) /\ half(i + 1) = half(i)
  OBVIOUS
<1>4. \A i \in 1..2 * k : ~odd(i) => i - 1 \in 1..2 * k /\ odd(i - 1) /\ half(i - 1) = half(i)
  OBVIOUS
<1>5. \A i, j \in 1..2 * k : odd(i) /\ odd(j) /\ half(i) = half(j) => i = j
  OBVIOUS
<1> HIDE DEF half, odd
<1>6. \A i \in 1..2 * k : cs[i] \in Event
  BY <1>1, <1>2 DEF Event
<1>7. cs \in Seq(Event)
  <2>1. cs = [i \in 1..2 * k |-> cs[i]]
    BY DEF Solve!CallEvents
  <2> HIDE DEF cs
  <2>2. cs \in [1..2 * k -> Event]
    BY <2>1, <1>6
  <2>3. QED
    BY <2>2
<1> HIDE DEF cs
<1>8. \A i \in 1..2 * k : /\ cs[i].type = "tool_call" <=> odd(i)
                          /\ cs[i].type = "tool_result" <=> ~odd(i)
                          /\ cs[i].type \in {"tool_call", "tool_result"}
                          /\ cs[i].id = n + half(i)
  BY <1>1
<1>9. ASSUME NEW i \in 1..2 * k, odd(i)
      PROVE  /\ i + 1 \in 1..2 * k /\ cs[i + 1] = [type |-> "tool_result", id |-> cs[i].id]
             /\ n <= cs[i].id /\ cs[i].id < n + k
  <2>1. cs[i + 1] = [type |-> "tool_result", id |-> n + half(i)]
    BY <1>1, <1>3, <1>9
  <2>2. QED
    BY <1>2, <1>3, <1>8, <1>9, <2>1
<1>10. ASSUME NEW i \in 1..2 * k, ~odd(i)
       PROVE  i - 1 \in 1..2 * k /\ cs[i - 1] = [type |-> "tool_call", id |-> cs[i].id]
  <2>1. cs[i - 1] = [type |-> "tool_call", id |-> n + half(i)]
    BY <1>1, <1>4, <1>10
  <2>2. QED
    BY <1>4, <1>8, <1>10, <2>1
<1>11. \A i, j \in 1..2 * k : odd(i) /\ odd(j) /\ cs[i].id = cs[j].id => i = j
  BY <1>2, <1>5, <1>8
<1>12. QED
  BY <1>1, <1>7, <1>8, <1>9, <1>10, <1>11 DEF Pairs, cs

LEMMA TrailPairs ==
    ASSUME NEW es, NEW n \in Nat, Trail(es, n), NEW m \in Nat, n <= m,
           NEW cs, Pairs(cs, n, m)
    PROVE  Trail(es \o cs, m)
<1> DEFINE fs == es \o cs
           l == Len(es)
           k == Len(cs)
<1>1. es \in Seq(Event) /\ l \in Nat /\ DOMAIN es = 1..l
  BY DEF Trail
<1>2. cs \in Seq(Event) /\ k \in Nat /\ DOMAIN cs = 1..k
  BY DEF Pairs
<1>3. /\ fs \in Seq(Event) /\ DOMAIN fs = 1..l + k
      /\ \A i \in 1..l : fs[i] = es[i]
      /\ \A i \in 1..k : fs[l + i] = cs[i]
  BY <1>1, <1>2
<1> HIDE DEF fs, l, k
<1>4. \A i \in 1..l + k : i \in 1..l \/ (i - l \in 1..k /\ fs[i] = cs[i - l])
  <2> SUFFICES ASSUME NEW i \in 1..l + k, i \notin 1..l
               PROVE  i - l \in 1..k /\ fs[i] = cs[i - l]
    OBVIOUS
  <2>1. i - l \in 1..k /\ l + (i - l) = i
    BY <1>1, <1>2
  <2>2. QED
    BY <1>3, <2>1
<1>5. \A i \in DOMAIN fs : fs[i].type = "tool_call" =>
          /\ i + 1 \in DOMAIN fs /\ fs[i + 1] = [type |-> "tool_result", id |-> fs[i].id]
          /\ fs[i].id \in 0..m - 1
          /\ IF i \in 1..l THEN fs[i].id < n ELSE fs[i].id >= n
  <2> SUFFICES ASSUME NEW i \in DOMAIN fs, fs[i].type = "tool_call"
               PROVE  /\ i + 1 \in DOMAIN fs
                      /\ fs[i + 1] = [type |-> "tool_result", id |-> fs[i].id]
                      /\ fs[i].id \in 0..m - 1
                      /\ IF i \in 1..l THEN fs[i].id < n ELSE fs[i].id >= n
    OBVIOUS
  <2>1. CASE i \in 1..l
    <3>1. /\ i + 1 \in 1..l /\ es[i + 1] = [type |-> "tool_result", id |-> es[i].id]
          /\ es[i].id \in 0..n - 1
      BY <1>1, <1>3, <2>1 DEF Trail
    <3>2. QED
      BY <1>1, <1>2, <1>3, <2>1, <3>1
  <2>2. CASE i \notin 1..l
    <3>1. i - l \in 1..k /\ fs[i] = cs[i - l] /\ cs[i - l] \in Event
      BY <1>2, <1>3, <1>4, <2>2
    <3>2. /\ i - l + 1 \in 1..k
          /\ cs[i - l + 1] = [type |-> "tool_result", id |-> fs[i].id]
          /\ n <= fs[i].id /\ fs[i].id < m
      BY <1>2, <3>1 DEF Pairs
    <3>3. fs[l + (i - l + 1)] = cs[i - l + 1] /\ l + (i - l + 1) = i + 1 /\ i + 1 \in 1..l + k
      BY <1>1, <1>2, <1>3, <3>2
    <3>4. fs[i].id \in Int
      BY <3>1 DEF Event
    <3>5. fs[i].id \in 0..m - 1
      BY <3>2, <3>4
    <3>6. QED
      BY <1>3, <2>2, <3>2, <3>3, <3>5
  <2>3. QED
    BY <2>1, <2>2
<1>6. \A i \in DOMAIN fs : fs[i].type = "tool_result" =>
          i - 1 \in DOMAIN fs /\ fs[i - 1] = [type |-> "tool_call", id |-> fs[i].id]
  <2> SUFFICES ASSUME NEW i \in DOMAIN fs, fs[i].type = "tool_result"
               PROVE  i - 1 \in DOMAIN fs /\ fs[i - 1] = [type |-> "tool_call", id |-> fs[i].id]
    OBVIOUS
  <2>1. CASE i \in 1..l
    <3>1. i - 1 \in 1..l /\ es[i - 1] = [type |-> "tool_call", id |-> es[i].id]
      BY <1>1, <1>3, <2>1 DEF Trail
    <3>2. QED
      BY <1>1, <1>2, <1>3, <2>1, <3>1
  <2>2. CASE i \notin 1..l
    <3>1. i - l \in 1..k /\ fs[i] = cs[i - l]
      BY <1>3, <1>4, <2>2
    <3>2. i - l - 1 \in 1..k /\ cs[i - l - 1] = [type |-> "tool_call", id |-> fs[i].id]
      BY <1>2, <3>1 DEF Pairs
    <3>3. l + (i - l - 1) = i - 1 /\ i - 1 \in 1..l + k
      <4>1. i \in Int /\ l \in Nat /\ k \in Nat
        BY <1>1, <1>2, <1>3
      <4>2. \A a \in Int : \A b, c \in Nat :
              a - b - 1 \in 1..c => b + (a - b - 1) = a - 1 /\ a - 1 \in 1..b + c
        OBVIOUS
      <4> HIDE DEF l, k
      <4>3. QED
        BY <3>2, <4>1, <4>2
    <3>4. fs[l + (i - l - 1)] = cs[i - l - 1]
      BY <1>3, <3>2
    <3>5. QED
      BY <1>3, <3>2, <3>3, <3>4
  <2>3. QED
    BY <2>1, <2>2
<1>7. \A i, j \in DOMAIN fs :
          fs[i].type = "tool_call" /\ fs[j].type = "tool_call" /\ fs[i].id = fs[j].id => i = j
  <2> SUFFICES ASSUME NEW i \in DOMAIN fs, NEW j \in DOMAIN fs, fs[i].type = "tool_call",
                      fs[j].type = "tool_call", fs[i].id = fs[j].id
               PROVE  i = j
    OBVIOUS
  <2>0. i \in 1..l <=> j \in 1..l
    <3>1. /\ fs[i].id \in 0..m - 1
          /\ IF i \in 1..l THEN fs[i].id < n ELSE fs[i].id >= n
          /\ IF j \in 1..l THEN fs[i].id < n ELSE fs[i].id >= n
      BY <1>5
    <3>2. QED
      BY <3>1
  <2>1. CASE i \in 1..l /\ j \in 1..l
    BY <1>1, <1>3, <2>1 DEF Trail
  <2>2. CASE i \notin 1..l /\ j \notin 1..l
    <3>1. /\ i - l \in 1..k /\ fs[i] = cs[i - l]
          /\ j - l \in 1..k /\ fs[j] = cs[j - l]
      BY <1>3, <1>4, <2>2
    <3>2. i - l = j - l
      BY <1>2, <3>1 DEF Pairs
    <3>3. QED
      BY <1>1, <1>3, <3>2
  <2>3. QED
    BY <2>0, <2>1, <2>2
<1>8. \A i \in l + 1..l + k : fs[i].type # "model_turn"
  <2> SUFFICES ASSUME NEW i \in l + 1..l + k PROVE fs[i].type # "model_turn"
    OBVIOUS
  <2>1. i - l \in 1..k /\ fs[i] = cs[i - l]
    BY <1>1, <1>2, <1>4
  <2>2. cs[i - l].type \in {"tool_call", "tool_result"}
    BY <1>2, <2>1 DEF Pairs
  <2>3. QED
    BY <2>1, <2>2
<1>9. /\ TurnsOf(fs) = TurnsOf(es) /\ Solve!Turns(fs) = Solve!Turns(es)
      /\ \A t : Solve!EndsWithTurn(es, t) => Solve!EndsWithTurn(fs, t)
  <2>1. l + k \in Nat /\ l <= l + k
    BY <1>1, <1>2
  <2>2. QED
    BY <1>1, <1>3, <1>8, <2>1, TurnsStay
<1>10. QED
  <2>1. IsFiniteSet(TurnsOf(fs)) /\ (TurnsOf(fs) # {} => Solve!EndsWithTurn(fs, Solve!Turns(fs)))
    BY <1>9 DEF Trail
  <2>2. Trail(fs, m)
    BY <1>3, <1>5, <1>6, <1>7, <2>1 DEF Trail
  <2>3. QED
    BY <2>2 DEF fs

\* A trail that has a turn, closed by the miner's validation and a submission.
Closed(es, fs, l, t) ==
    /\ l \in Nat /\ DOMAIN es = 1..l /\ Len(fs) = l + 3 /\ DOMAIN fs = 1..l + 3
    /\ \A i \in 1..l : fs[i] = es[i]
    /\ fs[l + 1] = [type |-> "tool_call", id |-> -1]
    /\ fs[l + 2] = [type |-> "tool_result", id |-> -1]
    /\ fs[l + 3] = [type |-> "final_submission", id |-> t]

LEMMA Concatenated ==
    ASSUME NEW E, NEW s \in Seq(E), NEW t \in Seq(E)
    PROVE  /\ Len(s \o t) = Len(s) + Len(t) /\ DOMAIN (s \o t) = 1..Len(s) + Len(t)
           /\ \A i \in 1..Len(s) : (s \o t)[i] = s[i]
           /\ \A i \in 1..Len(t) : (s \o t)[Len(s) + i] = t[i]
  OBVIOUS

LEMMA SubmissionCloses ==
    ASSUME NEW es, NEW n \in Nat, Trail(es, n), NEW t
    PROVE  Closed(es, es \o <<[type |-> "tool_call", id |-> Solve!ValidationId],
                              [type |-> "tool_result", id |-> Solve!ValidationId],
                              [type |-> "final_submission", id |-> t]>>, Len(es), t)
<1> DEFINE l == Len(es)
           call == [type |-> "tool_call", id |-> -1]
           answer == [type |-> "tool_result", id |-> -1]
           final == [type |-> "final_submission", id |-> t]
           tail == <<call, answer, final>>
           fs == es \o tail
<1>1. es \in Seq(Event) /\ l \in Nat /\ DOMAIN es = 1..l
  BY DEF Trail
<1>2. tail \in Seq({call, answer, final}) /\ Len(tail) = 3
  OBVIOUS
<1>3. es \in Seq(Event \union {call, answer, final}) /\ tail \in Seq(Event \union {call, answer, final})
  BY <1>1, <1>2
<1>4. tail[1] = call /\ tail[2] = answer /\ tail[3] = final
  OBVIOUS
<1> HIDE DEF tail, call, answer, final
<1>5. /\ Len(fs) = l + 3 /\ DOMAIN fs = 1..l + 3
      /\ \A i \in 1..l : fs[i] = es[i]
      /\ \A i \in 1..3 : fs[l + i] = tail[i]
  <2> DEFINE E == Event \union {call, answer, final}
  <2>1. es \in Seq(E) /\ tail \in Seq(E)
    BY <1>3
  <2> HIDE DEF E
  <2>2. /\ Len(es \o tail) = Len(es) + Len(tail)
        /\ DOMAIN (es \o tail) = 1..Len(es) + Len(tail)
        /\ \A i \in 1..Len(es) : (es \o tail)[i] = es[i]
        /\ \A i \in 1..Len(tail) : (es \o tail)[Len(es) + i] = tail[i]
    BY <2>1, Concatenated
  <2>3. Len(tail) = 3
    BY <1>2
  <2>4. QED
    BY <2>2, <2>3, Zenon
<1>6. fs[l + 1] = call /\ fs[l + 2] = answer /\ fs[l + 3] = final
  BY <1>4, <1>5
<1>7. Closed(es, fs, l, t)
  BY <1>1, <1>5, <1>6 DEF Closed, call, answer, final
<1>8. QED
  BY <1>7 DEF tail, call, answer, final, Solve!ValidationId

LEMMA TrailUploaded ==
    ASSUME NEW es, NEW n \in Nat, Trail(es, n), TurnsOf(es) # {},
           NEW fs, NEW l, Closed(es, fs, l, Solve!Turns(es))
    PROVE  /\ Solve!ValidEvents(fs)
           /\ Solve!EndsWithTurn(fs, Solve!Turns(es))
           /\ fs[Len(fs)].id = Solve!Turns(es)
<1>1. l \in Nat /\ DOMAIN es = 1..l /\ Len(fs) = l + 3 /\ DOMAIN fs = 1..l + 3
  BY DEF Closed
<1>2. \A i \in 1..l : fs[i] = es[i]
  BY DEF Closed
<1>3. /\ fs[l + 1].type = "tool_call" /\ fs[l + 1].id = -1
      /\ fs[l + 2].type = "tool_result" /\ fs[l + 2].id = -1
      /\ fs[l + 3].type = "final_submission" /\ fs[l + 3].id = Solve!Turns(es)
  BY DEF Closed
<1>4. \A i \in 1..l + 3 : i \in 1..l \/ i = l + 1 \/ i = l + 2 \/ i = l + 3
  BY <1>1
<1>5. \A i \in 1..l : es[i].type \in {"model_turn", "tool_call", "tool_result"}
  <2>1. es \in Seq(Event)
    BY DEF Trail
  <2>2. \A i \in 1..l : es[i] \in Event
    BY <1>1, <2>1
  <2>3. QED
    BY <2>2 DEF Event
<1> DEFINE calls == Solve!OfType(fs, "tool_call")
           results == Solve!OfType(fs, "tool_result")
           callsOf == Solve!OfType(es, "tool_call")
           resultsOf == Solve!OfType(es, "tool_result")
<1>6. /\ calls = callsOf \union {l + 1} /\ results = resultsOf \union {l + 2}
      /\ Solve!OfType(fs, "final_submission") = {l + 3}
      /\ l + 1 \in calls /\ l + 2 \in results
  BY <1>1, <1>2, <1>3, <1>4, <1>5 DEF Solve!OfType
<1>7. /\ TurnsOf(fs) = TurnsOf(es)
      /\ \A t : Solve!EndsWithTurn(es, t) => Solve!EndsWithTurn(fs, t)
  <2>1. l + 3 \in Nat /\ l <= l + 3 /\ \A i \in l + 1..l + 3 : i \in {l + 1, l + 2, l + 3}
    BY <1>1
  <2>2. \A i \in l + 1..l + 3 : fs[i].type # "model_turn"
    BY <1>2, <1>3, <2>1
  <2>3. QED
    BY <1>1, <1>2, <2>1, <2>2, TurnsStay
<1>8. /\ callsOf \subseteq 1..l /\ resultsOf \subseteq 1..l
      /\ \A i \in callsOf : fs[i] = es[i] /\ fs[i].id \in 0..n - 1 /\ fs[i].id # -1
      /\ \A i \in callsOf : i + 1 \in resultsOf /\ fs[i + 1].id = fs[i].id
      /\ \A i \in resultsOf : i - 1 \in callsOf /\ fs[i - 1].id = fs[i].id
  <2>1. callsOf \subseteq 1..l /\ resultsOf \subseteq 1..l
    BY <1>1 DEF Solve!OfType
  <2>2. \A i \in callsOf : fs[i] = es[i] /\ es[i].id \in 0..n - 1
    BY <1>1, <1>2, <2>1 DEF Trail, Solve!OfType
  <2>3. \A i \in callsOf : i + 1 \in 1..l /\ es[i + 1] = [type |-> "tool_result", id |-> es[i].id]
    BY <1>1 DEF Trail, Solve!OfType
  <2>4. \A i \in callsOf : i + 1 \in resultsOf /\ fs[i + 1].id = fs[i].id
    <3> SUFFICES ASSUME NEW i \in callsOf
                 PROVE  i + 1 \in resultsOf /\ fs[i + 1].id = fs[i].id
      OBVIOUS
    <3>1. i + 1 \in 1..l /\ es[i + 1].type = "tool_result" /\ es[i + 1].id = es[i].id
      <4> HIDE DEF callsOf, resultsOf
      <4>1. i + 1 \in 1..l /\ es[i + 1] = [type |-> "tool_result", id |-> es[i].id]
        BY <2>3
      <4>2. QED
        BY <4>1
    <3>2. fs[i + 1] = es[i + 1] /\ fs[i] = es[i]
      BY <1>2, <2>2, <3>1
    <3>3. QED
      BY <1>1, <3>1, <3>2 DEF Solve!OfType
  <2>5. \A i \in resultsOf : i - 1 \in 1..l /\ es[i - 1] = [type |-> "tool_call", id |-> es[i].id]
    BY <1>1 DEF Trail, Solve!OfType
  <2>6. \A i \in resultsOf : i - 1 \in callsOf /\ fs[i - 1].id = fs[i].id
    <3> SUFFICES ASSUME NEW i \in resultsOf
                 PROVE  i - 1 \in callsOf /\ fs[i - 1].id = fs[i].id
      OBVIOUS
    <3>1. i - 1 \in 1..l /\ es[i - 1].type = "tool_call" /\ es[i - 1].id = es[i].id
      <4> HIDE DEF callsOf, resultsOf
      <4>1. i - 1 \in 1..l /\ es[i - 1] = [type |-> "tool_call", id |-> es[i].id]
        BY <2>5
      <4>2. QED
        BY <4>1
    <3>2. fs[i - 1] = es[i - 1] /\ fs[i] = es[i]
      BY <1>2, <2>1, <3>1
    <3>3. QED
      BY <1>1, <3>1, <3>2 DEF Solve!OfType
  <2>7. QED
    BY <2>1, <2>2, <2>4, <2>6
<1>9. \A i, j \in callsOf : fs[i].id = fs[j].id => i = j
  BY <1>1, <1>8 DEF Trail, Solve!OfType
<1> HIDE DEF calls, results, callsOf, resultsOf
<1>11. \A i, j \in calls : fs[i].id = fs[j].id => i = j
  <2>1. \A i \in calls : i \in callsOf \/ i = l + 1
    BY <1>6
  <2>2. \A i \in callsOf : fs[i].id # fs[l + 1].id
    BY <1>3, <1>8
  <2>3. QED
    BY <1>9, <2>1, <2>2
<1>12. \A i \in calls : \E j \in results : /\ i < j /\ fs[i].id = fs[j].id
                                            /\ \A k \in results : fs[k].id = fs[i].id => k = j
  <2> SUFFICES ASSUME NEW i \in calls
               PROVE  /\ i + 1 \in results /\ i < i + 1 /\ fs[i].id = fs[i + 1].id
                      /\ \A k \in results : fs[k].id = fs[i].id => k = i + 1
    OBVIOUS
  <2>1. i \in Int /\ i + 1 \in results /\ fs[i].id = fs[i + 1].id
    <3>1. CASE i \in callsOf
      BY <1>1, <1>6, <1>8, <3>1
    <3>2. CASE i = l + 1
      BY <1>1, <1>6, <1>3, <3>2
    <3>3. QED
      BY <1>6, <3>1, <3>2
  <2>2. ASSUME NEW k \in results, fs[k].id = fs[i].id PROVE k = i + 1
    <3>1. k \in Int /\ k - 1 \in calls /\ fs[k - 1].id = fs[k].id
      <4>1. CASE k \in resultsOf
        BY <1>1, <1>6, <1>8, <4>1
      <4>2. CASE k = l + 2
        <5>1. k - 1 = l + 1
          BY <1>1, <4>2
        <5>2. QED
          BY <1>1, <1>6, <1>3, <4>2, <5>1
      <4>3. QED
        BY <1>6, <4>1, <4>2
    <3>2. k - 1 = i
      BY <1>11, <2>2, <3>1
    <3>3. QED
      BY <2>1, <3>1, <3>2
  <2>3. QED
    BY <2>1, <2>2
<1>13. \A j \in results : \E i \in calls : fs[i].id = fs[j].id
  <2> SUFFICES ASSUME NEW j \in results PROVE \E i \in calls : fs[i].id = fs[j].id
    OBVIOUS
  <2>1. CASE j \in resultsOf
    BY <1>6, <1>8, <2>1
  <2>2. CASE j = l + 2
    BY <1>6, <1>3, <2>2
  <2>3. QED
    BY <1>6, <2>1, <2>2
<1>14. l > 0
  <2>1. PICK i : i \in TurnsOf(es)
    OBVIOUS
  <2>2. i \in 1..l
    BY <1>1, <2>1 DEF TurnsOf, Solve!OfType
  <2>3. QED
    BY <1>1, <2>2
<1>15. Solve!ValidEvents(fs)
  <2>1. Len(fs) >= 4 /\ Solve!OfType(fs, "model_turn") # {}
    BY <1>1, <1>7, <1>14 DEF TurnsOf
  <2>2. calls # {} /\ Solve!OfType(fs, "final_submission") = {Len(fs)}
    BY <1>1, <1>6
  <2>3. QED
    BY <1>11, <1>12, <1>13, <2>1, <2>2 DEF Solve!ValidEvents, calls, results
<1>16. QED
  BY <1>1, <1>3, <1>7, <1>15 DEF Trail

LEMMA InitSolve == Init => SolveInv
<1> SUFFICES ASSUME Solve!Init PROVE SolveInv
  BY DEF Init
<1>1. Solve!TypeOK
  <2>1. sClient.attempt = 0 /\ sClient.deadline = 0
    BY DEF Solve!Init, Solve!NoClient
  <2>2. 0 <= Solve!Positive(Solve!ModelDeadline)
    BY SolveConstants DEF Solve!Positive, Solve!ModelDeadline
  <2>3. sNow \in 0..Timeout
    BY SolveConstants DEF Solve!Init
  <2>4. /\ sPc \in {"begin"} /\ sFiles \in BOOLEAN /\ sThread \in {"none"} /\ sResult \in {"none"}
    BY DEF Solve!Init
  <2>5. sCallsMade \in 0..Budget /\ sReasks \in 0..ReaskLimit /\ sClient.attempt \in 0..MaxRetries
    BY <2>1, SolveConstants DEF Solve!Init
  <2>6. QED
    BY <2>1, <2>2, <2>3, <2>4, <2>5 DEF Solve!TypeOK
<1>2. FilesTell /\ ClientTells /\ TimeTells
  BY SolveConstants DEF Solve!Init, FilesTell, ClientTells, TimeTells, Solve!NoClient
<1>3. TrailTells /\ Solve!TrajectoryIsOfSubmission
  BY TrailEmpty DEF Solve!Init, TrailTells, ReplyKept, Solve!TrajectoryIsOfSubmission
<1>4. QED
  BY <1>1, <1>2, <1>3 DEF SolveInv

LEMMA SolveTyped ==
    ASSUME SolveInv
    PROVE  /\ sNow \in Nat /\ sCallsMade \in Nat /\ sReasks \in Nat
           /\ Solve!ModelDeadline \in Int
  BY SolveConstants DEF SolveInv, Solve!TypeOK, Solve!ModelDeadline

LEMMA FailSolve ==
    ASSUME SolveInv, NEW why \in {"timeout", "error", "submitted"}, Solve!Fail(why),
           sPc \notin {"extract", "cancelled"}
    PROVE  SolveInv'
<1>1. Solve!TypeOK'
  BY DEF SolveInv, Solve!TypeOK, Solve!Fail, Solve!modelVars
<1>2. FilesTell' /\ ClientTells' /\ TimeTells'
  BY DEF SolveInv, FilesTell, ClientTells, TimeTells, Solve!Fail
<1>3. TrailTells' /\ Solve!TrajectoryIsOfSubmission'
  BY DEF TrailTells, Solve!TrajectoryIsOfSubmission, Solve!Fail
<1>4. QED
  BY <1>1, <1>2, <1>3 DEF SolveInv

LEMMA SubmitSolve ==
    ASSUME SolveInv, NEW r, Solve!Submit(r), sPc \notin {"extract", "cancelled", "done"},
           Trail(r.events, sCallsMade), TurnsOf(r.events) # {}, r.turn = Solve!Turns(r.events)
    PROVE  SolveInv'
<1>1. Solve!TypeOK'
  BY DEF SolveInv, Solve!TypeOK, Solve!Submit
<1>2. FilesTell' /\ ClientTells' /\ TimeTells'
  BY DEF SolveInv, FilesTell, ClientTells, TimeTells, Solve!Submit
<1>3. Solve!TrajectoryIsOfSubmission'
  <2>1. Closed(r.events, sEvents', Len(r.events), Solve!Turns(r.events))
    BY SolveTyped, SubmissionCloses DEF Solve!Submit
  <2>2. /\ Solve!ValidEvents(sEvents') /\ Solve!EndsWithTurn(sEvents', r.turn)
        /\ sEvents'[Len(sEvents')].id = r.turn
    BY <2>1, SolveTyped, TrailUploaded
  <2>3. sSubmission' = r
    BY DEF Solve!Submit
  <2>4. QED
    BY <2>2, <2>3 DEF Solve!TrajectoryIsOfSubmission, Solve!ValidEvents, Solve!EndsWithTurn, Solve!OfType
<1>4. TrailTells'
  BY DEF TrailTells, Solve!Submit
<1>5. QED
  BY <1>1, <1>2, <1>3, <1>4 DEF SolveInv

LEMMA OutOfTimeSolve ==
    ASSUME SolveInv, Solve!OutOfTime, sPc \in {"ask", "attempt", "post"}
    PROVE  SolveInv'
<1>1. CASE sFallback # Solve!None /\ Solve!Submit(sFallback)
  <2>1. /\ Trail(sFallback.events, sCallsMade) /\ TurnsOf(sFallback.events) # {}
        /\ sFallback.turn = Solve!Turns(sFallback.events)
    BY <1>1 DEF SolveInv, TrailTells, ReplyKept
  <2>2. QED
    BY <1>1, <2>1, SubmitSolve
<1>2. CASE Solve!Fail("timeout")
  BY <1>2, FailSolve
<1>3. QED
  BY <1>1, <1>2 DEF Solve!OutOfTime

\* A step to another place that leaves the trajectory alone.
LEMMA StepKeepsTrail ==
    ASSUME SolveInv, UNCHANGED Solve!modelVars, UNCHANGED sSubmission,
           sPc \notin {"upload", "done"}, sPc' # "upload", sPc' = "check" => sPc = "check"
    PROVE  TrailTells' /\ Solve!TrajectoryIsOfSubmission'
<1>1. /\ sEvents' = sEvents /\ sCallsMade' = sCallsMade /\ sFallback' = sFallback
      /\ sSentBack' = sSentBack
  BY DEF Solve!modelVars
<1>2. Trail(sEvents, sCallsMade) /\ ReplyKept
  BY DEF SolveInv, TrailTells
<1>3. Trail(sEvents, sCallsMade)'
  BY <1>1, <1>2
<1>4. ReplyKept'
  BY <1>1, <1>2 DEF ReplyKept
<1>5. sPc' = "check" => TurnsOf(sEvents)' # {}
  BY <1>1 DEF SolveInv, TrailTells
<1>6. QED
  BY <1>3, <1>4, <1>5 DEF TrailTells, Solve!TrajectoryIsOfSubmission

LEMMA OpenSolve ==
    ASSUME SolveInv, Solve!Begin \/ Solve!Download \/ Solve!ThreadEnds PROVE SolveInv'
<1>1. CASE Solve!Begin
  <2>1. CASE Solve!Fail("timeout")
    BY <1>1, <2>1, FailSolve DEF Solve!Begin
  <2>2. CASE /\ sPc' = "download" /\ sFiles' = TRUE
             /\ UNCHANGED <<sNow, sThread, sClient, Solve!modelVars, sSubmission, sResult>>
    <3>1. TrailTells' /\ Solve!TrajectoryIsOfSubmission'
      BY <1>1, <2>2, StepKeepsTrail DEF Solve!Begin
    <3>2. QED
      BY <1>1, <2>2, <3>1
      DEF Solve!Begin, SolveInv, Solve!TypeOK, FilesTell, ClientTells, TimeTells, Solve!modelVars
  <2>3. QED
    BY <1>1, <2>1, <2>2 DEF Solve!Begin
<1>2. CASE Solve!Download
  <2>1. CASE Solve!Fail("error")
    BY <1>2, <2>1, FailSolve DEF Solve!Download
  <2>2. CASE /\ sPc' = "extract" /\ sThread' = "running"
             /\ UNCHANGED <<sNow, sFiles, sClient, Solve!modelVars, sSubmission, sResult>>
    <3>1. TrailTells' /\ Solve!TrajectoryIsOfSubmission'
      BY <1>2, <2>2, StepKeepsTrail DEF Solve!Download
    <3>2. QED
      BY <1>2, <2>2, <3>1
      DEF Solve!Download, SolveInv, Solve!TypeOK, FilesTell, ClientTells, TimeTells, Solve!modelVars
  <2>3. QED
    BY <1>2, <2>1, <2>2 DEF Solve!Download
<1>3. CASE Solve!ThreadEnds
  <2>1. TrailTells' /\ Solve!TrajectoryIsOfSubmission'
    BY <1>3, StepKeepsTrail DEF Solve!ThreadEnds
  <2>2. Solve!TypeOK'
    BY <1>3 DEF Solve!ThreadEnds, SolveInv, Solve!TypeOK, Solve!modelVars
  <2>3. FilesTell' /\ ClientTells' /\ TimeTells'
    BY <1>3 DEF Solve!ThreadEnds, SolveInv, FilesTell, ClientTells, TimeTells
  <2>4. QED
    BY <2>1, <2>2, <2>3 DEF SolveInv
<1>4. QED
  BY <1>1, <1>2, <1>3

LEMMA AskSolve ==
    ASSUME SolveInv, Solve!Ask \/ Solve!Attempt \/ Solve!PostTimesOut \/ Solve!Wake
    PROVE  SolveInv'
<1>1. CASE Solve!Ask
  <2>1. CASE Solve!OutOfTime
    BY <1>1, <2>1, OutOfTimeSolve DEF Solve!Ask
  <2>2. CASE /\ sNow < Solve!ModelDeadline /\ sPc' = "attempt"
             /\ sClient' = [Solve!NoClient EXCEPT !.deadline = Solve!ClientDeadline]
             /\ UNCHANGED <<sNow, sFiles, sThread, Solve!modelVars, sSubmission, sResult>>
    <3>1. TrailTells' /\ Solve!TrajectoryIsOfSubmission'
      BY <1>1, <2>2, StepKeepsTrail DEF Solve!Ask
    <3>2. /\ Solve!ClientDeadline \in Int /\ Solve!ClientDeadline <= Solve!ModelDeadline
          /\ Solve!ClientDeadline <= Solve!Positive(Solve!ModelDeadline)
          /\ sClient' = [deadline |-> Solve!ClientDeadline, attempt |-> 0, began |-> 0, wake |-> 0]
      BY <2>2, SolveTyped, SolveConstants
      DEF Solve!ClientDeadline, Solve!Least, Solve!Positive, Solve!NoClient
    <3>3. FilesTell'
      BY <1>1, <2>2 DEF Solve!Ask, SolveInv, FilesTell
    <3>4. ClientTells'
      <4>1. /\ sClient'.deadline = Solve!ClientDeadline /\ sClient'.attempt = 0
            /\ sClient'.began = 0 /\ sClient'.wake = 0
        BY <3>2
      <4>2. sClient'.deadline \in Int /\ sClient'.began \in Int /\ sClient'.wake \in Int
        BY <3>2, <4>1
      <4>3. QED
        BY <2>2, <3>2, <4>1, <4>2 DEF ClientTells
    <3>5. TimeTells'
      <4>1. sClient'.deadline <= Solve!ModelDeadline /\ sPc' = "attempt"
        BY <2>2, <3>2
      <4>2. QED
        BY <4>1 DEF TimeTells, Solve!ModelDeadline
    <3>6. Solve!TypeOK'
      BY <1>1, <2>2, <3>2, SolveConstants
      DEF Solve!Ask, SolveInv, Solve!TypeOK, Solve!modelVars, Solve!Positive, Solve!ModelDeadline
    <3>7. QED
      BY <3>1, <3>4, <3>6, <3>5, <3>3 DEF SolveInv
  <2>3. QED
    BY <1>1, <2>1, <2>2 DEF Solve!Ask
<1>2. CASE Solve!Attempt
  <2>1. CASE Solve!OutOfTime
    BY <1>2, <2>1, OutOfTimeSolve DEF Solve!Attempt
  <2>2. CASE /\ sNow < sClient.deadline
             /\ sPc' = "post" /\ sClient' = [sClient EXCEPT !.began = sNow]
             /\ UNCHANGED <<sNow, sFiles, sThread, Solve!modelVars, sSubmission, sResult>>
    <3>1. TrailTells' /\ Solve!TrajectoryIsOfSubmission'
      BY <1>2, <2>2, StepKeepsTrail DEF Solve!Attempt
    <3>2. sClient' = [deadline |-> sClient.deadline, attempt |-> sClient.attempt,
                      began |-> sNow, wake |-> sClient.wake]
      BY <2>2 DEF SolveInv, ClientTells
    <3>3. ClientTells' /\ FilesTell' /\ TimeTells'
      BY <1>2, <2>2, <3>2, SolveTyped
      DEF Solve!Attempt, SolveInv, FilesTell, ClientTells, TimeTells, Solve!ModelDeadline
    <3>4. Solve!TypeOK'
      BY <1>2, <2>2, <3>2 DEF Solve!Attempt, SolveInv, Solve!TypeOK, Solve!modelVars,
                              Solve!Positive, Solve!ModelDeadline
    <3>5. QED
      BY <3>1, <3>3, <3>4 DEF SolveInv
  <2>3. QED
    BY <1>2, <2>1, <2>2 DEF Solve!Attempt
<1>3. CASE Solve!PostTimesOut
  BY <1>3, OutOfTimeSolve DEF Solve!PostTimesOut
<1>4. CASE Solve!Wake
  <2>1. TrailTells' /\ Solve!TrajectoryIsOfSubmission'
    BY <1>4, StepKeepsTrail DEF Solve!Wake
  <2>2. sClient' = [deadline |-> sClient.deadline, attempt |-> sClient.attempt + 1,
                    began |-> sClient.began, wake |-> sClient.wake]
    BY <1>4 DEF SolveInv, ClientTells, Solve!Wake
  <2>3. ClientTells' /\ FilesTell' /\ TimeTells'
    BY <1>4, <2>2
    DEF Solve!Wake, SolveInv, FilesTell, ClientTells, TimeTells, Solve!ModelDeadline
  <2>4. sClient.attempt + 1 \in 0..MaxRetries
    BY <1>4, SolveConstants DEF Solve!Wake, SolveInv, ClientTells, Solve!TypeOK
  <2>5. Solve!TypeOK'
    BY <1>4, <2>2, <2>4 DEF Solve!Wake, SolveInv, Solve!TypeOK, Solve!modelVars,
                            Solve!Positive, Solve!ModelDeadline
  <2>6. QED
    BY <2>1, <2>3, <2>5 DEF SolveInv
<1>5. QED
  BY <1>1, <1>2, <1>3, <1>4

LEMMA SleepSolve ==
    ASSUME SolveInv, sPc = "post", Solve!CanRetry, NEW d \in Int, d <= 2 ^ sClient.attempt,
           Solve!SleepFor(d)
    PROVE  SolveInv'
<1>1. TrailTells' /\ Solve!TrajectoryIsOfSubmission'
  BY StepKeepsTrail DEF Solve!SleepFor
<1>2. sClient' = [deadline |-> sClient.deadline, attempt |-> sClient.attempt,
                  began |-> sClient.began, wake |-> sNow + d]
  BY DEF SolveInv, ClientTells, Solve!SleepFor
<1>3. ClientTells' /\ FilesTell'
  BY <1>2, SolveTyped DEF Solve!SleepFor, Solve!CanRetry, SolveInv, FilesTell, ClientTells
<1>4. TimeTells'
  <2>1. sPc' = "sleep" /\ sNow' = sNow /\ 2 ^ sClient.attempt \in Int
    BY SolveConstants DEF Solve!SleepFor, SolveInv, Solve!TypeOK
  <2>2. sNow <= sClient.deadline /\ sClient.deadline <= Solve!ModelDeadline
    BY DEF SolveInv, TimeTells
  <2>3. sNow + d <= sClient.deadline + 2 ^ sClient.attempt
    BY <2>1, <2>2, SolveTyped DEF SolveInv, ClientTells
  <2>4. QED
    BY <1>2, <2>1, <2>2, <2>3 DEF TimeTells, Solve!ModelDeadline
<1>5. Solve!TypeOK'
  BY <1>2 DEF Solve!SleepFor, SolveInv, Solve!TypeOK, Solve!modelVars, Solve!Positive,
              Solve!ModelDeadline
<1>6. QED
  BY <1>1, <1>3, <1>5, <1>4 DEF SolveInv

\* A turn is added, and with it the calls it asks for.
LEMMA TurnSolve ==
    ASSUME SolveInv, sPc = "post", sPc' \in {"ask", "check"}, NEW n \in Nat,
           sCallsMade' = sCallsMade + n, sCallsMade' \in 0..Budget,
           sEvents' = IF n = 0 THEN Solve!NewTurn(sEvents)
                               ELSE Solve!NewTurn(sEvents) \o Solve!CallEvents(n),
           sReasks' \in 0..ReaskLimit, sPc' = "check" => n = 0,
           UNCHANGED <<sNow, sFiles, sThread, sClient, sFallback, sSentBack, sSubmission, sResult>>
    PROVE  SolveInv'
<1>1. Trail(sEvents, sCallsMade) /\ ReplyKept /\ sCallsMade \in Nat /\ sCallsMade' \in Nat
  BY SolveTyped DEF SolveInv, TrailTells
<1>2. Trail(Solve!NewTurn(sEvents), sCallsMade) /\ TurnsOf(Solve!NewTurn(sEvents)) # {}
  BY <1>1, TrailTurn
<1>3. Trail(sEvents', sCallsMade') /\ (sPc' = "check" => TurnsOf(sEvents') # {})
  <2>1. CASE n = 0
    BY <1>1, <1>2, <2>1
  <2>2. CASE n # 0
    <3>1. Pairs(Solve!CallEvents(n), sCallsMade, sCallsMade + n)
      BY <1>1, CallsArePairs
    <3>2. sCallsMade <= sCallsMade + n /\ sCallsMade + n \in Nat
      BY <1>1
    <3>3. Trail(Solve!NewTurn(sEvents) \o Solve!CallEvents(n), sCallsMade + n)
      BY <1>1, <1>2, <3>1, <3>2, TrailPairs
    <3>4. QED
      BY <2>2, <3>3
  <2>3. QED
    BY <2>1, <2>2
<1>4. ReplyKept'
  <2>1. sCallsMade <= sCallsMade'
    BY <1>1
  <2>2. sFallback # Solve!None => Trail(sFallback.events, sCallsMade')
    BY <1>1, <2>1, TrailMore DEF ReplyKept
  <2>3. QED
    BY <1>1, <2>2 DEF ReplyKept
<1>5. TrailTells' /\ Solve!TrajectoryIsOfSubmission'
  BY <1>3, <1>4 DEF TrailTells, Solve!TrajectoryIsOfSubmission
<1>6. FilesTell' /\ ClientTells' /\ TimeTells'
  BY SolveTyped DEF SolveInv, FilesTell, ClientTells, TimeTells, Solve!ModelDeadline
<1>7. Solve!TypeOK'
  BY DEF SolveInv, Solve!TypeOK, Solve!Positive, Solve!ModelDeadline
<1>8. QED
  BY <1>5, <1>6, <1>7 DEF SolveInv

LEMMA ModelSolve == ASSUME SolveInv, Solve!Model PROVE SolveInv'
<1> DEFINE most == 2 ^ sClient.attempt
           before == Solve!Least(most, sClient.deadline - sClient.began)
           after == Solve!Least(most, Solve!Positive(sClient.deadline - sNow))
<1>0. before \in Int /\ before <= most /\ after \in Int /\ after <= most
  <2>1. most \in Int
    BY SolveConstants DEF SolveInv, Solve!TypeOK
  <2>2. sClient.deadline \in Int /\ sClient.began \in Int /\ sNow \in Int
    BY SolveTyped DEF SolveInv, ClientTells
  <2> HIDE DEF most
  <2>3. QED
    BY <2>1, <2>2 DEF Solve!Least, Solve!Positive
<1>1. CASE Solve!Busy
  BY <1>0, <1>1, FailSolve, SleepSolve DEF Solve!Busy
<1>2. CASE Solve!TransportError
  BY <1>0, <1>2, FailSolve, OutOfTimeSolve, SleepSolve DEF Solve!TransportError
<1>3. CASE Solve!Invalid
  BY <1>3, FailSolve DEF Solve!Invalid
<1>4. CASE Solve!TextReply
  <2>1. sCallsMade' = sCallsMade + 0 /\ sCallsMade' \in 0..Budget /\ sReasks' \in 0..ReaskLimit
    BY <1>4, SolveTyped DEF Solve!TextReply, SolveInv, Solve!TypeOK
  <2>2. QED
    BY <1>4, <2>1, TurnSolve DEF Solve!TextReply
<1>5. ASSUME NEW n \in 1..MaxCalls, Solve!ToolCalls(n) PROVE SolveInv'
  <2>1. CASE /\ sCallsMade + n <= Budget
             /\ sEvents' = Solve!NewTurn(sEvents) \o Solve!CallEvents(n)
             /\ sCallsMade' = sCallsMade + n /\ sPc' = "ask"
             /\ UNCHANGED <<sNow, sFiles, sThread, sClient, sReasks, sFallback, sSentBack,
                            sSubmission, sResult>>
    <3>1. n \in Nat /\ n # 0 /\ sCallsMade' \in 0..Budget /\ sReasks' \in 0..ReaskLimit
      BY <1>5, <2>1, SolveTyped, SolveConstants DEF SolveInv, Solve!TypeOK
    <3>2. QED
      BY <1>5, <2>1, <3>1, TurnSolve DEF Solve!ToolCalls
  <2>2. CASE /\ sReasks < ReaskLimit /\ sEvents' = Solve!NewTurn(sEvents)
             /\ sReasks' = sReasks + 1 /\ sPc' = "ask"
             /\ UNCHANGED <<sNow, sFiles, sThread, sClient, sCallsMade, sFallback, sSentBack,
                            sSubmission, sResult>>
    <3>1. /\ sCallsMade' = sCallsMade + 0 /\ sCallsMade' \in 0..Budget
          /\ sReasks' \in 0..ReaskLimit
      BY <2>2, SolveTyped, SolveConstants DEF SolveInv, Solve!TypeOK
    <3>2. QED
      BY <1>5, <2>2, <3>1, TurnSolve DEF Solve!ToolCalls
  <2>3. CASE Solve!Fail("error")
    BY <1>5, <2>3, FailSolve DEF Solve!ToolCalls
  <2>4. QED
    BY <1>5, <2>1, <2>2, <2>3 DEF Solve!ToolCalls
<1>6. QED
  BY <1>1, <1>2, <1>3, <1>4, <1>5 DEF Solve!Model

LEMMA CheckSolve ==
    ASSUME SolveInv, NEW problem \in BOOLEAN, Solve!CheckEnds(problem) PROVE SolveInv'
<1> DEFINE reply == [turn |-> Solve!Turns(sEvents), events |-> sEvents]
<1>1. /\ sPc = "check" /\ Trail(sEvents, sCallsMade) /\ ReplyKept /\ TurnsOf(sEvents) # {}
      /\ reply.turn = Solve!Turns(reply.events) /\ reply.events = sEvents
  BY DEF SolveInv, TrailTells, Solve!CheckEnds
<1>2. CASE Solve!Submit(reply)
  BY <1>1, <1>2, SubmitSolve
<1>3. CASE /\ sReasks # ReaskLimit /\ sReasks' = sReasks + 1 /\ sFallback' = reply
           /\ sSentBack' = Solve!Turns(sEvents) /\ sPc' = "ask"
           /\ UNCHANGED <<sNow, sFiles, sThread, sClient, sEvents, sCallsMade, sSubmission, sResult>>
  <2>1. Solve!Turns(sEvents) # 0
    <3>1. IsFiniteSet(TurnsOf(sEvents)) /\ Solve!Turns(sEvents) = Cardinality(TurnsOf(sEvents))
      BY <1>1, SolveCardinality DEF Trail, Solve!Turns, TurnsOf
    <3>2. QED
      BY <1>1, <3>1, FS_EmptySet
  <2>2. reply # Solve!None
    BY <2>1 DEF Solve!None
  <2>3. ReplyKept'
    <3>1. /\ sFallback'.turn = sSentBack' /\ sFallback'.events = sEvents
          /\ sFallback' # Solve!None /\ sSentBack' # 0
      BY <1>3, <2>1, <2>2
    <3>2. Trail(sFallback'.events, sCallsMade') /\ TurnsOf(sFallback'.events) # {}
          /\ sFallback'.turn = Solve!Turns(sFallback'.events)
      BY <1>1, <1>3, <3>1
    <3>3. QED
      BY <3>1, <3>2 DEF ReplyKept
  <2>4. TrailTells' /\ Solve!TrajectoryIsOfSubmission'
    BY <1>1, <1>3, <2>3 DEF TrailTells, Solve!TrajectoryIsOfSubmission
  <2>5. FilesTell' /\ ClientTells' /\ TimeTells'
    BY <1>1, <1>3 DEF SolveInv, FilesTell, ClientTells, TimeTells
  <2>6. Solve!TypeOK'
    BY <1>3, SolveConstants DEF SolveInv, Solve!TypeOK, Solve!Positive, Solve!ModelDeadline
  <2>7. QED
    BY <2>4, <2>5, <2>6 DEF SolveInv
<1>4. QED
  BY <1>2, <1>3 DEF Solve!CheckEnds, Solve!KeptForCorrection

LEMMA CloseSolve ==
    ASSUME SolveInv, Solve!Upload \/ Solve!Cancel \/ Solve!Tick \/ UNCHANGED solveVars
    PROVE  SolveInv'
<1>1. CASE Solve!Upload
  BY <1>1, FailSolve DEF Solve!Upload
<1>2. CASE Solve!Cancel
  <2>1. CASE sPc \in {"download", "post", "sleep", "check", "upload"} /\ Solve!Fail("timeout")
    BY <2>1, FailSolve
  <2>2. CASE /\ sPc = "extract" /\ sPc' = "cancelled"
             /\ UNCHANGED <<sNow, sFiles, sThread, sClient, Solve!modelVars, sSubmission, sResult>>
    <3>1. TrailTells' /\ Solve!TrajectoryIsOfSubmission'
      BY <2>2, StepKeepsTrail
    <3>2. QED
      BY <2>2, <3>1 DEF SolveInv, Solve!TypeOK, FilesTell, ClientTells, TimeTells, Solve!modelVars
  <2>3. QED
    BY <1>2, <2>1, <2>2 DEF Solve!Cancel
<1>3. CASE Solve!Tick \/ UNCHANGED solveVars
  <2>1. /\ UNCHANGED <<sPc, sFiles, sThread, sClient, sEvents, sCallsMade, sReasks, sFallback,
                       sSentBack, sSubmission, sResult>>
        /\ sNow' \in 0..Timeout
    BY <1>3, SolveTyped, SolveConstants
    DEF Solve!Tick, Solve!modelVars, solveVars, SolveInv, Solve!TypeOK
  <2>2. Solve!TypeOK' /\ FilesTell' /\ ClientTells'
    BY <2>1 DEF SolveInv, Solve!TypeOK, FilesTell, ClientTells
  <2>3. TrailTells'
    BY <2>1 DEF SolveInv, TrailTells, ReplyKept
  <2>4. Solve!TrajectoryIsOfSubmission'
    BY <2>1 DEF SolveInv, Solve!TrajectoryIsOfSubmission
  <2>5. TimeTells'
    <3>1. Solve!ModelDeadline' = Solve!ModelDeadline /\ Solve!ModelDeadline \in Int
      BY SolveTyped DEF Solve!ModelDeadline
    <3>2. sClient.deadline \in Int /\ sClient.wake \in Int /\ sNow \in Int
      BY SolveTyped DEF SolveInv, ClientTells
    <3>3. CASE sNow' = sNow
      BY <2>1, <3>1, <3>3 DEF SolveInv, TimeTells
    <3>4. CASE Solve!Tick
      BY <2>1, <3>1, <3>2, <3>4 DEF Solve!Tick, SolveInv, TimeTells
    <3>5. QED
      BY <1>3, <3>3, <3>4 DEF solveVars
  <2>6. QED
    BY <2>2, <2>3, <2>4, <2>5 DEF SolveInv
<1>4. QED
  BY <1>1, <1>2, <1>3

LEMMA NextSolve == SolveInv /\ [Next]_vars => SolveInv'
<1> SUFFICES ASSUME SolveInv, [Solve!Next]_solveVars PROVE SolveInv'
  BY SolveMoves
<1>1. QED
  BY OpenSolve, AskSolve, ModelSolve, CheckSolve, CloseSolve DEF Solve!Next, Solve!Steps

\* The caller's deadline ends a solve that asks the model only in a pause of the client,
\* one that is as long as the reserve.
LEMMA CancelledInPause ==
    ASSUME SolveInv, Solve!Cancel, sPc \in {"ask", "attempt", "post", "sleep", "check"}
    PROVE  sPc = "sleep" /\ Reserve <= 2 ^ sClient.attempt /\ sPc' # "upload"
<1>1. /\ Timeout <= sNow /\ sPc \in {"post", "sleep", "check"} /\ sPc' = "done"
      /\ sNow \in Nat /\ sClient.deadline \in Int /\ sClient.wake \in Int
      /\ Solve!ModelDeadline = Timeout - Reserve /\ 2 ^ sClient.attempt \in Int
  BY SolveTyped, SolveConstants
  DEF Solve!Cancel, Solve!Fail, SolveInv, ClientTells, Solve!ModelDeadline, Solve!TypeOK
<1>2. sPc = "sleep" /\ ~(sNow <= sClient.deadline)
  BY <1>1, SolveConstants DEF SolveInv, TimeTells
<1>3. /\ sClient.deadline <= Timeout - Reserve /\ sNow <= sClient.wake
      /\ sClient.wake <= sClient.deadline + 2 ^ sClient.attempt
  BY <1>1, <1>2 DEF SolveInv, TimeTells
<1>4. QED
  BY <1>1, <1>2, <1>3, SolveConstants

\* While the model is asked, only OutOfTime leads to an upload, and to a timeout only with
\* no reply kept, save for such a pause.
LEMMA ReplyIsUploaded ==
    ASSUME SolveInv, Solve!Next
    PROVE  /\ /\ sPc \in {"ask", "attempt", "post", "sleep", "check"}
              /\ sResult' = "timeout" /\ sSentBack # 0
              => sPc = "sleep" /\ Reserve <= 2 ^ sClient.attempt
           /\ sPc \in {"ask", "attempt", "post", "sleep"} /\ sPc' = "upload"
              => sSubmission'.turn = sSentBack
<1> SUFFICES ASSUME sPc \in {"ask", "attempt", "post", "sleep", "check"}
             PROVE  /\ sResult' = "timeout" /\ sSentBack # 0
                       => sPc = "sleep" /\ Reserve <= 2 ^ sClient.attempt
                    /\ sPc # "check" /\ sPc' = "upload" => sSubmission'.turn = sSentBack
  OBVIOUS
<1>1. ReplyKept /\ sResult = "none" /\ sNow \in Nat
  BY SolveTyped DEF SolveInv, TrailTells, FilesTell
<1>2. CASE Solve!OutOfTime
  BY <1>1, <1>2 DEF Solve!OutOfTime, Solve!Submit, Solve!Fail, ReplyKept
<1>3. CASE Solve!Fail("error")
  BY <1>3 DEF Solve!Fail
<1>4. CASE sResult' = sResult /\ sPc' # "upload"
  BY <1>1, <1>4
<1>5. CASE Solve!Cancel
  BY <1>5, CancelledInPause
<1>6. CASE Solve!Begin \/ Solve!Download \/ Solve!ThreadEnds \/ Solve!Upload
  BY <1>1, <1>6 DEF Solve!Begin, Solve!Download, Solve!ThreadEnds, Solve!Upload, SolveInv, FilesTell
<1>7. CASE Solve!Ask \/ Solve!Attempt \/ Solve!PostTimesOut \/ Solve!Wake \/ Solve!Tick
  BY <1>2, <1>4, <1>7 DEF Solve!Ask, Solve!Attempt, Solve!PostTimesOut, Solve!Wake, Solve!Tick
<1>8. CASE Solve!Model
  BY <1>2, <1>3, <1>4, <1>8
  DEF Solve!Model, Solve!Busy, Solve!TransportError, Solve!Invalid, Solve!TextReply,
      Solve!ToolCalls, Solve!SleepFor
<1>9. CASE \E problem \in BOOLEAN : Solve!CheckEnds(problem)
  BY <1>1, <1>9 DEF Solve!CheckEnds, Solve!Submit
<1>10. QED
  BY <1>5, <1>6, <1>7, <1>8, <1>9 DEF Solve!Next, Solve!Steps

\* One solve (DemoMiner.solve): for any deadlines, retries, tool calls and corrections,
\* what is uploaded is a trajectory the validator accepts and that ends with the turn of
\* the submission; running out of time while the model is asked loses a reply sent back
\* for correction only in the pause after a 429 or a 5xx, and only if 2^attempt is no less
\* than the reserve for the upload; the extraction never writes into a removed directory
\* and none is left behind.
THEOREM SolveIsSound == Spec => SolveSound
<1>1. SolveInv => Solve!TypeOK /\ Solve!TrajectoryIsOfSubmission /\ Solve!FilesOutliveExtraction
  BY DEF SolveInv, FilesTell, Solve!FilesOutliveExtraction
<1>2. SolveInv /\ [Next]_vars =>
        [/\ /\ sPc \in {"ask", "attempt", "post", "sleep", "check"}
            /\ sResult' = "timeout" /\ sSentBack # 0
            => sPc = "sleep" /\ Reserve <= 2 ^ sClient.attempt
         /\ sPc \in {"ask", "attempt", "post", "sleep"} /\ sPc' = "upload"
            => sSubmission'.turn = sSentBack]_(Solve!vars)
  BY SolveMoves, ReplyIsUploaded DEF solveVars, Solve!vars
<1>3. Spec => []SolveInv
  BY InitSolve, NextSolve, PTL DEF Spec
<1>4. Spec => Solve!OutOfTimeKeepsReply
  BY <1>2, <1>3, PTL DEF Solve!OutOfTimeKeepsReply, Spec
<1>5. QED
  BY <1>1, <1>3, <1>4, PTL DEF SolveSound, Solve!SolveSound
-----------------------------------------------------------------------------
(***************************************************************************)
(* The pages of a workspace.                                               *)
(***************************************************************************)
LEMMA ReaderMoves == [Next]_vars => [Reader!Next]_readerVars
  BY DEF Next, vars, Only

Unit == [width : 1..ReadBytes - 1, whole : BOOLEAN]

LEMMA ReaderConstants ==
    /\ ListEntries \in Nat \ {0} /\ ReadBytes \in Nat /\ Texts \subseteq Seq(Unit)
    /\ \A S \in Workspaces : IsFiniteSet(S)
<1>1. Reader!WorkspaceReaderAssumption
  BY PartsAssumption DEF PartsAssumption
<1>2. QED
  BY <1>1 DEF Reader!WorkspaceReaderAssumption, Unit, Reader!IsFiniteSet, IsFiniteSet

\* The paths of a workspace are not empty, and none goes on where another ends.
LEMMA WorkspacePaths ==
    ASSUME NEW S \in Workspaces
    PROVE  /\ \A p \in S : p \in Seq(Nat) /\ Len(p) \in Nat \ {0}
           /\ \A p, q \in S : Reader!IsPrefix(p, q) => p = q
<1>1. Reader!WorkspaceReaderAssumption
  BY PartsAssumption DEF PartsAssumption
<1>2. /\ S \subseteq Seq(Names) \ {<< >>} /\ Names \subseteq Nat
      /\ \A p, q \in S : Reader!IsPrefix(p, q) => p = q
  BY <1>1 DEF Reader!WorkspaceReaderAssumption
<1>3. ASSUME NEW p \in S PROVE p \in Seq(Nat) /\ Len(p) \in Nat \ {0}
  <2>1. p \in Seq(Names) /\ p # << >>
    BY <1>2
  <2>2. Len(p) \in Nat /\ Len(p) # 0 /\ p \in [1..Len(p) -> Names]
    BY <2>1
  <2>3. p \in [1..Len(p) -> Nat]
    BY <1>2, <2>2
  <2>4. QED
    BY <2>2, <2>3
<1>4. QED
  BY <1>2, <1>3

LEMMA ReaderCardinality == \A S : Reader!Cardinality(S) = Cardinality(S)
  BY DEF Reader!Cardinality, Cardinality

LEMMA Listing ==
    ASSUME NEW n \in Nat, NEW f, f = [k \in 1..n |-> f[k]]
    PROVE  f \in Seq({f[k] : k \in 1..n}) /\ Len(f) = n /\ DOMAIN f = 1..n
  OBVIOUS

LEMMA SortedListing ==
    ASSUME NEW S, NEW before, IsFiniteSet(S)
    PROVE  /\ \E T : Reader!Sorted(S, before) \in Seq(T)
           /\ Len(Reader!Sorted(S, before)) = Cardinality(S)
           /\ DOMAIN Reader!Sorted(S, before) = 1..Cardinality(S)
<1> DEFINE n == Cardinality(S)
           f == [k \in 1..n |-> CHOOSE x \in S : before[x] = k - 1]
<1>1. n \in Nat
  BY FS_CardinalityType
<1>2. f = [k \in 1..n |-> f[k]]
  OBVIOUS
<1>3. Reader!Sorted(S, before) = f
  BY ReaderCardinality DEF Reader!Sorted
<1> HIDE DEF f, n
<1>4. f \in Seq({f[k] : k \in 1..n}) /\ Len(f) = n /\ DOMAIN f = 1..n
  BY <1>1, <1>2, Listing
<1>5. QED
  BY <1>3, <1>4 DEF n

(***************************************************************************)
(* Sorting lists every element: the elements before one count its place.   *)
(***************************************************************************)
Orders(R, S) ==
    /\ R \subseteq S \X S
    /\ \A x \in S : <<x, x>> \notin R
    /\ \A x, y \in S : x # y => <<x, y>> \in R \/ <<y, x>> \in R
    /\ \A x, y, z \in S : <<x, y>> \in R /\ <<y, z>> \in R => <<x, z>> \in R

Ranks(before, R, S) == \A x \in S : before[x] = Cardinality({y \in S : <<y, x>> \in R})

LEMMA RankRises ==
    ASSUME NEW S, IsFiniteSet(S), NEW R, Orders(R, S), NEW before, Ranks(before, R, S),
           NEW x \in S, NEW y \in S, <<x, y>> \in R
    PROVE  before[x] \in Nat /\ before[y] \in Nat /\ before[x] < before[y]
<1> DEFINE A == {z \in S : <<z, x>> \in R}
           B == {z \in S : <<z, y>> \in R}
<1>1. A \subseteq B \ {x} /\ B \subseteq S /\ x \in B
  BY DEF Orders
<1>2. before[x] = Cardinality(A) /\ before[y] = Cardinality(B)
  BY DEF Ranks
<1> HIDE DEF A, B
<1>3. IsFiniteSet(B) /\ IsFiniteSet(B \ {x}) /\ Cardinality(B \ {x}) = Cardinality(B) - 1
  BY <1>1, FS_Subset, FS_RemoveElement
<1>4. IsFiniteSet(A) /\ Cardinality(A) <= Cardinality(B \ {x})
  BY <1>1, <1>3, FS_Subset
<1>5. QED
  BY <1>2, <1>3, <1>4, FS_CardinalityType

LEMMA RanksFill ==
    ASSUME NEW S, IsFiniteSet(S), NEW R, Orders(R, S), NEW before, before \in [S -> Nat],
           Ranks(before, R, S)
    PROVE  /\ \A x \in S : before[x] \in 0..Cardinality(S) - 1
           /\ \A x, y \in S : before[x] = before[y] => x = y
           /\ \A k \in 0..Cardinality(S) - 1 : \E x \in S : before[x] = k
<1> DEFINE n == Cardinality(S)
<1>1. n \in Nat
  BY FS_CardinalityType
<1>2. \A x, y \in S : before[x] = before[y] => x = y
  <2> SUFFICES ASSUME NEW x \in S, NEW y \in S, before[x] = before[y], x # y PROVE FALSE
    OBVIOUS
  <2>1. CASE <<x, y>> \in R
    BY <2>1, RankRises
  <2>2. CASE <<y, x>> \in R
    BY <2>2, RankRises
  <2>3. QED
    BY <2>1, <2>2 DEF Orders
<1>3. \A x \in S : before[x] \in 0..n - 1
  <2> SUFFICES ASSUME NEW x \in S PROVE before[x] \in 0..n - 1
    OBVIOUS
  <2> DEFINE A == {y \in S : <<y, x>> \in R}
  <2>1. A \subseteq S \ {x} /\ before[x] = Cardinality(A)
    BY DEF Orders, Ranks
  <2> HIDE DEF A
  <2>2. IsFiniteSet(S \ {x}) /\ Cardinality(S \ {x}) = n - 1
    BY FS_RemoveElement
  <2>3. Cardinality(A) <= n - 1 /\ Cardinality(A) \in Nat
    BY <2>1, <2>2, FS_Subset, FS_CardinalityType
  <2>4. QED
    BY <1>1, <2>1, <2>3
<1> HIDE DEF n
<1>4. before \in Injection(S, 0..n - 1)
  BY <1>2, <1>3 DEF Injection, IsInjective
<1>5. IsFiniteSet(0..n - 1) /\ Cardinality(0..n - 1) = n
  <2>1. /\ IsFiniteSet(0..n - 1)
        /\ Cardinality(0..n - 1) = IF 0 > n - 1 THEN 0 ELSE (n - 1) - 0 + 1
    BY <1>1, FS_Interval
  <2>2. QED
    BY <1>1, <2>1
<1>6. Cardinality(S) = Cardinality(0..n - 1)
  BY <1>5 DEF n
<1>7. before \in Surjection(S, 0..n - 1)
  BY <1>4, <1>5, <1>6, FS_Injection
<1>8. \A k \in 0..n - 1 : \E x \in S : before[x] = k
  BY <1>7 DEF Surjection
<1>9. QED
  BY <1>2, <1>3, <1>8 DEF n

LEMMA SortedLists ==
    ASSUME NEW S, IsFiniteSet(S), NEW R, Orders(R, S), NEW before, before \in [S -> Nat],
           Ranks(before, R, S)
    PROVE  \A x \in S : \E k \in DOMAIN Reader!Sorted(S, before) : Reader!Sorted(S, before)[k] = x
<1> SUFFICES ASSUME NEW x \in S
             PROVE  \E k \in DOMAIN Reader!Sorted(S, before) : Reader!Sorted(S, before)[k] = x
  OBVIOUS
<1> DEFINE n == Cardinality(S)
           k == before[x] + 1
           f == [i \in 1..n |-> CHOOSE y \in S : before[y] = i - 1]
<1>1. n \in Nat
  BY FS_CardinalityType
<1>2. before[x] \in 0..n - 1 /\ \A y \in S : before[y] = before[x] => y = x
  BY RanksFill
<1>3. k \in 1..n /\ k - 1 = before[x]
  BY <1>1, <1>2
<1>4. Reader!Sorted(S, before) = f
  BY ReaderCardinality DEF Reader!Sorted
<1>5. (CHOOSE y \in S : before[y] = before[x]) = x
  BY <1>2
<1>6. f[k] = CHOOSE y \in S : before[y] = k - 1
  BY <1>3
<1>7. QED
  BY <1>3, <1>4, <1>5, <1>6

Ascent(S) == {e \in S \X S : e[1] < e[2]}

LEMMA NumbersAscend == ASSUME NEW S \in SUBSET Nat PROVE Orders(Ascent(S), S)
<1>1. \A x, y \in S : <<x, y>> \in Ascent(S) <=> x < y
  BY DEF Ascent
<1>2. Ascent(S) \subseteq S \X S
  BY DEF Ascent
<1>3. QED
  BY <1>1, <1>2 DEF Orders

LEMMA AscendingLists ==
    ASSUME NEW S, IsFiniteSet(S), Orders(Ascent(S), S)
    PROVE  \A x \in S : \E k \in DOMAIN Reader!Ascending(S) : Reader!Ascending(S)[k] = x
<1> DEFINE before == [x \in S |-> Cardinality({y \in S : y < x})]
<1>1. \A x, y \in S : <<x, y>> \in Ascent(S) <=> x < y
  BY DEF Ascent
<1>2. Reader!Ascending(S) = Reader!Sorted(S, before)
  BY ReaderCardinality DEF Reader!Ascending
<1>3. ASSUME NEW x \in S
      PROVE  /\ before[x] = Cardinality({y \in S : <<y, x>> \in Ascent(S)})
             /\ before[x] \in Nat
  <2>1. {y \in S : y < x} = {y \in S : <<y, x>> \in Ascent(S)}
    BY <1>1
  <2>2. {y \in S : y < x} \subseteq S
    OBVIOUS
  <2>3. QED
    BY <2>1, <2>2, FS_Subset, FS_CardinalityType
<1>4. before \in [S -> Nat] /\ Ranks(before, Ascent(S), S)
  BY <1>3 DEF Ranks
<1> HIDE DEF before
<1>5. \A x \in S : \E k \in DOMAIN Reader!Sorted(S, before) : Reader!Sorted(S, before)[k] = x
  BY <1>4, SortedLists
<1>6. QED
  BY <1>2, <1>5

(***************************************************************************)
(* The walk orders the files of a workspace.                               *)
(***************************************************************************)
Apart(p, q, n) == /\ n \in 1..Len(p) /\ n \in 1..Len(q) /\ p[n] # q[n]
                  /\ \A i \in 1..n - 1 : p[i] = q[i]

Walks(p, q, n) == \/ Len(p) = n /\ Len(q) # n
                  \/ (Len(p) = n <=> Len(q) = n) /\ p[n] < q[n]

LEMMA AgreeingIsPrefix ==
    ASSUME NEW p \in Seq(Nat), NEW q \in Seq(Nat), Len(p) <= Len(q),
           \A i \in 1..Len(p) : p[i] = q[i]
    PROVE  Reader!IsPrefix(p, q)
<1> DEFINE n == Len(p)
           a == SubSeq(p, 1, n)
           b == SubSeq(q, 1, n)
<1>1. n \in Nat /\ Len(q) \in Nat
  OBVIOUS
<1>2. a \in Seq(Nat) /\ Len(a) = n /\ \A i \in 1..n : a[i] = p[i]
  BY <1>1
<1>3. b \in Seq(Nat) /\ Len(b) = n /\ \A i \in 1..n : b[i] = q[i]
  BY <1>1
<1> HIDE DEF a, b
<1> HIDE DEF n
<1>4. \A i \in 1..n : a[i] = b[i]
  BY <1>2, <1>3 DEF n
<1>5. a = b
  BY <1>1, <1>2, <1>3, <1>4
<1>6. QED
  BY <1>5 DEF Reader!IsPrefix, a, b, n

LEMMA ForkApart ==
    ASSUME NEW p \in Seq(Nat), NEW q \in Seq(Nat),
           ~Reader!IsPrefix(p, q), ~Reader!IsPrefix(q, p)
    PROVE  \E n \in Nat : Apart(p, q, n)
<1>1. Len(p) \in Nat /\ Len(q) \in Nat
  OBVIOUS
<1> DEFINE T == {n \in 1..Len(p) : n <= Len(q) /\ p[n] # q[n]}
<1>2. T # {}
  <2> SUFFICES ASSUME T = {} PROVE FALSE
    OBVIOUS
  <2>1. \A n \in 1..Len(p) : n <= Len(q) => p[n] = q[n]
    OBVIOUS
  <2>2. CASE Len(p) <= Len(q)
    <3>1. \A i \in 1..Len(p) : p[i] = q[i]
      BY <1>1, <2>1, <2>2
    <3>2. QED
      BY <2>2, <3>1, AgreeingIsPrefix
  <2>3. CASE ~(Len(p) <= Len(q))
    <3>1. \A i \in 1..Len(q) : q[i] = p[i]
      BY <1>1, <2>1, <2>3
    <3>2. Len(q) <= Len(p)
      BY <1>1, <2>3
    <3>3. QED
      BY <3>1, <3>2, AgreeingIsPrefix
  <2>4. QED
    BY <2>2, <2>3
<1>3. \E n \in T : \A m \in T : n <= m
  <2>1. T \subseteq Nat
    BY <1>1
  <2> HIDE DEF T
  <2>2. QED
    BY <1>2, <2>1, LeastNatural
<1>4. PICK n \in T : \A m \in T : n <= m
  BY <1>3
<1>5. n \in Nat /\ n \in 1..Len(p) /\ n \in 1..Len(q) /\ p[n] # q[n]
  BY <1>1
<1>6. \A i \in 1..n - 1 : p[i] = q[i]
  <2> SUFFICES ASSUME NEW i \in 1..n - 1, p[i] # q[i] PROVE FALSE
    OBVIOUS
  <2>1. i \in 1..Len(p) /\ i <= Len(q) /\ ~(n <= i)
    BY <1>1, <1>5
  <2>2. i \in T
    BY <2>1
  <2>3. QED
    BY <1>4, <2>1, <2>2
<1>7. QED
  BY <1>5, <1>6 DEF Apart

LEMMA ApartIsFork ==
    ASSUME NEW p \in Seq(Nat), NEW q \in Seq(Nat), NEW n, Apart(p, q, n)
    PROVE  Reader!WalksBefore(p, q) <=> Walks(p, q, n)
<1> DEFINE both == (1..Len(p)) \intersect (1..Len(q))
           f == Reader!Fork(p, q)
<1>1. /\ n \in both /\ p[n] # q[n] /\ \A i \in 1..n - 1 : p[i] = q[i]
  BY DEF Apart
<1>2. f \in both /\ p[f] # q[f] /\ \A i \in 1..f - 1 : p[i] = q[i]
  BY <1>1 DEF Reader!Fork
<1>3. both \subseteq Nat \ {0}
  OBVIOUS
<1> HIDE DEF both, f
<1>4. n \in Nat \ {0} /\ f \in Nat \ {0}
  BY <1>1, <1>2, <1>3
<1>5. f = n
  <2>1. CASE f < n
    <3>1. f \in 1..n - 1
      BY <1>4, <2>1
    <3>2. QED
      BY <1>1, <1>2, <3>1
  <2>2. CASE n < f
    <3>1. n \in 1..f - 1
      BY <1>4, <2>2
    <3>2. QED
      BY <1>1, <1>2, <3>1
  <2>3. QED
    BY <1>4, <2>1, <2>2
<1>6. QED
  BY <1>5 DEF Reader!WalksBefore, Walks, f

LEMMA WalksOn ==
    ASSUME NEW S \in Workspaces, NEW p \in S, NEW q \in S, NEW r \in S,
           NEW a, Apart(p, q, a), Walks(p, q, a), NEW b, Apart(q, r, b), Walks(q, r, b)
    PROVE  \E c : Apart(p, r, c) /\ Walks(p, r, c)
<1>1. /\ p \in Seq(Nat) /\ q \in Seq(Nat) /\ r \in Seq(Nat)
      /\ Len(p) \in Nat /\ Len(q) \in Nat /\ Len(r) \in Nat
  BY WorkspacePaths
<1>2. /\ a \in Nat \ {0} /\ a <= Len(p) /\ a <= Len(q) /\ p[a] # q[a]
      /\ \A i \in 1..a - 1 : p[i] = q[i]
  BY <1>1 DEF Apart
<1>3. /\ b \in Nat \ {0} /\ b <= Len(q) /\ b <= Len(r) /\ q[b] # r[b]
      /\ \A i \in 1..b - 1 : q[i] = r[i]
  BY <1>1 DEF Apart
<1>4. CASE a < b
  <2>1. a \in 1..b - 1 /\ a \in 1..Len(p) /\ a \in 1..Len(r) /\ Len(q) # a /\ Len(r) # a
    BY <1>1, <1>2, <1>3, <1>4
  <2>2. q[a] = r[a] /\ \A i \in 1..a - 1 : p[i] = r[i]
    <3>1. \A i \in 1..a - 1 : i \in 1..b - 1
      BY <1>2, <1>3, <1>4
    <3>2. QED
      BY <1>2, <1>3, <2>1, <3>1
  <2>3. Apart(p, r, a)
    BY <1>2, <2>1, <2>2 DEF Apart
  <2>4. Walks(p, r, a)
    BY <2>1, <2>2 DEF Walks
  <2>5. QED
    BY <2>3, <2>4
<1>5. CASE b < a
  <2>1. b \in 1..a - 1 /\ b \in 1..Len(p) /\ b \in 1..Len(r) /\ Len(p) # b /\ Len(q) # b
    BY <1>1, <1>2, <1>3, <1>5
  <2>2. p[b] = q[b] /\ \A i \in 1..b - 1 : p[i] = r[i]
    <3>1. \A i \in 1..b - 1 : i \in 1..a - 1
      BY <1>2, <1>3, <1>5
    <3>2. QED
      BY <1>2, <1>3, <2>1, <3>1
  <2>3. Apart(p, r, b)
    BY <1>3, <2>1, <2>2 DEF Apart
  <2>4. Walks(p, r, b)
    BY <2>1, <2>2 DEF Walks
  <2>5. QED
    BY <2>3, <2>4
<1>6. CASE a = b
  <2>1. a \in 1..Len(p) /\ a \in 1..Len(q) /\ a \in 1..Len(r)
    BY <1>1, <1>2, <1>3, <1>6
  <2>2. p[a] \in Nat /\ q[a] \in Nat /\ r[a] \in Nat
    BY <1>1, <2>1
  <2>3. \A i \in 1..a - 1 : p[i] = r[i]
    BY <1>2, <1>3, <1>6
  <2>4. \/ Len(p) = a /\ Len(r) # a
        \/ (Len(p) = a <=> Len(r) = a) /\ p[a] < r[a]
    BY <1>6, <2>2 DEF Walks
  <2>5. p[a] # r[a]
    <3> SUFFICES ASSUME p[a] = r[a] PROVE FALSE
      OBVIOUS
    <3>1. Len(p) = a /\ Len(r) # a
      BY <2>2, <2>4
    <3>2. \A i \in 1..Len(p) : p[i] = r[i]
      <4>1. \A i \in 1..Len(p) : i = a \/ i \in 1..a - 1
        BY <1>2, <3>1
      <4>2. QED
        BY <2>3, <4>1
    <3>3. Len(p) <= Len(r)
      BY <1>1, <1>3, <1>6, <3>1
    <3>4. p = r
      BY <1>1, <3>2, <3>3, AgreeingIsPrefix, WorkspacePaths
    <3>5. QED
      BY <3>1, <3>4
  <2>6. Apart(p, r, a) /\ Walks(p, r, a)
    BY <2>1, <2>3, <2>4, <2>5 DEF Apart, Walks
  <2>7. QED
    BY <2>6
<1>7. QED
  BY <1>2, <1>3, <1>4, <1>5, <1>6

Walk(S) == {e \in S \X S : e[1] # e[2] /\ Reader!WalksBefore(e[1], e[2])}

LEMMA WalkOrders == ASSUME NEW S \in Workspaces PROVE Orders(Walk(S), S)
<1>1. \A p, q \in S : <<p, q>> \in Walk(S) <=> p # q /\ Reader!WalksBefore(p, q)
  BY DEF Walk
<1>2. \A p \in S : p \in Seq(Nat)
  BY WorkspacePaths
<1>3. \A p, q \in S : p # q => \E n \in Nat : Apart(p, q, n)
  BY <1>2, ForkApart, WorkspacePaths
<1>4. \A p, q \in S : p # q => <<p, q>> \in Walk(S) \/ <<q, p>> \in Walk(S)
  <2> SUFFICES ASSUME NEW p \in S, NEW q \in S, p # q
               PROVE  Reader!WalksBefore(p, q) \/ Reader!WalksBefore(q, p)
    BY <1>1
  <2>1. PICK n \in Nat : Apart(p, q, n)
    BY <1>3
  <2>2. Apart(q, p, n)
    BY <2>1 DEF Apart
  <2>3. p[n] \in Nat /\ q[n] \in Nat /\ p[n] # q[n]
    BY <1>2, <2>1 DEF Apart
  <2>4. Walks(p, q, n) \/ Walks(q, p, n)
    BY <2>3 DEF Walks
  <2>5. QED
    BY <1>2, <2>1, <2>2, <2>4, ApartIsFork
<1>5. \A p, q, r \in S : <<p, q>> \in Walk(S) /\ <<q, r>> \in Walk(S) => <<p, r>> \in Walk(S)
  <2> SUFFICES ASSUME NEW p \in S, NEW q \in S, NEW r \in S,
                      <<p, q>> \in Walk(S), <<q, r>> \in Walk(S)
               PROVE  p # r /\ Reader!WalksBefore(p, r)
    BY <1>1
  <2>1. p # q /\ q # r /\ Reader!WalksBefore(p, q) /\ Reader!WalksBefore(q, r)
    BY <1>1
  <2>2. PICK a \in Nat : Apart(p, q, a)
    BY <1>3, <2>1
  <2>3. PICK b \in Nat : Apart(q, r, b)
    BY <1>3, <2>1
  <2>4. Walks(p, q, a) /\ Walks(q, r, b)
    BY <1>2, <2>1, <2>2, <2>3, ApartIsFork
  <2>5. PICK c : Apart(p, r, c) /\ Walks(p, r, c)
    BY <2>2, <2>3, <2>4, WalksOn
  <2>6. p # r
    BY <2>5 DEF Apart
  <2>7. QED
    BY <1>2, <2>5, <2>6, ApartIsFork
<1>6. \A p \in S : <<p, p>> \notin Walk(S)
  BY <1>1
<1>7. Walk(S) \subseteq S \X S
  BY DEF Walk
<1>8. QED
  BY <1>4, <1>5, <1>6, <1>7 DEF Orders

LEMMA WalkLists ==
    ASSUME wFiles \in Workspaces
    PROVE  \A p \in wFiles : \E k \in DOMAIN Reader!FilesUnder : Reader!FilesUnder[k] = p
<1> DEFINE before == [p \in wFiles |->
                       Cardinality({q \in wFiles \ {p} : Reader!WalksBefore(q, p)})]
<1>1. Reader!FilesUnder = Reader!Sorted(wFiles, before)
  BY ReaderCardinality DEF Reader!FilesUnder
<1>2. IsFiniteSet(wFiles)
  BY ReaderConstants
<1>3. ASSUME NEW p \in wFiles
      PROVE  /\ before[p] = Cardinality({q \in wFiles : <<q, p>> \in Walk(wFiles)})
             /\ before[p] \in Nat
  <2>1. {q \in wFiles \ {p} : Reader!WalksBefore(q, p)}
          = {q \in wFiles : <<q, p>> \in Walk(wFiles)}
    BY DEF Walk
  <2>2. {q \in wFiles : <<q, p>> \in Walk(wFiles)} \subseteq wFiles
    OBVIOUS
  <2>3. QED
    BY <1>2, <2>1, <2>2, FS_Subset, FS_CardinalityType
<1>4. before \in [wFiles -> Nat] /\ Ranks(before, Walk(wFiles), wFiles)
  BY <1>3 DEF Ranks
<1> HIDE DEF before
<1>5. \A p \in wFiles : \E k \in DOMAIN Reader!Sorted(wFiles, before) :
          Reader!Sorted(wFiles, before)[k] = p
  BY <1>2, <1>4, SortedLists, WalkOrders
<1>6. QED
  BY <1>1, <1>5

\* The two lists of a workspace.
LEMMA FilesListed ==
    ASSUME IsFiniteSet(wFiles)
    PROVE  /\ \E T : Reader!FilesUnder \in Seq(T)
           /\ Len(Reader!FilesUnder) = Cardinality(wFiles)
  BY SortedListing DEF Reader!FilesUnder

LEMMA EntriesListed ==
    ASSUME IsFiniteSet(wFiles)
    PROVE  /\ \E T : Reader!Entries \in Seq(T)
           /\ Len(Reader!Entries) = Cardinality(Reader!Roots)
           /\ IsFiniteSet(Reader!Roots) /\ Len(Reader!Entries) <= Cardinality(wFiles)
<1> DEFINE names == Reader!Roots
           first == [p \in wFiles |-> p[1]]
<1>1. first \in Surjection(wFiles, names)
  BY DEF Surjection, Reader!Roots
<1> HIDE DEF first
<1>2. IsFiniteSet(names) /\ Cardinality(names) <= Cardinality(wFiles)
  BY <1>1, FS_Surjection
<1>3. QED
  BY <1>2, SortedListing DEF Reader!Entries, Reader!Ascending

\* What is shown of a list: its beginning, up to the offset of the next page, and all of
\* it once there is none.
Paged(whole, got, offset, ended) ==
    \E n \in 0..Len(whole) : /\ got = SubSeq(whole, 1, n) /\ offset \in 0..n
                             /\ ~ended => offset = n
                             /\ ended => n = Len(whole)

LEMMA PagesJoin ==
    ASSUME NEW T, NEW whole \in Seq(T), NEW a \in 0..Len(whole), NEW b \in a..Len(whole)
    PROVE  SubSeq(whole, 1, a) \o SubSeq(whole, a + 1, b) = SubSeq(whole, 1, b)
<1> DEFINE s == SubSeq(whole, 1, a)
           t == SubSeq(whole, a + 1, b)
           r == SubSeq(whole, 1, b)
<1>1. a \in Nat /\ b \in Nat /\ Len(whole) \in Nat /\ a <= b
  OBVIOUS
<1>2. s \in Seq(T) /\ Len(s) = a /\ \A i \in 1..a : s[i] = whole[i]
  BY <1>1
<1>3. t \in Seq(T) /\ Len(t) = b - a /\ \A i \in 1..b - a : t[i] = whole[a + i]
  BY <1>1
<1>4. r \in Seq(T) /\ Len(r) = b /\ \A i \in 1..b : r[i] = whole[i]
  BY <1>1
<1> HIDE DEF s, t, r
<1>5. s \o t \in Seq(T) /\ Len(s \o t) = b
  BY <1>1, <1>2, <1>3
<1>6. ASSUME NEW i \in 1..b PROVE (s \o t)[i] = r[i]
  <2>1. CASE i <= a
    BY <1>1, <1>2, <1>3, <1>4, <2>1
  <2>2. CASE ~(i <= a)
    <3>1. i - a \in 1..b - a /\ a + (i - a) = i
      BY <1>1, <2>2
    <3>2. (s \o t)[i] = t[i - a]
      BY <1>1, <1>2, <1>3, <2>2
    <3>3. t[i - a] = whole[a + (i - a)]
      BY <1>3, <3>1
    <3>4. QED
      BY <1>4, <3>1, <3>2, <3>3
  <2>3. QED
    BY <2>1, <2>2
<1>7. s \o t = r
  BY <1>4, <1>5, <1>6
<1>8. QED
  BY <1>7 DEF s, t, r

LEMMA PageTurned ==
    ASSUME NEW T, NEW whole \in Seq(T), Paged(whole, wGot, wOffset, wEnded), ~wEnded,
           NEW e \in wOffset..Len(whole), NEW more \in BOOLEAN, ~more => e = Len(whole),
           Reader!Turn(SubSeq(whole, wOffset + 1, e), e, more)
    PROVE  Paged(whole, wGot', wOffset', wEnded')
<1>1. wOffset \in 0..Len(whole) /\ wGot = SubSeq(whole, 1, wOffset)
  BY DEF Paged
<1>2. e \in 0..Len(whole) /\ wOffset \in 0..e
  BY <1>1
<1>3. wGot' = SubSeq(whole, 1, e)
  BY <1>1, PagesJoin DEF Reader!Turn
<1>4. wEnded' = ~more /\ wOffset' = IF more THEN e ELSE wOffset
  BY DEF Reader!Turn
<1>5. CASE more
  <2>1. ~wEnded' /\ wOffset' = e
    BY <1>4, <1>5
  <2>2. e \in 0..e
    BY <1>2
  <2>3. QED
    BY <1>2, <1>3, <2>1, <2>2 DEF Paged
<1>6. CASE ~more
  <2>1. wEnded' = TRUE /\ wOffset' \in 0..e /\ e = Len(whole)
    BY <1>2, <1>4, <1>6
  <2>2. QED
    BY <1>2, <1>3, <2>1 DEF Paged
<1>7. QED
  BY <1>5, <1>6

LEMMA ListFilesTurns ==
    ASSUME IsFiniteSet(wFiles), Reader!ListFiles, Paged(Reader!Entries, wGot, wOffset, wEnded)
    PROVE  Paged(Reader!Entries, wGot', wOffset', wEnded')
<1> DEFINE whole == Reader!Entries
           n == Len(whole)
           e == IF wOffset + ListEntries < n THEN wOffset + ListEntries ELSE n
           page == SubSeq(whole, wOffset + 1, e)
<1>1. PICK T : whole \in Seq(T)
  BY EntriesListed
<1>2. n \in Nat /\ wOffset \in 0..n /\ ~wEnded
  BY <1>1 DEF Paged, Reader!ListFiles
<1>3. e \in wOffset..n
  BY <1>2, ReaderConstants
<1>4. Len(page) = e - wOffset /\ wOffset + Len(page) = e
  BY <1>1, <1>2, <1>3
<1> DEFINE more == e < n
<1>5. Reader!Turn(page, e, more)
  BY <1>4 DEF Reader!ListFiles, Reader!Slice
<1>6. more \in BOOLEAN /\ (~more => e = n)
  BY <1>2, <1>3
<1> HIDE DEF whole, e, more
<1>7. Paged(whole, wGot', wOffset', wEnded')
  BY <1>1, <1>2, <1>3, <1>5, <1>6, PageTurned DEF whole
<1>8. QED
  BY <1>7 DEF whole

LEMMA FindFilesTurns ==
    ASSUME IsFiniteSet(wFiles), Reader!FindFiles, Paged(Reader!FilesUnder, wGot, wOffset, wEnded)
    PROVE  Paged(Reader!FilesUnder, wGot', wOffset', wEnded')
<1> DEFINE whole == Reader!FilesUnder
           n == Len(whole)
           limit == wOffset + ListEntries + 1
           m == IF limit < n THEN limit ELSE n
           e == IF wOffset + ListEntries < m THEN wOffset + ListEntries ELSE m
           page == SubSeq(whole, wOffset + 1, e)
<1>1. PICK T : whole \in Seq(T)
  BY FilesListed
<1>2. n \in Nat /\ wOffset \in 0..n /\ ~wEnded
  BY <1>1 DEF Paged, Reader!FindFiles
<1>3. m \in wOffset..n /\ e \in wOffset..m /\ e \in wOffset..n
  BY <1>2, ReaderConstants
<1>4. Reader!Found = SubSeq(whole, 1, m)
  BY DEF Reader!Found, Reader!FilesUpTo
<1>5. SubSeq(SubSeq(whole, 1, m), wOffset + 1, e) = page
  <2> HIDE DEF whole, e, m, n
  <2>1. m \in 0..n /\ n = Len(whole)
    BY <1>2, <1>3 DEF n
  <2>2. SubSeq(whole, 1, m) \in Seq(T) /\ Len(SubSeq(whole, 1, m)) = m
    BY <1>1, <1>2, <2>1
  <2>3. \A i \in 1..m : SubSeq(whole, 1, m)[i] = whole[i]
    BY <1>1, <1>2, <2>1
  <2> DEFINE f == SubSeq(whole, 1, m)
  <2> HIDE DEF f
  <2>4. /\ SubSeq(f, wOffset + 1, e) \in Seq(T) /\ Len(SubSeq(f, wOffset + 1, e)) = e - wOffset
        /\ \A i \in 1..e - wOffset : SubSeq(f, wOffset + 1, e)[i] = f[wOffset + i]
    BY <1>2, <1>3, <2>2 DEF f
  <2>5. /\ page \in Seq(T) /\ Len(page) = e - wOffset
        /\ \A i \in 1..e - wOffset : page[i] = whole[wOffset + i]
    BY <1>1, <1>2, <1>3, <2>1
  <2>6. \A i \in 1..e - wOffset : wOffset + i \in 1..m
    BY <1>2, <1>3, <2>1
  <2> HIDE DEF page
  <2>7. \A i \in 1..e - wOffset : f[wOffset + i] = whole[wOffset + i]
    BY <2>3, <2>6 DEF f
  <2> DEFINE g == SubSeq(f, wOffset + 1, e)
  <2> HIDE DEF g
  <2>8. g \in Seq(T) /\ Len(g) = Len(page) /\ \A i \in 1..Len(page) : g[i] = page[i]
    BY <2>4, <2>5, <2>7 DEF g
  <2>9. g = page
    BY <2>5, <2>8
  <2>10. QED
    BY <2>9 DEF f, g
<1>6. Len(Reader!Found) = m
  BY <1>1, <1>2, <1>3, <1>4
<1>7. Len(page) = e - wOffset /\ wOffset + Len(page) = e
  BY <1>1, <1>2, <1>3
<1>8. Reader!Slice(Reader!Found) = page
  BY <1>4, <1>5, <1>6 DEF Reader!Slice
<1> DEFINE more == m > e
<1>9. Reader!Turn(page, e, more)
  BY <1>6, <1>7, <1>8 DEF Reader!FindFiles
<1>10. more \in BOOLEAN /\ (~more => e = n)
  BY <1>2, <1>3, ReaderConstants
<1> HIDE DEF whole, e, m, more
<1>11. Paged(whole, wGot', wOffset', wEnded')
  BY <1>1, <1>2, <1>3, <1>9, <1>10, PageTurned DEF whole
<1>12. QED
  BY <1>11 DEF whole

LEMMA IntervalSize ==
    ASSUME NEW a \in Nat, NEW b \in Nat, a <= b + 1
    PROVE  IsFiniteSet(a..b) /\ Cardinality(a..b) = b + 1 - a
<1>1. a \in Int /\ b \in Int
  OBVIOUS
<1>2. IsFiniteSet(a..b) /\ Cardinality(a..b) = IF a > b THEN 0 ELSE b - a + 1
  BY <1>1, FS_Interval
<1>3. QED
  BY <1>2

\* Where the units of a text start: each where the one before it ends.
LEMMA BytesCounted ==
    ASSUME wText \in Seq(Unit)
    PROVE  \A i \in 1..Len(wText) + 1 :
             /\ IsFiniteSet(Reader!BytesBefore(i))
             /\ Reader!StartOf(i) = Cardinality(Reader!BytesBefore(i))
<1> SUFFICES ASSUME NEW i \in 1..Len(wText) + 1
             PROVE  IsFiniteSet(Reader!BytesBefore(i))
  BY ReaderCardinality DEF Reader!StartOf
<1> DEFINE all == (1..Len(wText)) \X (1..ReadBytes)
<1>1. IsFiniteSet(all)
  <2>1. IsFiniteSet(1..Len(wText))
    BY IntervalSize
  <2>2. IsFiniteSet(1..ReadBytes)
    BY IntervalSize, ReaderConstants
  <2>3. QED
    BY <2>1, <2>2, FS_Product
<1>2. Reader!BytesBefore(i) \subseteq all
  <2> SUFFICES ASSUME NEW j \in 1..i - 1, NEW b \in {j} \X (1..wText[j].width) PROVE b \in all
    BY DEF Reader!BytesBefore
  <2>1. j \in 1..Len(wText) /\ wText[j] \in Unit
    OBVIOUS
  <2>2. wText[j].width \in 1..ReadBytes - 1
    BY <2>1 DEF Unit
  <2>3. \A k \in 1..wText[j].width : k \in 1..ReadBytes
    BY <2>2, ReaderConstants
  <2>4. QED
    BY <2>1, <2>3
<1>3. QED
  BY <1>1, <1>2, FS_Subset

LEMMA StartsTyped ==
    ASSUME wText \in Seq(Unit)
    PROVE  /\ \A i \in 1..Len(wText) + 1 : Reader!StartOf(i) \in Nat
           /\ Reader!StartOf(1) = 0
<1>1. Reader!BytesBefore(1) = {}
  BY DEF Reader!BytesBefore
<1>2. 1 \in 1..Len(wText) + 1
  OBVIOUS
<1>3. QED
  BY <1>1, <1>2, BytesCounted, FS_CardinalityType, FS_EmptySet

LEMMA StartsGrow ==
    ASSUME wText \in Seq(Unit), NEW i \in 1..Len(wText) + 1, NEW j \in 1..Len(wText) + 1, i <= j
    PROVE  Reader!StartOf(i) <= Reader!StartOf(j)
<1>1. \A k \in 1..i - 1 : k \in 1..j - 1
  OBVIOUS
<1>2. Reader!BytesBefore(i) \subseteq Reader!BytesBefore(j)
  BY <1>1 DEF Reader!BytesBefore
<1>3. QED
  BY <1>2, BytesCounted, FS_Subset

LEMMA StartsFollow ==
    ASSUME wText \in Seq(Unit), NEW i \in 1..Len(wText)
    PROVE  /\ Reader!StartOf(i + 1) = Reader!StartOf(i) + wText[i].width
           /\ wText[i].width \in 1..ReadBytes - 1
<1> DEFINE A == Reader!BytesBefore(i)
           B == {i} \X (1..wText[i].width)
           C == Reader!BytesBefore(i + 1)
           w == wText[i].width
<1>1. wText[i] \in Unit
  OBVIOUS
<1>2. w \in 1..ReadBytes - 1 /\ w \in Nat
  BY <1>1, ReaderConstants DEF Unit
<1>3. IsFiniteSet(B) /\ Cardinality(B) = w
  <2>1. IsFiniteSet({i}) /\ Cardinality({i}) = 1
    BY FS_Singleton
  <2> HIDE DEF w
  <2>2. IsFiniteSet(1..w) /\ Cardinality(1..w) = w
    BY <1>2, IntervalSize
  <2>3. IsFiniteSet({i} \X (1..w)) /\ Cardinality({i} \X (1..w)) = 1 * w
    BY <2>1, <2>2, FS_Product
  <2>4. 1 * w = w
    BY <1>2
  <2>5. QED
    BY <2>3, <2>4 DEF w
<1>4. C = A \union B
  <2>1. \A j : j \in 1..i + 1 - 1 <=> j \in 1..i - 1 \/ j = i
    OBVIOUS
  <2>2. QED
    BY <2>1 DEF Reader!BytesBefore
<1>5. A \intersect B = {}
  <2> SUFFICES ASSUME NEW j \in 1..i - 1, NEW b \in {j} \X (1..wText[j].width), b \in B PROVE FALSE
    BY DEF Reader!BytesBefore
  <2>1. b[1] = j /\ b[1] = i
    OBVIOUS
  <2>2. QED
    BY <2>1
<1>6. /\ i \in 1..Len(wText) + 1 /\ i + 1 \in 1..Len(wText) + 1
  OBVIOUS
<1>7. /\ IsFiniteSet(A) /\ Cardinality(A) = Reader!StartOf(i)
      /\ Cardinality(C) = Reader!StartOf(i + 1)
  BY <1>6, BytesCounted
<1> HIDE DEF A, B, C, w
<1>8. Cardinality(A \union B) = Cardinality(A) + Cardinality(B) - Cardinality({})
  BY <1>3, <1>5, <1>7, FS_Union
<1>9. Cardinality(A) \in Nat
  BY <1>7, FS_CardinalityType
<1>10. QED
  BY <1>2, <1>3, <1>4, <1>7, <1>8, <1>9, FS_EmptySet DEF w

LEMMA AscendingInterval ==
    ASSUME NEW u \in Nat \ {0}, NEW v \in Nat, u <= v
    PROVE  Reader!Ascending(u..v - 1) = [k \in 1..v - u |-> u + k - 1]
<1> DEFINE S == u..v - 1
           before == [x \in S |-> Cardinality({y \in S : y < x})]
<1>1. IsFiniteSet(S) /\ Cardinality(S) = v - u
  <2>1. v - 1 \in Nat /\ u \in Nat /\ u <= (v - 1) + 1 /\ (v - 1) + 1 - u = v - u
    OBVIOUS
  <2>2. QED
    BY <2>1, IntervalSize
<1>2. ASSUME NEW x \in S PROVE before[x] = x - u
  <2>1. {y \in S : y < x} = u..x - 1
    OBVIOUS
  <2>2. x - 1 \in Nat /\ u \in Nat /\ u <= (x - 1) + 1 /\ (x - 1) + 1 - u = x - u
    OBVIOUS
  <2>3. Cardinality(u..x - 1) = x - u
    BY <2>2, IntervalSize
  <2>4. QED
    BY <2>1, <2>3
<1>4. Reader!Ascending(S) = [k \in 1..Cardinality(S) |-> CHOOSE x \in S : before[x] = k - 1]
  <2>1. \A A : Reader!Cardinality(A) = Cardinality(A)
    BY ReaderCardinality
  <2>2. Reader!Ascending(S) = [k \in 1..Reader!Cardinality(S) |-> CHOOSE x \in S :
                                [z \in S |-> Reader!Cardinality({y \in S : y < z})][x] = k - 1]
    BY DEF Reader!Ascending, Reader!Sorted
  <2>3. QED
    BY <2>1, <2>2
<1> HIDE DEF before
<1>3. ASSUME NEW k \in 1..v - u PROVE (CHOOSE x \in S : before[x] = k - 1) = u + k - 1
  <2>1. u + k - 1 \in S
    OBVIOUS
  <2>2. \A x \in S : before[x] = k - 1 <=> x = u + k - 1
    BY <1>2
  <2> HIDE DEF S
  <2>3. QED
    BY <2>1, <2>2
<1>5. QED
  BY <1>1, <1>3, <1>4

LEMMA StartsOrdered ==
    ASSUME wText \in Seq(Unit), NEW i \in 1..Len(wText) + 1, NEW j \in 1..Len(wText) + 1
    PROVE  /\ Reader!StartOf(i) \in Nat /\ Reader!StartOf(j) \in Nat
           /\ i <= j <=> Reader!StartOf(i) <= Reader!StartOf(j)
           /\ i < j => /\ i \in 1..Len(wText) /\ i + 1 \in 1..Len(wText) + 1
                       /\ Reader!StartOf(i) + wText[i].width <= Reader!StartOf(j)
                       /\ Reader!StartOf(i) + wText[i].width = Reader!StartOf(i + 1)
<1>1. Reader!StartOf(i) \in Nat /\ Reader!StartOf(j) \in Nat
  BY StartsTyped
<1>2. i <= j => Reader!StartOf(i) <= Reader!StartOf(j)
  BY StartsGrow
<1>3. ASSUME NEW a \in 1..Len(wText) + 1, NEW b \in 1..Len(wText) + 1, a < b
      PROVE  /\ a \in 1..Len(wText) /\ a + 1 \in 1..Len(wText) + 1
             /\ Reader!StartOf(a) + wText[a].width <= Reader!StartOf(b)
             /\ Reader!StartOf(a) + wText[a].width = Reader!StartOf(a + 1)
             /\ Reader!StartOf(a) < Reader!StartOf(b)
  <2>1. a \in 1..Len(wText) /\ a + 1 \in 1..Len(wText) + 1 /\ a + 1 <= b
    BY <1>3
  <2>2. /\ Reader!StartOf(a + 1) = Reader!StartOf(a) + wText[a].width
        /\ wText[a].width \in 1..ReadBytes - 1
    BY <2>1, StartsFollow
  <2>3. Reader!StartOf(a + 1) <= Reader!StartOf(b)
    BY <2>1, StartsGrow
  <2>4. Reader!StartOf(a) \in Nat /\ Reader!StartOf(b) \in Nat /\ Reader!StartOf(a + 1) \in Nat
    BY <2>1, StartsTyped
  <2>5. QED
    BY <2>1, <2>2, <2>3, <2>4, ReaderConstants
<1>4. QED
  BY <1>1, <1>2, <1>3

\* A page of text ends where a unit does, and has the units from the one at its offset.
LEMMA TextPage ==
    ASSUME wText \in Seq(Unit), NEW u \in 1..Len(wText) + 1, wOffset = Reader!StartOf(u)
    PROVE  \E v \in u..Len(wText) + 1 :
              /\ Reader!Decoded = u..v - 1
              /\ Reader!HasMore => Reader!WindowEnd - Reader!Buffered = Reader!StartOf(v)
              /\ ~Reader!HasMore => v = Len(wText) + 1
<1> DEFINE n == Len(wText)
           st(i) == Reader!StartOf(i)
           end == Reader!WindowEnd
<1>1. n \in Nat /\ DOMAIN wText = 1..n /\ n + 1 \in 1..n + 1
  OBVIOUS
<1>2. wOffset \in Nat /\ Reader!Size \in Nat /\ Reader!Size = st(n + 1)
  BY <1>1, StartsTyped DEF Reader!Size
<1>3. ReadBytes \in Nat
  BY ReaderConstants
<1>4. \A i \in 1..n : /\ i \in 1..n + 1 /\ i + 1 \in 1..n + 1 /\ i < i + 1
                      /\ st(i) \in Nat /\ st(i + 1) \in Nat
                      /\ st(i) + wText[i].width = st(i + 1)
                      /\ st(i) >= wOffset <=> i >= u
  <2> SUFFICES ASSUME NEW i \in 1..n
               PROVE  /\ i \in 1..n + 1 /\ i + 1 \in 1..n + 1 /\ i < i + 1
                      /\ st(i) \in Nat /\ st(i + 1) \in Nat
                      /\ st(i) + wText[i].width = st(i + 1)
                      /\ st(i) >= wOffset <=> i >= u
    OBVIOUS
  <2>1. i \in 1..n + 1 /\ i + 1 \in 1..n + 1 /\ i < i + 1
    BY <1>1
  <2>2. st(i) \in Nat /\ st(i + 1) \in Nat /\ st(i) + wText[i].width = st(i + 1)
    BY <2>1, StartsOrdered
  <2>3. u <= i <=> st(u) <= st(i)
    BY <2>1, StartsOrdered
  <2>4. QED
    BY <1>2, <2>1, <2>2, <2>3
<1>5. Reader!Decoded = {i \in 1..n : /\ i >= u /\ st(i + 1) <= end
                                     /\ Reader!HasMore => wText[i].whole \/ st(i + 1) < end}
  BY <1>1, <1>4 DEF Reader!Decoded
<1>6. CASE ~Reader!HasMore
  <2>1. end = st(n + 1)
    BY <1>2, <1>3, <1>6 DEF Reader!HasMore, Reader!WindowEnd
  <2>2. \A i \in 1..n : st(i + 1) <= st(n + 1)
    BY <1>1, <1>4, StartsGrow
  <2>3. Reader!Decoded = {i \in 1..n : i >= u}
    BY <1>5, <1>6, <2>1, <2>2
  <2>4. {i \in 1..n : i >= u} = u..(n + 1) - 1
    BY <1>1
  <2>5. n + 1 \in u..n + 1
    BY <1>1
  <2>6. QED
    BY <1>6, <2>3, <2>4, <2>5
<1>7. CASE Reader!HasMore
  <2>1. end = wOffset + ReadBytes /\ end < st(n + 1) /\ end \in Nat
    BY <1>2, <1>3, <1>7 DEF Reader!HasMore, Reader!WindowEnd
  <2> DEFINE T == {i \in 1..n + 1 : st(i) >= end}
  <2>2. \E x \in T : \A y \in T : x <= y
    <3>1. n + 1 \in T
      BY <1>1, <1>2, <2>1
    <3>2. T \subseteq Nat
      BY <1>1
    <3> HIDE DEF T
    <3>3. QED
      BY <3>1, <3>2, LeastNatural
  <2>3. PICK w \in 1..n + 1 : st(w) >= end /\ \A y \in T : w <= y
    BY <2>2
  <2>4. \A i \in 1..n + 1 : st(i) < end <=> i < w
    <3> SUFFICES ASSUME NEW i \in 1..n + 1 PROVE st(i) < end <=> i < w
      OBVIOUS
    <3>1. st(i) \in Nat /\ st(w) \in Nat /\ (w <= i <=> st(w) <= st(i))
      BY StartsOrdered
    <3>2. st(i) >= end => w <= i
      BY <2>3
    <3>3. QED
      BY <1>1, <2>1, <2>3, <3>1, <3>2
  <2> HIDE DEF T
  <2>5. CASE w <= u
    <3>1. st(u) >= end
      BY <1>1, <2>1, <2>4, <2>5, StartsTyped
    <3>2. ReadBytes = 0 /\ end = wOffset
      BY <1>2, <1>3, <2>1, <3>1
    <3>3. u \in 1..n + 1 /\ n + 1 \in 1..n + 1 /\ ~(n + 1 <= u)
      BY <1>1, <1>2, <2>1, <3>2, StartsOrdered
    <3>4. u \in 1..n
      BY <1>1, <3>3
    <3>5. wText[u].width \in 1..ReadBytes - 1
      BY <3>4, StartsFollow
    <3>6. QED
      BY <3>2, <3>5
  <2>6. CASE ~(w <= u)
    <3>1. w - 1 \in 1..n /\ w - 1 >= u /\ (w - 1) + 1 = w /\ w \in u..n + 1 /\ w - 1 \in u..n + 1
      BY <1>1, <2>6
    <3>2. \A i \in 1..n : i < w - 1 => st(i + 1) < end
      BY <1>1, <1>4, <2>4
    <3>3. \A i \in 1..n : i >= w => st(i + 1) > end
      <4> SUFFICES ASSUME NEW i \in 1..n, i >= w PROVE st(i + 1) > end
        OBVIOUS
      <4>1. ~(st(i) < end)
        BY <1>1, <1>4, <2>4
      <4>2. wText[i].width \in 1..ReadBytes - 1
        BY StartsFollow
      <4>3. QED
        BY <1>3, <1>4, <2>1, <4>1, <4>2
    <3>4. st(w) \in Nat /\ st(w - 1) \in Nat
      BY <3>1, StartsTyped
    <3> DEFINE unread == {i \in 1..n : i >= u /\ i < w}
    <3>5. {i \in DOMAIN wText : st(i) >= wOffset /\ st(i) < end} = unread
      BY <1>1, <1>4, <2>4
    <3>6. CASE st(w) = end /\ wText[w - 1].whole
      <4>1. \A i \in 1..n : i \in Reader!Decoded <=> i >= u /\ i < w
        <5> SUFFICES ASSUME NEW i \in 1..n PROVE i \in Reader!Decoded <=> i >= u /\ i < w
          OBVIOUS
        <5>1. CASE i < w - 1
          BY <1>4, <1>5, <2>1, <3>2, <5>1
        <5>2. CASE i = w - 1
          BY <1>4, <1>5, <2>1, <3>1, <3>6, <5>2
        <5>3. CASE i >= w
          BY <1>4, <1>5, <2>1, <3>3, <5>3
        <5>4. QED
          BY <1>1, <5>1, <5>2, <5>3
      <4>2. Reader!Decoded \subseteq 1..n
        BY <1>5
      <4>3. Reader!Decoded = u..w - 1
        <5>1. \A i : i \in u..w - 1 <=> i \in 1..n /\ i >= u /\ i < w
          BY <1>1
        <5>2. QED
          BY <4>1, <4>2, <5>1
      <4>4. unread \ Reader!Decoded = {}
        BY <4>1
      <4>5. Reader!Buffered = 0
        BY <3>5, <4>4 DEF Reader!Buffered
      <4>6. end - Reader!Buffered = st(w)
        BY <2>1, <3>6, <4>5
      <4>7. QED
        BY <1>7, <3>1, <4>3, <4>6
    <3>7. CASE ~(st(w) = end /\ wText[w - 1].whole)
      <4>1. \A i \in 1..n : i \in Reader!Decoded <=> i >= u /\ i < w - 1
        <5> SUFFICES ASSUME NEW i \in 1..n PROVE i \in Reader!Decoded <=> i >= u /\ i < w - 1
          OBVIOUS
        <5>1. CASE i < w - 1
          BY <1>4, <1>5, <2>1, <3>2, <5>1
        <5>2. CASE i = w - 1
          <6>1. st(i + 1) = st(w)
            BY <3>1, <5>2
          <6>2. i \in Reader!Decoded => st(w) <= end /\ (wText[w - 1].whole \/ st(w) < end)
            BY <1>5, <1>7, <5>2, <6>1
          <6>3. QED
            BY <2>1, <2>3, <3>4, <3>7, <5>2, <6>2
        <5>3. CASE i >= w
          BY <1>4, <1>5, <2>1, <3>3, <5>3
        <5>4. QED
          BY <1>1, <5>1, <5>2, <5>3
      <4>2. Reader!Decoded \subseteq 1..n
        BY <1>5
      <4>3. Reader!Decoded = u..(w - 1) - 1
        <5>1. \A i : i \in u..(w - 1) - 1 <=> i \in 1..n /\ i >= u /\ i < w - 1
          BY <1>1
        <5>2. QED
          BY <4>1, <4>2, <5>1
      <4>4. unread \ Reader!Decoded = {w - 1}
        BY <1>1, <3>1, <4>1
      <4>5. Reader!Buffered = end - st(w - 1)
        <5> DEFINE least == CHOOSE i \in {w - 1} : \A j \in {w - 1} : i <= j
        <5>1. least = w - 1
          BY <3>1
        <5>2. Reader!Buffered = end - st(least)
          BY <3>5, <4>4 DEF Reader!Buffered
        <5>3. QED
          BY <5>1, <5>2
      <4>6. end - Reader!Buffered = st(w - 1)
        BY <2>1, <3>4, <4>5
      <4>7. QED
        BY <1>7, <3>1, <4>3, <4>6
    <3>8. QED
      BY <3>6, <3>7
  <2>7. QED
    BY <1>1, <2>5, <2>6
<1>8. QED
  BY <1>6, <1>7

\* What is shown of a text: the units before the offset, and all of them at the end.
Symbols == [i \in DOMAIN wText |-> i]

TextPaged ==
    \E u \in 1..Len(wText) + 1 :
        /\ wOffset = Reader!StartOf(u)
        /\ ~wEnded => wGot = SubSeq(Symbols, 1, u - 1)
        /\ wEnded => wGot = SubSeq(Symbols, 1, Len(wText))

LEMMA SymbolsListed ==
    ASSUME wText \in Seq(Unit)
    PROVE  /\ Symbols \in Seq(Nat) /\ Len(Symbols) = Len(wText)
           /\ \A i \in 1..Len(wText) : Symbols[i] = i
<1>1. Len(wText) \in Nat /\ DOMAIN wText = 1..Len(wText)
  OBVIOUS
<1>2. Symbols \in [1..Len(wText) -> Nat]
  BY <1>1 DEF Symbols
<1>3. QED
  BY <1>1, <1>2 DEF Symbols

\* The units u to v - 1 in order are that stretch of the text.
LEMMA StretchAscends ==
    ASSUME wText \in Seq(Unit), NEW u \in 1..Len(wText) + 1, NEW v \in u..Len(wText) + 1
    PROVE  Reader!Ascending(u..v - 1) = SubSeq(Symbols, u, v - 1)
<1>1. /\ u \in Nat \ {0} /\ v \in Nat /\ u <= v /\ v - 1 \in Nat /\ v - 1 <= Len(wText)
      /\ Len(wText) \in Nat
  OBVIOUS
<1>2. /\ Symbols \in Seq(Nat) /\ Len(Symbols) = Len(wText)
      /\ \A i \in 1..Len(wText) : Symbols[i] = i
  BY SymbolsListed
<1> DEFINE s == SubSeq(Symbols, u, v - 1)
<1>3. s \in Seq(Nat) /\ Len(s) = v - u /\ \A k \in 1..v - u : s[k] = Symbols[u + k - 1]
  BY <1>1, <1>2
<1>4. \A k \in 1..v - u : u + k - 1 \in 1..Len(wText)
  BY <1>1
<1> HIDE DEF s
<1>5. \A k \in 1..v - u : s[k] = u + k - 1
  BY <1>2, <1>3, <1>4
<1>6. s = [k \in 1..v - u |-> u + k - 1]
  BY <1>3, <1>5
<1>7. QED
  BY <1>1, <1>6, AscendingInterval DEF s

LEMMA TextKept ==
    ASSUME UNCHANGED wText
    PROVE  Symbols' = Symbols /\ \A i : Reader!StartOf(i)' = Reader!StartOf(i)
  BY DEF Symbols, Reader!StartOf, Reader!BytesBefore

LEMMA ReadFileTurns ==
    ASSUME wText \in Seq(Unit), TextPaged, Reader!ReadFile
    PROVE  TextPaged'
<1>1. PICK u \in 1..Len(wText) + 1 : /\ wOffset = Reader!StartOf(u)
                                      /\ wGot = SubSeq(Symbols, 1, u - 1)
  BY DEF TextPaged, Reader!ReadFile
<1>2. PICK v \in u..Len(wText) + 1 :
           /\ Reader!Decoded = u..v - 1
           /\ Reader!HasMore => Reader!WindowEnd - Reader!Buffered = Reader!StartOf(v)
           /\ ~Reader!HasMore => v = Len(wText) + 1
  BY <1>1, TextPage
<1>3. Reader!Ascending(Reader!Decoded) = SubSeq(Symbols, u, v - 1)
  BY <1>2, StretchAscends
<1>4. /\ wGot' = wGot \o SubSeq(Symbols, u, v - 1)
      /\ wEnded' = ~Reader!HasMore
      /\ wOffset' = IF Reader!HasMore THEN Reader!WindowEnd - Reader!Buffered ELSE wOffset
      /\ UNCHANGED wText
  BY <1>3 DEF Reader!ReadFile, Reader!Turn
<1>5. wGot' = SubSeq(Symbols, 1, v - 1)
  <2>1. Symbols \in Seq(Nat) /\ Len(Symbols) = Len(wText)
    BY SymbolsListed
  <2>2. u - 1 \in 0..Len(Symbols) /\ v - 1 \in u - 1..Len(Symbols) /\ (u - 1) + 1 = u
    BY <2>1
  <2>3. SubSeq(Symbols, 1, u - 1) \o SubSeq(Symbols, (u - 1) + 1, v - 1)
          = SubSeq(Symbols, 1, v - 1)
    BY <2>1, <2>2, PagesJoin
  <2>4. QED
    BY <1>1, <1>4, <2>2, <2>3
<1>6. /\ Symbols' = Symbols /\ Len(wText)' = Len(wText) /\ Len(wText) \in Nat
      /\ \A i : Reader!StartOf(i)' = Reader!StartOf(i)
  BY <1>4, TextKept
<1>7. CASE Reader!HasMore
  <2>1. v \in 1..Len(wText) + 1 /\ ~wEnded' /\ wOffset' = Reader!StartOf(v)
    <3>1. v \in 1..Len(wText) + 1
      BY <1>6
    <3>2. ~wEnded'
      BY <1>4, <1>7
    <3>3. wOffset' = Reader!WindowEnd - Reader!Buffered
      BY <1>4, <1>7
    <3>4. QED
      BY <1>2, <1>7, <3>1, <3>2, <3>3
  <2>2. QED
    BY <1>5, <1>6, <2>1 DEF TextPaged
<1>8. CASE ~Reader!HasMore
  <2>1. wEnded' /\ wOffset' = Reader!StartOf(u) /\ v - 1 = Len(wText)
    <3>1. v - 1 = Len(wText)
      BY <1>2, <1>6, <1>8
    <3>2. wEnded'
      BY <1>4, <1>8
    <3>3. wOffset' = wOffset
      BY <1>4, <1>8
    <3>4. QED
      BY <1>1, <3>1, <3>2, <3>3
  <2>2. QED
    BY <1>5, <1>6, <2>1 DEF TextPaged
<1>9. QED
  BY <1>7, <1>8

ReaderInv ==
    /\ wEnded \in BOOLEAN
    /\ \/ /\ wTool \in {"find_files", "list_files"}
          /\ wFiles \in Workspaces /\ wText = << >>
          /\ wTool = "find_files" => Paged(Reader!FilesUnder, wGot, wOffset, wEnded)
          /\ wTool = "list_files" => Paged(Reader!Entries, wGot, wOffset, wEnded)
       \/ wTool = "read_file" /\ wFiles = {} /\ wText \in Texts /\ TextPaged

LEMMA InitReader == Init => ReaderInv
<1> SUFFICES ASSUME Init PROVE ReaderInv
  OBVIOUS
<1>1. Reader!Init
  BY DEF Init
<1>2. wOffset = 0 /\ wGot = << >> /\ wEnded = FALSE
  BY <1>1 DEF Reader!Init
<1>3. ASSUME NEW T, NEW whole \in Seq(T)
      PROVE  SubSeq(whole, 1, 0) = << >> /\ Paged(whole, wGot, wOffset, wEnded)
  <2>1. SubSeq(whole, 1, 0) = << >> /\ 0 \in 0..Len(whole) /\ 0 \in 0..0
    OBVIOUS
  <2>2. QED
    BY <1>2, <2>1 DEF Paged
<1>4. CASE wTool \in {"find_files", "list_files"} /\ wFiles \in Workspaces /\ wText = << >>
  <2>1. IsFiniteSet(wFiles)
    BY <1>4, ReaderConstants
  <2>2. Paged(Reader!FilesUnder, wGot, wOffset, wEnded)
    BY <1>3, <2>1, FilesListed
  <2>3. Paged(Reader!Entries, wGot, wOffset, wEnded)
    BY <1>3, <2>1, EntriesListed
  <2>4. QED
    BY <1>2, <1>4, <2>2, <2>3 DEF ReaderInv
<1>5. CASE wTool = "read_file" /\ wFiles = {} /\ wText \in Texts
  <2>1. wText \in Seq(Unit)
    BY <1>5, ReaderConstants
  <2>2. SubSeq(Symbols, 1, 0) = << >>
    BY <1>3, <2>1, SymbolsListed
  <2>3. 1 \in 1..Len(wText) + 1 /\ Reader!StartOf(1) = 0 /\ 1 - 1 = 0
    BY <2>1, StartsTyped
  <2>4. TextPaged
    BY <1>2, <2>2, <2>3 DEF TextPaged
  <2>5. QED
    BY <1>2, <1>5, <2>4 DEF ReaderInv
<1>6. QED
  BY <1>1, <1>4, <1>5 DEF Reader!Init

LEMMA NextReader == ReaderInv /\ [Next]_vars => ReaderInv'
<1> SUFFICES ASSUME ReaderInv, [Reader!Next]_readerVars PROVE ReaderInv'
  BY ReaderMoves
<1>1. CASE UNCHANGED readerVars
  <2>1. /\ Reader!FilesUnder' = Reader!FilesUnder /\ Reader!Entries' = Reader!Entries
        /\ Symbols' = Symbols /\ \A i : Reader!StartOf(i)' = Reader!StartOf(i)
    BY <1>1, TextKept DEF readerVars, Reader!FilesUnder, Reader!Entries, Reader!Roots
  <2>2. TextPaged => TextPaged'
    BY <1>1, <2>1 DEF readerVars, TextPaged
  <2>3. QED
    BY <1>1, <2>1, <2>2 DEF readerVars, ReaderInv, Paged
<1>2. CASE Reader!FindFiles
  <2>1. wFiles \in Workspaces /\ wTool = "find_files" /\ wText = << >>
    BY <1>2 DEF ReaderInv, Reader!FindFiles
  <2>2. IsFiniteSet(wFiles)
    BY <2>1, ReaderConstants
  <2>3. Paged(Reader!FilesUnder, wGot', wOffset', wEnded')
    BY <1>2, <2>1, <2>2, FindFilesTurns DEF ReaderInv
  <2>4. /\ UNCHANGED <<wFiles, wText, wTool>> /\ wEnded' \in BOOLEAN
    BY <1>2 DEF Reader!FindFiles, Reader!Turn
  <2>5. Reader!FilesUnder' = Reader!FilesUnder
    BY <2>4 DEF Reader!FilesUnder
  <2>6. QED
    BY <2>1, <2>3, <2>4, <2>5 DEF ReaderInv, Paged
<1>3. CASE Reader!ListFiles
  <2>1. wFiles \in Workspaces /\ wTool = "list_files" /\ wText = << >>
    BY <1>3 DEF ReaderInv, Reader!ListFiles
  <2>2. IsFiniteSet(wFiles)
    BY <2>1, ReaderConstants
  <2>3. Paged(Reader!Entries, wGot', wOffset', wEnded')
    BY <1>3, <2>1, <2>2, ListFilesTurns DEF ReaderInv
  <2>4. UNCHANGED <<wFiles, wText, wTool>> /\ wEnded' \in BOOLEAN
    BY <1>3 DEF Reader!ListFiles, Reader!Turn
  <2>5. Reader!Entries' = Reader!Entries
    BY <2>4 DEF Reader!Entries, Reader!Roots
  <2>6. QED
    BY <2>1, <2>3, <2>4, <2>5 DEF ReaderInv, Paged
<1>4. CASE Reader!ReadFile
  <2>1. wTool = "read_file" /\ wFiles = {} /\ wText \in Texts /\ TextPaged
    BY <1>4 DEF ReaderInv, Reader!ReadFile
  <2>2. TextPaged'
    BY <1>4, <2>1, ReaderConstants, ReadFileTurns
  <2>3. UNCHANGED <<wFiles, wText, wTool>> /\ wEnded' \in BOOLEAN
    BY <1>4 DEF Reader!ReadFile, Reader!Turn
  <2>4. QED
    BY <2>1, <2>2, <2>3 DEF ReaderInv
<1>5. QED
  BY <1>1, <1>2, <1>3, <1>4 DEF Reader!Next

\* What has been shown is a prefix, and at the end the whole.
LEMMA ShownIsPrefix ==
    ASSUME NEW T, NEW whole \in Seq(T), NEW m \in 0..Len(whole), NEW got,
           got = SubSeq(whole, 1, m)
    PROVE  Reader!IsPrefix(got, whole) /\ (m = Len(whole) => got = whole)
<1>1. Len(whole) \in Nat
  OBVIOUS
<1>2. got \in Seq(T) /\ Len(got) = m /\ \A i \in 1..m : got[i] = whole[i]
  BY <1>1
<1>3. m = Len(whole) => got = whole
  BY <1>2
<1> DEFINE g == SubSeq(got, 1, m)
<1>4. g \in Seq(T) /\ Len(g) = m /\ \A i \in 1..m : g[i] = got[i]
  BY <1>1, <1>2
<1> HIDE DEF g
<1>5. g = got
  BY <1>2, <1>4
<1>6. Len(got) <= Len(whole) /\ SubSeq(got, 1, Len(got)) = SubSeq(whole, 1, Len(got))
  BY <1>1, <1>2, <1>5 DEF g
<1>7. QED
  BY <1>3, <1>6 DEF Reader!IsPrefix

LEMMA PagedFits ==
    ASSUME NEW T, NEW whole \in Seq(T), Paged(whole, wGot, wOffset, wEnded)
    PROVE  /\ Reader!IsPrefix(wGot, whole) /\ (wEnded => wGot = whole)
           /\ wOffset \in 0..Len(whole)
<1>1. PICK m \in 0..Len(whole) : /\ wGot = SubSeq(whole, 1, m) /\ wOffset \in 0..m
                                 /\ wEnded => m = Len(whole)
  BY DEF Paged
<1>2. Len(whole) \in Nat /\ m \in Nat /\ m <= Len(whole)
  OBVIOUS
<1>3. wOffset \in 0..Len(whole)
  BY <1>1, <1>2
<1>4. Reader!IsPrefix(wGot, whole) /\ (m = Len(whole) => wGot = whole)
  BY <1>1, ShownIsPrefix
<1>5. QED
  BY <1>1, <1>3, <1>4

LEMMA ReaderFits == ReaderInv => Reader!PagesFit
<1> SUFFICES ASSUME ReaderInv PROVE Reader!PagesFit
  OBVIOUS
<1>1. CASE /\ wTool \in {"find_files", "list_files"} /\ wFiles \in Workspaces /\ wText = << >>
           /\ wTool = "find_files" => Paged(Reader!FilesUnder, wGot, wOffset, wEnded)
           /\ wTool = "list_files" => Paged(Reader!Entries, wGot, wOffset, wEnded)
  <2>1. IsFiniteSet(wFiles) /\ Cardinality(wFiles) \in Nat
    BY <1>1, ReaderConstants, FS_CardinalityType
  <2>2. Reader!Size = 0
    <3>1. wText \in Seq(Unit) /\ Len(wText) + 1 = 1
      BY <1>1
    <3>2. QED
      BY <3>1, StartsTyped DEF Reader!Size
  <2> DEFINE whole == IF wTool = "find_files" THEN Reader!FilesUnder ELSE Reader!Entries
  <2>3. /\ Reader!Whole = whole /\ Paged(whole, wGot, wOffset, wEnded)
    BY <1>1 DEF Reader!Whole
  <2>4. (\E T : whole \in Seq(T)) /\ Len(whole) <= Cardinality(wFiles)
    BY <2>1, FilesListed, EntriesListed
  <2>5. PICK T : whole \in Seq(T)
    BY <2>4
  <2> HIDE DEF whole
  <2>6. /\ Reader!IsPrefix(wGot, whole) /\ (wEnded => wGot = whole)
        /\ wOffset \in 0..Len(whole)
    BY <2>3, <2>5, PagedFits
  <2>7. wOffset \in 0..Reader!Size + Reader!Cardinality(wFiles)
    <3>1. Len(whole) \in Nat
      BY <2>5
    <3>2. QED
      BY <2>1, <2>2, <2>4, <2>6, <3>1, ReaderCardinality
  <2>8. Reader!TypeOK
    BY <1>1, <2>7 DEF ReaderInv, Reader!TypeOK
  <2> DEFINE items == IF wTool = "find_files" THEN wFiles ELSE Reader!Roots
  <2>9. Reader!Items = items
    BY <1>1 DEF Reader!Items
  <2>10. /\ Len(whole) = Cardinality(items)
         /\ \A x \in items : \E k \in DOMAIN whole : whole[k] = x
    <3>1. CASE wTool = "find_files"
      BY <1>1, <2>1, <3>1, FilesListed, WalkLists DEF whole
    <3>2. CASE wTool # "find_files"
      <4>1. whole = Reader!Entries /\ items = Reader!Roots
        BY <3>2 DEF whole
      <4>2. Reader!Roots \subseteq Nat
        BY <1>1, WorkspacePaths DEF Reader!Roots
      <4>3. \A x \in Reader!Roots : \E k \in DOMAIN Reader!Entries : Reader!Entries[k] = x
        <5>1. Orders(Ascent(Reader!Roots), Reader!Roots)
          BY <4>2, NumbersAscend
        <5>2. QED
          BY <2>1, <5>1, EntriesListed, AscendingLists DEF Reader!Entries
      <4>4. QED
        BY <2>1, <4>1, <4>3, EntriesListed
    <3>3. QED
      BY <3>1, <3>2
  <2> HIDE DEF items
  <2>11. wEnded => /\ wGot = whole /\ Len(wGot) = Reader!Cardinality(items)
                   /\ \A x \in items : \E k \in DOMAIN wGot : wGot[k] = x
    BY <2>6, <2>10, ReaderCardinality
  <2>12. QED
    BY <2>3, <2>6, <2>8, <2>9, <2>11 DEF Reader!PagesFit
<1>2. CASE wTool = "read_file" /\ wFiles = {} /\ wText \in Texts /\ TextPaged
  <2>1. wText \in Seq(Unit) /\ Len(wText) \in Nat
    BY <1>2, ReaderConstants
  <2>2. PICK u \in 1..Len(wText) + 1 :
             /\ wOffset = Reader!StartOf(u)
             /\ ~wEnded => wGot = SubSeq(Symbols, 1, u - 1)
             /\ wEnded => wGot = SubSeq(Symbols, 1, Len(wText))
    BY <1>2 DEF TextPaged
  <2>3. Symbols \in Seq(Nat) /\ Len(Symbols) = Len(wText)
    BY <2>1, SymbolsListed
  <2>4. Reader!IsPrefix(wGot, Symbols) /\ (wEnded => wGot = Symbols)
    <3>1. u - 1 \in 0..Len(Symbols) /\ Len(Symbols) \in 0..Len(Symbols)
      BY <2>1, <2>3
    <3>2. CASE wEnded
      BY <2>2, <2>3, <3>1, <3>2, ShownIsPrefix
    <3>3. CASE ~wEnded
      BY <2>2, <2>3, <3>1, <3>3, ShownIsPrefix
    <3>4. QED
      BY <3>2, <3>3
  <2>5. Reader!Whole = Symbols
    BY <1>2 DEF Reader!Whole, Symbols
  <2>6. wOffset \in 0..Reader!Size + Reader!Cardinality(wFiles)
    <3>1. Len(wText) + 1 \in 1..Len(wText) + 1 /\ u <= Len(wText) + 1
      BY <2>1
    <3>2. /\ Reader!StartOf(u) \in Nat /\ Reader!Size \in Nat
          /\ Reader!StartOf(u) <= Reader!Size
      BY <2>1, <3>1, StartsOrdered DEF Reader!Size
    <3>3. Reader!Cardinality(wFiles) = 0
      BY <1>2, ReaderCardinality, FS_EmptySet
    <3>4. QED
      BY <2>2, <3>2, <3>3
  <2>7. Reader!TypeOK
    BY <1>2, <2>2, <2>6 DEF ReaderInv, Reader!TypeOK
  <2>8. Reader!Items = 1..Len(wText)
    BY <1>2, <2>1 DEF Reader!Items
  <2>9. /\ Len(Symbols) = Reader!Cardinality(1..Len(wText))
        /\ \A x \in 1..Len(wText) : \E k \in DOMAIN Symbols : Symbols[k] = x
    <3>1. Cardinality(1..Len(wText)) = Len(wText)
      <4> DEFINE n == Len(wText)
      <4>1. n \in Nat /\ 1 \in Nat /\ 1 <= n + 1 /\ n + 1 - 1 = n
        BY <2>1
      <4> HIDE DEF n
      <4>2. Cardinality(1..n) = n + 1 - 1
        BY <4>1, IntervalSize
      <4>3. QED
        BY <4>1, <4>2 DEF n
    <3>2. DOMAIN Symbols = 1..Len(wText) /\ \A i \in 1..Len(wText) : Symbols[i] = i
      BY <2>1, SymbolsListed
    <3>3. QED
      BY <2>3, <3>1, <3>2, ReaderCardinality
  <2>10. QED
    BY <2>4, <2>5, <2>7, <2>8, <2>9 DEF Reader!PagesFit
<1>3. QED
  BY <1>1, <1>2 DEF ReaderInv

\* The pages of a listing and of a text fit together, whatever the workspace, the text and
\* the size of a page (WorkspaceReader.execute): what has been shown is the beginning of the
\* whole, and after the last page every file, entry or character has been shown, each once.
THEOREM PagesAlwaysFit == Spec => []PagesFit
<1>1. Spec => []ReaderInv
  BY InitReader, NextReader, PTL DEF Spec
<1>2. ReaderInv => PagesFit
  BY ReaderFits DEF PagesFit
<1>3. QED
  BY <1>1, <1>2, PTL
=============================================================================
