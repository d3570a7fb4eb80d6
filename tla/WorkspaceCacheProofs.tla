------------------------- MODULE WorkspaceCacheProofs -------------------------
(***************************************************************************)
(* The workspace cache for any set of workspaces and any number of kills:  *)
(* publication is atomic and storage is reclaimed before it is reserved.   *)
(***************************************************************************)
EXTENDS WorkspaceCache, TLAPS

\* Where the round is says what directories exist.
CacheInv == PublishedWhole /\ Reclaimed

LEMMA InitInv == Init => CacheInv
<1> SUFFICES ASSUME Init PROVE CacheInv
  OBVIOUS
<1>1. staging \in BOOLEAN /\ stale \in BOOLEAN /\ own \in BOOLEAN
  BY DEF Init
<1>2. ~staging /\ ~stale /\ ~own
  BY DEF Init
<1>3. QED
  BY <1>1, <1>2, CacheAssumption DEF Init, CacheInv, PublishedWhole, Reclaimed, TypeOK

\* Leaving the block of the round directory ends the round.
LEMMA LeaveRoundFlags ==
    ASSUME stale \in BOOLEAN, LeaveRound
    PROVE  stale' \in BOOLEAN /\ own' \in BOOLEAN /\ ~own' /\ phase' = "idle"
<1>1. own' \in BOOLEAN /\ ~own' /\ phase' = "idle"
  BY DEF LeaveRound
<1>2. stale' \in BOOLEAN
  <2>1. stale' = stale \/ stale' = TRUE
    BY DEF LeaveRound
  <2>2. QED
    BY <2>1
<1>3. QED
  BY <1>1, <1>2

LEMMA NextInv == CacheInv /\ [Next]_vars => CacheInv'
<1> SUFFICES ASSUME CacheInv, [Next]_vars PROVE CacheInv'
  OBVIOUS
<1> USE DEF CacheInv, PublishedWhole, Reclaimed, TypeOK
<1>1. ASSUME NEW w \in Workspaces, LeaseAccepted(w) PROVE CacheInv'
  BY <1>1 DEF LeaseAccepted
<1>2. ASSUME NEW w \in Workspaces, RemoveCached(w) PROVE CacheInv'
  BY <1>2 DEF RemoveCached
<1>3. CASE RemoveRoundDir
  BY <1>3 DEF RemoveRoundDir
<1>4. CASE RemoveFails
  BY <1>4 DEF RemoveFails, Others
<1>5. CASE StagingRefused
  BY <1>5 DEF StagingRefused
<1>6. CASE EnterRound
  BY <1>6 DEF EnterRound, Others
<1>7. CASE FetchFails
  BY <1>7, LeaveRoundFlags DEF FetchFails, LeaveRound
<1>8. CASE Extract
  BY <1>8 DEF Extract
<1>9. CASE ExtractFails
  BY <1>9, LeaveRoundFlags DEF ExtractFails, LeaveRound
<1>10. CASE Publish
  BY <1>10 DEF Publish
<1>11. CASE RoundEnds
  BY <1>11, LeaveRoundFlags DEF RoundEnds, LeaveRound
<1>12. CASE Crash
  <2>1. stale' \in BOOLEAN
    BY <1>12 DEF Crash
  <2>2. own' \in BOOLEAN /\ ~own' /\ phase' = "idle"
    BY <1>12 DEF Crash
  <2>3. crashes' \in 0..MaxCrashes
    BY <1>12, CacheAssumption DEF Crash
  <2>4. QED
    BY <1>12, <2>1, <2>2, <2>3 DEF Crash, Others
<1>13. CASE UNCHANGED vars
  BY <1>13 DEF vars
<1>14. QED
  BY <1>1, <1>2, <1>3, <1>4, <1>5, <1>6, <1>7, <1>8, <1>9, <1>10, <1>11, <1>12, <1>13 DEF Next

\* For every set of workspaces and every number of kills, the only way a digest
\* names an incomplete workspace is a removal that did not finish
\* (ensure_cached_workspace).
THEOREM PublicationIsAtomic == Spec => []PublishedWhole
<1>1. CacheInv => PublishedWhole
  BY DEF CacheInv
<1>2. QED
  BY <1>1, InitInv, NextInv, PTL DEF Spec

\* A round that downloads or grades finds nothing of an earlier round or of
\* another workspace (the sweep of evaluate_round).
THEOREM StorageIsReclaimed == Spec => []Reclaimed
<1>1. CacheInv => Reclaimed
  BY DEF CacheInv
<1>2. QED
  BY <1>1, InitInv, NextInv, PTL DEF Spec
=============================================================================
