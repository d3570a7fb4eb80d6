---------------------------- MODULE WorkspaceCache ----------------------------
(***************************************************************************)
(* The directories a validator keeps across rounds: the workspace cache    *)
(* and the round directories, from the sweep at the start of               *)
(* evaluate_round (rlvr/v3/round.py) to ensure_cached_workspace            *)
(* (rlvr/v3/workspace.py) and the end of the round. The process can be     *)
(* killed at any point; the directories stay as they are.                  *)
(***************************************************************************)
EXTENDS Integers

CONSTANTS Workspaces,   \* digests of the workspaces a lease can name
          MaxCrashes    \* bound: kills of the process

ASSUME CacheAssumption == Workspaces # {} /\ MaxCrashes \in Nat

VARIABLES phase,    \* where evaluate_round is
          lease,    \* digest of the leased workspace
          cache,    \* digest -> the directory of that name in the cache
          staging,  \* a .workspace-* directory exists in the cache
          stale,    \* a hone-v3-round-* directory of an earlier round exists
          own,      \* the hone-v3-round-* directory of this round exists
          broken,   \* ghost: digests whose removal did not finish
          crashes

vars == <<phase, lease, cache, staging, stale, own, broken, crashes>>

Init ==
    /\ phase = "idle"
    /\ lease \in Workspaces
    /\ cache = [w \in Workspaces |-> "absent"]
    /\ staging = FALSE /\ stale = FALSE /\ own = FALSE
    /\ broken = {} /\ crashes = 0

\* Faulty variant: the sweep takes every digest for the leased one.
OthersNone == {}

Others == {w \in Workspaces \ {lease} : cache[w] # "absent"}

\* A lease that passed the policy checks; the sweep starts.
LeaseAccepted(w) ==
    /\ phase = "idle"
    /\ phase' = "sweep"
    /\ lease' = w
    /\ UNCHANGED <<cache, staging, stale, own, broken, crashes>>

\* Faulty variant: round directories are refused like staging directories.
RemoveRoundDirRefused ==
    /\ phase = "sweep"
    /\ stale
    /\ phase' = "idle"
    /\ UNCHANGED <<lease, cache, staging, stale, own, broken, crashes>>

\* The sweep of the work directory comes first.
RemoveRoundDir ==
    /\ phase = "sweep"
    /\ stale
    /\ stale' = FALSE
    /\ UNCHANGED <<phase, lease, cache, staging, own, broken, crashes>>

\* Cached workspaces other than the leased one go, in directory order.
RemoveCached(w) ==
    /\ phase = "sweep" /\ ~stale
    /\ w \in Others
    /\ cache' = [cache EXCEPT ![w] = "absent"]
    /\ broken' = broken \ {w}
    /\ UNCHANGED <<phase, lease, staging, stale, own, crashes>>

\* rm stops with an error: the round is abandoned, what rm did is done.
RemoveFails ==
    /\ phase = "sweep"
    /\ phase' = "idle"
    /\ \/ stale /\ UNCHANGED <<cache, broken>>
       \/ /\ ~stale
          /\ \E w \in Others : /\ cache' = [cache EXCEPT ![w] = "partial"]
                               /\ broken' = broken \cup {w}
    /\ UNCHANGED <<lease, staging, stale, own, crashes>>

\* _remove_tree accepts round, digest and miner names only: a staging directory
\* raises ValueError, and the round is abandoned.
StagingRefused ==
    /\ phase = "sweep" /\ ~stale
    /\ staging
    /\ phase' = "idle"
    /\ UNCHANGED <<lease, cache, staging, stale, own, broken, crashes>>

\* The sweep is over and the round directory is made. A cached workspace is used
\* as it is found.
EnterRound ==
    /\ phase = "sweep"
    /\ ~stale /\ ~staging /\ Others = {}
    /\ own' = TRUE
    /\ phase' = IF cache[lease] = "absent" THEN "fetch" ELSE "ready"
    /\ UNCHANGED <<lease, cache, staging, stale, broken, crashes>>

\* Leaving the block of the round directory removes it, ignoring errors.
LeaveRound ==
    /\ phase' = "idle"
    /\ own' = FALSE
    /\ stale' \in {stale, TRUE}
    /\ UNCHANGED <<lease, crashes>>

\* Too little storage, or a download that fails.
FetchFails ==
    /\ phase = "fetch"
    /\ LeaveRound
    /\ UNCHANGED <<cache, staging, broken>>

\* Faulty variant: extraction straight into the digest's directory.
ExtractInPlace ==
    /\ phase = "fetch"
    /\ phase' = "extract"
    /\ cache' = [cache EXCEPT ![lease] = "partial"]
    /\ UNCHANGED <<lease, staging, stale, own, broken, crashes>>

\* extract_archive into the staging directory.
Extract ==
    /\ phase = "fetch"
    /\ phase' = "extract"
    /\ staging' = TRUE
    /\ UNCHANGED <<lease, cache, stale, own, broken, crashes>>

\* The archive is bad or the disk fails; rmtree ignores its own errors.
ExtractFails ==
    /\ phase = "extract"
    /\ LeaveRound
    /\ staging' \in BOOLEAN
    /\ UNCHANGED <<cache, broken>>

\* os.replace(staging, target).
Publish ==
    /\ phase = "extract"
    /\ phase' = "ready"
    /\ staging' = FALSE
    /\ cache' = [cache EXCEPT ![lease] = "whole"]
    /\ UNCHANGED <<lease, stale, own, broken, crashes>>

\* Miners are asked and graded against the cached workspace; the round ends.
RoundEnds ==
    /\ phase = "ready"
    /\ LeaveRound
    /\ UNCHANGED <<cache, staging, broken>>

\* The process is killed and started again, possibly in the middle of a removal.
Crash ==
    /\ phase # "idle"
    /\ crashes < MaxCrashes
    /\ crashes' = crashes + 1
    /\ phase' = "idle"
    /\ own' = FALSE /\ stale' = (stale \/ own)
    /\ \/ UNCHANGED <<cache, broken>>
       \/ /\ phase = "sweep" /\ ~stale
          /\ \E w \in Others : /\ cache' = [cache EXCEPT ![w] = "partial"]
                               /\ broken' = broken \cup {w}
    /\ UNCHANGED <<lease, staging>>

Next ==
    \/ \E w \in Workspaces : LeaseAccepted(w) \/ RemoveCached(w)
    \/ RemoveRoundDir \/ RemoveFails \/ StagingRefused \/ EnterRound
    \/ FetchFails \/ Extract \/ ExtractFails \/ Publish \/ RoundEnds \/ Crash

Spec == Init /\ [][Next]_vars

\* Rounds keep coming, and neither removals nor downloads nor extractions fail
\* forever when they are tried again and again.
FairSpec ==
    /\ Spec
    /\ WF_vars(Next)
    /\ SF_vars(RemoveRoundDir) /\ SF_vars(EnterRound) /\ SF_vars(Extract) /\ SF_vars(Publish)
    /\ \A w \in Workspaces : SF_vars(RemoveCached(w))
-----------------------------------------------------------------------------
TypeOK ==
    /\ phase \in {"idle", "sweep", "fetch", "extract", "ready"}
    /\ lease \in Workspaces
    /\ cache \in [Workspaces -> {"absent", "partial", "whole"}]
    /\ staging \in BOOLEAN /\ stale \in BOOLEAN /\ own \in BOOLEAN
    /\ own <=> phase \in {"fetch", "extract", "ready"}
    /\ broken \subseteq Workspaces
    /\ crashes \in 0..MaxCrashes

\* Publication is atomic: whatever fails and whenever the process is killed, the
\* only way a digest names an incomplete workspace is a removal that did not
\* finish (staging and os.replace of ensure_cached_workspace).  The first conjunct is
\* the type invariant.
PublishedWhole ==
    /\ TypeOK
    /\ \A w \in Workspaces : cache[w] = "partial" => w \in broken

\* Storage is reclaimed before it is reserved: when a round downloads or grades,
\* nothing of an earlier round or of another workspace is left, whatever
\* failures and kills came before (the sweep of evaluate_round).
Reclaimed ==
    phase \in {"fetch", "extract", "ready"} =>
        /\ \A w \in Workspaces \ {lease} : cache[w] = "absent"
        /\ ~stale /\ (staging => phase = "extract")

\* Rounds reach grading again and again after any failures and kills, unless a
\* staging directory was left in the cache.
BlockedOnlyByStaging == []<>(phase = "ready") \/ <>[]staging

\* The sweep reclaims what an interrupted round left in the cache ("elif
\* entry.name.startswith('.workspace-')"), so rounds reach grading again and
\* again, whatever happened before.
RoundsRecover == []<>(phase = "ready")

\* "The validator then verifies the workspace before contacting miners": what
\* miners are graded against is the whole workspace.
VerifiedWorkspace == phase = "ready" => cache[lease] = "whole"
=============================================================================
