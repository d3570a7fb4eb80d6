----------------------------- MODULE NonceCache -----------------------------
(***************************************************************************)
(* What keeps a miner from handling one signed request twice:              *)
(* verify_signature accepts a request while its timestamp is within Delta  *)
(* of the miner's clock, and NonceCache.check_and_add refuses a uuid that  *)
(* it still remembers.  Both read the wall clock, one after the other.     *)
(*                                                                         *)
(* The network may deliver a request any number of times and at any time,  *)
(* and the sender's clock need not agree with the miner's: a timestamp may *)
(* be ahead of it.  The cache forgets a uuid a window after it was         *)
(* RECORDED, while the signature lapses a window after the timestamp it    *)
(* carries.  MaxGap is the longest time between the two clock reads of one *)
(* handler.  The handlers run on one event loop without awaiting between   *)
(* the reads, so they do not interleave.                                   *)
(***************************************************************************)
EXTENDS Integers, Sequences, FiniteSets

CONSTANTS
    Uuids,        \* the uuids senders choose
    Delta,        \* allowed_delta_ms, and window_ms of the miner's cache
    MaxEntries,   \* max_entries
    MaxGap,       \* see above
    MaxTime       \* bound of the model: the clock stops here

\* What is assumed of the constants; evaluated in MinerParts.
NonceCacheAssumption ==
    /\ "none" \notin Uuids
    /\ Delta \in Nat
    /\ MaxEntries \in Nat \ {0}
    /\ MaxGap \in Nat
    /\ MaxTime \in Nat

VARIABLES
    now,        \* the miner's wall clock
    stamp,      \* uuid -> Epistula-Timestamp; only sent uuids are in its domain
    seen,       \* _seen: a sequence of [uuid, at], in order of insertion
    handler,    \* the request whose signature has been verified, and when
    handled     \* history: uuid -> the times at which it was let through

vars == <<now, stamp, seen, handler, handled>>

NoHandler == [uuid |-> "none", verified |-> 0]

Idle == handler = NoHandler

Remembered == {seen[i].uuid : i \in DOMAIN seen}

\* The requests the miner let through in the window that ends now.
Recent == {u \in Uuids : \E t \in handled[u] : t >= now - Delta}
-----------------------------------------------------------------------------
Init ==
    /\ now = 0
    /\ stamp = [u \in {} |-> 0]
    /\ seen = << >>
    /\ handler = NoHandler
    /\ handled = [u \in Uuids |-> {}]

\* A validator signs a request with its own clock (sign_message), which may show any time.
Sign(u, t) ==
    /\ u \notin DOMAIN stamp
    /\ stamp' = [v \in DOMAIN stamp \union {u} |-> IF v = u THEN t ELSE stamp[v]]
    /\ UNCHANGED <<now, seen, handler, handled>>

\* verify_signature: the timestamp must be within Delta of now, either way.
Fresh(u) == stamp[u] - Delta <= now /\ now <= stamp[u] + Delta

\* A delivery (the first or another one) reaches the miner and its signature is
\* verified; a request that is not Fresh is answered 401 and changes nothing.
Verify(u) ==
    /\ Idle
    /\ u \in DOMAIN stamp
    /\ Fresh(u)
    /\ handler' = [uuid |-> u, verified |-> now]
    /\ UNCHANGED <<now, stamp, seen, handled>>

\* Faulty variant: an entry is dropped at the end of its window, not after it.
StaleEarly(entry) == entry.at <= now - Delta

\* _prune: the entries before the first one that is recent enough are dropped.
Stale(entry) == entry.at < now - Delta

\* Faulty variant: nothing is pruned.
FirstFreshNever == 1

FirstFresh ==
    CHOOSE k \in 1..Len(seen) + 1 :
        /\ \A i \in 1..k - 1 : Stale(seen[i])
        /\ k <= Len(seen) => ~Stale(seen[k])

Prune == SubSeq(seen, FirstFresh, Len(seen))

Known(u) == \E i \in DOMAIN Prune : Prune[i].uuid = u

Full == Len(Prune) >= MaxEntries

\* check_and_add, in the miner's handler (409 when it returns False).
CheckAndAdd ==
    /\ ~Idle
    /\ LET u == handler.uuid
           new == ~Known(u) /\ ~Full
       IN  /\ seen' = IF new THEN Append(Prune, [uuid |-> u, at |-> now]) ELSE Prune
           /\ handled' = IF new THEN [handled EXCEPT ![u] = @ \union {now}] ELSE handled
    /\ handler' = NoHandler
    /\ UNCHANGED <<now, stamp>>

\* A handler between its clock reads takes no longer than MaxGap.
Tick ==
    /\ now < MaxTime
    /\ Idle \/ now < handler.verified + MaxGap
    /\ now' = now + 1
    /\ UNCHANGED <<stamp, seen, handler, handled>>

Next ==
    \/ \E u \in Uuids, t \in 0..MaxTime : Sign(u, t)
    \/ \E u \in Uuids : Verify(u)
    \/ CheckAndAdd
    \/ Tick

Spec == Init /\ [][Next]_vars
-----------------------------------------------------------------------------
Times == 0..MaxTime

\* The cache holds at most max_entries distinct uuids in order of time, each
\* recorded when its request was let through.  (Only a monotonic clock keeps the
\* order that _prune relies on.)
TypeOK ==
    /\ now \in Times
    /\ DOMAIN stamp \subseteq Uuids /\ \A u \in DOMAIN stamp : stamp[u] \in Times
    /\ handler \in [uuid : DOMAIN stamp \union {"none"}, verified : Times]
    /\ handled \in [Uuids -> SUBSET Times]
    /\ Len(seen) <= MaxEntries
    /\ \A i \in DOMAIN seen :
         /\ seen[i].uuid \in Uuids
         /\ seen[i].at \in handled[seen[i].uuid]
    /\ \A i, j \in DOMAIN seen :
         i < j => seen[i].at <= seen[j].at /\ seen[i].uuid # seen[j].uuid

\* However often and however late a signed request is delivered, no copy of it is let
\* through within the window after the last one that was; and a second one is let
\* through at all only if the timestamp was ahead of the miner's clock (up to MaxGap) when
\* the first was.  Then the uuid leaves the cache before the signature lapses: the cache
\* covers the window after a request was recorded, the signature one that begins later.
\* A request let through MaxGap or more after its timestamp is handled once.
ReplayedOnlyAhead ==
    \A u \in Uuids : \A s, t \in handled[u] :
        s < t => s + Delta < t /\ s < stamp[u] + MaxGap

\* A request never let through before is refused only while MaxEntries others were
\* let through within the window: stale entries, which are pruned lazily, never
\* take up room, and the cache recovers from saturation by itself.
RefusedOnlyWhenSaturated ==
    [][CheckAndAdd /\ handled[handler.uuid] = {} /\ handled' = handled
         => Cardinality(Recent) >= MaxEntries]_vars

\* What the cache gives (verify_signature, check_and_add): a request whose timestamp is not
\* ahead is handled once, no other twice in a window, and a new one is not refused without need.
ReplaysRefused == []TypeOK /\ []ReplayedOnlyAhead /\ RefusedOnlyWhenSaturated
=============================================================================
