----------------------------- MODULE RateLimiter -----------------------------
(***************************************************************************)
(* The sliding-window limiter of app/ratelimit.py, which guards joining,   *)
(* creating sessions and signing in to the dashboard, each by client       *)
(* address.  (MessageBudget in app/routers/ws.py is the same algorithm for *)
(* one key, without a table.)                                              *)
(*                                                                         *)
(* A bucket is a deque of times; here it is the ages of its hits, one slot *)
(* for each hit it can hold, so that time needs no bound: an age stops     *)
(* growing once the hit is too old to count, and such a hit stays until    *)
(* somebody prunes the bucket.  Callers are handlers on the event loop,    *)
(* and a call awaits nothing.                                              *)
(***************************************************************************)
EXTENDS Integers, FiniteSets

CONSTANTS
    Keys,     \* scope and client address
    Slots,    \* as many as `limit`
    Window,   \* window_seconds, in ticks
    MaxKeys   \* max_keys

ASSUME RateAssumption ==
    /\ Slots # {}
    /\ Window \in Nat /\ MaxKeys \in Nat

VARIABLES
    hits,   \* RateLimiter._hits: the ages in each key's bucket
    table,  \* the keys that have a bucket at all
    answer  \* what the last call returned, until time passes

rateVars == <<hits, table, answer>>

TooOld == Window + 1
NoHit == TooOld + 1
Ages == 0..TooOld

EmptyBucket == [s \in Slots |-> NoHit]
Quiet == [key |-> {}, granted |-> FALSE]

\* _prune: a hit exactly as old as the window still counts.
PrunedBucketMutant(b) == [s \in Slots |-> IF b[s] >= Window THEN NoHit ELSE b[s]]
PrunedBucket(b) == [s \in Slots |-> IF b[s] > Window THEN NoHit ELSE b[s]]

FreeSlots(b) == {s \in Slots : b[s] = NoHit}

\* bucket.append(now)
WithHit(b) == [b EXCEPT ![CHOOSE s \in FreeSlots(b) : TRUE] = 0]

RateInit ==
    /\ hits = [k \in Keys |-> EmptyBucket]
    /\ table = {} /\ answer = Quiet

\* _evict_empty prunes every bucket and deletes those that are empty then.
EvictedMutant(h, t) == [h |-> h, t |-> {k \in t : h[k] # EmptyBucket}]
Evicted(h, t) ==
    LET pruned == [k \in Keys |-> IF k \in t THEN PrunedBucket(h[k]) ELSE h[k]]
    IN  [h |-> pruned, t |-> {k \in t : pruned[k] # EmptyBucket}]

\* Only a call that was granted looks at the size of the table.
Kept(h, t) == IF Cardinality(t) > MaxKeys THEN Evicted(h, t) ELSE [h |-> h, t |-> t]

\* allow, when there is room in the bucket.
Granted(k) ==
    LET bucket == PrunedBucket(hits[k])
        kept == Kept([hits EXCEPT ![k] = WithHit(bucket)], table \cup {k})
    IN
    /\ FreeSlots(bucket) # {}
    /\ hits' = kept.h /\ table' = kept.t
    /\ answer' = [key |-> {k}, granted |-> TRUE]

\* allow, when there is none: the bucket has been made and pruned all the same.
Refused(k) ==
    LET bucket == PrunedBucket(hits[k]) IN
    /\ FreeSlots(bucket) = {}
    /\ hits' = [hits EXCEPT ![k] = bucket]
    /\ table' = table \cup {k}
    /\ answer' = [key |-> {k}, granted |-> FALSE]

Older(age) == IF age < TooOld THEN age + 1 ELSE age
TimePasses ==
    /\ hits' = [k \in Keys |-> [s \in Slots |-> Older(hits[k][s])]]
    /\ answer' = Quiet
    /\ UNCHANGED table

RateNext == TimePasses \/ \E k \in Keys : Granted(k) \/ Refused(k)

RateSpec == RateInit /\ [][RateNext]_rateVars

-----------------------------------------------------------------------------
(* Properties.                                                             *)

RateTypeOK ==
    /\ hits \in [Keys -> [Slots -> Ages \cup {NoHit}]]
    /\ table \subseteq Keys
    /\ answer \in [key : SUBSET Keys, granted : BOOLEAN]
    /\ \A k \in Keys \ table : hits[k] = EmptyBucket

\* How long a slot is taken: a hit that is too old to count takes none,
\* whether it has been pruned or not.
Left(age) == IF age > Window THEN 0 ELSE Window + 1 - age
Out == [k \in Keys |-> [s \in Slots |-> Left(hits[k][s])]]

\* Pruning when a key is next looked at, and evicting buckets while others
\* are at their limit, are invisible: a call is refused exactly when `limit`
\* calls of that key were granted in the last window.
LimitPromise == INSTANCE Permits WITH out <- Out
LimitKept == LimitPromise!Spec

\* "Keep the dict from growing without bound": a grant leaves no more than
\* max_keys buckets, or only such as have a hit that counts.
Recent(k) == \E s \in Slots : hits[k][s] <= Window
TableBounded ==
    [][answer'.granted =>
          \/ Cardinality(table') <= MaxKeys
          \/ \A k \in table' : Recent(k)']_rateVars
=============================================================================
