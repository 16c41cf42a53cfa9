-------------------------- MODULE RateLimiterProofs --------------------------
(***************************************************************************)
(* Theorems about RateLimiter.tla, for any keys, limit, window and size of *)
(* the table.                                                              *)
(*                                                                         *)
(* The refinement rests on one observation: pruning a bucket, whenever it  *)
(* happens, changes nothing in how long each of its slots is still taken   *)
(* (PruningIsInvisible), and so does evicting buckets (KeepingIsInvisible).*)
(***************************************************************************)
EXTENDS RateLimiter, FiniteSetTheorems, TLAPS

Buckets == [Slots -> Ages \cup {NoHit}]

\* What the proofs need of a reachable state: the types, and a table of finite
\* size, so that its size is a number.
RateInv == RateTypeOK /\ IsFiniteSet(table)

\* Ages can be compared.
LEMMA AgesAreNumbers == Window \in Nat /\ NoHit \in Nat /\ Ages \subseteq Nat
BY RateAssumption DEF NoHit, TooOld, Ages

\* Pruning makes a bucket of a bucket (_prune).
LEMMA PrunedIsBucket ==
    ASSUME NEW b \in Buckets
    PROVE  PrunedBucket(b) \in Buckets
BY DEF Buckets, PrunedBucket

\* Pruning frees just the slots that were free already for all that counts.
LEMMA PruningIsInvisible ==
    ASSUME NEW b \in Buckets, NEW s \in Slots
    PROVE  /\ Left(PrunedBucket(b)[s]) = Left(b[s])
           /\ PrunedBucket(b)[s] = NoHit <=> Left(b[s]) = 0
           /\ Left(b[s]) \in Nat
BY RateAssumption DEF Buckets, PrunedBucket, Left, NoHit, TooOld, Ages

\* A hit takes a slot that is free (allow).
LEMMA PickedSlot ==
    ASSUME NEW b \in Buckets, FreeSlots(b) # {}
    PROVE  \E s \in Slots : b[s] = NoHit /\ WithHit(b) = [b EXCEPT ![s] = 0]
BY DEF FreeSlots, WithHit

\* A hit that was just counted takes its slot for the whole window.
LEMMA NewHitTakesASlot ==
    ASSUME NEW b \in Buckets, FreeSlots(b) # {}
    PROVE  /\ WithHit(b) \in Buckets
           /\ \E s \in Slots :
                /\ b[s] = NoHit
                /\ \A z \in Slots : Left(WithHit(b)[z]) = IF z = s THEN Window + 1 ELSE Left(b[z])
<1>1. PICK s \in Slots : b[s] = NoHit /\ WithHit(b) = [b EXCEPT ![s] = 0]
  BY PickedSlot
<1>2. WithHit(b) \in Buckets
  BY <1>1, AgesAreNumbers DEF Buckets, Ages, TooOld
<1>3. ASSUME NEW z \in Slots
      PROVE  Left(WithHit(b)[z]) = IF z = s THEN Window + 1 ELSE Left(b[z])
  <2>1. CASE z = s
    <3>1. WithHit(b)[z] = 0
      BY <1>1, <2>1 DEF Buckets
    <3> QED BY <2>1, <3>1, RateAssumption DEF Left
  <2>2. CASE z # s
    BY <1>1, <2>2 DEF Buckets
  <2> QED BY <2>1, <2>2
<1> QED BY <1>1, <1>2, <1>3

\* Eviction changes no key's permits (allow).
LEMMA EvictingIsInvisible ==
    ASSUME NEW h \in [Keys -> Buckets], NEW t \in SUBSET Keys, IsFiniteSet(t),
           \A k \in Keys \ t : h[k] = EmptyBucket
    PROVE  /\ Evicted(h, t).h \in [Keys -> Buckets]
           /\ Evicted(h, t).t \in SUBSET t /\ IsFiniteSet(Evicted(h, t).t)
           /\ \A k \in Keys, s \in Slots : Left(Evicted(h, t).h[k][s]) = Left(h[k][s])
           /\ \A k \in Keys \ Evicted(h, t).t : Evicted(h, t).h[k] = EmptyBucket
           /\ \A k \in Evicted(h, t).t : \E s \in Slots : Evicted(h, t).h[k][s] <= Window
<1> DEFINE pruned == [k \in Keys |-> IF k \in t THEN PrunedBucket(h[k]) ELSE h[k]]
<1> DEFINE some == {k \in t : pruned[k] # EmptyBucket}
<1>1. Evicted(h, t) = [h |-> pruned, t |-> some]
  BY DEF Evicted
<1>2. pruned \in [Keys -> Buckets]
  BY PrunedIsBucket
<1>3. some \in SUBSET t /\ IsFiniteSet(some)
  BY FS_Subset
<1>4. \A k \in Keys, s \in Slots : Left(pruned[k][s]) = Left(h[k][s])
  BY PruningIsInvisible
<1>5. \A k \in Keys \ some : pruned[k] = EmptyBucket
  OBVIOUS
<1>6. ASSUME NEW k \in some
      PROVE  \E s \in Slots : pruned[k][s] <= Window
  <2>1. k \in Keys /\ pruned[k] = PrunedBucket(h[k]) /\ pruned[k] # EmptyBucket
    BY <1>6
  <2>2. PICK s \in Slots : pruned[k][s] # NoHit
    BY <2>1 DEF PrunedBucket, EmptyBucket
  <2>3. pruned[k][s] = h[k][s] /\ ~(h[k][s] > Window)
    BY <2>1, <2>2 DEF PrunedBucket
  <2>4. h[k][s] \in Nat
    BY <2>1, AgesAreNumbers DEF Buckets
  <2> HIDE DEF pruned
  <2> QED BY <2>2, <2>3, <2>4, RateAssumption
<1> HIDE DEF pruned, some
<1> QED BY <1>1, <1>2, <1>3, <1>4, <1>5, <1>6

\* What a grant leaves, whether it evicts or not.
LEMMA KeepingIsInvisible ==
    ASSUME NEW h \in [Keys -> Buckets], NEW t \in SUBSET Keys, IsFiniteSet(t),
           \A k \in Keys \ t : h[k] = EmptyBucket
    PROVE  /\ Kept(h, t).h \in [Keys -> Buckets]
           /\ Kept(h, t).t \in SUBSET t /\ IsFiniteSet(Kept(h, t).t)
           /\ \A k \in Keys, s \in Slots : Left(Kept(h, t).h[k][s]) = Left(h[k][s])
           /\ \A k \in Keys \ Kept(h, t).t : Kept(h, t).h[k] = EmptyBucket
           /\ \/ Cardinality(Kept(h, t).t) <= MaxKeys
              \/ \A k \in Kept(h, t).t : \E s \in Slots : Kept(h, t).h[k][s] <= Window
<1>1. Cardinality(t) \in Nat
  BY FS_CardinalityType
<1>2. CASE Cardinality(t) > MaxKeys
  <2>1. Kept(h, t) = Evicted(h, t)
    BY <1>2 DEF Kept
  <2> QED BY <2>1, EvictingIsInvisible
<1>3. CASE ~(Cardinality(t) > MaxKeys)
  <2>1. Kept(h, t) = [h |-> h, t |-> t]
    BY <1>3 DEF Kept
  <2>2. Cardinality(t) <= MaxKeys
    BY <1>1, <1>3, RateAssumption
  <2> QED BY <2>1, <2>2
<1> QED BY <1>2, <1>3

\* The bucket and the table between the append and the eviction.
LEMMA Counting ==
    ASSUME RateInv, NEW k \in Keys, FreeSlots(PrunedBucket(hits[k])) # {}
    PROVE  LET h == [hits EXCEPT ![k] = WithHit(PrunedBucket(hits[k]))]
               t == table \cup {k}
           IN  /\ h \in [Keys -> Buckets] /\ t \in SUBSET Keys /\ IsFiniteSet(t)
               /\ \A j \in Keys \ t : h[j] = EmptyBucket
<1>1. hits \in [Keys -> Buckets]
  BY DEF RateInv, RateTypeOK, Buckets
<1>2. WithHit(PrunedBucket(hits[k])) \in Buckets
  BY <1>1, PrunedIsBucket, NewHitTakesASlot
<1>3. IsFiniteSet(table \cup {k})
  BY FS_AddElement DEF RateInv
<1> QED BY <1>1, <1>2, <1>3 DEF RateInv, RateTypeOK

\* Every variable keeps its type, the table stays finite, and a key without a
\* bucket has no hits (allow, _prune, _evict_empty).
THEOREM RateTypeCorrect == RateSpec => []RateInv
<1>1. RateInit => RateInv
  BY FS_EmptySet DEF RateInit, RateInv, RateTypeOK, EmptyBucket, Quiet
<1>2. RateInv /\ [RateNext]_rateVars => RateInv'
  <2> SUFFICES ASSUME RateInv, [RateNext]_rateVars PROVE RateInv'
    OBVIOUS
  <2>0. hits \in [Keys -> Buckets]
    BY DEF RateInv, RateTypeOK, Buckets
  <2>1. CASE TimePasses
    <3>1. \A age \in Ages \cup {NoHit} : Older(age) \in Ages \cup {NoHit}
      BY RateAssumption DEF Older, Ages, NoHit, TooOld
    <3>2. Older(NoHit) = NoHit
      BY RateAssumption DEF Older, NoHit, TooOld
    <3>3. hits' \in [Keys -> Buckets]
      BY <2>0, <2>1, <3>1 DEF TimePasses, Buckets
    <3>4. ASSUME NEW k \in Keys \ table PROVE hits'[k] = EmptyBucket
      BY <2>1, <3>2 DEF TimePasses, RateInv, RateTypeOK, EmptyBucket
    <3> QED BY <2>1, <3>3, <3>4 DEF TimePasses, RateInv, RateTypeOK, Quiet, Buckets
  <2>2. ASSUME NEW k \in Keys, Granted(k) PROVE RateInv'
    <3> DEFINE h == [hits EXCEPT ![k] = WithHit(PrunedBucket(hits[k]))]
    <3> DEFINE t == table \cup {k}
    <3>1. hits' = Kept(h, t).h /\ table' = Kept(h, t).t
      BY <2>2 DEF Granted
    <3>2. /\ h \in [Keys -> Buckets] /\ t \in SUBSET Keys /\ IsFiniteSet(t)
          /\ \A j \in Keys \ t : h[j] = EmptyBucket
      BY <2>2, Counting DEF Granted
    <3>3. answer' \in [key : SUBSET Keys, granted : BOOLEAN]
      BY <2>2 DEF Granted
    <3> HIDE DEF h, t
    <3>4. /\ hits' \in [Keys -> Buckets] /\ table' \in SUBSET Keys /\ IsFiniteSet(table')
          /\ \A j \in Keys \ table' : hits'[j] = EmptyBucket
      BY <3>1, <3>2, KeepingIsInvisible
    <3> QED BY <3>3, <3>4 DEF RateInv, RateTypeOK, Buckets
  <2>3. ASSUME NEW k \in Keys, Refused(k) PROVE RateInv'
    <3>1. hits' \in [Keys -> Buckets]
      BY <2>0, <2>3, PrunedIsBucket DEF Refused
    <3>2. IsFiniteSet(table')
      BY <2>3, FS_AddElement DEF Refused, RateInv
    <3> QED BY <2>3, <3>1, <3>2 DEF Refused, RateInv, RateTypeOK, Buckets
  <2>4. CASE UNCHANGED rateVars
    BY <2>4 DEF rateVars, RateInv, RateTypeOK
  <2> QED BY <2>1, <2>2, <2>3, <2>4 DEF RateNext
<1> QED BY <1>1, <1>2, PTL DEF RateSpec

\* The limiter keeps its promise: a key has `limit` permits, each grant takes
\* one for a window, and only a call that finds all of them taken is refused,
\* whenever buckets are pruned and evicted (allow, _prune, _evict_empty).
THEOREM LimitIsKept == RateSpec => LimitKept
<1>1. RateInit => LimitPromise!Init
  BY RateAssumption DEF RateInit, LimitPromise!Init, Out, Left, EmptyBucket, NoHit, TooOld,
                        Quiet, LimitPromise!Quiet
<1>2. RateInv /\ [RateNext]_rateVars => [LimitPromise!Next]_<<Out, answer>>
  <2> SUFFICES ASSUME RateInv, [RateNext]_rateVars
               PROVE  [LimitPromise!Next]_<<Out, answer>>
    OBVIOUS
  <2>0. hits \in [Keys -> Buckets]
    BY DEF RateInv, RateTypeOK, Buckets
  <2>1. CASE TimePasses
    <3>1. \A age \in Ages \cup {NoHit} :
              Left(Older(age)) = IF Left(age) > 0 THEN Left(age) - 1 ELSE 0
      BY RateAssumption DEF Older, Left, Ages, NoHit, TooOld
    <3>2. \A k \in Keys, s \in Slots : hits[k][s] \in Ages \cup {NoHit}
      BY <2>0 DEF Buckets
    <3>3. \A k \in Keys, s \in Slots :
              Left(hits'[k][s]) = IF Left(hits[k][s]) > 0 THEN Left(hits[k][s]) - 1 ELSE 0
      BY <2>1, <3>1, <3>2 DEF TimePasses
    <3>4. Out' = [k \in Keys |-> [s \in Slots |-> IF Out[k][s] > 0 THEN Out[k][s] - 1 ELSE 0]]
      BY <3>3, Zenon DEF Out
    <3>5. answer' = LimitPromise!Quiet
      BY <2>1 DEF TimePasses, Quiet, LimitPromise!Quiet
    <3>6. LimitPromise!Tick
      BY <3>4, <3>5 DEF LimitPromise!Tick
    <3> QED BY <3>6 DEF LimitPromise!Next
  <2>2. ASSUME NEW k \in Keys, Granted(k) PROVE LimitPromise!Grant(k)
    <3> DEFINE b == PrunedBucket(hits[k])
    <3> DEFINE h == [hits EXCEPT ![k] = WithHit(b)]
    <3> DEFINE t == table \cup {k}
    <3>1. FreeSlots(b) # {} /\ b \in Buckets
      BY <2>0, <2>2, PrunedIsBucket DEF Granted
    <3>2. PICK s \in Slots :
             /\ b[s] = NoHit
             /\ \A z \in Slots : Left(WithHit(b)[z]) = IF z = s THEN Window + 1 ELSE Left(b[z])
      BY <3>1, NewHitTakesASlot
    <3>3. \A z \in Slots : Left(b[z]) = Left(hits[k][z])
      BY <2>0, PruningIsInvisible
    <3>4. Left(hits[k][s]) = 0
      BY <2>0, <3>2, PruningIsInvisible
    <3>5. hits' = Kept(h, t).h
      BY <2>2 DEF Granted
    <3>6. /\ h \in [Keys -> Buckets] /\ t \in SUBSET Keys /\ IsFiniteSet(t)
          /\ \A j \in Keys \ t : h[j] = EmptyBucket
      BY <2>2, Counting DEF Granted
    <3>7. \A j \in Keys, z \in Slots : Left(hits'[j][z]) = Left(h[j][z])
      <4> HIDE DEF h, t
      <4> QED BY <3>5, <3>6, KeepingIsInvisible
    <3>8. \A j \in Keys, z \in Slots :
             Left(hits'[j][z]) = IF j = k /\ z = s THEN Window + 1 ELSE Left(hits[j][z])
      <4>1. \A j \in Keys : h[j] = IF j = k THEN WithHit(b) ELSE hits[j]
        BY <2>0
      <4> HIDE DEF b, h
      <4> QED BY <3>2, <3>3, <3>7, <4>1
    <3>9. Out' = [Out EXCEPT ![k][s] = Window + 1]
      BY <3>8 DEF Out
    <3>10. Out[k][s] = 0 /\ answer' = [key |-> {k}, granted |-> TRUE]
      BY <2>2, <3>4 DEF Out, Granted
    <3> QED BY <3>9, <3>10 DEF LimitPromise!Grant
  <2>3. ASSUME NEW k \in Keys, Refused(k) PROVE LimitPromise!Refuse(k)
    <3>1. \A z \in Slots : PrunedBucket(hits[k])[z] # NoHit
      BY <2>3 DEF Refused, FreeSlots
    <3>2. \A z \in Slots : Left(hits[k][z]) > 0
      BY <2>0, <3>1, PruningIsInvisible
    <3>3. \A j \in Keys, z \in Slots : Left(hits'[j][z]) = Left(hits[j][z])
      BY <2>0, <2>3, PruningIsInvisible DEF Refused
    <3>4. Out' = Out
      BY <3>3 DEF Out
    <3> QED BY <2>3, <3>2, <3>4 DEF LimitPromise!Refuse, Refused, Out
  <2>4. CASE UNCHANGED rateVars
    BY <2>4 DEF rateVars, Out
  <2> QED BY <2>1, <2>2, <2>3, <2>4 DEF RateNext, LimitPromise!Next
<1> QED BY <1>1, <1>2, RateTypeCorrect, PTL DEF RateSpec, LimitKept, LimitPromise!Spec

\* A call that is granted leaves the table within max_keys, unless every
\* bucket in it still has a hit that counts (allow, _evict_empty).
THEOREM TableIsBounded == RateSpec => TableBounded
<1>1. RateInv /\ [RateNext]_rateVars =>
        [answer'.granted =>
            \/ Cardinality(table') <= MaxKeys
            \/ \A k \in table' : Recent(k)']_rateVars
  <2> SUFFICES ASSUME RateInv, RateNext, answer'.granted
               PROVE  \/ Cardinality(table') <= MaxKeys
                      \/ \A k \in table' : Recent(k)'
    OBVIOUS
  <2>1. ~TimePasses /\ ~\E k \in Keys : Refused(k)
    BY DEF TimePasses, Quiet, Refused
  <2>2. PICK k \in Keys : Granted(k)
    BY <2>1 DEF RateNext
  <2> DEFINE h == [hits EXCEPT ![k] = WithHit(PrunedBucket(hits[k]))]
  <2> DEFINE t == table \cup {k}
  <2>3. hits' = Kept(h, t).h /\ table' = Kept(h, t).t
    BY <2>2 DEF Granted
  <2>4. /\ h \in [Keys -> Buckets] /\ t \in SUBSET Keys /\ IsFiniteSet(t)
        /\ \A j \in Keys \ t : h[j] = EmptyBucket
    BY <2>2, Counting DEF Granted
  <2> HIDE DEF h, t
  <2> QED BY <2>3, <2>4, KeepingIsInvisible DEF Recent
<1> QED BY <1>1, RateTypeCorrect, PTL DEF RateSpec, TableBounded
=============================================================================
