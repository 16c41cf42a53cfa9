----------------------------- MODULE FeedProofs -----------------------------
(***************************************************************************)
(* Theorems about Feed.tla, for any writers, viewers, size of the feed and *)
(* number of items.                                                        *)
(***************************************************************************)
EXTENDS Feed, FiniteSetTheorems, WellFoundedInduction, TLAPS

-----------------------------------------------------------------------------
(***************************************************************************)
(* What the cutoff leaves.                                                 *)
(***************************************************************************)

\* Of finitely many items one is the oldest: the one that no item has more
\* newer ones than (_trim's order).
LEMMA OldestExists ==
    ASSUME NEW X \in SUBSET Nat, IsFiniteSet(X), X # {}
    PROVE  \E m \in X : \A x \in X : m <= x
<1> DEFINE T == {{y \in X : y < x} : x \in X}
<1>1. T \subseteq FiniteSubsetsOf(X) /\ T # {}
  <2>1. \A x \in X : {y \in X : y < x} \in SUBSET X
    OBVIOUS
  <2>2. \A x \in X : IsFiniteSet({y \in X : y < x})
    BY <2>1, FS_Subset
  <2> QED
    BY <2>1, <2>2 DEF FiniteSubsetsOf
<1>2. PICK S \in T : \A R \in T : <<R, S>> \notin StrictSubsetOrdering(X)
  <2> HIDE DEF T
  <2> QED
    BY <1>1, FS_StrictSubsetOrderingWellFounded, WFMin
<1>3. PICK m \in X : S = {y \in X : y < m}
  OBVIOUS
<1>4. ASSUME NEW x \in X, ~(m <= x) PROVE FALSE
  <2> DEFINE R == {y \in X : y < x}
  <2>0. x \in Nat /\ m \in Nat /\ \A y \in X : y \in Nat
    OBVIOUS
  <2>1. R \subseteq S /\ x \in S /\ x \notin R
    <3>1. x < m /\ ~(x < x)
      BY <1>4, <2>0
    <3>2. \A y \in X : y < x => y < m
      BY <2>0, <3>1
    <3> QED
      BY <1>3, <3>1, <3>2
  <2>2. R \in SUBSET X /\ S \in SUBSET X
    BY <1>3
  <2>3. <<R, S>> \in StrictSubsetOrdering(X)
    BY <2>1, <2>2 DEF StrictSubsetOrdering
  <2> QED
    BY <1>2, <2>3
<1> QED
  BY <1>4

\* What the cutoff leaves is no more than is to be kept (_trim).
LEMMA NewestAreFew ==
    ASSUME NEW X \in SUBSET Nat, IsFiniteSet(X)
    PROVE  Cardinality(Newest(X)) <= Keep
<1> DEFINE N == Newest(X)
<1>1. N \in SUBSET X /\ IsFiniteSet(N) /\ Cardinality(N) \in Nat
  BY FS_Subset, FS_CardinalityType DEF Newest
<1>2. CASE N = {}
  BY <1>2, FS_EmptySet, FeedAssumption
<1>3. CASE N # {}
  <2>1. PICK m \in N : \A x \in N : m <= x
    <3> HIDE DEF N
    <3> QED
      BY <1>1, <1>3, OldestExists
  <2>2. N \ {m} \in SUBSET Newer(X, m)
    <3>1. N \subseteq X /\ m \in Nat /\ \A x \in X : x \in Nat
      BY <1>1
    <3>2. \A x \in N \ {m} : x \in X /\ x > m
      BY <2>1, <3>1
    <3> QED
      BY <3>2 DEF Newer
  <2>3. Newer(X, m) \in SUBSET X
    BY DEF Newer
  <2>4. IsFiniteSet(Newer(X, m)) /\ Cardinality(Newer(X, m)) \in Nat
    BY <2>3, FS_Subset, FS_CardinalityType
  <2>5. Cardinality(N \ {m}) <= Cardinality(Newer(X, m))
    BY <2>2, <2>4, FS_Subset
  <2>6. Cardinality(N \ {m}) = Cardinality(N) - 1
    BY <1>1, <2>1, FS_RemoveElement
  <2>7. ~(Cardinality(Newer(X, m)) >= Keep)
    BY <2>1 DEF Newest, Beyond
  <2> QED
    BY <1>1, <2>4, <2>5, <2>6, <2>7, FeedAssumption
<1> QED
  BY <1>2, <1>3

\* When there are few enough rows there is nothing to cut, and the history of
\* either kind is all of them (_trim's early return, chat_history, board_strokes).
LEMMA FewAreAll ==
    ASSUME NEW X \in SUBSET Nat, IsFiniteSet(X), Cardinality(X) <= Keep
    PROVE  Beyond(X) = {} /\ Newest(X) = X /\ Oldest(X) = X
<1>1. ASSUME NEW r \in X, NEW Y \in SUBSET (X \ {r})
      PROVE  Cardinality(Y) < Keep
  <2>1. IsFiniteSet(X \ {r}) /\ Cardinality(X \ {r}) = Cardinality(X) - 1
    BY FS_RemoveElement
  <2>2. Cardinality(Y) <= Cardinality(X \ {r}) /\ Cardinality(Y) \in Nat
    BY <1>1, <2>1, FS_Subset, FS_CardinalityType
  <2> QED
    BY <2>1, <2>2, FS_CardinalityType, FeedAssumption
<1>2. \A r \in X : Newer(X, r) \in SUBSET (X \ {r}) /\ {s \in X : s < r} \in SUBSET (X \ {r})
  BY DEF Newer
<1>3. \A r \in X : /\ Cardinality(Newer(X, r)) < Keep
                   /\ Cardinality({s \in X : s < r}) < Keep
  BY <1>1, <1>2
<1>4. Beyond(X) = {}
  <2> SUFFICES ASSUME NEW r \in X, Cardinality(Newer(X, r)) >= Keep PROVE FALSE
    BY DEF Beyond
  <2>1. Cardinality(Newer(X, r)) \in Nat
    BY FS_Subset, FS_CardinalityType DEF Newer
  <2>2. Cardinality(Newer(X, r)) < Keep
    BY <1>3
  <2> QED
    BY <2>1, <2>2, FeedAssumption
<1> QED
  BY <1>3, <1>4 DEF Newest, Oldest

-----------------------------------------------------------------------------
(***************************************************************************)
(* Types, and what a frame in flight has.                                  *)
(***************************************************************************)

\* A frame that inserts has an id of its own until it is idle again, one that
\* clears has none; an id is not given out twice, and not sent before it is
\* committed (record_chat, clear_board, _chat, _board).
Ordered(w) ==
    /\ writer[w].id <= last
    /\ writer[w].step \in {"drawn", "inserted", "flushed", "over", "ready"} => writer[w].id # 0
    /\ writer[w].step = "cleared" => writer[w].id = 0
    /\ writer[w].id # 0 /\ writer[w].step # "committed" => writer[w].id \notin sent
IdsOrdered ==
    /\ sent \subseteq 1..last
    /\ \A w \in Senders : Ordered(w)
    /\ \A w, o \in Senders : w # o /\ writer[w].id # 0 => writer[w].id # writer[o].id

Typed == FeedTypeOK /\ IdsOrdered

Frames == [step : {"idle", "drawn", "inserted", "flushed", "over", "ready", "cleared",
                   "committed"},
           id : 0..MaxId, doomed : SUBSET Ids]
Inserting == {"drawn", "inserted", "flushed", "over", "ready"}

\* A frame that moves on with the id it has, or gives it up, keeps the order.
LEMMA FrameMovesOn ==
    ASSUME Typed, NEW w \in Senders, NEW f \in Frames,
           writer' = [writer EXCEPT ![w] = f], UNCHANGED <<last, sent>>,
           f.id \in {0, writer[w].id},
           f.step \in Inserting => f.id # 0,
           f.step = "cleared" => f.id = 0,
           f.step # "committed" /\ f.id # 0 => writer[w].step # "committed"
    PROVE  writer' \in [Senders -> Frames] /\ IdsOrdered'
<1>1. /\ writer \in [Senders -> Frames] /\ last \in 0..MaxId
      /\ sent \subseteq 1..last /\ \A o \in Senders : Ordered(o)
      /\ \A p, o \in Senders : p # o /\ writer[p].id # 0 => writer[p].id # writer[o].id
  BY DEF Typed, FeedTypeOK, Frames, IdsOrdered
<1>2. writer' \in [Senders -> Frames] /\ writer'[w] = f
      /\ \A o \in Senders : o # w => writer'[o] = writer[o]
  BY <1>1
<1>3. \A o \in Senders : Ordered(o)'
  <2>1. ASSUME NEW o \in Senders, o # w PROVE Ordered(o)'
    BY <1>1, <1>2, <2>1 DEF Ordered
  <2>2. Ordered(w)'
    BY <1>1, <1>2 DEF Ordered, Inserting, Frames
  <2> QED
    BY <2>1, <2>2
<1>4. \A p, o \in Senders : p # o /\ writer'[p].id # 0 => writer'[p].id # writer'[o].id
  BY <1>1, <1>2
<1> QED
  BY <1>1, <1>2, <1>3, <1>4 DEF IdsOrdered

\* Every variable keeps its type, and ids are given out once.
THEOREM TypeCorrect == FeedSpec => []Typed
<1> USE FeedAssumption
<1>1. FeedInit => Typed
  BY DEF FeedInit, Typed, FeedTypeOK, IdsOrdered, Ordered, Idle, At
<1>2. Typed /\ [FeedNext]_feedVars => Typed'
  <2> SUFFICES ASSUME Typed, [FeedNext]_feedVars PROVE Typed'
    OBVIOUS
  <2>0. /\ writer \in [Senders -> Frames] /\ last \in 0..MaxId
        /\ rows \subseteq Ids /\ sent \subseteq Ids
        /\ viewer \in [Viewers -> {"out", "arrived", "reading", "live"}]
        /\ got \in [Viewers -> SUBSET Ids]
        /\ kind \in {"chat", "board"}
        /\ IdsOrdered /\ \A w \in Senders : Ordered(w) /\ writer[w] \in Frames
    BY DEF Typed, FeedTypeOK, Frames, IdsOrdered
  <2>a. ASSUME UNCHANGED <<kind, last, rows, people, sent>>,
               writer' \in [Senders -> Frames], IdsOrdered'
        PROVE  Typed'
    BY <2>0, <2>a DEF Typed, FeedTypeOK, Frames, people
  <2>1. ASSUME NEW w \in Senders, Inserts(w) \/ UpdatesFirst(w) PROVE Typed'
    <3> DEFINE f(step) == [step |-> step, id |-> last + 1, doomed |-> {}]
    <3>0. PICK step \in {"drawn", "flushed"} : writer' = [writer EXCEPT ![w] = f(step)]
      BY <2>1 DEF Inserts, UpdatesFirst, At
    <3>1. f(step) \in Frames /\ last' = last + 1 /\ last' \in 0..MaxId /\ last + 1 \notin sent
      BY <2>0, <2>1 DEF Inserts, UpdatesFirst, Frames, IdsOrdered
    <3>3. writer' \in [Senders -> Frames] /\ writer'[w] = f(step)
          /\ \A o \in Senders : o # w => writer'[o] = writer[o]
      BY <2>0, <3>0, <3>1
    <3>4. UNCHANGED <<kind, rows, people, sent>>
      BY <2>1 DEF Inserts, UpdatesFirst
    <3>5. \A o \in Senders : Ordered(o)'
      BY <2>0, <3>1, <3>3, <3>4 DEF Ordered, Frames
    <3>6. \A p, o \in Senders : p # o /\ writer'[p].id # 0 => writer'[p].id # writer'[o].id
      BY <2>0, <3>1, <3>3 DEF IdsOrdered, Ordered, Frames
    <3>7. IdsOrdered'
      BY <2>0, <3>1, <3>4, <3>5, <3>6 DEF IdsOrdered
    <3> QED
      BY <2>0, <3>1, <3>3, <3>4, <3>7 DEF Typed, FeedTypeOK, Frames, people
  <2>1s. ASSUME NEW w \in Senders, Shares(w) PROVE Typed'
    <3> DEFINE f == [writer[w] EXCEPT !.step = "inserted"]
    <3>1. f \in Frames /\ f.id = writer[w].id /\ f.id # 0 /\ f.step = "inserted"
      BY <2>0, <2>1s DEF Shares, Frames, Ordered
    <3> QED
      BY <2>1s, <2>a, <3>1, FrameMovesOn DEF Shares
  <2>2. ASSUME NEW w \in Senders, Flush(w) PROVE Typed'
    <3> DEFINE f == [writer[w] EXCEPT !.step = "flushed"]
    <3>1. f \in Frames /\ f.id = writer[w].id /\ f.id # 0 /\ f.step = "flushed"
      BY <2>0, <2>2 DEF Flush, Frames, Ordered
    <3> QED
      BY <2>2, <2>a, <3>1, FrameMovesOn DEF Flush
  <2>3. ASSUME NEW w \in Senders, Counts(w) PROVE Typed'
    <3> DEFINE f == [writer[w] EXCEPT !.step =
                        IF Few(Cardinality(rows \cup {writer[w].id})) THEN "ready" ELSE "over"]
    <3>1. f \in Frames /\ f.id = writer[w].id /\ f.id # 0 /\ f.step \in {"ready", "over"}
      BY <2>0, <2>3 DEF Counts, Frames, Ordered
    <3> QED
      BY <2>3, <2>a, <3>1, FrameMovesOn DEF Counts
  <2>4. ASSUME NEW w \in Senders, Cuts(w) PROVE Typed'
    <3> DEFINE items == rows \cup {writer[w].id}
               f == [writer[w] EXCEPT !.step = "ready", !.doomed = Beyond(items)]
    <3>1. writer[w].id # 0 /\ Beyond(items) \in SUBSET Ids
      BY <2>0, <2>4 DEF Cuts, Frames, Ordered, Beyond, Ids
    <3>2. f \in Frames /\ f.id = writer[w].id /\ f.step = "ready"
      BY <2>0, <2>4, <3>1 DEF Cuts, Frames
    <3> QED
      BY <2>4, <2>a, <3>1, <3>2, FrameMovesOn DEF Cuts
  <2>5. ASSUME NEW w \in Senders, NEW gone \in SUBSET rows, Clear(w, gone) PROVE Typed'
    <3> DEFINE f == [step |-> "cleared", id |-> 0, doomed |-> gone]
    <3>1. f \in Frames
      BY <2>0 DEF Frames
    <3>2. writer' = [writer EXCEPT ![w] = f] /\ UNCHANGED <<kind, last, rows, people, sent>>
      BY <2>5 DEF Clear, At
    <3> QED
      BY <2>a, <3>1, <3>2, FrameMovesOn DEF Inserting
  <2>6. ASSUME NEW w \in Senders, Commit(w) PROVE Typed'
    <3> DEFINE f == [writer[w] EXCEPT !.step = "committed", !.doomed = {}]
    <3>1. f \in Frames /\ f.id = writer[w].id /\ f.step = "committed"
      BY <2>0 DEF Frames
    <3>2. writer' \in [Senders -> Frames] /\ IdsOrdered'
      BY <2>6, <3>1, FrameMovesOn DEF Commit, Inserting
    <3>3. rows' \subseteq Ids
      BY <2>0, <2>6 DEF Commit, Written, Frames, Ids
    <3> QED
      BY <2>0, <2>6, <3>2, <3>3 DEF Commit, Typed, FeedTypeOK, Frames, people
  <2>7. ASSUME NEW w \in Senders, RollsBack(w) PROVE Typed'
    <3>1. Idle \in Frames /\ Idle.id = 0 /\ Idle.step = "idle"
      BY FeedAssumption DEF Idle, At, Frames
    <3> QED
      BY <2>7, <2>a, <3>1, FrameMovesOn DEF RollsBack, Inserting
  <2>8. ASSUME NEW w \in Senders, Broadcast(w) PROVE Typed'
    <3>1. /\ Idle \in Frames /\ writer' = [writer EXCEPT ![w] = Idle]
          /\ sent' = sent \cup Written(w)
      BY <2>8 DEF Broadcast, Idle, At, Frames
    <3>2. writer' \in [Senders -> Frames] /\ writer'[w] = Idle
          /\ \A o \in Senders : o # w => writer'[o] = writer[o]
      BY <2>0, <3>1
    <3>3. Written(w) \subseteq 1..last /\ Written(w) \subseteq Ids
      BY <2>0 DEF Written, Ordered, Frames, Ids
    <3>4. \A o \in Senders : o # w => writer[o].id \notin Written(w)
      BY <2>0 DEF Written, IdsOrdered
    <3>5. UNCHANGED <<kind, last, rows, viewer>>
      BY <2>8 DEF Broadcast
    <3>6. \A o \in Senders : Ordered(o)'
      <4>1. ASSUME NEW o \in Senders, o # w PROVE Ordered(o)'
        BY <2>0, <3>1, <3>2, <3>4, <3>5, <4>1 DEF Ordered
      <4>2. Ordered(w)'
        BY <2>0, <3>2, <3>5 DEF Ordered, Idle, At
      <4> QED
        BY <4>1, <4>2
    <3>7. IdsOrdered'
      BY <2>0, <3>1, <3>2, <3>3, <3>5, <3>6 DEF IdsOrdered, Idle, At
    <3>8. got' \in [Viewers -> SUBSET Ids]
      BY <2>0, <2>8, <3>3 DEF Broadcast
    <3> QED
      BY <2>0, <3>1, <3>2, <3>3, <3>5, <3>7, <3>8 DEF Typed, FeedTypeOK, Frames
  <2>9. ASSUME NEW v \in Viewers, View(v) PROVE Typed'
    <3>1. History \in SUBSET Ids
      BY <2>0 DEF History, Newest, Beyond, Oldest
    <3>2. /\ viewer' \in [Viewers -> {"out", "arrived", "reading", "live"}]
          /\ got' \in [Viewers -> SUBSET Ids]
          /\ UNCHANGED <<kind, last, rows, writer, sent>>
      BY <2>0, <2>9, <3>1 DEF View, Arrive, Arrived, ReadsHistory, Greet, Leave
    <3> QED
      BY <2>0, <3>2 DEF Typed, FeedTypeOK, IdsOrdered, Ordered
  <2>10. CASE UNCHANGED feedVars
    BY <2>10 DEF feedVars, people, Typed, FeedTypeOK, IdsOrdered, Ordered
  <2> QED
    BY <2>1, <2>1s, <2>2, <2>3, <2>4, <2>5, <2>6, <2>7, <2>8, <2>9, <2>10
       DEF FeedNext, Frame
<1> QED
  BY <1>1, <1>2, PTL DEF FeedSpec

\* Every variable has its type.
COROLLARY FeedTypeCorrect == FeedSpec => []FeedTypeOK
<1>1. Typed => FeedTypeOK
  BY DEF Typed
<1> QED
  BY <1>1, TypeCorrect, PTL

-----------------------------------------------------------------------------
(***************************************************************************)
(* What a trim leaves.                                                     *)
(*                                                                         *)
(* The rows cannot change between a writer's count and its commit, because *)
(* it holds the session's row and every commit needs that.  So a cutoff,   *)
(* or the finding that none is needed, is exact when it is carried out.    *)
(***************************************************************************)

OneHolder == \A w, o \in Senders : Holding(w) /\ (Holding(o) \/ Sharing(o)) => w = o
DoomedIsBeyond ==
    \A w \in Senders : writer[w].step = "ready" =>
        writer[w].doomed = Beyond(rows \cup {writer[w].id})
NothingDoomedYet ==
    \A w \in Senders : writer[w].step \notin {"ready", "cleared"} => writer[w].doomed = {}
OnlyBoardClears == \A w \in Senders : writer[w].step = "cleared" => kind = "board"

Serial == OneHolder /\ DoomedIsBeyond /\ NothingDoomedYet /\ OnlyBoardClears /\ RowsBounded

\* A ready writer's commit leaves the newest, and they are few (_trim).
LEMMA CommitLeavesNewest ==
    ASSUME Typed, Serial, NEW w \in Senders, Commit(w)
    PROVE  /\ writer[w].step = "ready" => rows' = Newest(rows \cup Written(w))
           /\ RowsBounded'
<1>0. /\ rows \subseteq Ids /\ Ids \subseteq Nat /\ IsFiniteSet(Ids) /\ writer[w].id \in 0..MaxId
  <2>1. 1 \in Int /\ MaxId \in Int /\ Ids \subseteq Nat
    BY FeedAssumption DEF Ids
  <2>2. IsFiniteSet(Ids)
    BY <2>1, FS_Interval DEF Ids
  <2> QED
    BY <2>1, <2>2 DEF Typed, FeedTypeOK
<1>1. CASE writer[w].step = "ready"
  <2>1. Written(w) = {writer[w].id} /\ writer[w].id \in Ids
    BY <1>0, <1>1 DEF Typed, IdsOrdered, Ordered, Written, Ids
  <2>2. rows' = Newest(rows \cup Written(w))
    BY <1>1, <2>1 DEF Commit, Serial, DoomedIsBeyond, Newest
  <2>3. rows \cup Written(w) \in SUBSET Nat /\ IsFiniteSet(rows \cup Written(w))
    BY <1>0, <2>1, FS_Subset
  <2>4. Cardinality(Newest(rows \cup Written(w))) <= Keep
    BY <2>3, NewestAreFew
  <2> QED
    BY <2>2, <2>4 DEF RowsBounded
<1>2. CASE writer[w].step = "cleared"
  <2>1. rows' \in SUBSET rows
    BY <1>2 DEF Commit, Written, Typed, IdsOrdered, Ordered
  <2>2. IsFiniteSet(rows) /\ Cardinality(rows) \in Nat
    BY <1>0, FS_Subset, FS_CardinalityType
  <2>3. Cardinality(rows') <= Cardinality(rows) /\ Cardinality(rows') \in Nat
    BY <2>1, <2>2, FS_Subset, FS_CardinalityType
  <2> QED
    BY <1>2, <2>2, <2>3, FeedAssumption DEF Serial, RowsBounded
<1> QED
  BY <1>1, <1>2 DEF Commit

\* One writer at a time trims, by what is then still true (touch, _trim).
THEOREM TrimsAreSerial == FeedSpec => []Serial
<1>1. FeedInit => Serial
  <2> SUFFICES ASSUME FeedInit PROVE Serial
    OBVIOUS
  <2>1. RowsBounded
    BY FS_EmptySet, FeedAssumption DEF FeedInit, RowsBounded
  <2>2. \A w \in Senders : writer[w].step = "idle" /\ writer[w].doomed = {}
    BY DEF FeedInit, Idle, At
  <2> QED
    BY <2>1, <2>2 DEF Serial, OneHolder, DoomedIsBeyond, NothingDoomedYet, OnlyBoardClears,
           Holding, Sharing
<1>2. Typed /\ Serial /\ [FeedNext]_feedVars => Serial'
  <2> SUFFICES ASSUME Typed, Serial, [FeedNext]_feedVars PROVE Serial'
    OBVIOUS
  <2>0. writer \in [Senders -> Frames]
    BY DEF Typed, FeedTypeOK, Frames
  <2> USE DEF Serial, OneHolder, DoomedIsBeyond, NothingDoomedYet, OnlyBoardClears,
           Holding, Sharing
  <2>1. ASSUME NEW w \in Senders, Inserts(w) \/ UpdatesFirst(w) PROVE Serial'
    BY <2>0, <2>1 DEF Inserts, UpdatesFirst, Turn, Shareable, At, Frames, RowsBounded
  <2>1s. ASSUME NEW w \in Senders, Shares(w) PROVE Serial'
    BY <2>0, <2>1s DEF Shares, Shareable, Frames, RowsBounded
  <2>2. ASSUME NEW w \in Senders, Flush(w) PROVE Serial'
    BY <2>0, <2>2 DEF Flush, Turn, Shareable, Frames, RowsBounded
  <2>3. ASSUME NEW w \in Senders, Counts(w) PROVE Serial'
    <3> DEFINE items == rows \cup {writer[w].id}
    <3>1. items \in SUBSET Nat /\ IsFiniteSet(items)
      <4>1. items \in SUBSET (0..MaxId)
        <5>1. writer[w].id \in 0..MaxId
          BY <2>0 DEF Frames
        <5>2. rows \subseteq 1..MaxId
          BY DEF Typed, FeedTypeOK, Ids
        <5>3. 1..MaxId \subseteq 0..MaxId
          BY FeedAssumption
        <5> QED
          BY <5>1, <5>2, <5>3
      <4>2. IsFiniteSet(0..MaxId) /\ 0..MaxId \subseteq Nat
        BY FS_Interval, FeedAssumption
      <4> HIDE DEF items
      <4>3. IsFiniteSet(items)
        BY <4>1, <4>2, FS_Subset
      <4>4. items \in SUBSET Nat
        BY <4>1, <4>2
      <4> QED
        BY <4>3, <4>4
    <3>2. Few(Cardinality(items)) => Beyond(items) = {}
      BY <3>1, FewAreAll DEF Few
    <3> QED
      BY <2>0, <2>3, <3>2 DEF Counts, Frames, RowsBounded
  <2>4. ASSUME NEW w \in Senders, Cuts(w) PROVE Serial'
    BY <2>0, <2>4 DEF Cuts, Frames, RowsBounded
  <2>5. ASSUME NEW w \in Senders, NEW gone \in SUBSET rows, Clear(w, gone) PROVE Serial'
    BY <2>0, <2>5 DEF Clear, At, Frames, RowsBounded
  <2>6. ASSUME NEW w \in Senders, Commit(w) PROVE Serial'
    <3>1. RowsBounded'
      BY <2>6, CommitLeavesNewest
    <3>2. \A o \in Senders \ {w} : ~Holding(o) /\ writer'[o] = writer[o]
      BY <2>0, <2>6 DEF Commit, Turn, Shareable
    <3>3. writer'[w].step = "committed" /\ writer'[w].doomed = {} /\ UNCHANGED kind
      BY <2>0, <2>6 DEF Commit, Frames
    <3> QED
      BY <3>1, <3>2, <3>3
  <2>7. ASSUME NEW w \in Senders, RollsBack(w) \/ Broadcast(w) PROVE Serial'
    <3>1. writer' = [writer EXCEPT ![w] = Idle] /\ UNCHANGED <<kind, rows>>
      BY <2>7 DEF RollsBack, Broadcast
    <3> QED
      BY <2>0, <3>1 DEF Idle, At, RowsBounded
  <2>8. ASSUME NEW v \in Viewers, View(v) PROVE Serial'
    BY <2>8 DEF View, Arrive, ReadsHistory, Greet, Leave, RowsBounded
  <2>9. CASE UNCHANGED feedVars
    BY <2>9 DEF feedVars, RowsBounded
  <2> QED
    BY <2>1, <2>1s, <2>2, <2>3, <2>4, <2>5, <2>6, <2>7, <2>8, <2>9 DEF FeedNext, Frame
<1> QED
  BY <1>1, <1>2, TypeCorrect, PTL DEF FeedSpec

\* The feed never holds more than is to be kept, however many write at once.
THEOREM Bounded == FeedSpec => []RowsBounded
<1>1. Serial => RowsBounded
  BY DEF Serial
<1> QED
  BY <1>1, TrimsAreSerial, PTL

\* What a writer commits is the newest of the committed items and its own.
THEOREM Exact == FeedSpec => TrimIsExact
<1>1. Typed /\ Serial /\ [FeedNext]_feedVars =>
        [\A w \in Senders :
           writer[w].step = "ready" /\ writer'[w].step = "committed" =>
               rows' = Newest(rows \cup Written(w))]_feedVars
  <2> SUFFICES ASSUME Typed, Serial, FeedNext, NEW w \in Senders,
                      writer[w].step = "ready", writer'[w].step = "committed"
               PROVE  rows' = Newest(rows \cup Written(w))
    OBVIOUS
  <2>0. writer \in [Senders -> Frames]
    BY DEF Typed, FeedTypeOK, Frames
  <2>1. ASSUME NEW o \in Senders, Frame(o) PROVE Commit(w)
    <3>1. o = w
      BY <2>0, <2>1 DEF Frame, Inserts, Shares, UpdatesFirst, Flush, Counts, Cuts, Clear, Commit, RollsBack, Broadcast
    <3> QED
      BY <2>0, <2>1, <3>1 DEF Frame, Inserts, Shares, UpdatesFirst, Flush, Counts, Cuts, Clear, Commit, RollsBack,
                              Broadcast, Idle, At
  <2>2. ASSUME NEW v \in Viewers, View(v) PROVE FALSE
    BY <2>2 DEF View, Arrive, ReadsHistory, Greet, Leave
  <2> QED
    BY <2>1, <2>2, CommitLeavesNewest DEF FeedNext
<1> QED
  BY <1>1, TrimsAreSerial, TypeCorrect, PTL DEF FeedSpec, TrimIsExact

-----------------------------------------------------------------------------
(***************************************************************************)
(* Nothing falls between the history and the broadcasts.                   *)
(*                                                                         *)
(* The history is every row, because there are never more than it holds;   *)
(* what is broadcast after it was read reaches the viewer too, and nothing *)
(* is broadcast before it is a row.                                        *)
(***************************************************************************)

\* Whoever's history has been read has it (chat_history, board_strokes).
CaughtUp == \A v \in Viewers : viewer[v] \in {"reading", "live"} => rows \cap sent \subseteq got[v]

\* The history that is read is all there is.
LEMMA HistoryIsAll ==
    ASSUME Typed, RowsBounded
    PROVE  History = rows
<1>1. Ids \subseteq Nat /\ IsFiniteSet(Ids)
  <2>1. 1 \in Int /\ MaxId \in Int /\ Ids \subseteq Nat
    BY FeedAssumption DEF Ids
  <2> QED
    BY <2>1, FS_Interval DEF Ids
<1>2. rows \in SUBSET Nat /\ IsFiniteSet(rows)
  BY <1>1, FS_Subset DEF Typed, FeedTypeOK
<1> QED
  BY <1>2, FewAreAll DEF RowsBounded, History

\* Nobody who was greeted misses an item that was sent and is still there.
THEOREM Complete == FeedSpec => []NothingMissed
<1>1. FeedInit => CaughtUp
  BY DEF FeedInit, CaughtUp
<1>2. Typed /\ Serial /\ CaughtUp /\ [FeedNext]_feedVars => CaughtUp'
  <2> SUFFICES ASSUME Typed, Serial, CaughtUp, [FeedNext]_feedVars PROVE CaughtUp'
    OBVIOUS
  <2>0. /\ viewer \in [Viewers -> {"out", "arrived", "reading", "live"}]
        /\ got \in [Viewers -> SUBSET Ids]
    BY DEF Typed, FeedTypeOK
  <2>1. ASSUME NEW w \in Senders,
               \/ Inserts(w) \/ Shares(w) \/ UpdatesFirst(w) \/ Flush(w) \/ Counts(w)
               \/ Cuts(w) \/ RollsBack(w)
               \/ \E gone \in SUBSET rows : Clear(w, gone)
        PROVE  CaughtUp'
    <3>1. UNCHANGED <<rows, sent, viewer, got>>
      BY <2>1 DEF Inserts, Shares, UpdatesFirst, Flush, Counts, Cuts, RollsBack, Clear, people
    <3> QED
      BY <3>1 DEF CaughtUp
  <2>2. ASSUME NEW w \in Senders, Commit(w) PROVE CaughtUp'
    <3>1. rows' \subseteq rows \cup Written(w) /\ UNCHANGED <<sent, viewer, got>>
      BY <2>2 DEF Commit, people
    <3>2. Written(w) \cap sent = {}
      BY <2>2 DEF Commit, Written, Typed, IdsOrdered, Ordered
    <3> QED
      BY <3>1, <3>2 DEF CaughtUp
  <2>3. ASSUME NEW w \in Senders, Broadcast(w) PROVE CaughtUp'
    <3>1. /\ sent' = sent \cup Written(w) /\ UNCHANGED <<rows, viewer>>
          /\ \A v \in Viewers : viewer[v] # "out" => got'[v] = got[v] \cup Written(w)
      BY <2>3 DEF Broadcast, Hears
    <3> QED
      BY <2>0, <3>1 DEF CaughtUp
  <2>4. ASSUME NEW v \in Viewers, View(v) PROVE CaughtUp'
    <3>1. UNCHANGED <<rows, sent>>
      BY <2>4 DEF View, Arrive, ReadsHistory, Greet, Leave
    <3>2. CASE Arrive(v)
      BY <2>0, <3>1, <3>2 DEF Arrive, Arrived, CaughtUp
    <3>3. CASE ReadsHistory(v)
      <4>1. got' = [got EXCEPT ![v] = @ \cup rows]
        BY <3>3, HistoryIsAll DEF ReadsHistory, Serial
      <4> QED
        BY <2>0, <3>1, <3>3, <4>1 DEF ReadsHistory, CaughtUp
    <3>4. CASE Greet(v)
      BY <2>0, <3>1, <3>4 DEF Greet, CaughtUp
    <3>5. CASE Leave(v)
      BY <2>0, <3>1, <3>5 DEF Leave, CaughtUp
    <3> QED
      BY <2>4, <3>2, <3>3, <3>4, <3>5 DEF View
  <2>5. CASE UNCHANGED feedVars
    BY <2>5 DEF feedVars, people, CaughtUp
  <2> QED
    BY <2>1, <2>2, <2>3, <2>4, <2>5 DEF FeedNext, Frame
<1>3. CaughtUp => NothingMissed
  BY DEF CaughtUp, NothingMissed
<1> QED
  BY <1>1, <1>2, <1>3, TrimsAreSerial, TypeCorrect, PTL DEF FeedSpec

-----------------------------------------------------------------------------
(***************************************************************************)
(* Who can block whom.                                                     *)
(*                                                                         *)
(* Whoever holds the session's row waits, if at all, for rows that another *)
(* transaction has deleted.  That one does not hold the session's row, so  *)
(* it is not a trim.  Where nobody holds it, it is those who share it that *)
(* keep each other from holding it.                                        *)
(***************************************************************************)

\* When everybody who writes waits, two have inserted and want for themselves
\* the session's row both share, or a trim meets a clearing of the board
\* (record_chat, record_stroke, clear_board, touch, _trim).
THEOREM Only_These_Block == FeedSpec => []OnlyTheseBlock
<1>1. Typed /\ Serial => OnlyTheseBlock
  <2> SUFFICES ASSUME Typed, Serial, UnderWay # {}, \A w \in UnderWay : Waits(w)
               PROVE  \E w, o \in UnderWay : BothShare(w, o) \/ Meet(w, o)
    BY DEF OnlyTheseBlock
  <2>0. \A w \in Senders : writer[w] \in Frames
    BY DEF Typed, FeedTypeOK, Frames
  <2>1. ASSUME NEW h \in Senders, Holding(h) PROVE \E o \in UnderWay : Meet(h, o)
    <3>1. WantsRows(h)
      BY <2>1 DEF Holding, UnderWay, Waits
    <3>2. PICK o \in Senders : Beyond(rows \cup {writer[h].id}) \cap writer[o].doomed # {}
      BY <3>1 DEF WantsRows, Deleting
    <3>3. writer[o].step \in {"ready", "cleared"}
      BY <3>2 DEF Serial, NothingDoomedYet
    <3>4. writer[o].step # "ready"
      BY <2>1, <3>1 DEF Serial, OneHolder, Holding, WantsRows
    <3> QED
      BY <3>1, <3>2, <3>3, <3>4 DEF UnderWay, WantsRows, Meet, Serial, OnlyBoardClears
  <2>2. ASSUME \A h \in Senders : ~Holding(h)
        PROVE  \E w, o \in UnderWay : BothShare(w, o)
    <3>1. \A w \in UnderWay : \E o \in Senders \ {w} : Sharing(o)
      BY <2>2 DEF Waits, WantsRows, Holding, Turn, Shareable, UnderWay
    <3>2. PICK w \in Senders : Sharing(w)
      BY <3>1
    <3>3. w \in UnderWay /\ \E o \in Senders \ {w} : Sharing(o)
      BY <3>1, <3>2 DEF Sharing, UnderWay
    <3> QED
      BY <3>2, <3>3 DEF BothShare, Sharing, UnderWay
  <2>3. \A h \in Senders : Holding(h) => h \in UnderWay
    BY DEF Holding, UnderWay
  <2> QED
    BY <2>1, <2>2, <2>3
<1> QED
  BY <1>1, TypeCorrect, TrimsAreSerial, PTL

\* In the chat whoever has the session's row to itself goes on: no trim waits for
\* another (record_chat, _trim).
THEOREM Chat_Trims_Never_Wait ==
    FeedSpec => [](kind = "chat" => \A w \in Senders : Holding(w) => ~Waits(w))
<1>1. Typed /\ Serial => (kind = "chat" => \A w \in Senders : Holding(w) => ~Waits(w))
  <2> SUFFICES ASSUME Typed, Serial, kind = "chat", NEW h \in Senders, Holding(h), Waits(h)
               PROVE  FALSE
    OBVIOUS
  <2>1. WantsRows(h)
    BY DEF Waits, Holding
  <2>2. PICK o \in Senders : Beyond(rows \cup {writer[h].id}) \cap writer[o].doomed # {}
    BY <2>1 DEF WantsRows, Deleting
  <2>3. writer[o].step \in {"ready", "cleared"}
    BY <2>2 DEF Serial, NothingDoomedYet
  <2>4. writer[o].step # "ready"
    BY <2>1 DEF Serial, OneHolder, Holding, WantsRows
  <2> QED
    BY <2>3, <2>4 DEF Serial, OnlyBoardClears
<1> QED
  BY <1>1, TypeCorrect, TrimsAreSerial, PTL

-----------------------------------------------------------------------------
(***************************************************************************)
(* The feed as its readers see it (Timeline.tla).                          *)
(*                                                                         *)
(* Only a commit changes the rows.  A ready writer's commit is an Add,     *)
(* since what it cuts is exact (CommitLeavesNewest); a clearing's commit   *)
(* is a Wipe, and every other step is a stutter.                           *)
(***************************************************************************)

\* To cut what Keep newer items follow is to list the Keep that rank first.
LEMMA NewestRankFirst ==
    ASSUME NEW X \in SUBSET Nat, IsFiniteSet(X)
    PROVE  Newest(X) = {j \in X : Promise!Rank(X, j) <= Keep}
<1> SUFFICES ASSUME NEW j \in X
             PROVE  ~(Cardinality(Newer(X, j)) >= Keep) <=> Promise!Rank(X, j) <= Keep
  BY DEF Newest, Beyond
<1>1. {k \in X : k >= j} = Newer(X, j) \cup {j}
  <2>0. j \in Nat /\ \A k \in X : k \in Nat
    OBVIOUS
  <2>1. \A k \in X : k >= j <=> k > j \/ k = j
    BY <2>0
  <2> QED
    BY <2>1 DEF Newer
<1>2. IsFiniteSet(Newer(X, j)) /\ Cardinality(Newer(X, j)) \in Nat
  BY FS_Subset, FS_CardinalityType DEF Newer
<1>3. j \notin Newer(X, j)
  <2>1. j \in Nat
    OBVIOUS
  <2> QED
    BY <2>1 DEF Newer
<1>4. Promise!Rank(X, j) = Cardinality(Newer(X, j)) + 1
  <2>1. Cardinality(Newer(X, j) \cup {j}) = Cardinality(Newer(X, j)) + 1
    BY <1>2, <1>3, FS_AddElement
  <2>2. \A S : Promise!Cardinality(S) = Cardinality(S)
    BY Zenon DEF Cardinality, Promise!Cardinality
  <2> QED
    BY <1>1, <2>1, <2>2 DEF Promise!Rank
<1> QED
  BY <1>2, <1>4, FeedAssumption

\* Every step of the feed is a step of the list its readers see, or none.
LEMMA StepKeepsPromise ==
    ASSUME Typed, Serial, [FeedNext]_feedVars
    PROVE  [Promise!Next]_<<kind, rows>>
<1>0. /\ rows \subseteq Ids /\ Ids \subseteq Nat /\ IsFiniteSet(Ids)
      /\ \A w \in Senders : writer[w] \in Frames
  <2>1. 1 \in Int /\ MaxId \in Int /\ Ids \subseteq Nat
    BY FeedAssumption DEF Ids
  <2>2. IsFiniteSet(Ids)
    BY <2>1, FS_Interval DEF Ids
  <2> QED
    BY <2>1, <2>2 DEF Typed, FeedTypeOK, Frames
<1>1. ASSUME NEW w \in Senders, Commit(w), writer[w].step = "ready"
      PROVE  [Promise!Next]_<<kind, rows>>
  <2> DEFINE i == writer[w].id
  <2>1. Written(w) = {i} /\ i \in Ids
    BY <1>0, <1>1, FeedAssumption DEF Typed, IdsOrdered, Ordered, Written, Ids, Frames
  <2>2. rows' = Newest(rows \cup {i}) /\ UNCHANGED kind
    BY <1>1, <2>1, CommitLeavesNewest DEF Commit
  <2>3. rows \cup {i} \in SUBSET Nat /\ IsFiniteSet(rows \cup {i})
    BY <1>0, <2>1, FS_Subset
  <2>4. Promise!Add(i)
    BY <2>2, <2>3, NewestRankFirst DEF Promise!Add
  <2>5. CASE i \notin rows
    BY <2>1, <2>4, <2>5 DEF Promise!Next, Ids
  <2>6. CASE i \in rows
    <3>1. rows \cup {i} = rows
      BY <2>6
    <3>2. IsFiniteSet(rows) /\ Cardinality(rows) <= Keep
      BY <1>0, FS_Subset DEF Serial, RowsBounded
    <3>3. rows' = rows
      BY <1>0, <2>2, <3>1, <3>2, FewAreAll
    <3> QED
      BY <2>2, <3>3
  <2> QED
    BY <2>5, <2>6
<1>2. ASSUME NEW w \in Senders, Commit(w), writer[w].step = "cleared"
      PROVE  [Promise!Next]_<<kind, rows>>
  <2>1. Written(w) = {}
    BY <1>2 DEF Typed, IdsOrdered, Ordered, Written
  <2>2. rows' = rows \ (rows \cap writer[w].doomed) /\ UNCHANGED kind
    BY <1>2, <2>1 DEF Commit
  <2>3. Promise!Wipe(rows \cap writer[w].doomed)
    BY <1>2, <2>2 DEF Promise!Wipe, Serial, OnlyBoardClears
  <2> QED
    BY <2>3 DEF Promise!Next
<1>3. ASSUME NEW w \in Senders, Frame(w), ~Commit(w)
      PROVE  [Promise!Next]_<<kind, rows>>
  BY <1>3 DEF Frame, Inserts, Shares, UpdatesFirst, Flush, Counts, Cuts, Clear, RollsBack, Broadcast
<1>4. ASSUME NEW v \in Viewers, View(v) PROVE [Promise!Next]_<<kind, rows>>
  BY <1>4 DEF View, Arrive, ReadsHistory, Greet, Leave
<1>5. CASE UNCHANGED feedVars
  BY <1>5 DEF feedVars
<1> QED
  BY <1>1, <1>2, <1>3, <1>4, <1>5 DEF FeedNext, Commit

\* The feed implements the list.
THEOREM Keeps_Promise == FeedSpec => KeepsPromise
<1>1. FeedInit => Promise!Init
  BY DEF FeedInit, Promise!Init
<1> QED
  BY <1>1, StepKeepsPromise, TypeCorrect, TrimsAreSerial, PTL DEF FeedSpec, KeepsPromise, Promise!Spec
=============================================================================
