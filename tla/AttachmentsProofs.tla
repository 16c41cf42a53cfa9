------------------------- MODULE AttachmentsProofs -------------------------
(***************************************************************************)
(* Theorems about Attachments.tla, for any names, requests, cap and number *)
(* of restarts.                                                            *)
(***************************************************************************)
EXTENDS Attachments, FiniteSetTheorems, TLAPS

\* A request has a name exactly while it has a file: between its writing or
\* unlinking and its commit (upload, detach).
Named ==
    /\ \A u \in Uploads : up[u].step = "written" <=> up[u].name # None
    /\ \A d \in Detaches : det[d].step = "unlinked" <=> det[d].name # None

Typed == TypeOK /\ Named

\* storage.remove takes nothing but what it is told to, if that.
LEMMA Removal ==
    ASSUME NEW names, Removes(names)
    PROVE  disk' \subseteq disk /\ disk \ names \subseteq disk'
BY DEF Removes

\* Every variable keeps its type, and requests name the files they have.
THEOREM TypeCorrect == Spec => []Typed
<1> USE AttachmentsAssumption
<1>1. Init => Typed
  BY DEF Init, Typed, TypeOK, Named, NoUpload, NoDetach, NoEnd, NoSweep
<1>2. Typed /\ [Next]_vars => Typed'
  <2> SUFFICES ASSUME Typed, [Next]_vars PROVE Typed'
    OBVIOUS
  <2> USE DEF Typed, TypeOK, Named
  <2>1. ASSUME NEW u \in Uploads, Admit(u) \/ Count(u) PROVE Typed'
    BY <2>1 DEF Admit, Count, tidying
  <2>2. ASSUME NEW u \in Uploads, NEW n \in Names, Write(u, n) PROVE Typed'
    BY <2>2 DEF Write, Stores, tidying
  <2>3. ASSUME NEW u \in Uploads, NEW stuck \in SUBSET Names, Reject(u, stuck) PROVE Typed'
    BY <2>3 DEF Reject, Stores, NoUpload, tidying
  <2>4. ASSUME NEW u \in Uploads, CommitUpload(u) PROVE Typed'
    BY <2>4 DEF CommitUpload, NoUpload, tidying
  <2>5. ASSUME NEW d \in Detaches, NEW n \in Names, Unlink(d, n) PROVE Typed'
    BY <2>5, Removal DEF Unlink, tidying
  <2>6. ASSUME NEW d \in Detaches, CommitDetach(d) PROVE Typed'
    BY <2>6 DEF CommitDetach, NoDetach, tidying
  <2>14. ASSUME NEW d \in Detaches, AdmitDetach(d) \/ NotFound(d) PROVE Typed'
    BY <2>14 DEF AdmitDetach, NotFound, NoDetach, tidying
  <2>7. CASE EndBegins \/ EndReads \/ EndDeletes \/ EndCommits \/ Revive
    BY <2>7, Removal DEF EndBegins, EndReads, EndDeletes, EndCommits, Revive, NoEnd, Purged,
                         Revived, requests, tidying
  <2>8. ASSUME NEW idle \in BOOLEAN, SweepEnds(idle) PROVE Typed'
    BY <2>8 DEF SweepEnds, requests
  <2>18. CASE SweepDrops
    <3>1. sweep' = [sweep EXCEPT !.step = "dropped", !.names = Dead] /\ Dead \subseteq Names
      BY <2>18 DEF SweepDrops, Dead
    <3>2. disk' \subseteq Names /\ UNCHANGED <<status, row, up, det, ender, eraser, restarts, excused>>
      BY <2>18, Removal DEF SweepDrops, requests
    <3> QED
      BY <3>1, <3>2
  <2>9. CASE SweepCommits
    <3>1. status' \in {"active", "ended", "gone"} /\ row' \subseteq Names
      BY <2>9 DEF SweepCommits
    <3>2. sweep' = [step |-> "committed", names |-> {}, ends |-> FALSE, purges |-> FALSE]
      BY <2>9 DEF SweepCommits, NoSweep
    <3>3. UNCHANGED <<disk, up, det, ender, eraser, restarts, excused>>
      BY <2>9 DEF SweepCommits, requests
    <3> QED
      BY <3>1, <3>2, <3>3
  <2>15. CASE SweepPurges
    <3>1. sweep' = [sweep EXCEPT !.names = {}, !.purges = TRUE]
      BY <2>15 DEF SweepPurges
    <3>2. disk' \subseteq Names /\ UNCHANGED <<status, row, up, det, ender, eraser, restarts, excused>>
      BY <2>15, Removal DEF SweepPurges, requests
    <3> QED
      BY <3>1, <3>2
  <2>16. CASE SweepFails
    BY <2>16 DEF SweepFails, NoSweep, requests
  <2>17. CASE EraseReads \/ EraseCommits
    BY <2>17, Removal DEF EraseReads, EraseCommits, requests
  <2>12. CASE SweepLists
    BY <2>12 DEF SweepLists, NoSweep, Known, requests
  <2>13. ASSUME NEW left \in SUBSET Names, SweepUnlinks(left) PROVE Typed'
    BY <2>13 DEF SweepUnlinks, NoSweep, requests
  <2>10. CASE Restart
    BY <2>10 DEF Restart, NoUpload, NoDetach, NoEnd, NoSweep
  <2>11. CASE UNCHANGED vars
    BY <2>11 DEF vars, requests, tidying
  <2> QED
    BY <2>1, <2>2, <2>3, <2>4, <2>5, <2>6, <2>7, <2>8, <2>9, <2>10, <2>11,
       <2>12, <2>13, <2>14, <2>15, <2>16, <2>17, <2>18 DEF Next, Upload, Detach, End, Sweep
<1> QED
  BY <1>1, <1>2, PTL DEF Spec

\* The types alone, as the runs check them.
THEOREM WellTyped == Spec => []TypeOK
BY TypeCorrect, PTL DEF Typed

-----------------------------------------------------------------------------
(***************************************************************************)
(* Deletion.  A deleted session has no rows, none can be stored for it,    *)
(* and no step that was under way makes it a session again.                *)
(***************************************************************************)
Emptied == status = "gone" => row = {}
Buried == status = "gone" => status' = "gone" /\ row' = {}

\* Each step leaves a deleted session empty, whether it was before or is now.
LEMMA Burial ==
    ASSUME Emptied, [Next]_vars
    PROVE  Emptied' /\ Buried
<1> USE DEF Emptied, Buried
<1>1. ASSUME row' \subseteq row, status' = status PROVE Emptied' /\ Buried
  BY <1>1
<1>2. ASSUME NEW u \in Uploads, Admit(u) \/ Upload(u) PROVE Emptied' /\ Buried
  BY <1>2 DEF Admit, Upload, Count, Reject, CommitUpload, Storable, Write
<1>3. ASSUME NEW d \in Detaches, AdmitDetach(d) \/ Detach(d) PROVE Emptied' /\ Buried
  BY <1>1, <1>3 DEF AdmitDetach, Detach, NotFound, CommitDetach, Unlink
<1>4. CASE EndBegins \/ End
  BY <1>1, <1>4 DEF EndBegins, End, EndReads, EndDeletes, EndCommits
<1>5. CASE Revive
  BY <1>5 DEF Revive, Revived
<1>6. CASE EraseReads \/ EraseCommits
  BY <1>1, <1>6 DEF EraseReads, EraseCommits
<1>7. CASE SweepCommits
  BY <1>7 DEF SweepCommits
<1>8. CASE Sweep /\ ~SweepCommits
  BY <1>1, <1>8 DEF Sweep, SweepEnds, SweepDrops, SweepPurges, SweepFails, SweepLists, SweepUnlinks
<1>9. CASE Restart \/ UNCHANGED vars
  BY <1>1, <1>9 DEF Restart, vars
<1> QED
  BY <1>2, <1>3, <1>4, <1>5, <1>6, <1>7, <1>8, <1>9 DEF Next

\* A deleted session has no rows (delete_session, purge_sessions).
THEOREM Empty == Spec => []Emptied
<1>1. Init => Emptied
  BY DEF Init, Emptied
<1>2. Emptied /\ [Next]_vars => Emptied'
  BY Burial
<1> QED
  BY <1>1, <1>2, PTL DEF Spec

\* Whatever was under way when a session was deleted, it stays deleted and
\* leaves no row (session_delete, purge_sessions).
THEOREM Deletion == Spec => DeletedForGood
<1>1. Emptied /\ [Next]_vars => [Buried]_vars
  BY Burial
<1> QED
  BY <1>1, Empty, PTL DEF Spec, DeletedForGood, Buried

-----------------------------------------------------------------------------
(***************************************************************************)
(* The cap.  What has passed the count and not committed yet counts with   *)
(* the rows: whoever passes finds fewer rows than the cap and at most all  *)
(* the other uploads under way, and a commit moves one from the uploads to *)
(* the rows.  The invariant is inductive, given the types.                 *)
(***************************************************************************)

\* The sets that are counted are finite.
LEMMA Counted ==
    ASSUME TypeOK
    PROVE  /\ IsFiniteSet(row) /\ IsFiniteSet(Passed)
           /\ Cardinality(row) \in Nat /\ Cardinality(Passed) \in Nat
           /\ Cardinality(Uploads) \in Nat /\ Cardinality(Passed) <= Cardinality(Uploads)
<1>1. row \in SUBSET Names /\ Passed \in SUBSET Uploads
  BY DEF TypeOK, Passed
<1> QED
  BY <1>1, FS_Subset, FS_CardinalityType, AttachmentsAssumption

\* The bound is kept by a step that adds neither rows nor uploads under way.
LEMMA NothingPromised ==
    ASSUME TypeOK, OvershootBounded, row' \subseteq row, Passed' \subseteq Passed
    PROVE  OvershootBounded'
<1>1. Cardinality(row') <= Cardinality(row) /\ Cardinality(row') \in Nat
  BY Counted, FS_Subset, FS_CardinalityType
<1>2. Cardinality(Passed') <= Cardinality(Passed) /\ Cardinality(Passed') \in Nat
  BY Counted, FS_Subset, FS_CardinalityType
<1>3. Cardinality(row)' = Cardinality(row') /\ Cardinality(Passed)' = Cardinality(Passed')
  OBVIOUS
<1> QED
  BY <1>1, <1>2, <1>3, Counted, AttachmentsAssumption DEF OvershootBounded

\* However many uploads race between the count and the commit, the rows and
\* the uploads that may still become some exceed the cap by at most the uploads
\* beside the one that reaches it (upload).
THEOREM Overshoot == Spec => []OvershootBounded
<1> USE AttachmentsAssumption
<1>1. Init => OvershootBounded
  <2> SUFFICES ASSUME Init PROVE OvershootBounded
    OBVIOUS
  <2>1. row = {} /\ Passed = {}
    BY DEF Init, Passed, NoUpload
  <2>2. Cardinality(Uploads) \in Nat /\ Cardinality(Uploads) # 0
    BY FS_CardinalityType, FS_EmptySet
  <2> QED
    BY <2>1, <2>2, FS_EmptySet DEF OvershootBounded
<1>2. TypeOK /\ OvershootBounded /\ [Next]_vars => OvershootBounded'
  <2> SUFFICES ASSUME TypeOK, OvershootBounded, [Next]_vars PROVE OvershootBounded'
    OBVIOUS
  <2>1. ASSUME NEW u \in Uploads, Count(u), HasRoom(Cardinality(row)) PROVE OvershootBounded'
    <3>1. u \notin Passed /\ Passed' = Passed \cup {u} /\ row' = row
      BY <2>1 DEF Count, Passed, TypeOK
    <3>2. Cardinality(Passed') = Cardinality(Passed) + 1
      BY <3>1, Counted, FS_AddElement
    <3>3. Passed' \in SUBSET Uploads
      BY DEF Passed
    <3>4. Cardinality(Passed') <= Cardinality(Uploads)
      BY <3>3, FS_Subset
    <3>5. Cardinality(row) < Cap
      BY <2>1 DEF HasRoom
    <3> QED
      BY <3>1, <3>4, <3>5, <3>2, Counted DEF OvershootBounded
  <2>2. ASSUME NEW u \in Uploads, Count(u), ~HasRoom(Cardinality(row)) PROVE OvershootBounded'
    <3>1. row' = row /\ Passed' \subseteq Passed
      BY <2>2 DEF Count, Passed, TypeOK
    <3> QED
      BY <3>1, NothingPromised
  <2>3. ASSUME NEW u \in Uploads, CommitUpload(u), Storable PROVE OvershootBounded'
    <3>1. u \in Passed /\ Passed' = Passed \ {u} /\ row' = row \cup {up[u].name}
      BY <2>3 DEF CommitUpload, Passed, NoUpload, TypeOK
    <3>2. Cardinality(Passed') = Cardinality(Passed) - 1
      BY <3>1, Counted, FS_RemoveElement
    <3>3. Cardinality(row') <= Cardinality(row) + 1 /\ Cardinality(row') \in Nat
      <4>1. IsFiniteSet(row) /\ Cardinality(row) \in Nat
        BY Counted
      <4>2. Cardinality(row') = IF up[u].name \in row THEN Cardinality(row)
                                ELSE Cardinality(row) + 1
        BY <3>1, <4>1, FS_AddElement
      <4> QED
        BY <4>1, <4>2
    <3> QED
      BY <3>2, <3>3, Counted DEF OvershootBounded
  <2>14. ASSUME NEW u \in Uploads, CommitUpload(u), ~Storable PROVE OvershootBounded'
    <3>1. row' = row /\ Passed' \subseteq Passed
      BY <2>14 DEF CommitUpload, NoUpload, Passed, TypeOK
    <3> QED
      BY <3>1, NothingPromised
  <2>4. ASSUME NEW u \in Uploads, NEW n \in Names, Write(u, n) PROVE OvershootBounded'
    <3>1. row' = row /\ Passed' \subseteq Passed
      BY <2>4 DEF Write, Stores, Passed, TypeOK
    <3> QED
      BY <3>1, NothingPromised
  <2>5. ASSUME row' \subseteq row, up' = up PROVE OvershootBounded'
    <3>1. Passed' \subseteq Passed
      BY <2>5 DEF Passed
    <3> QED
      BY <2>5, <3>1, NothingPromised
  <2>6. ASSUME NEW u \in Uploads, NEW stuck \in SUBSET Names, Admit(u) \/ Reject(u, stuck)
        PROVE OvershootBounded'
    <3>1. row' = row /\ Passed' \subseteq Passed
      BY <2>6 DEF Admit, Reject, NoUpload, Passed, TypeOK
    <3> QED
      BY <3>1, NothingPromised
  <2>7. ASSUME NEW d \in Detaches, NEW n \in Names, Unlink(d, n) PROVE OvershootBounded'
    BY <2>5, <2>7 DEF Unlink
  <2>8. ASSUME NEW d \in Detaches, CommitDetach(d) PROVE OvershootBounded'
    BY <2>5, <2>8 DEF CommitDetach
  <2>13. ASSUME NEW d \in Detaches, AdmitDetach(d) \/ NotFound(d) PROVE OvershootBounded'
    BY <2>5, <2>13 DEF AdmitDetach, NotFound
  <2>9. CASE EndBegins \/ EndReads \/ EndDeletes \/ EndCommits \/ Revive
    BY <2>5, <2>9 DEF EndBegins, EndReads, EndDeletes, EndCommits, Revive, requests
  <2>10. CASE Sweep
    BY <2>5, <2>10 DEF Sweep, SweepEnds, SweepDrops, SweepPurges, SweepCommits, SweepFails, SweepLists,
                       SweepUnlinks, requests
  <2>15. CASE EraseReads \/ EraseCommits
    BY <2>5, <2>15 DEF EraseReads, EraseCommits, requests
  <2>11. CASE Restart
    <3>1. row' = row /\ Passed' \subseteq Passed
      BY <2>11 DEF Restart, NoUpload, Passed
    <3> QED
      BY <3>1, NothingPromised
  <2>12. CASE UNCHANGED vars
    BY <2>5, <2>12 DEF vars, requests
  <2>16. ASSUME NEW u \in Uploads, Admit(u) \/ Upload(u) PROVE OvershootBounded'
    <3>1. ASSUME NEW stuck \in SUBSET Names, Reject(u, stuck) PROVE OvershootBounded'
      BY <3>1, <2>6
    <3>2. {} \in SUBSET Names /\ \A n \in Names : {n} \in SUBSET Names
      OBVIOUS
    <3> QED
      BY <2>1, <2>2, <2>3, <2>4, <2>6, <2>14, <2>16, <3>1, <3>2 DEF Upload
  <2>17. ASSUME NEW d \in Detaches, AdmitDetach(d) \/ Detach(d) PROVE OvershootBounded'
    BY <2>7, <2>8, <2>13, <2>17 DEF Detach
  <2> QED
    BY <2>9, <2>10, <2>11, <2>12, <2>15, <2>16, <2>17 DEF Next, End
<1> QED
  BY <1>1, <1>2, WellTyped, PTL DEF Spec

-----------------------------------------------------------------------------
(***************************************************************************)
(* What loses a listed attachment.  An upload's file has no row yet, is    *)
(* nobody else's, and is there when its row is committed unless the sweep  *)
(* took it; the others delete only bytes that have a row, and then that    *)
(* row is on its way out.                                                  *)
(***************************************************************************)
HeldApart ==
    \A u \in Uploads : up[u].name # None =>
        /\ up[u].name \notin row /\ up[u].name \in disk \cup excused
        /\ \A v \in Uploads \ {u} : up[v].name # up[u].name

LossInv == HeldApart /\ LossExplained

\* A listed attachment loses its bytes to its own removal, to a restart or to
\* the orphan sweep, and to nothing else (upload, detach, purge_attachments,
\* sweep_once).
THEOREM Loss == Spec => []LossExplained
<1> USE AttachmentsAssumption
<1>1. Init => LossInv
  BY DEF Init, LossInv, HeldApart, LossExplained, NoUpload
<1>2. Typed /\ Emptied /\ LossInv /\ [Next]_vars => LossInv'
  <2> SUFFICES ASSUME Typed, Emptied, LossInv, [Next]_vars PROVE LossInv'
    OBVIOUS
  <2> USE DEF LossInv, HeldApart, LossExplained, Leaving
  <2>1. ASSUME NEW u \in Uploads, Admit(u) \/ Count(u) PROVE LossInv'
    <3>1. \A v \in Uploads : up'[v].name = up[v].name
      BY <2>1 DEF Admit, Count, Typed, TypeOK
    <3> QED
      BY <2>1, <3>1 DEF Admit, Count, tidying
  <2>2. ASSUME NEW u \in Uploads, NEW n \in Names, Write(u, n) PROVE LossInv'
    <3>1. /\ up'[u].name = n
          /\ \A v \in Uploads \ {u} : up'[v].name = up[v].name /\ up[v].name # n
      BY <2>2 DEF Write, Stores, Fresh, Held, Typed, TypeOK
    <3>2. HeldApart'
      BY <2>2, <3>1 DEF Write, Stores, Fresh
    <3>3. LossExplained'
      BY <2>2 DEF Write, Stores, Fresh, tidying
    <3> QED
      BY <3>2, <3>3
  <2>3. ASSUME NEW u \in Uploads, NEW stuck \in SUBSET Names, Reject(u, stuck) PROVE LossInv'
    <3>1. /\ up'[u].name = None
          /\ \A v \in Uploads \ {u} : up'[v].name = up[v].name
      BY <2>3 DEF Reject, Stores, NoUpload, Typed, TypeOK
    <3>2. HeldApart'
      BY <2>3, <3>1 DEF Reject, Stores
    <3>3. LossExplained'
      BY <2>3 DEF Reject, Stores, tidying
    <3> QED
      BY <3>2, <3>3
  <2>4. ASSUME NEW u \in Uploads, CommitUpload(u) PROVE LossInv'
    <3>1. /\ up'[u].name = None
          /\ \A v \in Uploads \ {u} : up'[v].name = up[v].name
      BY <2>4 DEF CommitUpload, NoUpload, Typed, TypeOK
    <3>2. up[u].name # None
      BY <2>4 DEF CommitUpload, Typed, Named
    <3>3. HeldApart'
      BY <2>4, <3>1, <3>2 DEF CommitUpload
    <3>4. LossExplained'
      BY <2>4, <3>2 DEF CommitUpload, tidying
    <3> QED
      BY <3>3, <3>4
  <2>5. ASSUME NEW d \in Detaches, NEW n \in Names, Unlink(d, n) PROVE LossInv'
    <3>1. /\ det[d].name = None /\ det'[d].name = n
          /\ \A e \in Detaches \ {d} : det'[e].name = det[e].name
      BY <2>5 DEF Unlink, Typed, TypeOK, Named
    <3>2. HeldApart'
      BY <2>5, Removal DEF Unlink
    <3>3. LossExplained'
      <4> SUFFICES ASSUME NEW m \in row' \ disk' PROVE (m \in excused \/ Leaving(m))'
        OBVIOUS
      <4>1. m = n \/ m \in row \ disk
        BY <2>5, Removal DEF Unlink
      <4>2. m # None
        BY <2>5 DEF Unlink, Typed, TypeOK
      <4> QED
        BY <2>5, <3>1, <4>1, <4>2 DEF Unlink, tidying
    <3> QED
      BY <3>2, <3>3
  <2>6. ASSUME NEW d \in Detaches, CommitDetach(d) PROVE LossInv'
    <3>1. \A e \in Detaches \ {d} : det'[e].name = det[e].name
      BY <2>6 DEF CommitDetach, NoDetach, Typed, TypeOK
    <3>2. HeldApart'
      BY <2>6 DEF CommitDetach
    <3>3. LossExplained'
      BY <2>6, <3>1 DEF CommitDetach, tidying
    <3> QED
      BY <3>2, <3>3
  <2>17. ASSUME NEW d \in Detaches, AdmitDetach(d) \/ NotFound(d) PROVE LossInv'
    <3>1. \A e \in Detaches : det[e].name = None \/ det'[e].name = det[e].name
      BY <2>17 DEF AdmitDetach, NotFound, NoDetach, Typed, TypeOK, Named
    <3>2. \A n \in row : n # None
      BY DEF Typed, TypeOK
    <3>3. HeldApart'
      BY <2>17 DEF AdmitDetach, NotFound
    <3>4. LossExplained'
      BY <2>17, <3>1, <3>2 DEF AdmitDetach, NotFound, tidying
    <3> QED
      BY <3>3, <3>4
  <2>18. CASE EndBegins
    BY <2>18 DEF EndBegins, requests, Typed, TypeOK
  <2>7. CASE EndReads
    BY <2>7, Removal DEF EndReads, requests
  <2>8. CASE EndDeletes
    BY <2>8 DEF EndDeletes, Purged, requests
  <2>9. CASE EndCommits
    BY <2>9 DEF EndCommits, requests
  <2>10. CASE Revive
    BY <2>10 DEF Revive, requests, tidying
  <2>11. CASE SweepDrops
    <3>1. sweep'.step = "dropped" /\ sweep'.names = Dead
      BY <2>11 DEF SweepDrops, Typed, TypeOK
    <3> QED
      BY <2>11, <3>1, Removal DEF SweepDrops, Dead, requests
  <2>23. ASSUME NEW idle \in BOOLEAN, SweepEnds(idle) PROVE LossInv'
    BY <2>23 DEF SweepEnds, requests
  <2>12. CASE SweepCommits
    BY <2>12 DEF SweepCommits, requests
  <2>19. CASE SweepPurges
    BY <2>19, Removal DEF SweepPurges, requests, Typed, TypeOK
  <2>20. CASE SweepFails
    BY <2>20 DEF SweepFails, requests, Emptied
  <2>21. CASE EraseReads
    BY <2>21, Removal DEF EraseReads, requests
  <2>22. CASE EraseCommits
    BY <2>22 DEF EraseCommits, requests
  <2>13. CASE SweepLists
    BY <2>13 DEF SweepLists, requests
  <2>14. ASSUME NEW left \in SUBSET Names, SweepUnlinks(left) PROVE LossInv'
    <3>1. HeldApart'
      BY <2>14 DEF SweepUnlinks, Held, requests
    <3>2. LossExplained'
      BY <2>14 DEF SweepUnlinks, requests
    <3> QED
      BY <3>1, <3>2
  <2>15. CASE Restart
    BY <2>15 DEF Restart, NoUpload
  <2>16. CASE UNCHANGED vars
    BY <2>16 DEF vars, requests, tidying
  <2> QED
    BY <2>1, <2>2, <2>3, <2>4, <2>5, <2>6, <2>7, <2>8, <2>9, <2>10, <2>11, <2>12,
       <2>13, <2>14, <2>15, <2>16, <2>17, <2>18, <2>19, <2>20, <2>21, <2>22, <2>23 DEF Next, Upload, Detach, End, Sweep
<1> QED
  BY <1>1, <1>2, TypeCorrect, Empty, PTL DEF Spec, LossInv

-----------------------------------------------------------------------------
(***************************************************************************)
(* The two moments in which the orphan sweep takes what is no orphan, and  *)
(* no others: an upload commits while the sweep holds its list, or has its *)
(* file taken before it commits.                                           *)
(***************************************************************************)
\* A row the sweep's list does not have is committed under it.
CommitsUnlisted ==
    sweep.step = "listed" /\ \E u \in Uploads : CommitUpload(u) /\ up[u].name \notin sweep.names

\* The sweep unlinks the file of an upload still under way.
TakesAnUpload ==
    sweep.step = "listed" /\ sweep'.step = "idle" /\ \E n \in disk \ disk' : Held(n)

\* While the sweep holds its list, the list has every row.
ListIsComplete == sweep.step = "listed" => row \subseteq sweep.names

\* Only the commit of an upload could make it miss one (sweep_orphans).
LEMMA ListStaysComplete ==
    ASSUME Typed, ListIsComplete, [Next]_vars, [~CommitsUnlisted]_vars
    PROVE  ListIsComplete'
<1> USE DEF ListIsComplete
<1>1. ASSUME row' \subseteq row, sweep' = sweep \/ sweep'.step # "listed"
      PROVE  ListIsComplete'
  BY <1>1
<1>2. ASSUME NEW u \in Uploads, CommitUpload(u) PROVE ListIsComplete'
  <2>1. vars' # vars
    <3>1. up'[u].step = "idle" /\ up[u].step = "written"
      BY <1>2 DEF CommitUpload, NoUpload, Typed, TypeOK
    <3> QED
      BY <3>1 DEF vars, requests
  <2>2. row' \subseteq row \cup {up[u].name} /\ UNCHANGED sweep
    BY <1>2 DEF CommitUpload, tidying
  <2> QED
    BY <1>2, <2>1, <2>2 DEF CommitsUnlisted
<1>3. ASSUME NEW u \in Uploads, Admit(u) \/ (Upload(u) /\ ~CommitUpload(u))
      PROVE  ListIsComplete'
  BY <1>1, <1>3 DEF Admit, Upload, Count, Reject, Write, tidying
<1>4. ASSUME NEW d \in Detaches, AdmitDetach(d) \/ Detach(d) PROVE ListIsComplete'
  BY <1>1, <1>4 DEF AdmitDetach, Detach, NotFound, CommitDetach, Unlink, tidying
<1>5. CASE EndBegins \/ End \/ Revive
  BY <1>1, <1>5 DEF EndBegins, End, EndReads, EndDeletes, EndCommits, Revive, tidying
<1>6. CASE EraseReads \/ EraseCommits
  BY <1>1, <1>6 DEF EraseReads, EraseCommits
<1>7. ASSUME NEW idle \in BOOLEAN, SweepEnds(idle) \/ SweepDrops PROVE ListIsComplete'
  <2>1. sweep'.step # "listed"
    BY <1>7 DEF SweepEnds, SweepDrops, Typed, TypeOK
  <2> QED
    BY <2>1
<1>8. CASE SweepPurges \/ SweepCommits \/ SweepFails
  <2>1. ASSUME SweepPurges PROVE sweep'.step # "listed"
    <3>1. sweep' = [sweep EXCEPT !.names = {}, !.purges = TRUE]
      BY <2>1 DEF SweepPurges
    <3>2. sweep'.step = sweep.step
      BY <3>1 DEF Typed, TypeOK
    <3> QED
      BY <2>1, <3>2 DEF SweepPurges
  <2> QED
    BY <1>8, <2>1 DEF SweepCommits, SweepFails, NoSweep
<1>9. CASE SweepLists
  BY <1>9 DEF SweepLists, Known, NoSweep
<1>10. ASSUME NEW left \in SUBSET Names, SweepUnlinks(left) PROVE ListIsComplete'
  BY <1>10 DEF SweepUnlinks, NoSweep
<1>11. CASE Restart
  BY <1>11 DEF Restart, NoSweep
<1>12. CASE UNCHANGED vars
  BY <1>1, <1>12 DEF vars, tidying
<1> QED
  BY <1>2, <1>3, <1>4, <1>5, <1>6, <1>7, <1>8, <1>9, <1>10, <1>11, <1>12
     DEF Next, Sweep

\* Unless an upload commits under its list, the orphan sweep deletes no file
\* that has a row (sweep_orphans: "Delete files with no row pointing at them").
THEOREM Sweep_Spares == Spec /\ [][~CommitsUnlisted]_vars => SweptHadNoRow
<1>1. Init => ListIsComplete
  BY DEF Init, NoSweep, ListIsComplete
<1>2. Typed /\ ListIsComplete /\ [Next]_vars /\ [~CommitsUnlisted]_vars => ListIsComplete'
  BY ListStaysComplete
<1>3. ListIsComplete /\ [Next]_vars =>
        [sweep.step = "listed" /\ sweep'.step = "idle" => (disk \ disk') \cap row = {}]_vars
  <2> SUFFICES ASSUME ListIsComplete, Next, sweep.step = "listed", sweep'.step = "idle"
               PROVE  (disk \ disk') \cap row = {}
    OBVIOUS
  <2>1. ASSUME UNCHANGED sweep PROVE FALSE
    BY <2>1
  <2>2. ASSUME NEW left \in SUBSET Names, SweepUnlinks(left)
        PROVE  (disk \ disk') \cap row = {}
    BY <2>2 DEF SweepUnlinks, ListIsComplete
  <2>3. CASE Restart
    BY <2>3 DEF Restart
  <2>4. ~SweepDrops /\ ~\E idle \in BOOLEAN : SweepEnds(idle)
    BY DEF SweepDrops, SweepEnds
  <2>5. ~SweepPurges /\ ~SweepCommits /\ ~SweepFails /\ ~SweepLists
    BY DEF SweepPurges, SweepCommits, SweepFails, SweepLists
  <2>6. ASSUME NEW u \in Uploads, Admit(u) \/ Upload(u) PROVE UNCHANGED sweep
    BY <2>6 DEF Admit, Upload, Count, CommitUpload, Reject, Write, tidying
  <2>7. ASSUME NEW d \in Detaches, AdmitDetach(d) \/ Detach(d) PROVE UNCHANGED sweep
    BY <2>7 DEF AdmitDetach, Detach, NotFound, CommitDetach, Unlink, tidying
  <2>8. CASE EndBegins \/ End \/ Revive \/ EraseReads \/ EraseCommits
    BY <2>1, <2>8 DEF EndBegins, End, EndReads, EndDeletes, EndCommits, Revive, EraseReads,
       EraseCommits, tidying
  <2> QED
    BY <2>1, <2>2, <2>3, <2>4, <2>5, <2>6, <2>7, <2>8 DEF Next, Sweep
<1> QED
  BY <1>1, <1>2, <1>3, TypeCorrect, PTL DEF Spec, SweptHadNoRow

\* Until the first restart, and without those two moments, a listed attachment
\* has its bytes or is on its way out.
BytesOrLeaving == restarts = 0 => \A n \in row \ disk : Leaving(n)

\* So restarts and those two moments are all that loses bytes (upload,
\* detach, sweep_orphans).
THEOREM Nothing_Else_Loses ==
    Spec /\ [][~CommitsUnlisted /\ ~TakesAnUpload]_vars => []BytesOrLeaving
<1> DEFINE Inv == ListIsComplete /\ (restarts = 0 => excused = {})
<1>1. Init => Inv
  BY DEF Init, NoSweep, ListIsComplete
<1>2. Typed /\ Inv /\ [Next]_vars /\ [~CommitsUnlisted /\ ~TakesAnUpload]_vars => Inv'
  <2> SUFFICES ASSUME Typed, Inv, [Next]_vars, [~CommitsUnlisted /\ ~TakesAnUpload]_vars
               PROVE  Inv'
    OBVIOUS
  <2>1. ListIsComplete'
    BY ListStaysComplete
  <2>2. ASSUME excused' \subseteq excused, restarts' = restarts PROVE Inv'
    BY <2>1, <2>2
  <2>3. ASSUME NEW left \in SUBSET Names, SweepUnlinks(left) PROVE Inv'
    <3>1. sweep.step = "listed" /\ sweep'.step = "idle"
      BY <2>3 DEF SweepUnlinks, NoSweep
    <3>2. vars' # vars
      BY <3>1 DEF vars, tidying
    <3>3. \A n \in disk \ disk' : ~Held(n)
      BY <3>1, <3>2 DEF TakesAnUpload
    <3>4. \A n \in disk \ disk' : n \notin row
      BY <2>3 DEF SweepUnlinks, ListIsComplete
    <3>5. excused' = excused
      BY <2>3, <3>3, <3>4 DEF SweepUnlinks
    <3> QED
      BY <2>2, <2>3, <3>5 DEF SweepUnlinks
  <2>4. CASE Restart
    BY <2>1, <2>4 DEF Restart, Typed, TypeOK
  <2>5. ASSUME NEW u \in Uploads, Admit(u) \/ Upload(u) PROVE Inv'
    BY <2>2, <2>5 DEF Admit, Upload, Count, CommitUpload, Reject, Write
  <2>6. ASSUME NEW d \in Detaches, AdmitDetach(d) \/ Detach(d) PROVE Inv'
    BY <2>2, <2>6 DEF AdmitDetach, Detach, NotFound, CommitDetach, Unlink
  <2>7. CASE EndBegins \/ End \/ Revive \/ EraseReads \/ EraseCommits
    BY <2>2, <2>7 DEF EndBegins, End, EndReads, EndDeletes, EndCommits, Revive, EraseReads,
       EraseCommits
  <2>8. ASSUME NEW idle \in BOOLEAN, SweepEnds(idle) \/ SweepDrops PROVE Inv'
    BY <2>2, <2>8 DEF SweepEnds, SweepDrops
  <2>9. CASE SweepPurges \/ SweepCommits \/ SweepFails \/ SweepLists
    BY <2>2, <2>9 DEF SweepPurges, SweepCommits, SweepFails, SweepLists
  <2>10. CASE UNCHANGED vars
    BY <2>2, <2>10 DEF vars
  <2> QED
    BY <2>3, <2>4, <2>5, <2>6, <2>7, <2>8, <2>9, <2>10 DEF Next, Sweep
<1>3. LossExplained /\ Inv => BytesOrLeaving
  BY DEF LossExplained, BytesOrLeaving
<1> QED
  BY <1>1, <1>2, <1>3, TypeCorrect, Loss, PTL DEF Spec
=============================================================================
