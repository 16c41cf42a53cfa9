--------------------------- MODULE FileSyncProofs ---------------------------
(***************************************************************************)
(* Theorems about FileSync.tla, for any people, sockets, paths and lease.  *)
(***************************************************************************)
EXTENDS FileSync, TLAPS

LockType == [Paths -> [owner : People \cup {None}, left : 0..Ttl]]
Frames == [kind : {"update", "delete"}, path : Paths \cup {None},
           base : {"unread", "absent", "found", "lost"}, left : 0..Ttl]

-----------------------------------------------------------------------------
(* The helpers on the lock table return lock tables.                       *)

\* Pruning, releasing and the passing of time keep a table a table (hub.py).
LEMMA TablesStayTables ==
    ASSUME NEW t \in LockType, NEW p \in People, NEW keep
    PROVE  /\ Free \in [owner : People \cup {None}, left : 0..Ttl]
           /\ Pruned(t) \in LockType
           /\ Released(t, p, keep) \in LockType
           /\ [f \in Paths |-> [t[f] EXCEPT !.left = Less(@)]] \in LockType
<1>1. Free \in [owner : People \cup {None}, left : 0..Ttl]
  BY FileSyncAssumption DEF Free
<1>2. \A n \in 0..Ttl : Less(n) \in 0..Ttl
  BY FileSyncAssumption DEF Less
<1> QED
  BY <1>1, <1>2 DEF LockType, Pruned, Released

\* Losing a row changes nothing of an edit but what it found (_edit's two awaits).
LEMMA LostRowsKeepsPaths ==
    ASSUME NEW e \in [Conns -> Frames], NEW gone
    PROVE  /\ LostRows(e, gone) \in [Conns -> Frames]
           /\ \A c \in Conns : LostRows(e, gone)[c].path = e[c].path
<1>1. ASSUME NEW c \in Conns
      PROVE  [e[c] EXCEPT !.base = "lost"] \in Frames /\ e[c] \in Frames
             /\ [e[c] EXCEPT !.base = "lost"].path = e[c].path
  BY DEF Frames
<1> QED
  BY <1>1 DEF LostRows

\* An idle edit is a frame.
LEMMA NoEditIsFrame == NoEdit \in Frames
BY FileSyncAssumption DEF NoEdit, Working, Frames

\* A working edit has a path: a frame without one is refused before anything
\* happens (_edit).
PathKnown == \A c \in Conns : pc[c] \in {"claimed", "read"} => edit[c].path \in Paths

Typed == TypeOK /\ PathKnown

\* Every variable keeps its type, and an edit under way names a file (_edit).
THEOREM TypeCorrect == Spec => []Typed
<1> USE FileSyncAssumption
<1>1. Init => Typed
  BY DEF Init, Typed, TypeOK, PathKnown, Free, NoEdit, Working, NoUpload
<1>2. Typed /\ [Next]_vars => Typed'
  <2> SUFFICES ASSUME Typed, [Next]_vars PROVE Typed'
    OBVIOUS
  <2> USE DEF Typed, TypeOK, PathKnown, Frames
  <2>0. lock \in LockType
    BY DEF LockType
  <2>1. ASSUME NEW c \in Conns, Connect(c) PROVE Typed'
    BY <2>1 DEF Connect
  <2>2. ASSUME NEW c \in Conns, Drop(c) PROVE Typed'
    BY <2>2 DEF Drop, tables
  <2>3. ASSUME NEW c \in Conns, SendFails(c) PROVE Typed'
    BY <2>3 DEF SendFails, Unregistered, sockets
  <2>4. ASSUME NEW c \in Conns, NEW f \in Paths \cup {None}, Presence(c, f)
        PROVE Typed'
    <3>1. lock' \in LockType
      BY <2>0, <2>4, TablesStayTables DEF Presence
    <3> QED
      BY <2>4, <3>1 DEF Presence, sockets, LockType
  <2>5. ASSUME NEW c \in Conns, NEW f \in Paths, Claim(c, f) PROVE Typed'
    <3>0. Pruned(lock) \in LockType
      BY <2>0, TablesStayTables
    <3>1. lock' \in LockType
      BY <2>5, <3>0 DEF Claim, LockType
    <3> QED
      BY <2>5, <3>1 DEF Claim, LockType, Working
  <2>6. ASSUME NEW c \in Conns, NEW f \in Paths, Refuse(c, f) PROVE Typed'
    <3>0. Owner[c] \in People
      OBVIOUS
    <3>1. lock' \in LockType
      BY <2>0, <2>6, <3>0, TablesStayTables DEF Refuse
    <3> QED
      BY <2>6, <3>1 DEF Refuse, sockets, LockType
  <2>7. ASSUME NEW c \in Conns, NEW f \in Paths, BeginDelete(c, f) PROVE Typed'
    BY <2>7 DEF BeginDelete, tables, Working
  <2>8. ASSUME NEW c \in Conns, Abandon(c) PROVE Typed'
    BY <2>8, NoEditIsFrame DEF Abandon, tables
  <2>9. ASSUME NEW c \in Conns, ReadRow(c) PROVE Typed'
    <3>1. /\ [edit[c] EXCEPT !.base = "found"] \in Frames
          /\ [edit[c] EXCEPT !.base = "absent"] \in Frames
          /\ [edit[c] EXCEPT !.base = "found"].path = edit[c].path
          /\ [edit[c] EXCEPT !.base = "absent"].path = edit[c].path
      <4>1. edit[c] \in Frames
        OBVIOUS
      <4> QED
        BY <4>1
    <3>2. edit' \in [Conns -> Frames] /\ \A d \in Conns : edit'[d].path = edit[d].path
      BY <2>9, <3>1 DEF ReadRow
    <3> QED
      BY <2>9, <3>2 DEF ReadRow, tables
  <2>10. ASSUME NEW c \in Conns, CommitEdit(c) PROVE Typed'
    <3>1. row' \subseteq Paths
      BY <2>10 DEF CommitEdit
    <3>2. [edit EXCEPT ![c] = NoEdit] \in [Conns -> Frames]
      BY NoEditIsFrame
    <3>3. edit' \in [Conns -> Frames]
          /\ \A d \in Conns \ {c} : edit'[d].path = edit[d].path
      <4>1. PICK gone : edit' = LostRows([edit EXCEPT ![c] = NoEdit], gone)
        BY <2>10 DEF CommitEdit
      <4> QED
        BY <3>2, <4>1, LostRowsKeepsPaths
    <3> QED
      BY <2>10, <3>1, <3>3 DEF CommitEdit, tables
  <2>11. ASSUME NEW c \in Conns, CommitFails(c) PROVE Typed'
    BY <2>11, NoEditIsFrame DEF CommitFails, tables
  <2>12. ASSUME NEW c \in Conns, Farewell(c) PROVE Typed'
    <3>1. lock' \in LockType
      BY <2>0, <2>12, TablesStayTables DEF Farewell, GivenBack
    <3> QED
      BY <2>12, <3>1 DEF Farewell, Unregistered, LockType
  <2>13. ASSUME NEW c \in Conns, FarewellEnd(c) PROVE Typed'
    <3>1. lock' \in LockType
      BY <2>0, <2>13, TablesStayTables DEF FarewellEnd, LockType, Free
    <3> QED
      BY <2>13, <3>1 DEF FarewellEnd, LockType, RoomEmpty
  <2>14. ASSUME NEW c \in Conns, FarewellFails(c) PROVE Typed'
    <3>1. lock' \in LockType
      BY <2>0, <2>14, TablesStayTables DEF FarewellFails, GivenBack
    <3> QED
      BY <2>14, <3>1 DEF FarewellFails, Unregistered, LockType
  <2>15. CASE UploadDeletes \/ UploadFails
    <3>1. upload' \in [busy : BOOLEAN, doomed : SUBSET Paths]
      <4>1. CASE UploadDeletes
        BY <4>1 DEF UploadDeletes
      <4>2. CASE UploadFails
        <5>1. upload' = NoUpload
          BY <4>2 DEF UploadFails
        <5> QED
          BY <5>1 DEF NoUpload
      <4> QED
        BY <2>15, <4>1, <4>2
    <3>2. UNCHANGED <<tables, sockets, edit, row>>
      BY <2>15 DEF UploadDeletes, UploadFails
    <3> QED
      BY <3>1, <3>2 DEF tables, sockets
  <2>16. ASSUME NEW files \in SUBSET Paths, UploadCommits(files) PROVE Typed'
    <3>1. row' \subseteq Paths
      BY <2>16 DEF UploadCommits
    <3>2. edit \in [Conns -> Frames]
      OBVIOUS
    <3>3. edit' \in [Conns -> Frames] /\ \A d \in Conns : edit'[d].path = edit[d].path
      BY <2>16, <3>2, LostRowsKeepsPaths DEF UploadCommits
    <3> QED
      BY <2>16, <3>1, <3>3 DEF UploadCommits, tables, sockets, NoUpload
  <2>17. CASE Tick
    <3>1. \A n \in 0..Ttl : Less(n) \in 0..Ttl
      BY DEF Less
    <3>2. lock' \in LockType
      BY <2>0, <2>17, <3>1 DEF Tick, LockType
    <3>3. \A d \in Conns : edit[d] \in Frames /\ edit[d].left \in 0..Ttl
      OBVIOUS
    <3>4. \A d \in Conns : [edit[d] EXCEPT !.left = Less(@)] \in Frames
      BY <3>1, <3>3
    <3>5. edit' = [d \in Conns |-> [edit[d] EXCEPT !.left = Less(@)]]
      BY <2>17 DEF Tick
    <3>6. edit' \in [Conns -> Frames]
      BY <3>4, <3>5
    <3>7. \A d \in Conns : edit'[d].path = edit[d].path
      BY <3>5
    <3> QED
      BY <2>17, <3>2, <3>6, <3>7 DEF Tick, sockets, LockType
  <2>18. CASE UNCHANGED vars
    BY <2>18 DEF vars, tables, sockets
  <2> QED
    BY <2>1, <2>2, <2>3, <2>4, <2>5, <2>6, <2>7, <2>8, <2>9, <2>10, <2>11, <2>12,
       <2>13, <2>14, <2>15, <2>16, <2>17, <2>18
       DEF Next, Handler, Commit, Frame, Upload
<1> QED
  BY <1>1, <1>2, PTL DEF Spec

\* The types alone, as the runs check them.
THEOREM WellTyped == Spec => []TypeOK
BY TypeCorrect, PTL DEF Typed

-----------------------------------------------------------------------------
(***************************************************************************)
(* Who holds a file has a coroutine that will give it back.                *)
(*                                                                         *)
(* The invariant is inductive as it stands.  A step either leaves every    *)
(* coroutine attached that was and adds no Holder, or is a claim, whose    *)
(* own coroutine is the witness, or is a farewell, which frees everything  *)
(* its owner holds; a farewell that fails leaves its coroutine to blame.   *)
(***************************************************************************)

\* An entry that survives pruning or releasing has the owner it had, and
\* releasing leaves its person nothing.
LEMMA OwnersSurvive ==
    ASSUME NEW t \in LockType, NEW p \in People, NEW keep, NEW f \in Paths
    PROVE  /\ Pruned(t)[f].owner \in {t[f].owner, None}
           /\ Released(t, p, keep)[f].owner \in {t[f].owner, None}
           /\ Released(t, p, None)[f].owner # p
BY FileSyncAssumption DEF LockType, Pruned, Released, Free

\* A held file always has a coroutine of its Holder that has not said farewell
\* (_farewell, release_files).
THEOREM No_Orphans == Spec => []NoOrphanLeases
<1> USE FileSyncAssumption
<1>1. Init => NoOrphanLeases
  BY DEF Init, NoOrphanLeases, Free
<1>2. Typed /\ NoOrphanLeases /\ [Next]_vars => NoOrphanLeases'
  <2> SUFFICES ASSUME Typed, NoOrphanLeases, [Next]_vars PROVE NoOrphanLeases'
    OBVIOUS
  <2>0. lock \in LockType
    BY DEF Typed, TypeOK, LockType
  <2>a. ASSUME \A f \in Paths : lock'[f].owner \in {lock[f].owner, None},
               \A d \in Conns : Owing(d) => Owing(d)'
        PROVE  NoOrphanLeases'
    BY <2>a DEF NoOrphanLeases
  <2>b. ASSUME NEW c \in Conns, lock' = GivenBack(lock, c),
               \A d \in Conns \ {c} : Owing(d) => Owing(d)'
        PROVE  NoOrphanLeases'
    <3> SUFFICES ASSUME NEW f \in Paths, lock'[f].owner # None
                 PROVE  \E d \in Conns : Owner[d] = lock'[f].owner /\ Owing(d)'
      BY DEF NoOrphanLeases
    <3>1. lock'[f].owner = lock[f].owner /\ lock'[f].owner # Owner[c]
      BY <2>0, <2>b, OwnersSurvive DEF GivenBack
    <3>2. PICK d \in Conns : Owner[d] = lock[f].owner /\ Owing(d)
      BY <3>1 DEF NoOrphanLeases
    <3> QED
      BY <2>b, <3>1, <3>2
  <2>1. ASSUME NEW c \in Conns, Connect(c) \/ Drop(c) \/ SendFails(c) PROVE NoOrphanLeases'
    BY <2>a, <2>1 DEF Connect, Drop, SendFails, Owing, Typed, TypeOK, tables, sockets
  <2>2. ASSUME NEW c \in Conns, NEW f \in Paths \cup {None}, Presence(c, f)
        PROVE NoOrphanLeases'
    <3>1. Owner[c] \in People
      OBVIOUS
    <3>2. \A g \in Paths : lock'[g].owner \in {lock[g].owner, None}
      BY <2>0, <2>2, <3>1, OwnersSurvive DEF Presence
    <3> QED
      BY <2>a, <2>2, <3>2 DEF Presence, Owing, sockets
  <2>3. ASSUME NEW c \in Conns, NEW f \in Paths, Claim(c, f) PROVE NoOrphanLeases'
    <3> SUFFICES ASSUME NEW g \in Paths, lock'[g].owner # None
                 PROVE  \E d \in Conns : Owner[d] = lock'[g].owner /\ Owing(d)'
      BY DEF NoOrphanLeases
    <3>1. Pruned(lock) \in LockType /\ Owner[c] \in People
      BY <2>0, TablesStayTables
    <3>2. Owing(c)' /\ \A d \in Conns : Owing(d) => Owing(d)'
      BY <2>3 DEF Claim, Owing, Typed, TypeOK
    <3>3. CASE g = f
      BY <2>3, <3>1, <3>2, <3>3 DEF Claim, LockType
    <3>4. CASE g # f
      <4>1. lock'[g].owner = lock[g].owner
        BY <2>0, <2>3, <3>1, <3>4, OwnersSurvive DEF Claim, LockType
      <4> QED
        BY <3>2, <4>1 DEF NoOrphanLeases
    <3> QED
      BY <3>3, <3>4
  <2>4. ASSUME NEW c \in Conns, NEW f \in Paths, Refuse(c, f) PROVE NoOrphanLeases'
    <3>1. Owner[c] \in People
      OBVIOUS
    <3>2. \A g \in Paths : lock'[g].owner \in {lock[g].owner, None}
      BY <2>0, <2>4, <3>1, OwnersSurvive DEF Refuse
    <3> QED
      BY <2>a, <2>4, <3>2 DEF Refuse, Owing, sockets
  <2>5. ASSUME NEW c \in Conns, NEW f \in Paths, BeginDelete(c, f) PROVE NoOrphanLeases'
    BY <2>a, <2>5 DEF BeginDelete, Owing, Typed, TypeOK, tables
  <2>6. ASSUME NEW c \in Conns,
               Abandon(c) \/ ReadRow(c) \/ CommitEdit(c) \/ CommitFails(c) \/ FarewellFails(c)
        PROVE NoOrphanLeases'
    BY <2>a, <2>6 DEF Abandon, ReadRow, CommitEdit, CommitFails, FarewellFails, Owing, Typed,
                      TypeOK, tables
  <2>7. ASSUME NEW c \in Conns, Farewell(c) PROVE NoOrphanLeases'
    BY <2>b, <2>7 DEF Farewell, Owing, Typed, TypeOK
  <2>8. ASSUME NEW c \in Conns, FarewellEnd(c) PROVE NoOrphanLeases'
    <3>1. \A f \in Paths : lock'[f].owner \in {lock[f].owner, None}
      BY <2>8 DEF FarewellEnd, Free
    <3> QED
      BY <2>a, <2>8, <3>1 DEF FarewellEnd, Owing, Typed, TypeOK
  <2>9. CASE UploadDeletes \/ UploadFails
    BY <2>a, <2>9 DEF UploadDeletes, UploadFails, Owing, tables, sockets
  <2>10. ASSUME NEW files \in SUBSET Paths, UploadCommits(files) PROVE NoOrphanLeases'
    BY <2>a, <2>10 DEF UploadCommits, Owing, tables, sockets
  <2>11. CASE Tick
    <3>1. \A f \in Paths : lock'[f].owner \in {lock[f].owner, None}
      BY <2>0, <2>11 DEF Tick, LockType
    <3> QED
      BY <2>a, <2>11, <3>1 DEF Tick, Owing, sockets
  <2>12. CASE UNCHANGED vars
    BY <2>a, <2>12 DEF vars, Owing, tables, sockets
  <2> QED
    BY <2>1, <2>2, <2>3, <2>4, <2>5, <2>6, <2>7, <2>8, <2>9, <2>10, <2>11, <2>12
       DEF Next, Handler, Commit, Frame, Upload
<1> QED
  BY <1>1, <1>2, TypeCorrect, PTL DEF Spec

-----------------------------------------------------------------------------
(***************************************************************************)
(* An edit under way is covered by its lease, unless an older connection   *)
(* of the same person, replaced meanwhile, says farewell under it: that    *)
(* gives back whatever the person holds.                                   *)
(*                                                                         *)
(* Inductive with the types and OpenIsRegistered: only a claim could take  *)
(* the file, and a claim gives way to a lease that is running; frames that *)
(* release it are its person's own, and come over the one socket that is   *)
(* open, whose coroutine is inside _edit; the table is forgotten only when *)
(* nobody is in the room; and time takes the same from both sides.         *)
(***************************************************************************)
LeavesUnderEdit ==
    \E c, d \in Conns : c # d /\ Owner[c] = Owner[d] /\ Farewell(c) /\ Writing(d)

\* register closes what it replaces: a person has one open socket at most, and
\* it is the registered one.
OpenIsRegistered == \A c \in Conns : open[c] => room[Owner[c]] = c

\* That is so in every reachable state (Hub.register, Hub.unregister).
THEOREM Open_Is_Registered == Spec => []OpenIsRegistered
<1> USE FileSyncAssumption
<1>1. Init => OpenIsRegistered
  BY DEF Init, OpenIsRegistered
<1>2. Typed /\ OpenIsRegistered /\ [Next]_vars => OpenIsRegistered'
  <2> SUFFICES ASSUME Typed, OpenIsRegistered, [Next]_vars, NEW d \in Conns, open'[d]
               PROVE  room'[Owner[d]] = d
    BY DEF OpenIsRegistered
  <2> USE DEF Typed, TypeOK, OpenIsRegistered
  <2>1. ASSUME NEW c \in Conns, Connect(c) PROVE room'[Owner[d]] = d
    BY <2>1 DEF Connect
  <2>2. ASSUME NEW c \in Conns,
               Drop(c) \/ SendFails(c) \/ Farewell(c) \/ FarewellFails(c)
        PROVE  room'[Owner[d]] = d
    <3>1. open[d]
      BY <2>2 DEF Drop, SendFails, Farewell, FarewellFails, sockets
    <3>2. room' = room \/ c # d
      BY <2>2, <3>1 DEF Drop, SendFails, Farewell, FarewellFails, tables
    <3>3. room' = room \/ room' = Unregistered(c)
      BY <2>2 DEF Drop, SendFails, Farewell, FarewellFails, tables
    <3> QED
      BY <3>1, <3>2, <3>3 DEF Unregistered
  <2>3. ASSUME UNCHANGED <<room, open>> PROVE room'[Owner[d]] = d
    BY <2>3
  <2>4. ASSUME NEW c \in Conns,
               Abandon(c) \/ ReadRow(c) \/ CommitEdit(c) \/ CommitFails(c) \/ FarewellEnd(c)
        PROVE  room'[Owner[d]] = d
    BY <2>3, <2>4 DEF Abandon, ReadRow, CommitEdit, CommitFails, FarewellEnd, tables
  <2>5. ASSUME NEW c \in Conns, NEW f \in Paths \cup {None}, Presence(c, f)
        PROVE  room'[Owner[d]] = d
    BY <2>3, <2>5 DEF Presence, sockets
  <2>6. ASSUME NEW c \in Conns, NEW f \in Paths, Frame(c, f) PROVE room'[Owner[d]] = d
    BY <2>3, <2>6 DEF Frame, Claim, Refuse, BeginDelete, tables, sockets
  <2>7. CASE UploadDeletes \/ Upload \/ Tick \/ UNCHANGED vars
    BY <2>3, <2>7 DEF UploadDeletes, Upload, UploadFails, UploadCommits, Tick, vars,
       tables, sockets
  <2> QED
    BY <2>1, <2>2, <2>4, <2>5, <2>6, <2>7 DEF Next, Handler, Commit
<1> QED
  BY <1>1, <1>2, TypeCorrect, PTL DEF Spec

\* However many sockets a person opens one after another, the lease covers the
\* edit unless one that was replaced takes its leave under it (_edit,
\* claim_file, release_files, forget_locks).
THEOREM Covered_Unless_Left == Spec /\ [][~LeavesUnderEdit]_vars => []LeaseCoversEdit
<1> USE FileSyncAssumption
<1>1. Init => LeaseCoversEdit
  BY DEF Init, LeaseCoversEdit, Writing
<1>2. Typed /\ OpenIsRegistered /\ LeaseCoversEdit /\ [Next]_vars /\ [~LeavesUnderEdit]_vars
        => LeaseCoversEdit'
  <2> SUFFICES ASSUME Typed, OpenIsRegistered, LeaseCoversEdit, [Next]_vars,
                      [~LeavesUnderEdit]_vars, NEW d \in Conns,
                      Writing(d)', edit'[d].left > 0, room'[Owner[d]] = d
               PROVE  lock'[edit'[d].path] = [owner |-> Owner[d], left |-> edit'[d].left]
    BY DEF LeaseCoversEdit
  <2>0. lock \in LockType /\ Owner[d] \in People /\ edit[d].left \in 0..Ttl
    BY DEF Typed, TypeOK, LockType
  <2>a. ASSUME Writing(d), edit[d].left > 0, room[Owner[d]] = d
        PROVE  /\ lock[edit[d].path] = [owner |-> Owner[d], left |-> edit[d].left]
               /\ edit[d].path \in Paths
    BY <2>a DEF LeaseCoversEdit, Writing, Typed, PathKnown
  <2>b. ASSUME Writing(d), edit[d].left > 0, room[Owner[d]] = d, UNCHANGED lock,
               edit'[d].path = edit[d].path, edit'[d].left = edit[d].left
        PROVE  lock'[edit'[d].path] = [owner |-> Owner[d], left |-> edit'[d].left]
    BY <2>a, <2>b
  <2>c. ASSUME NEW c \in Conns, Owner[c] # Owner[d], NEW keep,
               lock' = Released(lock, Owner[c], keep),
               Writing(d), edit[d].left > 0, room[Owner[d]] = d, UNCHANGED edit
        PROVE  lock'[edit'[d].path] = [owner |-> Owner[d], left |-> edit'[d].left]
    BY <2>a, <2>c DEF Released
  \* Frames of another connection are another person's.
  <2>d. ASSUME NEW c \in Conns, c # d, open[c], room[Owner[d]] = d
        PROVE  Owner[c] # Owner[d]
    BY <2>d DEF OpenIsRegistered
  <2>1. ASSUME NEW c \in Conns, Connect(c)
        PROVE lock'[edit'[d].path] = [owner |-> Owner[d], left |-> edit'[d].left]
    <3>1. c # d
      BY <2>1 DEF Connect, Writing, Typed, TypeOK
    <3>2. Owner[c] # Owner[d]
      BY <2>0, <2>1, <3>1 DEF Connect, Typed, TypeOK
    <3> QED
      BY <2>b, <2>1, <3>1, <3>2 DEF Connect, Writing, Typed, TypeOK
  <2>2. ASSUME NEW c \in Conns, Drop(c)
        PROVE lock'[edit'[d].path] = [owner |-> Owner[d], left |-> edit'[d].left]
    BY <2>b, <2>2 DEF Drop, Writing, tables
  <2>3. ASSUME NEW c \in Conns, SendFails(c)
        PROVE lock'[edit'[d].path] = [owner |-> Owner[d], left |-> edit'[d].left]
    <3>1. room[Owner[d]] = d
      BY <2>0, <2>3 DEF SendFails, Unregistered, Typed, TypeOK
    <3> QED
      BY <2>b, <2>3, <3>1 DEF SendFails, Writing, sockets
  <2>4. ASSUME NEW c \in Conns, NEW f \in Paths \cup {None}, Presence(c, f)
        PROVE lock'[edit'[d].path] = [owner |-> Owner[d], left |-> edit'[d].left]
    <3>1. c # d /\ open[c] /\ room[Owner[d]] = d
      BY <2>4 DEF Presence, Writing, sockets
    <3> QED
      BY <2>c, <2>d, <2>4, <3>1 DEF Presence, Writing, sockets
  <2>5. ASSUME NEW c \in Conns, NEW f \in Paths, Claim(c, f)
        PROVE lock'[edit'[d].path] = [owner |-> Owner[d], left |-> edit'[d].left]
    <3>1. Pruned(lock) \in LockType
      BY <2>0, TablesStayTables
    <3>2. CASE c = d
      BY <2>5, <3>1, <3>2 DEF Claim, Working, LockType, Typed, TypeOK
    <3>3. CASE c # d
      <4>1. Writing(d) /\ edit[d].left > 0 /\ room[Owner[d]] = d /\ edit'[d] = edit[d]
        BY <2>5, <3>3 DEF Claim, Writing, Typed, TypeOK
      <4>2. Owner[c] # Owner[d]
        BY <2>d, <2>5, <3>3, <4>1 DEF Claim
      <4>3. edit[d].path # f
        BY <2>a, <2>0, <2>5, <4>1, <4>2 DEF Claim, HeldAgainst
      <4>4. Pruned(lock)[edit[d].path] = lock[edit[d].path]
        BY <2>a, <2>0, <4>1 DEF Pruned
      <4> QED
        BY <2>a, <2>5, <3>1, <4>1, <4>3, <4>4 DEF Claim, LockType
    <3> QED
      BY <3>2, <3>3
  <2>6. ASSUME NEW c \in Conns, NEW f \in Paths, Refuse(c, f)
        PROVE lock'[edit'[d].path] = [owner |-> Owner[d], left |-> edit'[d].left]
    <3>1. Writing(d) /\ edit[d].left > 0 /\ room[Owner[d]] = d /\ edit'[d] = edit[d]
      BY <2>6 DEF Refuse, Writing, sockets
    <3> QED
      BY <2>a, <2>0, <2>6, <3>1 DEF Refuse, Pruned
  <2>7. ASSUME NEW c \in Conns, NEW f \in Paths, BeginDelete(c, f)
        PROVE lock'[edit'[d].path] = [owner |-> Owner[d], left |-> edit'[d].left]
    <3>1. c # d
      BY <2>7 DEF BeginDelete, Working, Writing, Typed, TypeOK
    <3> QED
      BY <2>b, <2>7, <3>1 DEF BeginDelete, Writing, Typed, TypeOK, tables
  <2>8. ASSUME NEW c \in Conns, Abandon(c) \/ CommitFails(c)
        PROVE lock'[edit'[d].path] = [owner |-> Owner[d], left |-> edit'[d].left]
    <3>1. c # d
      BY <2>8 DEF Abandon, CommitFails, Writing, Typed, TypeOK
    <3> QED
      BY <2>b, <2>8, <3>1 DEF Abandon, CommitFails, Writing, Typed, TypeOK, tables
  <2>9. ASSUME NEW c \in Conns, ReadRow(c)
        PROVE lock'[edit'[d].path] = [owner |-> Owner[d], left |-> edit'[d].left]
    <3>1. /\ edit'[d].path = edit[d].path /\ edit'[d].left = edit[d].left
          /\ edit'[d].kind = edit[d].kind
      BY <2>9 DEF ReadRow, Typed, TypeOK
    <3>2. Writing(d)
      BY <2>9, <3>1 DEF ReadRow, Writing, Typed, TypeOK
    <3> QED
      BY <2>b, <2>9, <3>1, <3>2 DEF ReadRow, tables
  <2>10. ASSUME NEW c \in Conns, CommitEdit(c)
        PROVE lock'[edit'[d].path] = [owner |-> Owner[d], left |-> edit'[d].left]
    <3>1. c # d
      BY <2>10 DEF CommitEdit, Writing, Typed, TypeOK
    <3>2. PICK gone : edit' = LostRows([edit EXCEPT ![c] = NoEdit], gone)
      BY <2>10 DEF CommitEdit
    <3>3. /\ edit'[d].path = edit[d].path /\ edit'[d].left = edit[d].left
          /\ edit'[d].kind = edit[d].kind
      BY <3>1, <3>2 DEF LostRows, Typed, TypeOK
    <3>4. Writing(d)
      BY <2>10, <3>1, <3>3 DEF CommitEdit, Writing, Typed, TypeOK
    <3> QED
      BY <2>b, <2>10, <3>3, <3>4 DEF CommitEdit, tables
  <2>11. ASSUME NEW c \in Conns, Farewell(c)
        PROVE lock'[edit'[d].path] = [owner |-> Owner[d], left |-> edit'[d].left]
    <3>1. c # d /\ Writing(d) /\ room[Owner[d]] = d
      BY <2>0, <2>11 DEF Farewell, Unregistered, Writing, Typed, TypeOK
    <3>2. Owner[c] # Owner[d]
      <4>1. pc' # pc
        BY <2>11 DEF Farewell, Typed, TypeOK
      <4> QED
        BY <2>11, <3>1, <4>1 DEF LeavesUnderEdit, vars, sockets
    <3> QED
      BY <2>c, <2>11, <3>1, <3>2 DEF Farewell, GivenBack
  <2>12. ASSUME NEW c \in Conns, FarewellFails(c)
        PROVE lock'[edit'[d].path] = [owner |-> Owner[d], left |-> edit'[d].left]
    <3>1. c # d /\ Writing(d) /\ room[Owner[d]] = d
      BY <2>0, <2>12 DEF FarewellFails, Unregistered, Writing, Typed, TypeOK
    <3> QED
      BY <2>b, <2>12, <3>1 DEF FarewellFails
  <2>13. ASSUME NEW c \in Conns, FarewellEnd(c)
        PROVE lock'[edit'[d].path] = [owner |-> Owner[d], left |-> edit'[d].left]
    <3>1. ~RoomEmpty /\ room[Owner[d]] = d
      BY <2>0, <2>13 DEF FarewellEnd, RoomEmpty
    <3>2. Writing(d)
      BY <2>13 DEF FarewellEnd, Writing, Typed, TypeOK
    <3> QED
      BY <2>b, <2>13, <3>1, <3>2 DEF FarewellEnd
  <2>14. CASE UploadDeletes \/ UploadFails
    BY <2>b, <2>14 DEF UploadDeletes, UploadFails, Writing, tables, sockets
  <2>15. ASSUME NEW files \in SUBSET Paths, UploadCommits(files)
        PROVE lock'[edit'[d].path] = [owner |-> Owner[d], left |-> edit'[d].left]
    <3>1. /\ edit'[d].path = edit[d].path /\ edit'[d].left = edit[d].left
          /\ edit'[d].kind = edit[d].kind
      BY <2>15 DEF UploadCommits, LostRows, Typed, TypeOK
    <3> QED
      BY <2>b, <2>15, <3>1 DEF UploadCommits, Writing, tables, sockets
  <2>16. CASE Tick
    <3>1. /\ edit'[d].path = edit[d].path /\ edit'[d].left = Less(edit[d].left)
          /\ edit'[d].kind = edit[d].kind
      BY <2>16 DEF Tick, Typed, TypeOK
    <3>2. Writing(d) /\ edit[d].left > 0 /\ room[Owner[d]] = d
      BY <2>0, <2>16, <3>1 DEF Tick, Writing, Less, sockets
    <3>3. /\ lock[edit[d].path] = [owner |-> Owner[d], left |-> edit[d].left]
          /\ edit[d].path \in Paths
      BY <2>a, <3>2
    <3>4. lock'[edit[d].path] = [lock[edit[d].path] EXCEPT !.left = Less(@)]
      BY <2>16, <3>3 DEF Tick
    <3> QED
      BY <3>1, <3>3, <3>4
  <2>17. CASE UNCHANGED vars
    BY <2>b, <2>17 DEF vars, Writing, tables, sockets
  <2> QED
    BY <2>1, <2>2, <2>3, <2>4, <2>5, <2>6, <2>7, <2>8, <2>9, <2>10, <2>11, <2>12,
       <2>13, <2>14, <2>15, <2>16, <2>17
       DEF Next, Handler, Commit, Frame, Upload
<1> QED
  BY <1>1, <1>2, TypeCorrect, Open_Is_Registered, PTL DEF Spec

\* With one socket each, as the run has it, the lease covers the edit always:
\* there is nobody to leave under it.
THEOREM Covered == ASSUME OneSocketEach PROVE Spec => []LeaseCoversEdit
<1>1. ~LeavesUnderEdit
  BY DEF OneSocketEach, LeavesUnderEdit
<1> QED
  BY <1>1, Covered_Unless_Left, PTL

-----------------------------------------------------------------------------
(***************************************************************************)
(* The lock table keeps the promise of Lease.tla.                          *)
(*                                                                         *)
(* A claim maps to Take when nobody held the file and to a stutter when it *)
(* renews the lease; everything else that touches the table, and the       *)
(* passing of time, maps to LetGo of the files that become free.           *)
(***************************************************************************)

\* A file whose entry a step keeps or frees, or whose lease only runs down,
\* passes to nobody (file_locks, release_files).
LEMMA NobodyGains ==
    ASSUME lock \in LockType, lock' \in LockType, NEW f \in Paths,
           \/ lock'[f] \in {lock[f], Free}
           \/ lock'[f].owner = lock[f].owner /\ lock'[f].left <= lock[f].left
    PROVE  Holder'[f] \in {Holder[f], None}
BY FileSyncAssumption DEF LockType, Holder, Free

\* Pruning an expired entry changes nobody's hold (file_locks).
LEMMA PruningIsInvisible ==
    ASSUME lock \in LockType, NEW f \in Paths
    PROVE  Pruned(lock)[f] \in {lock[f], Free}
           /\ (IF Pruned(lock)[f].left > 0 THEN Pruned(lock)[f].owner ELSE None) = Holder[f]
BY FileSyncAssumption DEF LockType, Pruned, Free, Holder

\* Every step of the hub's lock table is a step of Lease.tla or a stutter: no
\* file passes from one person to another without having been free.
THEOREM Implements_Lease == Spec => Leases
<1> USE FileSyncAssumption
<1>1. Init => Promise!Init
  BY DEF Init, Promise!Init, Holder, Free
<1>2. Typed /\ Typed' /\ [Next]_vars => [Promise!Next]_Holder
  <2> SUFFICES ASSUME Typed, Typed', [Next]_vars PROVE [Promise!Next]_Holder
    OBVIOUS
  <2>0. lock \in LockType /\ lock' \in LockType
    BY DEF Typed, TypeOK, LockType
  <2>a. ASSUME \A f \in Paths : Holder'[f] \in {Holder[f], None} PROVE Promise!Next
    <3> DEFINE freed == {f \in Paths : Holder'[f] = None}
    <3>1. Holder' = [f \in Paths |-> IF f \in freed THEN None ELSE Holder[f]]
      <4>1. Holder' = [f \in Paths |-> Holder'[f]]
        BY DEF Holder
      <4> QED
        BY <2>a, <4>1
    <3>2. freed \in SUBSET Paths
      OBVIOUS
    <3>3. Promise!LetGo(freed)
      BY <3>1 DEF Promise!LetGo
    <3> QED
      BY <3>2, <3>3 DEF Promise!Next
  <2>b. ASSUME \A f \in Paths : lock'[f] \in {lock[f], Free} PROVE Promise!Next
    BY <2>0, <2>a, <2>b, NobodyGains
  <2>c. ASSUME UNCHANGED lock PROVE [Promise!Next]_Holder
    BY <2>c DEF Holder
  <2>d. ASSUME NEW c \in Conns, lock' = GivenBack(lock, c) PROVE Promise!Next
    BY <2>b, <2>d DEF GivenBack, Released
  <2>1. ASSUME NEW c \in Conns, NEW f \in Paths, Claim(c, f) PROVE [Promise!Next]_Holder
    <3>1. Owner[c] \in People /\ Owner[c] # None /\ Holder[f] \in {None, Owner[c]}
      BY <2>0, <2>1 DEF Claim, HeldAgainst, LockType, Holder
    <3>2. Holder' = [Holder EXCEPT ![f] = Owner[c]]
      <4>1. Pruned(lock) \in LockType
        BY <2>0, <3>1, TablesStayTables
      <4>2. \A g \in Paths : Holder'[g] = IF g = f THEN Owner[c] ELSE Holder[g]
        BY <2>0, <2>1, <4>1, PruningIsInvisible DEF Claim, LockType, Holder
      <4>3. Holder' = [g \in Paths |-> Holder'[g]] /\ Holder = [g \in Paths |-> Holder[g]]
        BY DEF Holder
      <4> QED
        BY <4>2, <4>3
    <3>3. CASE Holder[f] = None
      BY <3>1, <3>2, <3>3 DEF Promise!Next, Promise!Take
    <3>4. CASE Holder[f] = Owner[c]
      <4>1. Holder = [g \in Paths |-> Holder[g]]
        BY DEF Holder
      <4>2. [Holder EXCEPT ![f] = Owner[c]] = Holder
        BY <3>4, <4>1
      <4> QED
        BY <3>2, <4>2
    <3> QED
      BY <3>1, <3>3, <3>4
  <2>2. ASSUME NEW c \in Conns, NEW f \in Paths, Refuse(c, f) PROVE [Promise!Next]_Holder
    BY <2>0, <2>b, <2>2, PruningIsInvisible DEF Refuse
  <2>3. ASSUME NEW c \in Conns, NEW f \in Paths \cup {None}, Presence(c, f)
        PROVE  [Promise!Next]_Holder
    BY <2>b, <2>3 DEF Presence, Released
  <2>4. ASSUME NEW c \in Conns, Farewell(c) PROVE [Promise!Next]_Holder
    BY <2>d, <2>4 DEF Farewell
  <2>5. ASSUME NEW c \in Conns, FarewellEnd(c) PROVE [Promise!Next]_Holder
    BY <2>b, <2>5 DEF FarewellEnd
  <2>6. CASE Tick
    <3>1. \A f \in Paths : lock'[f].owner = lock[f].owner /\ lock'[f].left <= lock[f].left
      BY <2>0, <2>6 DEF Tick, Less, LockType
    <3> QED
      BY <2>0, <2>a, <3>1, NobodyGains
  <2>7. ASSUME NEW c \in Conns, NEW f \in Paths, BeginDelete(c, f) PROVE [Promise!Next]_Holder
    BY <2>c, <2>7 DEF BeginDelete, tables
  <2>8. ASSUME UploadDeletes \/ Upload \/ UNCHANGED vars PROVE [Promise!Next]_Holder
    BY <2>c, <2>8 DEF UploadDeletes, Upload, UploadFails, UploadCommits, vars, tables
  <2>9. ASSUME NEW c \in Conns,
               \/ Connect(c) \/ Drop(c) \/ SendFails(c) \/ Abandon(c) \/ ReadRow(c)
               \/ CommitEdit(c) \/ CommitFails(c) \/ FarewellFails(c)
        PROVE  [Promise!Next]_Holder
    BY <2>c, <2>9 DEF Connect, Drop, SendFails, Abandon, ReadRow, CommitEdit, CommitFails,
                      FarewellFails, tables
  <2> QED
    BY <2>1, <2>2, <2>3, <2>4, <2>5, <2>6, <2>7, <2>8, <2>9 DEF Next, Handler, Commit, Frame
<1>3. Spec => []Typed
  BY TypeCorrect
<1> QED
  BY <1>1, <1>2, <1>3, PTL DEF Spec, Leases, Promise!Spec
=============================================================================
