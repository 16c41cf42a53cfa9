---------------------------- MODULE Attachments ----------------------------
(***************************************************************************)
(* The attachments of one session: rows in the database and bytes on disk  *)
(* (app/routers/attachments.py, app/storage.py), which no transaction      *)
(* spans, until its retention is over (app/housekeeping.py).               *)
(*                                                                         *)
(* An upload writes the bytes first and commits the row later.  A detach,  *)
(* the end of the session, its deletion and the sweep delete the bytes     *)
(* first and commit the deletion of the row later.  Then the sweep lists   *)
(* the committed rows and deletes every other file.  A restart stops all   *)
(* of them where they are.  Reading or deleting files is synchronous, so   *)
(* that an action ends only where the code awaits the database.            *)
(*                                                                         *)
(* A deleted session takes every row that refers to it along (ON DELETE    *)
(* CASCADE), and whatever touches it afterwards fails to commit.           *)
(*                                                                         *)
(* A session that is paused is active here.  Sizes are left out: the byte  *)
(* limits, like an empty file or a full disk, may refuse any upload.       *)
(***************************************************************************)
EXTENDS Integers, FiniteSets

CONSTANTS
    Names,      \* stored names; a bound: each is used again once forgotten
    Uploads,    \* upload requests in flight at one time
    Detaches,   \* delete requests in flight at one time
    Cap,        \* max_attachments_per_session
    Restarts,   \* how often the process may restart (a bound)
    None        \* no name

ASSUME AttachmentsAssumption ==
    /\ None \notin Names
    /\ IsFiniteSet(Names) /\ IsFiniteSet(Uploads) /\ Uploads # {}
    /\ Cap \in Nat \ {0} /\ Restarts \in Nat

VARIABLES
    status,    \* CollabSession.status, or "gone" when there is no such row
    row,       \* the names that have an Attachment row
    disk,      \* the names that have bytes
    up,        \* uploads in flight
    det,       \* detaches in flight
    ender,     \* the set_status that ends the session
    eraser,    \* the dashboard's deletion of the session
    sweep,     \* the hourly sweep
    restarts,
    excused    \* history: rows whose bytes a restart or the orphan sweep cost

requests == <<up, det>>
tidying == <<ender, eraser, sweep>>
vars == <<status, row, disk, requests, tidying, restarts, excused>>

-----------------------------------------------------------------------------
NoUpload == [step |-> "idle", name |-> None]
NoDetach == [step |-> "idle", name |-> None]
NoEnd    == [step |-> "idle", names |-> {}]
NoSweep  == [step |-> "idle", names |-> {}, ends |-> FALSE, purges |-> FALSE]

Init ==
    /\ status = "active" /\ row = {} /\ disk = {}
    /\ up = [u \in Uploads |-> NoUpload]
    /\ det = [d \in Detaches |-> NoDetach]
    /\ ender = NoEnd /\ eraser = "idle" /\ sweep = NoSweep
    /\ restarts = 0 /\ excused = {}

Held(n) == \E u \in Uploads : up[u].name = n

\* new_stored_name never repeats a name; here, none that anything remembers.
Fresh(n) ==
    /\ n \notin row \cup disk \cup ender.names \cup sweep.names
    /\ ~Held(n) /\ \A d \in Detaches : det[d].name # n

\* storage.write.
Stores(names) == disk' = disk \cup names

\* storage.remove: a file that cannot be unlinked stays, and is only logged.
Removes(names) == \E stuck \in SUBSET (disk \cap names) : disk' = (disk \ names) \cup stuck

-----------------------------------------------------------------------------
(* POST: upload.                                                           *)

\* The token is resolved, and the session has not ended.
Admit(u) ==
    /\ up[u].step = "idle" /\ status = "active"
    /\ up' = [up EXCEPT ![u].step = "admitted"]
    /\ UNCHANGED <<status, row, disk, det, tidying, restarts, excused>>

HasRoomMutant(count) == count <= Cap
HasRoom(count) == count < Cap
Count(u) ==
    /\ up[u].step = "admitted"
    /\ up' = [up EXCEPT ![u].step = IF HasRoom(Cardinality(row)) THEN "counted" ELSE "idle"]
    /\ UNCHANGED <<status, row, disk, det, tidying, restarts, excused>>

\* The bytes used have been summed, the file is written and its row added to
\* the database session.
Write(u, n) ==
    /\ up[u].step = "counted" /\ Fresh(n)
    /\ Stores({n})
    /\ up' = [up EXCEPT ![u] = [step |-> "written", name |-> n]]
    /\ excused' = excused \ {n}
    /\ UNCHANGED <<status, row, det, tidying, restarts>>

\* Too large, empty, no room left or no disk: what was written is removed, or
\* cannot be.
Reject(u, stuck) ==
    /\ up[u].step = "counted"
    /\ \A n \in stuck : Fresh(n)
    /\ Stores(stuck)
    /\ up' = [up EXCEPT ![u] = NoUpload]
    /\ excused' = excused \ stuck
    /\ UNCHANGED <<status, row, det, tidying, restarts>>

\* The row refers to the session, and the session is touched.
StorableMutant == TRUE
Storable == status # "gone"
CommitUpload(u) ==
    /\ up[u].step = "written"
    /\ row' = IF Storable THEN row \cup {up[u].name} ELSE row
    /\ up' = [up EXCEPT ![u] = NoUpload]
    /\ UNCHANGED <<status, disk, det, tidying, restarts, excused>>

-----------------------------------------------------------------------------
(* DELETE: detach.                                                         *)

AdmitDetach(d) ==
    /\ det[d].step = "idle" /\ status = "active"
    /\ det' = [det EXCEPT ![d].step = "admitted"]
    /\ UNCHANGED <<status, row, disk, up, tidying, restarts, excused>>

\* The row is loaded, and its file goes at once.
Unlink(d, n) ==
    /\ det[d].step = "admitted" /\ n \in row
    /\ Removes({n})
    /\ det' = [det EXCEPT ![d] = [step |-> "unlinked", name |-> n]]
    /\ UNCHANGED <<status, row, up, tidying, restarts, excused>>

\* The row is gone already, or is somebody else's.
NotFound(d) ==
    /\ det[d].step = "admitted"
    /\ det' = [det EXCEPT ![d] = NoDetach]
    /\ UNCHANGED <<status, row, disk, up, tidying, restarts, excused>>

CommitDetach(d) ==
    /\ det[d].step = "unlinked"
    /\ row' = row \ {det[d].name}
    /\ det' = [det EXCEPT ![d] = NoDetach]
    /\ UNCHANGED <<status, disk, up, tidying, restarts, excused>>

-----------------------------------------------------------------------------
(* set_status to ended, with purge_attachments.                            *)

EndBegins ==
    /\ ender.step = "idle" /\ status = "active"
    /\ ender' = [ender EXCEPT !.step = "reading"]
    /\ UNCHANGED <<status, row, disk, requests, eraser, sweep, restarts, excused>>

EndReads ==
    /\ ender.step = "reading"
    /\ Removes(row)
    /\ ender' = [ender EXCEPT !.step = IF row = {} THEN "committing" ELSE "deleting"]
    /\ UNCHANGED <<status, row, requests, eraser, sweep, restarts, excused>>

\* The DELETE takes whatever rows the session has by then.
PurgedMutant == {}
Purged == row
EndDeletes ==
    /\ ender.step = "deleting"
    /\ ender' = [step |-> "committing", names |-> Purged]
    /\ UNCHANGED <<status, row, disk, requests, eraser, sweep, restarts, excused>>

EndCommits ==
    /\ ender.step = "committing"
    /\ status' = IF status = "gone" THEN "gone" ELSE "ended"
    /\ row' = row \ ender.names
    /\ ender' = NoEnd
    /\ UNCHANGED <<disk, requests, eraser, sweep, restarts, excused>>

\* The dashboard's resume.
RevivedMutant == "resume"
Revived == "active"
Revive ==
    /\ status = "ended" /\ status' = Revived
    /\ UNCHANGED <<row, disk, requests, tidying, restarts, excused>>

-----------------------------------------------------------------------------
(* session_delete, with delete_session; prune, with purge_sessions.        *)

\* The names are read, and their files go at once; whatever rows there are by
\* then go with the session.
EraseReads ==
    /\ eraser = "idle" /\ status # "gone"
    /\ Removes(row)
    /\ eraser' = "deleting"
    /\ UNCHANGED <<status, row, requests, ender, sweep, restarts, excused>>

EraseCommits ==
    /\ eraser = "deleting"
    /\ status' = "gone" /\ row' = {}
    /\ eraser' = "idle"
    /\ UNCHANGED <<disk, requests, ender, sweep, restarts, excused>>

-----------------------------------------------------------------------------
(* sweep_once.                                                             *)

\* end_idle_sessions: a session nobody touched for long is to end, which is
\* flushed with the commit and not before.
SweepEnds(idle) ==
    /\ sweep.step = "idle" /\ (idle => status = "active")
    /\ sweep' = [sweep EXCEPT !.step = "ending", !.ends = idle]
    /\ UNCHANGED <<status, row, disk, requests, ender, eraser, restarts, excused>>

\* drop_dead_attachments: the bytes of what an ended session still has.
DeadMutant == {}
Dead == IF status = "ended" THEN row ELSE {}
SweepDrops ==
    /\ sweep.step = "ending"
    /\ Removes(Dead)
    /\ sweep' = [sweep EXCEPT !.step = "dropped", !.names = Dead]
    /\ UNCHANGED <<status, row, requests, ender, eraser, restarts, excused>>

\* purge_sessions: a session that ended long ago.
SweepPurges ==
    /\ sweep.step = "dropped" /\ ~sweep.ends /\ ~sweep.purges /\ status = "ended"
    /\ Removes(row)
    /\ sweep' = [sweep EXCEPT !.names = {}, !.purges = TRUE]
    /\ UNCHANGED <<status, row, requests, ender, eraser, restarts, excused>>

\* Nobody looks at the status again.
SweepCommits ==
    /\ sweep.step = "dropped" /\ ~(sweep.ends /\ status = "gone")
    /\ row' = IF sweep.purges THEN {} ELSE row \ sweep.names
    /\ status' = CASE sweep.purges -> "gone" [] sweep.ends -> "ended" [] OTHER -> status
    /\ sweep' = [NoSweep EXCEPT !.step = "committed"]
    /\ UNCHANGED <<disk, requests, ender, eraser, restarts, excused>>

\* A session that is to end is gone: the commit fails, and with it the sweep.
SweepFails ==
    /\ sweep.step = "dropped" /\ sweep.ends /\ status = "gone"
    /\ sweep' = NoSweep
    /\ UNCHANGED <<status, row, disk, requests, ender, eraser, restarts, excused>>

KnownMutant == disk
Known == row
SweepLists ==
    /\ sweep.step = "committed"
    /\ sweep' = [NoSweep EXCEPT !.step = "listed", !.names = Known]
    /\ UNCHANGED <<status, row, disk, requests, ender, eraser, restarts, excused>>

\* sweep_orphans, which stops at a file that cannot be unlinked.  What it takes
\* from an upload that has not committed, or has since the list was read, is
\* remembered.
SweepUnlinks(left) ==
    /\ sweep.step = "listed" /\ left \subseteq disk \ sweep.names
    /\ disk' = (disk \cap sweep.names) \cup left
    /\ excused' = excused \cup {n \in disk \ disk' : n \in row \/ Held(n)}
    /\ sweep' = NoSweep
    /\ UNCHANGED <<status, row, requests, ender, eraser, restarts>>

\* Whatever was under way is gone, and what was half done stays so.  Before it
\* serves anybody the process ends the session if it has been idle for long
\* (close_orphaned_sessions).
Restart ==
    /\ restarts < Restarts /\ restarts' = restarts + 1
    /\ status' \in {status} \cup (IF status = "active" THEN {"ended"} ELSE {})
    /\ up' = [u \in Uploads |-> NoUpload]
    /\ det' = [d \in Detaches |-> NoDetach]
    /\ ender' = NoEnd /\ eraser' = "idle" /\ sweep' = NoSweep
    /\ excused' = excused \cup (row \ disk)
    /\ UNCHANGED <<row, disk>>

-----------------------------------------------------------------------------
Upload(u) ==
    \/ Count(u) \/ CommitUpload(u) \/ Reject(u, {})
    \/ \E n \in Names : Write(u, n) \/ Reject(u, {n})
Detach(d) == NotFound(d) \/ CommitDetach(d) \/ \E n \in Names : Unlink(d, n)
End == EndReads \/ EndDeletes \/ EndCommits
Sweep ==
    \/ \E idle \in BOOLEAN : SweepEnds(idle)
    \/ SweepDrops \/ SweepPurges \/ SweepCommits \/ SweepFails \/ SweepLists
    \/ \E left \in SUBSET Names : SweepUnlinks(left)

Next ==
    \/ \E u \in Uploads : Admit(u) \/ Upload(u)
    \/ \E d \in Detaches : AdmitDetach(d) \/ Detach(d)
    \/ EndBegins \/ End \/ Revive \/ EraseReads \/ EraseCommits
    \/ Sweep \/ Restart

Spec == Init /\ [][Next]_vars

\* Awaits are answered and the sweep comes round; nobody has to upload.  What
\* keeps a file from being unlinked does not keep it for ever.
FairSpec ==
    /\ Spec
    /\ \A u \in Uploads : WF_vars(Upload(u))
    /\ \A d \in Detaches : WF_vars(Detach(d))
    /\ WF_vars(End) /\ WF_vars(EraseCommits) /\ WF_vars(Sweep) /\ SF_vars(SweepUnlinks({}))

-----------------------------------------------------------------------------
(* Properties.                                                             *)

\* Every variable has its type.
TypeOK ==
    /\ status \in {"active", "ended", "gone"}
    /\ row \subseteq Names /\ disk \subseteq Names /\ excused \subseteq Names
    /\ up \in [Uploads -> [step : {"idle", "admitted", "counted", "written"},
                           name : Names \cup {None}]]
    /\ det \in [Detaches -> [step : {"idle", "admitted", "unlinked"}, name : Names \cup {None}]]
    /\ ender \in [step : {"idle", "reading", "deleting", "committing"}, names : SUBSET Names]
    /\ sweep \in [step : {"idle", "ending", "dropped", "committed", "listed"},
                  names : SUBSET Names, ends : BOOLEAN, purges : BOOLEAN]
    /\ eraser \in {"idle", "deleting"}
    /\ restarts \in 0..Restarts

\* The count is tested long before the row is committed, so the cap can be
\* passed; but what is listed and what has passed the count and may yet be
\* never exceed it by more than the uploads beside the one that reaches it
\* (upload: count >= max_attachments_per_session).
Passed == {u \in Uploads : up[u].step \in {"counted", "written"}}
OvershootBounded ==
    Cardinality(row) + Cardinality(Passed) <= Cap + Cardinality(Uploads) - 1

\* A row whose bytes are gone is on its way out, unless a restart came between
\* the two or the orphan sweep took an upload for an orphan: nothing else, no
\* other meeting of upload, detach, end and sweep, loses what is listed.
Leaving(n) ==
    \/ \E d \in Detaches : det[d].name = n
    \/ "deleting" \in {eraser, ender.step} \/ n \in ender.names
    \/ sweep.step = "dropped" /\ (sweep.purges \/ n \in sweep.names)
LossExplained == \A n \in row \ disk : n \in excused \/ Leaving(n)

\* "This leaves nothing at all": nothing that was under way when a session was
\* deleted brings it or a row of it back (session_delete, purge_sessions).
DeletedForGood ==
    [][status = "gone" => status' = "gone" /\ row' = {}]_vars

\* "They go with the session that carried them": whatever uploads were still
\* under way when it ended, an ended session is left with nothing, unless it
\* is revived first (purge_attachments, drop_dead_attachments, sweep_orphans).
DeadLeaveNothing ==
    []<>(row \cup disk = {} \/ status = "active")

\* Bytes that no row and no upload claims are deleted in the end, also when a
\* restart or a failed removal left them (sweep_orphans).
Orphan(n) == n \in disk \ row /\ ~Held(n)
OrphansGo == \A n \in Names : []<>~Orphan(n)

-----------------------------------------------------------------------------
(* What the docs promise and these interleavings refute.                   *)

\* "Delete files with no row pointing at them": a file the orphan sweep
\* deletes has no row.
SweptHadNoRow ==
    [][sweep.step = "listed" /\ sweep'.step = "idle" => (disk \ disk') \cap row = {}]_vars
=============================================================================
