-------------------------------- MODULE Feed --------------------------------
(***************************************************************************)
(* What people write into a session one item at a time: the chat, or the   *)
(* strokes of the shared board (app/actions.py, app/routers/ws.py _chat,   *)
(* _board).                                                                *)
(*                                                                         *)
(* An item gets its id when it is inserted, is seen by others when its     *)
(* transaction commits, and is broadcast after that.  In between its       *)
(* writer trims the feed: it counts the rows, and when there are too many  *)
(* finds the cutoff and deletes what is not newer.  Reads see what has     *)
(* committed and the reader's own row (READ COMMITTED).                    *)
(*                                                                         *)
(* An item belongs to its session by a foreign key: to insert it is to     *)
(* share the session's row until the transaction is over.  Every writer    *)
(* also updates that row (touch), with the flush that inserts the item or  *)
(* with the commit of a clear, and has it to itself from then on.  Nothing *)
(* else keeps two trims apart, and two writers that share the row both     *)
(* want it: the database ends one of them.                                 *)
(*                                                                         *)
(* Texts, points and roles are left out, and so is whose strokes "mine"    *)
(* are.  An arriving viewer is in the room first and gets history later.   *)
(***************************************************************************)
EXTENDS Integers, FiniteSets

CONSTANTS
    Senders,  \* sockets whose frame may be in flight at one time
    Viewers,  \* sockets of approved people that come and go
    Keep,     \* max_chat_history, max_board_strokes
    MaxId     \* how many items are ever written (a bound)

ASSUME FeedAssumption == Keep \in Nat \ {0} /\ MaxId \in Nat

VARIABLES
    kind,    \* "chat" or "board"
    last,    \* the id given out last
    rows,    \* ids of the committed rows
    writer,  \* what each frame in flight has done so far
    viewer,  \* where each viewer is
    got,     \* the items each viewer was sent since they arrived
    sent     \* history: items whose broadcast is over

people == <<viewer, got>>
feedVars == <<kind, last, rows, writer, people, sent>>

-----------------------------------------------------------------------------
\* Of a set of items, those that Keep newer ones follow.
Newer(items, r) == {s \in items : s > r}
Beyond(items) == {r \in items : Cardinality(Newer(items, r)) >= Keep}
Newest(items) == items \ Beyond(items)
Oldest(items) == {r \in items : Cardinality({s \in items : s < r}) < Keep}

At(step, id, doomed) == [step |-> step, id |-> id, doomed |-> doomed]
Idle == At("idle", 0, {})

FeedInit ==
    /\ kind \in {"chat", "board"}
    /\ last = 0 /\ rows = {} /\ sent = {}
    /\ writer = [w \in Senders |-> Idle]
    /\ viewer = [v \in Viewers |-> "out"]
    /\ got = [v \in Viewers |-> {}]

-----------------------------------------------------------------------------
(* record_chat and record_stroke, with _trim.                              *)

\* The session's row: held by whoever updated it, shared by whoever inserted.
Holding(w) == writer[w].step \in {"flushed", "over", "ready"}
Sharing(w) == writer[w].step = "inserted"
Shareable(w) == \A o \in Senders \ {w} : ~Holding(o)
TurnMutant(w) == TRUE
Turn(w) == Shareable(w) /\ \A o \in Senders \ {w} : ~Sharing(o)

\* The rows that transactions under way have deleted keep others waiting.
Deleting == UNION {writer[w].doomed : w \in Senders}

\* The flush is an INSERT and an UPDATE of the session's row, in no order that
\* the tables' definitions would fix.  The INSERT draws the id, and then shares.
Inserts(w) ==
    /\ writer[w].step = "idle" /\ last < MaxId
    /\ last' = last + 1
    /\ writer' = [writer EXCEPT ![w] = At("drawn", last + 1, {})]
    /\ UNCHANGED <<kind, rows, people, sent>>

Shares(w) ==
    /\ writer[w].step = "drawn" /\ Shareable(w)
    /\ writer' = [writer EXCEPT ![w].step = "inserted"]
    /\ UNCHANGED <<kind, last, rows, people, sent>>

UpdatesFirst(w) ==
    /\ writer[w].step = "idle" /\ last < MaxId /\ Turn(w)
    /\ last' = last + 1
    /\ writer' = [writer EXCEPT ![w] = At("flushed", last + 1, {})]
    /\ UNCHANGED <<kind, rows, people, sent>>

Flush(w) ==
    /\ writer[w].step = "inserted" /\ Turn(w)
    /\ writer' = [writer EXCEPT ![w].step = "flushed"]
    /\ UNCHANGED <<kind, last, rows, people, sent>>

\* total <= keep: nothing to trim.
FewMutant(total) == total <= Keep + 1
Few(total) == total <= Keep
Counts(w) ==
    /\ writer[w].step = "flushed"
    /\ writer' = [writer EXCEPT ![w].step =
                    IF Few(Cardinality(rows \cup {writer[w].id})) THEN "ready" ELSE "over"]
    /\ UNCHANGED <<kind, last, rows, people, sent>>

Cuts(w) ==
    LET items == rows \cup {writer[w].id} IN
    /\ writer[w].step = "over" /\ Beyond(items) \cap Deleting = {}
    /\ writer' = [writer EXCEPT ![w].step = "ready", ![w].doomed = Beyond(items)]
    /\ UNCHANGED <<kind, last, rows, people, sent>>

\* board_clear deletes everybody's strokes, or somebody's.
Clear(w, gone) ==
    /\ kind = "board" /\ writer[w].step = "idle" /\ gone \cap Deleting = {}
    /\ writer' = [writer EXCEPT ![w] = At("cleared", 0, gone)]
    /\ UNCHANGED <<kind, last, rows, people, sent>>

Written(w) == IF writer[w].id = 0 THEN {} ELSE {writer[w].id}
Commit(w) ==
    /\ writer[w].step = "ready" \/ (writer[w].step = "cleared" /\ Turn(w))
    /\ rows' = (rows \cup Written(w)) \ writer[w].doomed
    /\ writer' = [writer EXCEPT ![w].step = "committed", ![w].doomed = {}]
    /\ UNCHANGED <<kind, last, people, sent>>

\* The database ends a deadlock, or the process dies: nothing was written.
RollsBackMutant(w) ==
    /\ writer[w].step \notin {"idle", "committed"}
    /\ writer' = [writer EXCEPT ![w].step = "idle", ![w].id = 0]
    /\ UNCHANGED <<kind, last, rows, people, sent>>
RollsBack(w) ==
    /\ writer[w].step \notin {"idle", "committed"}
    /\ writer' = [writer EXCEPT ![w] = Idle]
    /\ UNCHANGED <<kind, last, rows, people, sent>>

-----------------------------------------------------------------------------
(* Delivery.                                                               *)

\* hub.broadcast: to every approved connection in the room, greeted or not.
HearsMutant(v) == viewer[v] = "live"
Hears(v) == viewer[v] # "out"
Broadcast(w) ==
    /\ writer[w].step = "committed"
    /\ got' = [v \in Viewers |-> IF Hears(v) THEN got[v] \cup Written(w) ELSE got[v]]
    /\ sent' = sent \cup Written(w)
    /\ writer' = [writer EXCEPT ![w] = Idle]
    /\ UNCHANGED <<kind, last, rows, viewer>>

\* register, or the approval of somebody who is in the lobby.
ArrivedMutant(v) == "here"
Arrived(v) == "arrived"
Arrive(v) ==
    /\ viewer[v] = "out"
    /\ viewer' = [viewer EXCEPT ![v] = Arrived(v)]
    /\ UNCHANGED <<kind, last, rows, writer, got, sent>>

\* chat_history reads the newest rows, board_strokes the oldest.
History == IF kind = "chat" THEN Newest(rows) ELSE Oldest(rows)
ReadsHistory(v) ==
    /\ viewer[v] = "arrived"
    /\ viewer' = [viewer EXCEPT ![v] = "reading"]
    /\ got' = [got EXCEPT ![v] = @ \cup History]
    /\ UNCHANGED <<kind, last, rows, writer, sent>>

\* ... and it is sent.
Greet(v) ==
    /\ viewer[v] = "reading"
    /\ viewer' = [viewer EXCEPT ![v] = "live"]
    /\ UNCHANGED <<kind, last, rows, writer, got, sent>>

Leave(v) ==
    /\ viewer[v] # "out"
    /\ viewer' = [viewer EXCEPT ![v] = "out"]
    /\ got' = [got EXCEPT ![v] = {}]
    /\ UNCHANGED <<kind, last, rows, writer, sent>>

-----------------------------------------------------------------------------
Frame(w) ==
    \/ Inserts(w) \/ Shares(w) \/ UpdatesFirst(w) \/ Flush(w) \/ Counts(w) \/ Cuts(w)
    \/ \E gone \in SUBSET rows : Clear(w, gone)
    \/ Commit(w) \/ RollsBack(w) \/ Broadcast(w)
View(v) == Arrive(v) \/ ReadsHistory(v) \/ Greet(v) \/ Leave(v)

FeedNext == (\E w \in Senders : Frame(w)) \/ (\E v \in Viewers : View(v))

FeedSpec == FeedInit /\ [][FeedNext]_feedVars

-----------------------------------------------------------------------------
(* Properties.                                                             *)

Ids == 1..MaxId

\* Every variable has its type.
FeedTypeOK ==
    /\ kind \in {"chat", "board"} /\ last \in 0..MaxId
    /\ rows \subseteq Ids /\ sent \subseteq Ids
    /\ writer \in [Senders -> [step : {"idle", "drawn", "inserted", "flushed", "over",
                                       "ready", "cleared", "committed"},
                               id : 0..MaxId, doomed : SUBSET Ids]]
    /\ viewer \in [Viewers -> {"out", "arrived", "reading", "live"}]
    /\ got \in [Viewers -> SUBSET Ids]

\* "A long session should not grow without bound": however many write at once,
\* the feed never holds more than is to be kept (_trim).
RowsBounded == Cardinality(rows) <= Keep

\* The count, the cutoff and the delete are statements of their own, but what a
\* writer commits is the newest of what had committed by then and its own, no
\* more and no less (_trim; the session's row, by touch, keeps the others out).
TrimIsExact ==
    [][\A w \in Senders :
         writer[w].step = "ready" /\ writer'[w].step = "committed" =>
             rows' = Newest(rows \cup Written(w))]_feedVars

\* When everybody who writes waits, it is for one of two reasons.  Two have
\* inserted, and want for themselves the session's row that both share; or a
\* trim wants rows that a clearing of the board has deleted, which wants the
\* session's row the trim holds.  Whoever holds that row never waits in the chat,
\* for no trim meets another (record_chat, record_stroke, clear_board, _trim).
UnderWay == {w \in Senders : writer[w].step \notin {"idle", "committed"}}
WantsRows(w) == writer[w].step = "over" /\ Beyond(rows \cup {writer[w].id}) \cap Deleting # {}
Waits(w) ==
    \/ WantsRows(w)
    \/ writer[w].step = "drawn" /\ ~Shareable(w)
    \/ writer[w].step \in {"inserted", "cleared"} /\ ~Turn(w)
BothShare(w, o) == w # o /\ Sharing(w) /\ Sharing(o)
Meet(w, o) ==
    /\ kind = "board" /\ writer[w].step = "over" /\ writer[o].step = "cleared"
    /\ Beyond(rows \cup {writer[w].id}) \cap writer[o].doomed # {}
OnlyTheseBlock ==
    UnderWay # {} /\ (\A w \in UnderWay : Waits(w)) =>
        \E w, o \in UnderWay : BothShare(w, o) \/ Meet(w, o)

\* To those who read it the feed is one list to which items are added one at a
\* time, and only what Keep newer ones follow or a clearing takes goes away
\* (Timeline.tla; record_chat, record_stroke, clear_board).
Promise == INSTANCE Timeline WITH items <- rows
KeepsPromise == Promise!Spec

\* Whoever has been greeted has every item that was sent and not deleted since,
\* from the history or live: none falls between the two (register before
\* _greet, send_side_channels; README.md, "so somebody admitted halfway through
\* still sees what happened").
NothingMissed ==
    \A v \in Viewers : viewer[v] = "live" => rows \cap sent \subseteq got[v]
=============================================================================
