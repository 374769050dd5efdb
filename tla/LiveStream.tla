----------------------------- MODULE LiveStream -----------------------------
(***************************************************************************)
(* The live tail of the Logs and Events pages: a page opens a stream of    *)
(* server-sent events, keeps a cursor (the highest number it received),    *)
(* and, whenever the stream ends, waits and opens another one from there.  *)
(* The gateway numbers its rows, keeps the last ones in a ring, and drops  *)
(* a subscriber that falls behind.  A row is a pair: the process that      *)
(* appended it (ep) and its number in that process.                        *)
(*                                                                         *)
(* Left out: the filters, which only hide rows; the length of the wait     *)
(* between two streams; a second load of the history while one runs, which *)
(* the filters of the Events page can start.                               *)
(***************************************************************************)
EXTENDS PageState, Integers, Sequences, FiniteSets, SequencesExt

CONSTANTS
  RingCap,        \* rows the gateway keeps
  SubCap,         \* rows that may wait for a subscriber
  ReplayMax,      \* rows of a replay
  HistoryMax,     \* rows of a history
  LiveCap,        \* rows of the tail on the page
  MaxSeq,         \* bound: rows a process appends
  Troubles,       \* bound: refused requests, streams cut and restarts of the gateway
  Clicks          \* bound: uses of the controls

ASSUME StreamAssumption ==
  /\ {RingCap, SubCap, ReplayMax, HistoryMax, LiveCap} \subseteq Nat \ {0}
  /\ {MaxSeq, Troubles, Clicks} \subseteq Nat

VARIABLES
  tail,           \* which page it is: "logs" or "events"
  view,           \* the state of the page
  loop,           \* where the loop of its effect is
  old,            \* loops that were stopped and have not returned yet
  load,           \* the history load under way
  log,            \* the gateway: its process, the last number it gave, and the ring from lo on
  sub,            \* the handler of the stream, and its subscription
  wire,           \* what was sent on the stream and not read yet
  seen,           \* what became of the rows, as far as the properties ask
  spent           \* what the bounds count

vars == <<tail, view, loop, old, load, log, sub, wire, seen, spent>>

Ready == <<0, 0>>
Row(s) == <<log.ep, s>>
MaxOf(a, b) == IF a >= b THEN a ELSE b

\* Query: the last n numbers of the ring.
Newest(n) == MaxOf(log.lo, log.seq + 1 - n)..log.seq

\* The rows of an interval of numbers, oldest first.
Ascending(S) ==
  LET lowest == CHOOSE s \in S : \A t \in S : s <= t
  IN [k \in 1..Cardinality(S) |-> Row(lowest + k - 1)]

NoSub == [at |-> "none", closed |-> FALSE, after |-> 0, last |-> 0, buf |-> <<>>]
NoLoad == [st |-> "none", ep |-> 1, rows |-> {}]

\* seen: the rows the page received (got); those nobody owes it, which were there before its
\* first stream or are beyond what a replay may send (free); those the code itself passes over
\* after the first stream, in LoadArrives and Subscribe (lost); those a subscriber that was
\* dropped had not been sent (due); the process whose the cursor is (ep); and whether there
\* was a stream (begun).
NothingSeen == [got |-> {}, free |-> {}, lost |-> {}, due |-> {}, ep |-> 1, begun |-> FALSE]

\* Rows that no stream will send any more: before the first stream nobody owes them.
Pass(rows) == IF seen.begun THEN [seen EXCEPT !.lost = @ \cup (rows \ (seen.got \cup seen.free))]
              ELSE [seen EXCEPT !.free = @ \cup rows]

----------------------------------------------------------------------------
(* The page *)

HistoryOf(v) == [loading |-> v.loading, loaded |-> v.loaded, err |-> v.err,
                 count |-> v.history, keepStale |-> TRUE]

\* streamStartBlocked
StreamBlocked(v) == InventoryBlocksMutation(HistoryOf(v))
Running(v) == v.live /\ ~v.paused /\ ~StreamBlocked(v)

\* classifyStreamConn: what the status line says.
Shown(v) == CASE ~v.live -> "off"
              [] v.live /\ v.paused -> "paused"
              [] v.live /\ ~v.paused /\ v.conn = "off" -> "connecting"
              [] OTHER -> v.conn

UpTo(n, rows) == SubSeq(rows, 1, IF Len(rows) < n THEN Len(rows) ELSE n)

\* Mutant of MergeLive: the row of the same number stays.
MergeAll(rows, r) == UpTo(LiveCap, <<r>> \o rows)

\* The rows without the one of number n (of rows that differ in their numbers).
Without(rows, n) ==
  LET same == {k \in 1..Len(rows) : rows[k][2] = n}
  IN IF same = {} THEN rows ELSE RemoveAt(rows, CHOOSE k \in same : TRUE)

\* mergeLive: the new row first, the row of the same number out, at most LIVE_CAP.
MergeLive(rows, r) == UpTo(LiveCap, <<r>> \o Without(rows, r[2]))

\* The head of the loop: a stream is asked for, from the cursor if there is one.
Asks(v) == [NoSub EXCEPT !.at = "asked", !.after = v.cursor]

\* The effect of [live, paused, blocked], after a handler left the page as v: the loop
\* that runs is stopped and its stream aborted, and a new loop begins when it may.
Effect(v) ==
  LET w == IF StreamBlocked(v) THEN [v EXCEPT !.live = FALSE, !.paused = FALSE, !.conn = "off"]
           ELSE IF ~v.live THEN [v EXCEPT !.conn = "off"]
           ELSE IF v.paused THEN [v EXCEPT !.conn = "paused"]
           ELSE v
  IN IF Running(w) /\ Running(view)
     THEN view' = w /\ UNCHANGED <<loop, old, sub, wire>>
     ELSE /\ view' = IF Running(w) THEN [w EXCEPT !.conn = "connecting"] ELSE w
          /\ loop' = IF Running(w) THEN "asking" ELSE "none"
          /\ old' = IF loop = "none" THEN old ELSE old + 1
          /\ sub' = IF Running(w) THEN Asks(w) ELSE NoSub
          /\ wire' = <<>>

Click == spent.clicks < Clicks /\ spent' = [spent EXCEPT !.clicks = @ + 1]

\* Start and Stop, or the Live control; Pause and Resume; and Clear, which keeps the cursor.
StartStop ==
  /\ Click /\ ~StreamBlocked(view)
  /\ Effect(IF view.live THEN [view EXCEPT !.live = FALSE, !.paused = FALSE] ELSE [view EXCEPT !.live = TRUE])
  /\ UNCHANGED <<tail, load, log, seen>>

PauseResume ==
  /\ Click /\ ~StreamBlocked(view) /\ view.live
  /\ Effect([view EXCEPT !.paused = ~@])
  /\ UNCHANGED <<tail, load, log, seen>>

Clear ==
  /\ Click /\ ~StreamBlocked(view) /\ view.live
  /\ view' = [view EXCEPT !.rows = <<>>]
  /\ UNCHANGED <<tail, loop, old, load, log, sub, wire, seen>>

\* load, and its answer: on the Logs page alone it moves the cursor, to the newest row of the
\* history.  The history is as long as its limit: rows between the old cursor and the new one
\* that it does not hold are passed over.
Refresh ==
  /\ Click /\ ~view.loading
  /\ view' = [view EXCEPT !.loading = TRUE]
  /\ load' = [NoLoad EXCEPT !.st = "sent"]
  /\ UNCHANGED <<tail, loop, old, log, sub, wire, seen>>

\* The rows between the cursor and the newest row of the history that are not in the history.
Between(max) ==
  {<<load.ep, s>> : s \in {t \in 1..max : t \notin load.rows /\ (t > view.cursor \/ load.ep # seen.ep)}}

Highest(S) == CHOOSE s \in S \cup {0} : \A t \in S : t <= s

LoadArrives ==
  /\ load.st \notin {"none", "sent"}
  /\ LET max == Highest(load.rows)
         raised == load.st = "ok" /\ tail = "logs" /\ max > view.cursor
         v == IF load.st = "ok"
              THEN [view EXCEPT !.history = Cardinality(load.rows), !.loaded = TRUE, !.err = "none", !.loading = FALSE,
                                !.cursor = IF raised THEN max ELSE @]
              ELSE [view EXCEPT !.err = load.st, !.loading = FALSE]
     IN /\ Effect(v)
        /\ seen' = IF tail = "events" \/ load.st # "ok" THEN seen
                   ELSE [(IF raised THEN Pass(Between(max)) ELSE seen) EXCEPT
                           !.got = @ \cup {<<load.ep, s>> : s \in load.rows},
                           !.ep = IF raised THEN load.ep ELSE @]
  /\ load' = NoLoad
  /\ UNCHANGED <<tail, log, spent>>

----------------------------------------------------------------------------
(* The loop of the effect *)

\* onReady, or onEvent of a row.
Hear ==
  /\ loop \in {"asking", "reading"} /\ wire # <<>>
  /\ LET r == Head(wire) IN
     IF r = Ready
     THEN /\ view' = [view EXCEPT !.conn = "live"]
          /\ loop' = "reading"
          /\ UNCHANGED seen
     ELSE /\ view' = [view EXCEPT !.cursor = MaxOf(@, r[2]), !.rows = MergeLive(@, r)]
          /\ seen' = [seen EXCEPT !.got = @ \cup {r}, !.ep = IF r[2] > view.cursor THEN r[1] ELSE @]
          /\ UNCHANGED loop
  /\ wire' = Tail(wire)
  /\ UNCHANGED <<tail, old, load, log, sub, spent>>

\* Mutant of StreamEnded: a loop that was stopped goes on to say that it reconnects.
EndedAnyway(v, stopped) == [v EXCEPT !.conn = "reconnect"]

\* What follows the await of the stream: a loop that was stopped returns.
StreamEnded(v, stopped) == IF stopped THEN v ELSE [v EXCEPT !.conn = "reconnect"]

\* The stream ended or failed, and everything that came of it was read.
LoopWaits ==
  /\ loop \in {"asking", "reading"} /\ wire = <<>> /\ sub.at \in {"ended", "cut"}
  /\ view' = StreamEnded(view, FALSE)
  /\ loop' = "waiting" /\ sub' = NoSub
  /\ UNCHANGED <<tail, old, load, log, wire, seen, spent>>

OldLoopReturns ==
  /\ old > 0 /\ old' = old - 1
  /\ view' = StreamEnded(view, TRUE)
  /\ UNCHANGED <<tail, loop, load, log, sub, wire, seen, spent>>

\* The timer: the loop begins again.
WaitOver ==
  /\ loop = "waiting"
  /\ view' = [view EXCEPT !.conn = "connecting"]
  /\ loop' = "asking" /\ sub' = Asks(view)
  /\ UNCHANGED <<tail, old, load, log, wire, seen, spent>>

----------------------------------------------------------------------------
(* The gateway *)

\* A row is appended: a subscriber whose buffer is full is dropped.
Appended ==
  /\ log.seq < MaxSeq
  /\ log' = [log EXCEPT !.seq = @ + 1, !.lo = MaxOf(@, log.seq + 2 - RingCap)]
  /\ sub' = IF sub.at \notin {"subscribed", "live"} \/ sub.closed THEN sub
            ELSE IF Len(sub.buf) < SubCap THEN [sub EXCEPT !.buf = Append(@, log.seq + 1)]
            ELSE [sub EXCEPT !.closed = TRUE]
  /\ UNCHANGED <<tail, view, loop, old, load, wire, seen, spent>>

\* Mutant of From: a cursor that is ahead is kept.
FromCursor == sub.after

\* The stream handler subscribes.  Only the one of the logs forgets a cursor that is ahead.
From == IF tail = "logs" /\ sub.after > log.seq THEN 0 ELSE sub.after

\* Mutant of Replayed: what is replayed was read before the row that came last.
ReplayedTooEarly == {s \in Newest(ReplayMax) : s > sub.after} \ {log.seq}

\* The rows of a replay.
Replayed == {s \in Newest(ReplayMax) : s > sub.after}

\* Rows that are there when a stream without a cursor begins are not replayed, nor those up to
\* a cursor that is of the numbers of an earlier process.
Unasked == {Row(s) : s \in {t \in 1..log.seq : From = 0 \/ (seen.ep # log.ep /\ t <= From)}}

Subscribe ==
  /\ sub.at = "asked"
  /\ sub' = [sub EXCEPT !.at = "subscribed", !.after = From, !.last = From]
  /\ wire' = <<Ready>>
  /\ seen' = [Pass(Unasked) EXCEPT !.begun = TRUE]
  /\ UNCHANGED <<tail, view, loop, old, load, log, spent>>

\* The replay, oldest first; rows that left the ring, or beyond its limit, are not sent.
Replay ==
  /\ sub.at = "subscribed"
  /\ IF sub.after = 0 THEN UNCHANGED <<wire, seen>> /\ sub' = [sub EXCEPT !.at = "live"]
     ELSE /\ wire' = wire \o Ascending(Replayed)
          /\ sub' = [sub EXCEPT !.at = "live", !.last = MaxOf(@, Highest(Replayed))]
          /\ seen' = [seen EXCEPT !.free = @ \cup
               {Row(s) : s \in {t \in 1..log.seq : t > sub.after /\ t \notin Newest(ReplayMax)}}]
  /\ UNCHANGED <<tail, view, loop, old, load, log, spent>>

\* A row that waits is sent, unless the replay had it.
Deliver ==
  /\ sub.at = "live" /\ sub.buf # <<>>
  /\ LET s == Head(sub.buf) IN
     /\ wire' = IF s > sub.last THEN Append(wire, Row(s)) ELSE wire
     /\ sub' = [sub EXCEPT !.buf = Tail(@), !.last = MaxOf(@, s)]
  /\ UNCHANGED <<tail, view, loop, old, load, log, seen, spent>>

\* The channel of a subscriber that was dropped is read to its end: the next stream has to
\* replay what it was not sent.
HandlerEnds ==
  /\ sub.at = "live" /\ sub.closed /\ sub.buf = <<>>
  /\ sub' = [sub EXCEPT !.at = "ended"]
  /\ seen' = [seen EXCEPT !.due = @ \cup {Row(s) : s \in (sub.last + 1)..log.seq}]
  /\ UNCHANGED <<tail, view, loop, old, load, log, wire, spent>>

ServeLoad ==
  /\ load.st = "sent"
  /\ load' = [st |-> "ok", ep |-> log.ep, rows |-> Newest(HistoryMax)]
  /\ UNCHANGED <<tail, view, loop, old, log, sub, wire, seen, spent>>

----------------------------------------------------------------------------
(* What may go wrong *)

Trouble == spent.troubles < Troubles /\ spent' = [spent EXCEPT !.troubles = @ + 1]

LoadFails ==
  /\ Trouble /\ load.st = "sent"
  /\ \E st \in {"fail", "denied"} : load' = [load EXCEPT !.st = st]
  /\ UNCHANGED <<tail, view, loop, old, log, sub, wire, seen>>

\* The stream is refused, or cut: what was sent last may not arrive.
Cut(n) == wire' = SubSeq(wire, 1, n) /\ sub' = [NoSub EXCEPT !.at = "cut"]
StreamFails ==
  /\ Trouble /\ sub.at \in {"asked", "subscribed", "live"}
  /\ \E n \in 0..Len(wire) : Cut(n)
  /\ UNCHANGED <<tail, view, loop, old, load, log, seen>>

\* The gateway restarts: its rows are gone and its numbers begin again.
Restart ==
  /\ Trouble
  /\ log' = [ep |-> log.ep + 1, lo |-> 1, seq |-> 0]
  /\ load' = IF load.st = "sent" THEN [load EXCEPT !.st = "fail"] ELSE load
  /\ IF sub.at = "none" THEN UNCHANGED <<sub, wire>> ELSE \E n \in 0..Len(wire) : Cut(n)
  /\ UNCHANGED <<tail, view, loop, old, seen>>

----------------------------------------------------------------------------
Init ==
  /\ tail \in {"logs", "events"}
  /\ view = [live |-> FALSE, paused |-> FALSE, conn |-> "off", loading |-> TRUE, loaded |-> FALSE,
             err |-> "none", history |-> 0, cursor |-> 0, rows |-> <<>>]
  /\ loop = "none" /\ old = 0
  /\ load = [NoLoad EXCEPT !.st = "sent"]
  /\ log = [ep |-> 1, lo |-> 1, seq |-> 0]
  /\ sub = NoSub /\ wire = <<>>
  /\ seen = NothingSeen
  /\ spent = [clicks |-> 0, troubles |-> 0]

User == StartStop \/ PauseResume \/ Clear \/ Refresh
Loop == Hear \/ LoopWaits \/ WaitOver
Handler == Subscribe \/ Replay \/ Deliver \/ HandlerEnds
Own == LoadArrives \/ Loop \/ Handler \/ ServeLoad
Next == User \/ Own \/ OldLoopReturns \/ Appended \/ LoadFails \/ StreamFails \/ Restart

Spec == Init /\ [][Next]_vars

----------------------------------------------------------------------------
(* Properties *)

\* The tail on the page is newest first, across streams, replays and processes; no number
\* is there twice, and it is not longer than LIVE_CAP.
Newer(r, x) == r[1] > x[1] \/ (r[1] = x[1] /\ r[2] > x[2])
NewestFirst ==
  /\ Len(view.rows) <= LiveCap
  /\ \A j, k \in 1..Len(view.rows) : j < k =>
       Newer(view.rows[j], view.rows[k]) /\ view.rows[j][2] # view.rows[k][2]

\* The status line tells the truth: one loop runs when the tail is started, not paused and
\* not blocked, and none otherwise; it says that it reconnects while it waits, and live only
\* for a stream whose ready came.  A loop that was stopped says nothing any more.
StatusIsTrue ==
  /\ loop = "none" <=> ~Running(view)
  /\ Shown(view) = "live" <=> loop = "reading"
  /\ Shown(view) = "reconnect" <=> loop = "waiting"
  /\ Shown(view) = "connecting" <=> loop = "asking"

\* A row up to the cursor was received, unless nobody owes it or the code passed over it at
\* one of two places: a history that does not reach back to the cursor raises it
\* (LogsPage.tsx:84-91), or a later stream begins with no cursor, or with one of the process
\* before (handlers_logs.go:54-58).  Pauses, cuts, drops of a slow subscriber and replays
\* lose no row.  (On the Events page, only until the gateway restarts.)
Told(s) == Row(s) \in seen.got \cup seen.free \cup seen.lost
NothingSkipped ==
  (tail = "logs" \/ log.ep = 1) /\ seen.ep = log.ep => \A s \in 1..view.cursor : Told(s)

\* When nothing more can happen by itself, a tail that runs is connected and has every row
\* that is owed, but for those passed over at these two places: no stream, replay or wait is
\* ever the last one.  (On the Events page, only until the gateway restarts: its handler hides
\* the rows whose numbers are below the cursor of the process before.)
AtRest ==
  /\ load.st = "none" /\ wire = <<>> /\ loop # "waiting"
  /\ sub.at \in {"none", "live"} /\ sub.buf = <<>> /\ ~sub.closed
RestIsCaughtUp ==
  Running(view) /\ (tail = "logs" \/ log.ep = 1) /\ AtRest =>
    Shown(view) = "live" /\ \A s \in 1..log.seq : Told(s)

\* "Slow subscribers are disconnected so they reconnect and replay" (docs/qa/111-logs.md:13):
\* a tail that runs and is at rest has received, of what a subscriber that was dropped had not
\* been sent, every row that is still in the ring.
DropIsReplayed ==
  Running(view) /\ AtRest =>
    \A s \in log.lo..log.seq : Row(s) \in seen.due => Row(s) \in seen.got

=============================================================================
