--------------------------- MODULE ConsoleProofs ----------------------------
(***************************************************************************)
(* Proofs about what the console shows: the live tail (LiveStream), what a *)
(* page says of a load (PageState), and the addresses (ConsoleRoute), for  *)
(* any ring, buffer, replay and history, any hash, and any number of       *)
(* clicks and troubles.                                                    *)
(*                                                                         *)
(* What the status line says follows from the state of one loop, though it *)
(* is written by handlers, by the effect, by the loop that runs and by     *)
(* loops that were stopped: StatusIsTrue is inductive once the fields of   *)
(* the page are known, and that a tail whose start is blocked is off.      *)
(*                                                                         *)
(* That no row is lost and none is out of order needs what is on its way   *)
(* between the ring and the page (StreamInv).  A row goes from the ring by *)
(* a history, by a replay, or through the buffer of the subscriber, then   *)
(* on the wire, and any suffix of that may be dropped.  So the invariant   *)
(* speaks of prefixes: all rows before one on the wire are received,       *)
(* passed over already, or before it on the wire (Accounted); all rows     *)
(* before one in the buffer likewise; and as long as the subscriber was    *)
(* not dropped, all rows of the process.  What is cut is then above the    *)
(* cursor, and the next stream asks for it.  Rows that a history or a new  *)
(* stream passes over are in seen.lost at once, so the theorems say that   *)
(* nothing else is lost.  For the order, what was sent is newer than what  *)
(* is shown, and older than what waits (Past).                             *)
(*                                                                         *)
(* The theorems about what a page shows of a load come after these; those  *)
(* about the address bar are last: writing a route and reading it gives    *)
(* the route (RoundTrip), and what is read of any hash is a route          *)
(* (ReadRoute), and they rest on these two.                                *)
(***************************************************************************)
EXTENDS LiveStream, ConsoleRoute, SequenceTheorems, FiniteSetTheorems, WellFoundedInduction, TLAPS

Fields == {"live", "paused", "conn", "loading", "loaded", "err", "history", "cursor", "rows"}

StatusInv ==
  /\ DOMAIN view = Fields
  /\ view.live \in BOOLEAN /\ view.paused \in BOOLEAN
  /\ loop \in {"none", "asking", "reading", "waiting"}
  /\ StreamBlocked(view) => ~view.live
  /\ StatusIsTrue

\* A page that differs in what the status line does not read.
LEMMA SameStatus ==
  ASSUME StatusInv, DOMAIN view' = Fields, UNCHANGED loop,
         view'.live = view.live, view'.paused = view.paused, view'.conn = view.conn,
         view'.loading = view.loading, view'.loaded = view.loaded, view'.err = view.err,
         view'.history = view.history
  PROVE  StatusInv'
BY DEF StatusInv, StatusIsTrue, Shown, Running, StreamBlocked, HistoryOf, InventoryBlocksMutation, Kind, KeepsStale

\* The effect of [live, paused, blocked]: a page whose loop starts or stops says so, and one
\* whose loop goes on says what it said before.
LEMMA EffectStatus ==
  ASSUME StatusInv, NEW v, DOMAIN v = Fields, v.live \in BOOLEAN, v.paused \in BOOLEAN,
         v.conn = view.conn, Effect(v)
  PROVE  StatusInv'
<1>1. PICK w : /\ w = IF StreamBlocked(v) THEN [v EXCEPT !.live = FALSE, !.paused = FALSE, !.conn = "off"]
                      ELSE IF ~v.live THEN [v EXCEPT !.conn = "off"]
                      ELSE IF v.paused THEN [v EXCEPT !.conn = "paused"]
                      ELSE v
               /\ IF Running(w) /\ Running(view)
                  THEN view' = w /\ UNCHANGED <<loop, old, sub, wire>>
                  ELSE /\ view' = IF Running(w) THEN [w EXCEPT !.conn = "connecting"] ELSE w
                       /\ loop' = IF Running(w) THEN "asking" ELSE "none"
  BY DEF Effect
<1>2. /\ DOMAIN w = Fields /\ w.live \in BOOLEAN /\ w.paused \in BOOLEAN
      /\ StreamBlocked(w) <=> StreamBlocked(v)
  BY <1>1 DEF Fields, StreamBlocked, HistoryOf
<1>3. Running(w) => w = v
  BY <1>1, <1>2 DEF Running
<1>4. StreamBlocked(w) => ~w.live
  BY <1>1, <1>2 DEF Fields
<1>5. CASE Running(w) /\ Running(view)
  <2>1. view' = w /\ loop' = loop /\ w.conn = view.conn
    BY <1>1, <1>3, <1>5
  <2>2. Shown(w) = Shown(view)
    BY <1>5, <2>1 DEF Running, Shown
  <2>. QED
    BY <1>2, <1>4, <1>5, <2>1, <2>2 DEF StatusInv, StatusIsTrue
<1>6. CASE Running(w) /\ ~Running(view)
  <2>1. view' = [w EXCEPT !.conn = "connecting"] /\ loop' = "asking"
    BY <1>1, <1>6
  <2>2. PICK u : u = [w EXCEPT !.conn = "connecting"]
    OBVIOUS
  <2>3. DOMAIN u = Fields /\ u.live = w.live /\ u.paused = w.paused /\ Running(u) /\ Shown(u) = "connecting"
        /\ ~StreamBlocked(u)
    BY <1>2, <1>6, <2>2 DEF Fields, Running, Shown, StreamBlocked, HistoryOf
  <2>. QED
    BY <1>2, <2>1, <2>2, <2>3 DEF StatusInv, StatusIsTrue
<1>7. CASE ~Running(w)
  <2>1. view' = w /\ loop' = "none"
    BY <1>1, <1>7
  <2>2. Shown(w) \in {"off", "paused"}
    BY <1>1, <1>2, <1>7 DEF Shown, Running
  <2>. QED
    BY <1>2, <1>4, <1>7, <2>1, <2>2 DEF StatusInv, StatusIsTrue
<1>. QED
  BY <1>5, <1>6, <1>7

\* A loop that runs and goes from one state to another says which.
LEMMA LoopStatus ==
  ASSUME StatusInv, loop # "none", NEW conn, view' = [view EXCEPT !.conn = conn],
         \/ loop' = "asking" /\ conn = "connecting"
         \/ loop' = "reading" /\ conn = "live"
         \/ loop' = "waiting" /\ conn = "reconnect"
  PROVE  StatusInv'
<1>1. PICK u : u = [view EXCEPT !.conn = conn]
  OBVIOUS
<1>2. DOMAIN view = Fields /\ Running(view) /\ view.live \in BOOLEAN /\ view.paused \in BOOLEAN
  BY DEF StatusInv, StatusIsTrue
<1>3. /\ DOMAIN u = Fields /\ u.live = view.live /\ u.paused = view.paused /\ u.conn = conn
      /\ Running(u)
  BY <1>1, <1>2 DEF Fields, Running, StreamBlocked, HistoryOf
<1>4. Shown(u) = conn
  BY <1>3 DEF Shown, Running
<1>5. ~StreamBlocked(u)
  BY <1>3 DEF Running
<1>. QED
  BY <1>1, <1>2, <1>3, <1>4, <1>5 DEF StatusInv, StatusIsTrue

LEMMA InitStatus == Init => StatusInv
BY DEF Init, StatusInv, StatusIsTrue, Fields, Shown, Running

LEMMA UserStatus ==
  ASSUME StatusInv, User
  PROVE  StatusInv'
<1>1. CASE StartStop
  <2>1. PICK v : /\ Effect(v)
                 /\ v = IF view.live THEN [view EXCEPT !.live = FALSE, !.paused = FALSE] ELSE [view EXCEPT !.live = TRUE]
    BY <1>1 DEF StartStop
  <2>2. DOMAIN v = Fields /\ v.live \in BOOLEAN /\ v.paused \in BOOLEAN /\ v.conn = view.conn
    BY <2>1 DEF StatusInv, Fields
  <2>. QED
    BY <2>1, <2>2, EffectStatus
<1>2. CASE PauseResume
  <2>1. PICK p, v : Effect(v) /\ v = [view EXCEPT !.paused = p] /\ p = ~view.paused
    BY <1>2 DEF PauseResume
  <2>2. DOMAIN v = Fields /\ v.live \in BOOLEAN /\ v.paused \in BOOLEAN /\ v.conn = view.conn
    BY <2>1 DEF StatusInv, Fields
  <2>. QED
    BY <2>1, <2>2, EffectStatus
<1>3. CASE Clear
  BY <1>3, SameStatus DEF Clear, StatusInv, Fields
<1>4. CASE Refresh
  <2>1. view' = [view EXCEPT !.loading = TRUE] /\ UNCHANGED loop
    BY <1>4 DEF Refresh
  <2>2. PICK u : u = [view EXCEPT !.loading = TRUE]
    OBVIOUS
  <2>3. /\ DOMAIN u = Fields /\ u.live = view.live /\ u.paused = view.paused /\ u.conn = view.conn
        /\ u.loading = TRUE /\ u.loaded = view.loaded /\ u.err = view.err /\ u.history = view.history
    BY <2>2 DEF StatusInv, Fields
  <2>4. StreamBlocked(u) => StreamBlocked(view)
    BY <2>3 DEF StreamBlocked, HistoryOf, InventoryBlocksMutation, Kind, KeepsStale
  <2>5. Running(u) <=> Running(view)
    BY <2>3, <2>4 DEF Running, StatusInv
  <2>6. Shown(u) = Shown(view)
    BY <2>3 DEF Shown
  <2>. QED
    BY <2>1, <2>2, <2>3, <2>4, <2>5, <2>6 DEF StatusInv, StatusIsTrue
<1>. QED
  BY <1>1, <1>2, <1>3, <1>4 DEF User

LEMMA LoadStatus ==
  ASSUME StatusInv, LoadArrives
  PROVE  StatusInv'
<1>1. PICK v, n, cur : /\ Effect(v)
                       /\ \/ v = [view EXCEPT !.history = n, !.loaded = TRUE, !.err = "none", !.loading = FALSE, !.cursor = cur]
                          \/ v = [view EXCEPT !.err = load.st, !.loading = FALSE]
  <2>1. CASE load.st = "ok"
    <3>1. PICK n, cur : /\ n = Cardinality(load.rows)
                        /\ cur = IF tail = "logs" /\ Highest(load.rows) > view.cursor THEN Highest(load.rows) ELSE view.cursor
      OBVIOUS
    <3>2. Effect([view EXCEPT !.history = n, !.loaded = TRUE, !.err = "none", !.loading = FALSE, !.cursor = cur])
      BY <2>1, <3>1 DEF LoadArrives
    <3>. QED
      BY <3>2
  <2>2. CASE load.st # "ok"
    BY <2>2 DEF LoadArrives
  <2>. QED
    BY <2>1, <2>2
<1>2. DOMAIN v = Fields /\ v.live = view.live /\ v.paused = view.paused /\ v.conn = view.conn
  BY <1>1 DEF StatusInv, Fields
<1>. QED
  BY <1>1, <1>2, EffectStatus DEF StatusInv

LEMMA LoopsStatus ==
  ASSUME StatusInv, Loop \/ OldLoopReturns
  PROVE  StatusInv'
<1>1. CASE Hear
  <2>1. CASE Head(wire) = Ready
    BY <1>1, <2>1, LoopStatus DEF Hear
  <2>2. CASE Head(wire) # Ready
    <3>1. PICK c, q : view' = [view EXCEPT !.cursor = c, !.rows = q] /\ UNCHANGED loop
      BY <1>1, <2>2 DEF Hear
    <3>. QED
      BY <3>1, SameStatus DEF StatusInv, Fields
  <2>. QED
    BY <2>1, <2>2
<1>2. CASE LoopWaits
  BY <1>2, LoopStatus DEF LoopWaits, StreamEnded
<1>3. CASE WaitOver
  BY <1>3, LoopStatus DEF WaitOver
<1>4. CASE OldLoopReturns
  BY <1>4, SameStatus DEF OldLoopReturns, StreamEnded, StatusInv
<1>. QED
  BY <1>1, <1>2, <1>3, <1>4 DEF Loop

LEMMA NextStatus ==
  ASSUME StatusInv, [Next]_vars
  PROVE  StatusInv'
<1>1. Handler \/ ServeLoad \/ Appended \/ LoadFails \/ StreamFails \/ Restart \/ UNCHANGED vars => UNCHANGED <<view, loop>>
  BY DEF Handler, Subscribe, Replay, Deliver, HandlerEnds, ServeLoad, Appended, LoadFails, StreamFails, Restart, vars
<1>2. UNCHANGED <<view, loop>> => StatusInv'
  BY SameStatus DEF StatusInv
<1>. QED
  BY <1>1, <1>2, UserStatus, LoadStatus, LoopsStatus DEF Next, Own

\* The status line of the Logs and Events pages tells the truth, whatever is started, stopped,
\* paused, loaded, refused, cut or restarted, in whatever order (LogsPage.tsx, Events.tsx).
THEOREM StatusIsTrueAlways == Spec => []StatusIsTrue
<1>1. StatusInv => StatusIsTrue
  BY DEF StatusInv
<1>. QED
  BY <1>1, InitStatus, NextStatus, PTL DEF Spec

----------------------------------------------------------------------------
(* What is on its way *)

Numbers == Nat \ {0}
RowSet == Numbers \X Numbers

View == [live : BOOLEAN, paused : BOOLEAN,
         conn : {"off", "paused", "connecting", "live", "reconnect"},
         loading : BOOLEAN, loaded : BOOLEAN, err : Errors, history : Nat,
         cursor : Nat, rows : Seq(RowSet)]

Load == [st : {"none", "sent", "ok", "fail", "denied"}, ep : Numbers,
         rows : SUBSET (1..MaxSeq)]

Sub == [at : {"none", "asked", "subscribed", "live", "ended", "cut"}, closed : BOOLEAN,
        after : Nat, last : Nat, buf : Seq(Numbers)]

SeenSet == [got : SUBSET RowSet, free : SUBSET RowSet, lost : SUBSET RowSet, due : SUBSET RowSet,
            ep : Numbers, begun : BOOLEAN]

\* The rows that no stream has to send any more.
Passed == seen.free \cup seen.lost

TypeOK ==
  /\ tail \in {"logs", "events"}
  /\ view \in View
  /\ loop \in {"none", "asking", "reading", "waiting"}
  /\ old \in Nat
  /\ load \in Load
  /\ log \in [ep : Numbers, lo : Numbers, seq : 0..MaxSeq]
  /\ sub \in Sub
  /\ wire \in Seq(RowSet \cup {Ready})
  /\ seen \in SeenSet
  /\ spent \in [clicks : Nat, troubles : Nat]

\* The handler is subscribed, and may send what is appended.
Fed == sub.at \in {"subscribed", "live"}

\* How far a stream is: nothing is sent before it is asked for, and its ready comes first.
Phases ==
  /\ sub.at \in {"none", "asked"} => wire = <<>>
  /\ sub.at \in {"none", "asked", "subscribed"} => \A i \in 1..Len(wire) : wire[i] = Ready
  /\ loop \in {"asking", "reading"} <=> sub.at # "none"
  /\ loop = "asking" /\ sub.at \in {"subscribed", "live", "ended"} => wire # <<>> /\ Head(wire) = Ready
  /\ sub.at = "asked" => sub.buf = <<>> /\ ~sub.closed /\ sub.after <= view.cursor
  /\ sub.at = "subscribed" => sub.last = sub.after

\* A row that is shown or was sent: none is of a process to come, none of this process has a
\* number to come, and none is ahead of what waits for the subscriber and will be sent.
Past(x) ==
  /\ x[1] <= log.ep
  /\ x[1] = log.ep => /\ x[2] <= log.seq
                      /\ Fed => \A i \in 1..Len(sub.buf) : sub.buf[i] > sub.last => x[2] < sub.buf[i]

Shows ==
  /\ NewestFirst
  /\ \A k \in 1..Len(view.rows) : /\ Past(view.rows[k])
                                  /\ view.rows[k][2] <= view.cursor
                                  /\ sub.at = "asked" \/ (sub.at = "subscribed" /\ sub.after > 0) =>
                                       view.rows[k][2] <= sub.after
  /\ \A i \in 1..Len(wire) : wire[i] # Ready =>
       /\ Past(wire[i])
       /\ \A k \in 1..Len(view.rows) : Newer(wire[i], view.rows[k])
       /\ \A j \in 1..Len(wire) : i < j /\ wire[j] # Ready => Newer(wire[j], wire[i])

\* What waits for the subscriber is in order, and was appended.
Waits ==
  /\ seen.ep <= log.ep /\ load.ep <= log.ep
  /\ Fed => \A i \in 1..Len(sub.buf) :
       /\ sub.buf[i] <= log.seq
       /\ \A j \in 1..Len(sub.buf) : i < j => sub.buf[i] < sub.buf[j]

\* A row of this process that was received or passed over, or is among the first i on the wire,
\* or among the first j that wait.
Accounted(s, i, j) ==
  \/ Row(s) \in seen.got \cup Passed
  \/ \E k \in 1..i : wire[k] = Row(s)
  \/ \E k \in 1..j : sub.buf[k] = s

\* The tail is one whose numbers its handler understands.
Tracked == tail = "logs" \/ log.ep = 1

\* NothingSkipped, said with Passed.
CursorKept ==
  Tracked /\ seen.ep = log.ep => \A s \in 1..view.cursor : Row(s) \in seen.got \cup Passed

\* Whatever is cut off, nothing before what arrives is lost: every row before one on the wire
\* is accounted for before it, every row before one that waits likewise, and so is every row
\* of the process as long as the subscriber was not dropped.
Owed ==
  /\ CursorKept
  /\ \A i \in 1..Len(wire) : wire[i][1] = log.ep => \A s \in 1..wire[i][2] : Accounted(s, i, 0)
  /\ Fed => \A s \in 1..sub.last : Accounted(s, Len(wire), 0)
  /\ sub.at = "live" \/ (sub.at = "subscribed" /\ sub.after = 0) =>
       /\ \A j \in 1..Len(sub.buf) : \A s \in 1..sub.buf[j] : Accounted(s, Len(wire), j)
       /\ ~sub.closed => \A s \in 1..log.seq : Accounted(s, Len(wire), Len(sub.buf))

StreamInv ==
  /\ TypeOK
  /\ Phases
  /\ Shows
  /\ Waits
  /\ Tracked => Owed

\* Rows that are passed over are received already, not owed, or lost from now on.
LEMMA PassIs ==
  ASSUME seen \in SeenSet, NEW rows \in SUBSET RowSet, NEW p, p = Pass(rows)
  PROVE  /\ p \in SeenSet /\ p.got = seen.got /\ p.ep = seen.ep
         /\ Passed \subseteq p.free \cup p.lost
         /\ rows \subseteq p.got \cup p.free \cup p.lost
<1>1. CASE seen.begun
  <2>1. PICK new \in SUBSET RowSet : new = rows \ (seen.got \cup seen.free)
    OBVIOUS
  <2>2. p = [seen EXCEPT !.lost = seen.lost \cup new]
    BY <1>1, <2>1 DEF Pass
  <2>. QED
    BY <2>1, <2>2 DEF SeenSet, Passed
<1>2. CASE ~seen.begun
  <2>1. p = [seen EXCEPT !.free = seen.free \cup rows]
    BY <1>2 DEF Pass
  <2>. QED
    BY <2>1 DEF SeenSet, Passed
<1>. QED
  BY <1>1, <1>2

LEMMA StreamTypes ==
  ASSUME TypeOK
  PROVE  /\ view.cursor \in Nat /\ view.rows \in Seq(RowSet) /\ Len(view.rows) \in Nat
         /\ \A k \in 1..Len(view.rows) :
              view.rows[k] \in RowSet /\ view.rows[k][1] \in Numbers /\ view.rows[k][2] \in Numbers
         /\ log.ep \in Numbers /\ log.lo \in Numbers /\ log.seq \in Nat /\ log.seq <= MaxSeq
         /\ load.ep \in Numbers /\ load.st \in {"none", "sent", "ok", "fail", "denied"}
         /\ load.rows \in SUBSET (1..MaxSeq)
         /\ seen.got \in SUBSET RowSet /\ Passed \in SUBSET RowSet /\ seen.ep \in Numbers
<1>1. view \in View /\ load \in Load /\ log \in [ep : Numbers, lo : Numbers, seq : 0..MaxSeq]
      /\ seen \in SeenSet
  BY DEF TypeOK
<1>2. view.rows \in Seq(RowSet) /\ view.cursor \in Nat
  BY <1>1 DEF View
<1>3. \A k \in 1..Len(view.rows) : view.rows[k] \in RowSet
  BY <1>2, ElementOfSeq
<1>4. \A r \in RowSet : r[1] \in Numbers /\ r[2] \in Numbers
  BY DEF RowSet
<1>5. MaxSeq \in Nat
  BY StreamAssumption
<1>. QED
  BY <1>1, <1>2, <1>3, <1>4, <1>5 DEF Load, Numbers, SeenSet, Passed

LEMMA SubTypes ==
  ASSUME TypeOK
  PROVE  /\ sub \in Sub
         /\ sub.at \in {"none", "asked", "subscribed", "live", "ended", "cut"}
         /\ sub.closed \in BOOLEAN /\ sub.after \in Nat /\ sub.last \in Nat
         /\ sub.buf \in Seq(Numbers) /\ Len(sub.buf) \in Nat
         /\ \A i \in 1..Len(sub.buf) : sub.buf[i] \in Numbers /\ sub.buf[i] \in Nat
<1>1. sub \in Sub
  BY DEF TypeOK
<1>2. sub.buf \in Seq(Numbers)
  BY <1>1 DEF Sub
<1>3. \A i \in 1..Len(sub.buf) : sub.buf[i] \in Numbers
  BY <1>2, ElementOfSeq
<1>. QED
  BY <1>1, <1>2, <1>3 DEF Sub, Numbers

LEMMA WireTypes ==
  ASSUME TypeOK
  PROVE  /\ wire \in Seq(RowSet \cup {Ready}) /\ Len(wire) \in Nat
         /\ \A i \in 1..Len(wire) :
              /\ wire[i] \in RowSet \cup {Ready}
              /\ wire[i][1] \in Nat /\ wire[i][2] \in Nat
              /\ wire[i] # Ready => wire[i] \in RowSet /\ wire[i][1] \in Numbers /\ wire[i][2] \in Numbers
              /\ wire[i] = Ready => wire[i][1] = 0
<1>1. wire \in Seq(RowSet \cup {Ready})
  BY DEF TypeOK
<1>2. \A i \in 1..Len(wire) : wire[i] \in RowSet \cup {Ready}
  BY <1>1, ElementOfSeq
<1>3. \A r \in RowSet : r[1] \in Numbers /\ r[2] \in Numbers
  BY DEF RowSet
<1>4. Ready[1] = 0 /\ Ready[2] = 0
  BY DEF Ready
<1>. QED
  BY <1>1, <1>2, <1>3, <1>4 DEF Numbers

LEMMA RowIs ==
  ASSUME TypeOK, NEW s \in Numbers
  PROVE  /\ Row(s) \in RowSet /\ Row(s)[1] = log.ep /\ Row(s)[2] = s /\ Row(s) # Ready
<1>1. log.ep \in Numbers
  BY StreamTypes
<1>2. Row(s) = <<log.ep, s>>
  BY DEF Row
<1>. QED
  BY <1>1, <1>2 DEF RowSet, Numbers, Ready

\* What is accounted for stays so when more is received, sent or waiting.
LEMMA AccountedStays ==
  ASSUME NEW s, NEW i \in Nat, NEW j \in Nat, Accounted(s, i, j), log'.ep = log.ep,
         seen.got \subseteq seen'.got, Passed \subseteq Passed',
         NEW m \in Nat, NEW n \in Nat,
         \A k \in 1..i : \/ \E l \in 1..m : wire'[l] = wire[k]
                         \/ wire[k] \in seen'.got
         , \A k \in 1..j : \/ \E l \in 1..n : sub'.buf[l] = sub.buf[k]
                         \/ \E l \in 1..m : wire'[l] = Row(sub.buf[k])
                         \/ Row(sub.buf[k]) \in seen'.got \cup Passed'
  PROVE  Accounted(s, m, n)'
<1>1. Row(s)' = Row(s)
  BY DEF Row
<1>. QED
  BY <1>1 DEF Accounted

----------------------------------------------------------------------------
(* The page *)

\* A step of the page: the gateway and what it appended stay, and the stream stays, or is
\* dropped, or another one is asked for.
LEMMA PageStep ==
  ASSUME StreamInv, TypeOK', UNCHANGED <<tail, log>>,
         view'.rows = view.rows \/ view'.rows = <<>>, view.cursor <= view'.cursor,
         seen.got \subseteq seen'.got, Passed \subseteq Passed',
         seen'.ep <= log.ep, load'.ep <= log.ep, Tracked => CursorKept',
         \/ UNCHANGED <<sub, wire, loop>>
         \/ wire' = <<>> /\ sub' = NoSub /\ loop' \in {"none", "waiting"}
         \/ wire' = <<>> /\ sub' = Asks(view') /\ loop' = "asking"
  PROVE  StreamInv'
<1>1. TypeOK
  BY DEF StreamInv
<1>2. \/ UNCHANGED <<sub, wire, loop>>
      \/ /\ wire' = <<>> /\ sub'.at = "none" /\ loop' \in {"none", "waiting"}
      \/ /\ wire' = <<>> /\ sub'.at = "asked" /\ sub'.after = view'.cursor /\ sub'.buf = <<>>
         /\ ~sub'.closed /\ loop' = "asking"
  <2>1. PICK v : v = view'
    OBVIOUS
  <2>2. /\ Asks(v).at = "asked" /\ Asks(v).closed = FALSE /\ Asks(v).after = v.cursor
        /\ Asks(v).buf = <<>>
    BY DEF Asks, NoSub
  <2>3. NoSub.at = "none"
    BY DEF NoSub
  <2>. QED
    BY <2>1, <2>2, <2>3
<1>3. view.cursor \in Nat /\ view'.cursor \in Nat
  <2>1. view.cursor \in Nat
    BY <1>1, StreamTypes
  <2>2. view'.cursor \in Nat
    BY DEF TypeOK, View
  <2>. QED
    BY <2>1, <2>2
<1>4. Phases'
  BY <1>1, <1>2, <1>3, SubTypes DEF StreamInv, Phases
<1>6. Shows'
  <2>1. Shows
    BY DEF StreamInv
  <2>2. NewestFirst'
    <3>1. CASE view'.rows = view.rows
      BY <2>1, <3>1 DEF Shows, NewestFirst, Newer
    <3>2. CASE view'.rows = <<>>
      <4>1. Len(view'.rows) = 0 /\ LiveCap \in Nat
        BY <3>2, StreamAssumption
      <4>. QED
        BY <4>1 DEF NewestFirst
    <3>. QED
      BY <3>1, <3>2
  <2>3. ASSUME NEW k \in 1..Len(view'.rows)
        PROVE  /\ Past(view.rows[k])' /\ view'.rows[k][2] <= view'.cursor
               /\ sub'.at = "asked" \/ (sub'.at = "subscribed" /\ sub'.after > 0) =>
                    view'.rows[k][2] <= sub'.after
    <3>1. view'.rows = view.rows /\ k \in 1..Len(view.rows)
      BY <2>3
    <3>2. view.rows[k][2] \in Nat /\ view.rows[k][2] <= view.cursor /\ Past(view.rows[k])
      BY <1>1, <2>1, <3>1, StreamTypes DEF Shows, Numbers
    <3>3. Past(view.rows[k])'
      BY <1>2, <3>1, <3>2 DEF Past, Fed
    <3>4. view'.rows[k][2] <= view'.cursor
      BY <1>3, <3>1, <3>2
    <3>5. UNCHANGED sub => (sub'.at = "asked" \/ (sub'.at = "subscribed" /\ sub'.after > 0) =>
                              view'.rows[k][2] <= sub'.after)
      BY <2>1, <3>1 DEF Shows
    <3>. QED
      BY <1>2, <3>3, <3>4, <3>5
  <2>4. ASSUME NEW i \in 1..Len(wire'), wire'[i] # Ready
        PROVE  /\ Past(wire[i])'
               /\ \A k \in 1..Len(view'.rows) : Newer(wire'[i], view'.rows[k])
               /\ \A j \in 1..Len(wire') : i < j /\ wire'[j] # Ready => Newer(wire'[j], wire'[i])
    <3>1. UNCHANGED <<sub, wire>>
      BY <1>2, <2>4
    <3>2. Past(wire[i]) => Past(wire[i])'
      BY <3>1 DEF Past, Fed
    <3>. QED
      BY <2>1, <2>4, <3>1, <3>2 DEF Shows
  <2>. QED
    BY <2>2, <2>3, <2>4 DEF Shows, Ready, Newer
<1>7. Waits'
  BY <1>2 DEF StreamInv, Waits, Fed
<1>8. ASSUME Tracked PROVE Owed'
  <2>1. Owed /\ CursorKept'
    BY <1>8 DEF StreamInv
  <2>2. CASE UNCHANGED <<sub, wire>>
    <3>1. \A s, i, j : Accounted(s, i, j) => Accounted(s, i, j)'
      BY <2>2 DEF Accounted, Row
    <3>. QED
      BY <2>1, <2>2, <3>1 DEF Owed, Fed
  <2>3. CASE wire' = <<>> /\ sub'.at \in {"none", "asked"}
    BY <2>1, <2>3 DEF Owed, Fed
  <2>. QED
    BY <1>2, <2>2, <2>3
<1>9. Tracked' => Tracked
  BY DEF Tracked
<1>. QED
  BY <1>4, <1>6, <1>7, <1>8, <1>9 DEF StreamInv

LEMMA AsksIs ==
  ASSUME NEW v \in View
  PROVE  Asks(v) \in Sub /\ NoSub \in Sub
<1>1. v.cursor \in Nat
  BY DEF View
<1>2. NoSub \in Sub
  BY DEF NoSub, Sub
<1>. QED
  BY <1>1, <1>2 DEF Asks, Sub

\* The effect drops the stream, asks for one, or leaves it.
LEMMA EffectStream ==
  ASSUME StreamInv, NEW v \in View, Effect(v), UNCHANGED <<tail, log>>,
         v.rows = view.rows, view.cursor <= v.cursor, load' \in Load, load'.ep <= log.ep,
         seen' \in SeenSet,
         seen.got \subseteq seen'.got, Passed \subseteq Passed', seen'.ep <= log.ep,
         spent' \in [clicks : Nat, troubles : Nat],
         Tracked /\ seen'.ep = log.ep => \A s \in 1..v.cursor : Row(s) \in seen'.got \cup Passed'
  PROVE  StreamInv'
<1>1. TypeOK
  BY DEF StreamInv
<1>2. PICK w : /\ w = IF StreamBlocked(v) THEN [v EXCEPT !.live = FALSE, !.paused = FALSE, !.conn = "off"]
                      ELSE IF ~v.live THEN [v EXCEPT !.conn = "off"]
                      ELSE IF v.paused THEN [v EXCEPT !.conn = "paused"]
                      ELSE v
               /\ IF Running(w) /\ Running(view)
                  THEN view' = w /\ UNCHANGED <<loop, old, sub, wire>>
                  ELSE /\ view' = IF Running(w) THEN [w EXCEPT !.conn = "connecting"] ELSE w
                       /\ loop' = IF Running(w) THEN "asking" ELSE "none"
                       /\ old' = IF loop = "none" THEN old ELSE old + 1
                       /\ sub' = IF Running(w) THEN Asks(w) ELSE NoSub
                       /\ wire' = <<>>
  BY DEF Effect
<1>3. w \in View /\ w.cursor = v.cursor /\ w.rows = v.rows
  BY <1>2 DEF View
<1>4. /\ [w EXCEPT !.conn = "connecting"] \in View
      /\ [w EXCEPT !.conn = "connecting"].cursor = w.cursor
      /\ [w EXCEPT !.conn = "connecting"].rows = w.rows
  BY <1>3 DEF View
<1>5. view' \in View /\ view'.cursor = v.cursor /\ view'.rows = v.rows
  BY <1>2, <1>3, <1>4
<1>6. old' \in Nat /\ loop' \in {"none", "asking", "reading", "waiting"}
  BY <1>1, <1>2 DEF TypeOK
<1>7. sub' \in Sub /\ wire' \in Seq(RowSet \cup {Ready})
  <2>1. CASE UNCHANGED <<sub, wire>>
    BY <1>1, <2>1 DEF TypeOK
  <2>2. CASE wire' = <<>> /\ sub' \in {Asks(w), NoSub}
    <3>1. sub' \in Sub
      BY <1>3, <2>2, AsksIs
    <3>2. wire' \in Seq(RowSet \cup {Ready})
      BY <2>2
    <3>. QED
      BY <3>1, <3>2
  <2>. QED
    BY <1>2, <2>1, <2>2
<1>8. TypeOK'
  BY <1>1, <1>5, <1>6, <1>7 DEF TypeOK
<1>9. \/ UNCHANGED <<sub, wire, loop>>
      \/ wire' = <<>> /\ sub' = NoSub /\ loop' \in {"none", "waiting"}
      \/ wire' = <<>> /\ sub' = Asks(view') /\ loop' = "asking"
  <2>1. Asks(view') = Asks(w)
    BY <1>3, <1>5 DEF Asks
  <2>. QED
    BY <1>2, <2>1
<1>10. Tracked => CursorKept'
  <2>1. \A s : Row(s)' = Row(s)
    BY DEF Row
  <2>. QED
    BY <1>5, <2>1 DEF CursorKept, Tracked
<1>. QED
  BY <1>5, <1>8, <1>9, <1>10, PageStep

\* The spent clicks, and the other bound.
LEMMA Spends ==
  ASSUME TypeOK, Click \/ Trouble \/ UNCHANGED spent
  PROVE  spent' \in [clicks : Nat, troubles : Nat]
<1>1. spent \in [clicks : Nat, troubles : Nat]
  BY DEF TypeOK
<1>. QED
  BY <1>1 DEF Click, Trouble

\* What is known of the cursor while nothing is received.
LEMMA SkippedSame ==
  ASSUME StreamInv, UNCHANGED <<tail, log, seen>>
  PROVE  /\ Tracked /\ seen.ep = log.ep => \A s \in 1..view.cursor : Row(s) \in seen.got \cup Passed
         /\ view'.cursor = view.cursor => (Tracked => CursorKept')
BY DEF StreamInv, Owed, CursorKept, Tracked, Row, Passed

LEMMA ControlStep ==
  ASSUME StreamInv, NEW v \in View, Effect(v), v.rows = view.rows, v.cursor = view.cursor,
         Click, UNCHANGED <<tail, load, log, seen>>
  PROVE  StreamInv'
<1>1. TypeOK
  BY DEF StreamInv
<1>2. view.cursor \in Nat /\ load' \in Load /\ load'.ep <= log.ep /\ seen'.ep <= log.ep
      /\ seen' \in SeenSet
  BY <1>1, StreamTypes DEF TypeOK, StreamInv, Waits
<1>. QED
  BY <1>1, <1>2, Spends, SkippedSame, EffectStream DEF Passed

LEMMA UserStream ==
  ASSUME StreamInv, User
  PROVE  StreamInv'
<1>1. TypeOK /\ view \in View
  BY DEF StreamInv, TypeOK
<1>2. CASE StartStop
  <2>1. PICK v : /\ Effect(v)
                 /\ v = IF view.live THEN [view EXCEPT !.live = FALSE, !.paused = FALSE] ELSE [view EXCEPT !.live = TRUE]
    BY <1>2 DEF StartStop
  <2>2. v \in View /\ v.rows = view.rows /\ v.cursor = view.cursor
    BY <1>1, <2>1 DEF View
  <2>. QED
    BY <1>2, <2>1, <2>2, ControlStep DEF StartStop
<1>3. CASE PauseResume
  <2>1. PICK v : Effect(v) /\ v = [view EXCEPT !.paused = ~view.paused]
    BY <1>3 DEF PauseResume
  <2>2. v \in View /\ v.rows = view.rows /\ v.cursor = view.cursor
    BY <1>1, <2>1 DEF View
  <2>. QED
    BY <1>3, <2>1, <2>2, ControlStep DEF PauseResume
<1>4. CASE Clear
  <2>1. /\ view' = [view EXCEPT !.rows = <<>>] /\ Click
        /\ UNCHANGED <<tail, loop, old, load, log, sub, wire, seen>>
    BY <1>4 DEF Clear
  <2>2. <<>> \in Seq(RowSet)
    OBVIOUS
  <2>3. view' \in View /\ view'.rows = <<>> /\ view'.cursor = view.cursor /\ view.cursor \in Nat
    BY <1>1, <2>1, <2>2 DEF View
  <2>4. TypeOK'
    BY <1>1, <2>1, <2>3, Spends DEF TypeOK
  <2>. QED
    BY <2>1, <2>3, <2>4, PageStep, SkippedSame DEF StreamInv, Waits, Passed
<1>5. CASE Refresh
  <2>1. /\ view' = [view EXCEPT !.loading = TRUE] /\ Click
        /\ load' = [NoLoad EXCEPT !.st = "sent"]
        /\ UNCHANGED <<tail, loop, old, log, sub, wire, seen>>
    BY <1>5 DEF Refresh
  <2>2. load' \in Load /\ load'.ep = 1
    BY <2>1 DEF NoLoad, Load, Numbers
  <2>3. view' \in View /\ view'.rows = view.rows /\ view'.cursor = view.cursor /\ view.cursor \in Nat
    BY <1>1, <2>1 DEF View
  <2>4. TypeOK'
    BY <1>1, <2>1, <2>2, <2>3, Spends DEF TypeOK
  <2>5. load'.ep <= log.ep /\ seen'.ep <= log.ep
    BY <1>1, <2>1, <2>2, StreamTypes DEF StreamInv, Waits, Numbers
  <2>. QED
    BY <2>1, <2>3, <2>4, <2>5, PageStep, SkippedSame DEF Passed
<1>. QED
  BY <1>2, <1>3, <1>4, <1>5 DEF User

\* A finite set of numbers has a highest.
LEMMA HighestIs ==
  ASSUME NEW n \in Nat, NEW S \in SUBSET (1..n)
  PROVE  /\ Highest(S) \in S \cup {0}
         /\ \A t \in S : t <= Highest(S)
<1>1. \E s \in S \cup {0} : \A t \in S : t <= s
  <2>1. CASE S = {}
    BY <2>1
  <2>2. CASE S # {}
    <3>. DEFINE T == {n - i : i \in S}
    <3>0. PICK m \in S : TRUE
      BY <2>2
    <3>1. T \subseteq Nat /\ T # {}
      <4>1. \A i \in S : n - i \in Nat
        OBVIOUS
      <4>2. n - m \in T
        OBVIOUS
      <4>. QED
        BY <4>1, <4>2
    <3>2. PICK d \in T : \A e \in T : ~(<<e, d>> \in OpToRel(<, Nat))
      BY <3>1, WFMin, NatLessThanWellFounded, Zenon
    <3>3. PICK i \in S : d = n - i
      OBVIOUS
    <3>4. ASSUME NEW k \in S PROVE k <= i
      <4>1. n - k \in T /\ d \in T
        OBVIOUS
      <4>2. ~(n - k < d)
        BY <3>1, <3>2, <4>1 DEF OpToRel
      <4>3. k \in Nat /\ i \in Nat /\ n \in Nat
        OBVIOUS
      <4>4. ~(n - k < n - i)
        BY <3>3, <4>2
      <4>. HIDE DEF T
      <4>. QED
        BY <4>3, <4>4
    <3>. QED
      BY <3>4
  <2>. QED
    BY <2>1, <2>2
<1>. QED
  BY <1>1 DEF Highest

\* The answer of a load: on the Logs page what it passes over are the rows beyond the old
\* cursor that the history left out.
LEMMA LoadStream ==
  ASSUME StreamInv, LoadArrives
  PROVE  StreamInv'
<1>. DEFINE max == Highest(load.rows)
            raised == load.st = "ok" /\ tail = "logs" /\ max > view.cursor
            v == IF load.st = "ok"
                 THEN [view EXCEPT !.history = Cardinality(load.rows), !.loaded = TRUE, !.err = "none", !.loading = FALSE,
                                   !.cursor = IF raised THEN max ELSE @]
                 ELSE [view EXCEPT !.err = load.st, !.loading = FALSE]
            got == {<<load.ep, s>> : s \in load.rows}
            between == Between(max)
<1>1. TypeOK /\ view \in View /\ seen \in SeenSet
  BY DEF StreamInv, TypeOK
<1>2. /\ load.st \notin {"none", "sent"}
      /\ Effect(v)
      /\ seen' = IF tail = "events" \/ load.st # "ok" THEN seen
                 ELSE [(IF raised THEN Pass(between) ELSE seen) EXCEPT
                         !.got = @ \cup got, !.ep = IF raised THEN load.ep ELSE @]
      /\ load' = NoLoad
      /\ UNCHANGED <<tail, log, spent>>
  BY DEF LoadArrives
<1>3. /\ max \in Nat /\ load.rows \in SUBSET (1..MaxSeq) /\ load.ep \in Numbers /\ view.cursor \in Nat
      /\ load.st \in {"none", "sent", "ok", "fail", "denied"}
      /\ \A s \in load.rows : s \in Numbers
  <2>1. MaxSeq \in Nat
    BY StreamAssumption
  <2>2. /\ load.rows \in SUBSET (1..MaxSeq) /\ load.ep \in Numbers /\ view.cursor \in Nat
        /\ load.st \in {"none", "sent", "ok", "fail", "denied"}
    BY <1>1, StreamTypes
  <2>3. max \in load.rows \cup {0}
    BY <2>1, <2>2, HighestIs
  <2>4. \A s \in load.rows : s \in Numbers /\ s \in Nat
    BY <2>1, <2>2 DEF Numbers
  <2>5. max \in Nat
    BY <2>3, <2>4
  <2>. QED
    BY <2>2, <2>4, <2>5
<1>4. Cardinality(load.rows) \in Nat
  <2>1. MaxSeq \in Nat
    BY StreamAssumption
  <2>2. IsFiniteSet(1..MaxSeq)
    BY <2>1, FS_Interval
  <2>3. IsFiniteSet(load.rows)
    BY <1>3, <2>2, FS_Subset
  <2>. QED
    BY <2>3, FS_CardinalityType
<1>5. got \in SUBSET RowSet /\ between \in SUBSET RowSet
  BY <1>3 DEF RowSet, Numbers, Between
<1>. HIDE DEF max, got, between
<1>6. /\ v \in View /\ v.rows = view.rows
      /\ v.cursor = IF raised THEN max ELSE view.cursor
  <2>1. CASE load.st = "ok"
    <3>1. PICK n \in Nat, c \in Nat : n = Cardinality(load.rows) /\ c = IF raised THEN max ELSE view.cursor
      BY <1>3, <1>4
    <3>2. v = [view EXCEPT !.history = n, !.loaded = TRUE, !.err = "none", !.loading = FALSE, !.cursor = c]
      BY <2>1, <3>1
    <3>3. v \in View /\ v.rows = view.rows /\ v.cursor = c
      <4>. DEFINE u == [view EXCEPT !.history = n, !.loaded = TRUE]
                  w == [u EXCEPT !.err = "none", !.loading = FALSE]
      <4>1. u \in View /\ u.rows = view.rows
        BY <1>1 DEF View
      <4>2. DOMAIN view = {"live", "paused", "conn", "loading", "loaded", "err", "history", "cursor", "rows"}
        BY <1>1 DEF View
      <4>3. v = [w EXCEPT !.cursor = c]
        BY <3>2, <4>2
      <4>. HIDE DEF u
      <4>4. w \in View /\ w.rows = u.rows
        BY <4>1 DEF View, Errors
      <4>. HIDE DEF w
      <4>5. v \in View
        BY <3>1, <4>3, <4>4 DEF View
      <4>6. DOMAIN w = {"live", "paused", "conn", "loading", "loaded", "err", "history", "cursor", "rows"}
        BY <4>4 DEF View
      <4>7. v.rows = w.rows /\ v.cursor = c
        BY <4>3, <4>6
      <4>. QED
        BY <4>1, <4>4, <4>5, <4>7
    <3>. QED
      BY <3>1, <3>3
  <2>2. CASE load.st # "ok"
    <3>1. load.st \in Errors
      BY <1>2, <1>3, <2>2 DEF Errors
    <3>. QED
      BY <1>1, <2>2, <3>1 DEF View
  <2>. QED
    BY <2>1, <2>2
<1>7. /\ seen' \in SeenSet
      /\ seen.got \subseteq seen'.got /\ Passed \subseteq Passed'
      /\ seen'.ep = IF raised THEN load.ep ELSE seen.ep
      /\ raised => got \subseteq seen'.got /\ between \subseteq seen'.got \cup Passed'
  <2>1. CASE tail = "events" \/ load.st # "ok"
    BY <1>1, <1>2, <2>1 DEF Passed
  <2>2. CASE ~(tail = "events" \/ load.st # "ok")
    <3>1. PICK p : p = IF raised THEN Pass(between) ELSE seen
      OBVIOUS
    <3>2. /\ p \in SeenSet /\ p.got = seen.got /\ p.ep = seen.ep
          /\ Passed \subseteq p.free \cup p.lost
          /\ raised => between \subseteq p.got \cup p.free \cup p.lost
      <4>1. CASE raised
        BY <1>1, <1>5, <3>1, <4>1, PassIs
      <4>2. CASE ~raised
        BY <1>1, <3>1, <4>2 DEF Passed
      <4>. QED
        BY <4>1, <4>2
    <3>3. PICK ep \in Numbers : ep = IF raised THEN load.ep ELSE p.ep
      BY <1>3, <3>2 DEF SeenSet
    <3>4. seen' = [p EXCEPT !.got = p.got \cup got, !.ep = ep]
      BY <1>2, <2>2, <3>1, <3>3
    <3>5. seen' \in SeenSet /\ seen'.got = p.got \cup got /\ seen'.ep = ep
          /\ seen'.free = p.free /\ seen'.lost = p.lost
      BY <1>5, <3>2, <3>3, <3>4 DEF SeenSet
    <3>. QED
      BY <3>2, <3>3, <3>5 DEF Passed
  <2>. QED
    BY <2>1, <2>2
<1>8. seen'.ep <= log.ep /\ load.ep <= log.ep
  BY <1>7 DEF StreamInv, Waits
<1>9. load' \in Load /\ load'.ep <= log.ep
  BY <1>1, <1>2, StreamTypes DEF NoLoad, Load, Numbers
<1>10. ASSUME Tracked, seen'.ep = log.ep
       PROVE  \A s \in 1..v.cursor : Row(s) \in seen'.got \cup Passed'
  <2>1. CASE raised
    <3>1. seen'.ep = load.ep /\ v.cursor = max /\ \A s : Row(s) = <<load.ep, s>>
      BY <1>6, <1>7, <1>10, <2>1 DEF Row
    <3>2. ASSUME NEW s \in 1..max PROVE Row(s) \in seen'.got \cup Passed'
      <4>1. CASE s \in load.rows
        <5>1. Row(s) \in got
          BY <3>1, <4>1 DEF got
        <5>. QED
          BY <1>7, <2>1, <5>1
      <4>2. CASE s \notin load.rows /\ (s > view.cursor \/ load.ep # seen.ep)
        <5>1. Row(s) \in between
          BY <3>1, <4>2 DEF between, Between
        <5>. QED
          BY <1>7, <2>1, <5>1
      <4>3. CASE s <= view.cursor /\ load.ep = seen.ep
        <5>1. Row(s) \in seen.got \cup Passed
          <6>1. s \in 1..view.cursor /\ seen.ep = log.ep
            BY <1>3, <1>10, <3>1, <4>3
          <6>2. CursorKept
            BY <1>10 DEF StreamInv, Owed
          <6>. QED
            BY <1>10, <6>1, <6>2 DEF CursorKept
        <5>. QED
          BY <1>7, <5>1
      <4>. QED
        BY <1>3, <4>1, <4>2, <4>3
    <3>. QED
      BY <3>1, <3>2
  <2>2. CASE ~raised
    <3>1. \A s \in 1..view.cursor : Row(s) \in seen.got \cup Passed
      BY <1>7, <1>10, <2>2 DEF StreamInv, Owed, CursorKept, Tracked
    <3>. QED
      BY <1>6, <1>7, <2>2, <3>1
  <2>. QED
    BY <2>1, <2>2
<1>11. view.cursor <= v.cursor
  BY <1>3, <1>6
<1>12. spent' \in [clicks : Nat, troubles : Nat]
  BY <1>1, <1>2, Spends
<1>. HIDE DEF v, raised
<1>. QED
  BY <1>2, <1>6, <1>7, <1>8, <1>9, <1>10, <1>11, <1>12, EffectStream

----------------------------------------------------------------------------
(* Loads that are served, and the loop between two streams *)

\* The last n rows are those of an interval that ends with the last number.
LEMMA NewestIs ==
  ASSUME TypeOK, NEW n \in Nat \ {0}
  PROVE  /\ MaxOf(log.lo, log.seq + 1 - n) \in Numbers
         /\ \A s : s \in Newest(n) <=> s \in Nat /\ MaxOf(log.lo, log.seq + 1 - n) <= s /\ s <= log.seq
         /\ Newest(n) \subseteq 1..log.seq /\ Newest(n) \subseteq Numbers
<1>1. log.lo \in Numbers /\ log.seq \in Nat
  BY StreamTypes
<1>2. MaxOf(log.lo, log.seq + 1 - n) \in Numbers
  BY <1>1 DEF MaxOf, Numbers
<1>. QED
  BY <1>1, <1>2 DEF Newest, Numbers

LEMMA QuietStream ==
  ASSUME StreamInv, ServeLoad \/ LoadFails \/ LoopWaits \/ WaitOver \/ OldLoopReturns
  PROVE  StreamInv'
<1>1. TypeOK /\ view \in View /\ load \in Load
  BY DEF StreamInv, TypeOK
<1>2. load.ep <= log.ep /\ seen.ep <= log.ep
  BY DEF StreamInv, Waits
<1>3. view.cursor \in Nat /\ log.ep \in Numbers
  BY <1>1, StreamTypes
<1>4. CASE ServeLoad
  <2>1. /\ load' = [st |-> "ok", ep |-> log.ep, rows |-> Newest(HistoryMax)]
        /\ UNCHANGED <<tail, view, loop, old, log, sub, wire, seen, spent>>
    BY <1>4 DEF ServeLoad
  <2>2. Newest(HistoryMax) \subseteq 1..MaxSeq
    <3>1. HistoryMax \in Nat \ {0} /\ MaxSeq \in Nat
      BY StreamAssumption
    <3>2. Newest(HistoryMax) \subseteq 1..log.seq /\ log.seq \in Nat /\ log.seq <= MaxSeq
      BY <1>1, <3>1, NewestIs, StreamTypes
    <3>. QED
      BY <3>1, <3>2
  <2>3. load' \in Load /\ load'.ep <= log.ep
    BY <1>3, <2>1, <2>2 DEF Load, Numbers
  <2>4. TypeOK'
    BY <1>1, <2>1, <2>3 DEF TypeOK
  <2>. QED
    BY <1>2, <1>3, <2>1, <2>3, <2>4, PageStep, SkippedSame DEF Passed
<1>5. CASE LoadFails
  <2>1. /\ \E st \in {"fail", "denied"} : load' = [load EXCEPT !.st = st]
        /\ UNCHANGED <<tail, view, loop, old, log, sub, wire, seen>> /\ Trouble
    BY <1>5 DEF LoadFails
  <2>3. load' \in Load /\ load'.ep <= log.ep
    BY <1>1, <1>2, <2>1 DEF Load
  <2>4. TypeOK'
    BY <1>1, <2>1, <2>3, Spends DEF TypeOK
  <2>. QED
    BY <1>2, <1>3, <2>1, <2>3, <2>4, PageStep, SkippedSame DEF Passed
<1>6. CASE LoopWaits
  <2>1. /\ view' = [view EXCEPT !.conn = "reconnect"] /\ wire = <<>>
        /\ loop' = "waiting" /\ sub' = NoSub
        /\ UNCHANGED <<tail, old, load, log, wire, seen, spent>>
    BY <1>6 DEF LoopWaits, StreamEnded
  <2>2. view' \in View /\ view'.rows = view.rows /\ view'.cursor = view.cursor
    BY <1>1, <2>1 DEF View
  <2>3. TypeOK'
    BY <1>1, <2>1, <2>2, AsksIs DEF TypeOK
  <2>. QED
    BY <1>2, <1>3, <2>1, <2>2, <2>3, PageStep, SkippedSame DEF Passed
<1>7. CASE WaitOver
  <2>1. /\ view' = [view EXCEPT !.conn = "connecting"] /\ loop = "waiting"
        /\ loop' = "asking" /\ sub' = Asks(view)
        /\ UNCHANGED <<tail, old, load, log, wire, seen, spent>>
    BY <1>7 DEF WaitOver
  <2>2. view' \in View /\ view'.rows = view.rows /\ view'.cursor = view.cursor
    BY <1>1, <2>1 DEF View
  <2>3. TypeOK'
    BY <1>1, <2>1, <2>2, AsksIs DEF TypeOK
  <2>4. wire' = <<>>
    BY <1>1, <2>1, SubTypes DEF StreamInv, Phases
  <2>5. sub' = Asks(view')
    BY <2>1, <2>2 DEF Asks
  <2>. QED
    BY <1>2, <1>3, <2>1, <2>2, <2>3, <2>4, <2>5, PageStep, SkippedSame DEF Passed
<1>8. CASE OldLoopReturns
  <2>1. /\ view' = view /\ old > 0 /\ old' = old - 1
        /\ UNCHANGED <<tail, loop, load, log, sub, wire, seen, spent>>
    BY <1>8 DEF OldLoopReturns, StreamEnded
  <2>2. TypeOK'
    BY <1>1, <2>1 DEF TypeOK
  <2>. QED
    BY <1>2, <1>3, <2>1, <2>2, PageStep, SkippedSame DEF Passed
<1>. QED
  BY <1>4, <1>5, <1>6, <1>7, <1>8

----------------------------------------------------------------------------
(* A row is heard *)

\* The rows without the one of a number: the others, in their order.
Within(w, rows, n) ==
  \E f \in [1..Len(w) -> 1..Len(rows)] :
    /\ \A j, k \in 1..Len(w) : j < k => f[j] < f[k]
    /\ \A k \in 1..Len(w) : w[k] = rows[f[k]] /\ rows[f[k]][2] # n

LEMMA WithoutIs ==
  ASSUME NEW rows \in Seq(RowSet), NEW n \in Nat,
         \A j, k \in 1..Len(rows) : j < k => rows[j][2] # rows[k][2]
  PROVE  /\ Without(rows, n) \in Seq(RowSet)
         /\ Within(Without(rows, n), rows, n)
<1>. DEFINE same == {k \in 1..Len(rows) : rows[k][2] = n}
<1>0. Len(rows) \in Nat
  OBVIOUS
<1>1. CASE same = {}
  <2>1. Without(rows, n) = rows
    BY <1>1 DEF Without
  <2>. DEFINE f == [k \in 1..Len(rows) |-> k]
  <2>2. \A k \in 1..Len(rows) : rows[k][2] # n
    BY <1>1
  <2>3. /\ f \in [1..Len(rows) -> 1..Len(rows)]
        /\ \A j, k \in 1..Len(rows) : j < k => f[j] < f[k]
        /\ \A k \in 1..Len(rows) : rows[k] = rows[f[k]] /\ rows[f[k]][2] # n
    BY <2>2
  <2>. HIDE DEF f
  <2>4. Within(rows, rows, n)
    BY <2>3, Zenon DEF Within
  <2>. QED
    BY <2>1, <2>4
<1>2. CASE same # {}
  <2>1. PICK c \in same : Without(rows, n) = RemoveAt(rows, c)
    BY <1>2 DEF Without
  <2>2. c \in 1..Len(rows) /\ rows[c][2] = n
    BY <2>1
  <2>. DEFINE a == SubSeq(rows, 1, c - 1)
              b == SubSeq(rows, c + 1, Len(rows))
              w == a \o b
              f == [k \in 1..(Len(rows) - 1) |-> IF k < c THEN k ELSE k + 1]
  <2>3. Without(rows, n) = w
    BY <2>1 DEF RemoveAt
  <2>4. a \in Seq(RowSet) /\ Len(a) = c - 1 /\ \A i \in 1..(c - 1) : a[i] = rows[i]
    <3>1. 1 \in Int /\ c - 1 \in Int /\ \A i \in 1..(c - 1) : rows[i] \in RowSet
      BY <1>0, <2>2, ElementOfSeq
    <3>2. /\ a \in Seq(RowSet) /\ Len(a) = IF 1 <= c - 1 THEN (c - 1) - 1 + 1 ELSE 0
          /\ \A i \in 1..((c - 1) - 1 + 1) : a[i] = rows[1 + i - 1]
      BY <3>1, SubSeqProperties
    <3>. QED
      BY <2>2, <3>2
  <2>5. /\ b \in Seq(RowSet) /\ Len(b) = Len(rows) - c
        /\ \A i \in 1..(Len(rows) - c) : b[i] = rows[c + i]
    <3>1. c + 1 \in Int /\ Len(rows) \in Int /\ \A i \in (c + 1)..Len(rows) : rows[i] \in RowSet
      BY <1>0, <2>2, ElementOfSeq
    <3>2. /\ b \in Seq(RowSet) /\ Len(b) = IF c + 1 <= Len(rows) THEN Len(rows) - (c + 1) + 1 ELSE 0
          /\ \A i \in 1..(Len(rows) - (c + 1) + 1) : b[i] = rows[c + 1 + i - 1]
      BY <3>1, SubSeqProperties
    <3>. QED
      BY <1>0, <2>2, <3>2
  <2>. HIDE DEF a, b
  <2>6. /\ w \in Seq(RowSet) /\ Len(w) = Len(rows) - 1
        /\ \A i \in 1..(Len(rows) - 1) : w[i] = IF i <= c - 1 THEN a[i] ELSE b[i - (c - 1)]
    <3>1. /\ w \in Seq(RowSet) /\ Len(w) = Len(a) + Len(b)
          /\ \A i \in 1..(Len(a) + Len(b)) : w[i] = IF i <= Len(a) THEN a[i] ELSE b[i - Len(a)]
      <4>1. \A x, y \in Seq(RowSet) :
              /\ x \o y \in Seq(RowSet) /\ Len(x \o y) = Len(x) + Len(y)
              /\ \A i \in 1..(Len(x) + Len(y)) :
                    (x \o y)[i] = IF i <= Len(x) THEN x[i] ELSE y[i - Len(x)]
        BY ConcatProperties
      <4>2. a \in Seq(RowSet) /\ b \in Seq(RowSet)
        BY <2>4, <2>5
      <4>. HIDE DEF a, b
      <4>. QED
        BY <4>1, <4>2, Zenon DEF w
    <3>2. Len(a) + Len(b) = Len(rows) - 1
      BY <1>0, <2>2, <2>4, <2>5
    <3>. QED
      BY <2>4, <3>1, <3>2
  <2>. HIDE DEF w
  <2>7. /\ f \in [1..Len(w) -> 1..Len(rows)]
        /\ \A j, k \in 1..Len(w) : j < k => f[j] < f[k]
    BY <1>0, <2>2, <2>6
  <2>8. ASSUME NEW k \in 1..Len(w) PROVE w[k] = rows[f[k]] /\ rows[f[k]][2] # n
    <3>1. CASE k < c
      <4>1. f[k] = k /\ k \in 1..(c - 1) /\ k \in 1..Len(rows)
        BY <1>0, <2>2, <2>6, <3>1
      <4>2. w[k] = rows[k]
        BY <1>0, <2>2, <2>4, <2>6, <4>1
      <4>3. rows[k][2] # n
        BY <2>2, <3>1, <4>1
      <4>. QED
        BY <4>1, <4>2, <4>3
    <3>2. CASE ~(k < c)
      <4>1. f[k] = k + 1 /\ k + 1 \in 1..Len(rows) /\ k - (c - 1) \in 1..(Len(rows) - c)
        BY <1>0, <2>2, <2>6, <3>2
      <4>2. w[k] = b[k - (c - 1)]
        BY <1>0, <2>2, <2>6, <3>2
      <4>3. w[k] = rows[k + 1]
        BY <2>2, <2>5, <4>1, <4>2
      <4>4. rows[k + 1][2] # n
        BY <2>2, <3>2, <4>1
      <4>. QED
        BY <4>1, <4>3, <4>4
    <3>. QED
      BY <3>1, <3>2
  <2>. HIDE DEF f
  <2>9. Within(w, rows, n)
    BY <2>7, <2>8, Zenon DEF Within
  <2>. QED
    BY <2>3, <2>6, <2>9
<1>. QED
  BY <1>1, <1>2

\* mergeLive: the row that was heard comes first, and then rows that were there, in their order.
Merged(m, rows, r) ==
  \E f \in [Nat -> Nat] : \A k \in 1..Len(m) :
    \/ k = 1 /\ m[k] = r
    \/ /\ k > 1 /\ f[k] \in 1..Len(rows)
       /\ m[k] = rows[f[k]] /\ rows[f[k]][2] # r[2]
       /\ \A j \in 2..(k - 1) : f[j] < f[k]

LEMMA MergeIs ==
  ASSUME NEW rows \in Seq(RowSet), NEW r \in RowSet, r[2] \in Nat,
         \A j, k \in 1..Len(rows) : j < k => rows[j][2] # rows[k][2]
  PROVE  /\ MergeLive(rows, r) \in Seq(RowSet) /\ Len(MergeLive(rows, r)) <= LiveCap
         /\ Merged(MergeLive(rows, r), rows, r)
<1>. DEFINE w == Without(rows, r[2])
            a == <<r>> \o w
            n == IF Len(a) < LiveCap THEN Len(a) ELSE LiveCap
            m == SubSeq(a, 1, n)
<1>1. MergeLive(rows, r) = m
  BY DEF MergeLive, UpTo
<1>2. w \in Seq(RowSet) /\ Within(w, rows, r[2])
  BY WithoutIs
<1>3. PICK g \in [1..Len(w) -> 1..Len(rows)] :
           /\ \A j, k \in 1..Len(w) : j < k => g[j] < g[k]
           /\ \A k \in 1..Len(w) : w[k] = rows[g[k]] /\ rows[g[k]][2] # r[2]
  BY <1>2 DEF Within
<1>. HIDE DEF w
<1>4. Len(w) \in Nat /\ LiveCap \in Nat \ {0} /\ Len(rows) \in Nat
  BY <1>2, StreamAssumption
<1>5. /\ a \in Seq(RowSet) /\ Len(a) = Len(w) + 1
      /\ a[1] = r /\ \A i \in 2..Len(a) : a[i] = w[i - 1]
  <2>1. <<r>> \in Seq(RowSet) /\ Len(<<r>>) = 1 /\ <<r>>[1] = r
    OBVIOUS
  <2>2. /\ a \in Seq(RowSet) /\ Len(a) = 1 + Len(w)
        /\ \A i \in 1..(1 + Len(w)) : a[i] = IF i <= 1 THEN <<r>>[i] ELSE w[i - 1]
    BY <1>2, <2>1, ConcatProperties
  <2>. QED
    BY <1>4, <2>1, <2>2
<1>. HIDE DEF a
<1>6. n \in Nat /\ n <= LiveCap /\ n <= Len(a) /\ n >= 1
  BY <1>4, <1>5
<1>. HIDE DEF n
<1>7. m \in Seq(RowSet) /\ Len(m) = n /\ \A i \in 1..n : m[i] = a[i]
  <2>1. 1 \in Int /\ n \in Int /\ \A i \in 1..n : a[i] \in RowSet
    BY <1>4, <1>5, <1>6, ElementOfSeq
  <2>2. /\ m \in Seq(RowSet) /\ Len(m) = IF 1 <= n THEN n - 1 + 1 ELSE 0
        /\ \A i \in 1..(n - 1 + 1) : m[i] = a[1 + i - 1]
    BY <2>1, SubSeqProperties
  <2>. QED
    BY <1>6, <2>2
<1>. HIDE DEF m
<1>. DEFINE f == [k \in Nat |-> IF k - 1 \in 1..Len(w) THEN g[k - 1] ELSE 0]
<1>8. f \in [Nat -> Nat]
  <2>1. \A k \in 1..Len(w) : g[k] \in Nat
    BY <1>3, <1>4
  <2>. QED
    BY <2>1
<1>9. ASSUME NEW k \in 1..Len(m)
      PROVE  \/ k = 1 /\ m[k] = r
             \/ /\ k > 1 /\ f[k] \in 1..Len(rows)
                /\ m[k] = rows[f[k]] /\ rows[f[k]][2] # r[2]
                /\ \A j \in 2..(k - 1) : f[j] < f[k]
  <2>1. CASE k = 1
    BY <1>5, <1>6, <1>7, <2>1
  <2>2. CASE k # 1
    <3>1. k \in Nat /\ k > 1 /\ k - 1 \in 1..Len(w) /\ m[k] = w[k - 1]
      <4>1. k \in Nat /\ k > 1 /\ k <= n
        BY <1>6, <1>7, <2>2
      <4>2. k - 1 \in 1..Len(w) /\ k \in 2..Len(a) /\ k \in 1..n
        BY <1>4, <1>5, <1>6, <4>1
      <4>3. m[k] = a[k] /\ a[k] = w[k - 1]
        BY <1>5, <1>7, <4>2
      <4>. QED
        BY <4>1, <4>2, <4>3
    <3>2. f[k] = g[k - 1] /\ g[k - 1] \in 1..Len(rows)
      BY <1>3, <3>1
    <3>3. ASSUME NEW j \in 2..(k - 1) PROVE f[j] < f[k]
      <4>1. j \in Nat /\ j - 1 \in 1..Len(w) /\ j - 1 < k - 1
        BY <1>4, <3>1
      <4>2. f[j] = g[j - 1]
        BY <4>1
      <4>. QED
        BY <1>3, <3>1, <3>2, <4>1, <4>2
    <3>. QED
      BY <1>3, <3>1, <3>2, <3>3
  <2>. QED
    BY <2>1, <2>2
<1>. HIDE DEF f
<1>10. Merged(m, rows, r)
  BY <1>8, <1>9, Zenon DEF Merged
<1>. QED
  BY <1>1, <1>6, <1>7, <1>10

LEMMA TailIs ==
  ASSUME NEW S, NEW q \in Seq(S), q # <<>>
  PROVE  /\ Len(q) \in Nat /\ Len(q) >= 1 /\ Head(q) = q[1] /\ 1 \in 1..Len(q)
         /\ Tail(q) \in Seq(S) /\ Len(Tail(q)) = Len(q) - 1
         /\ \A i \in 1..(Len(q) - 1) : Tail(q)[i] = q[i + 1] /\ i + 1 \in 1..Len(q)
         /\ \A i \in 2..Len(q) : Tail(q)[i - 1] = q[i] /\ i - 1 \in 1..(Len(q) - 1)
<1>1. Len(q) \in Nat /\ Len(q) >= 1 /\ Head(q) = q[1]
  BY EmptySeq
<1>2. /\ Tail(q) \in Seq(S) /\ Len(Tail(q)) = Len(q) - 1
      /\ \A i \in 1..Len(Tail(q)) : Tail(q)[i] = q[i + 1]
  BY HeadTailProperties
<1>. QED
  BY <1>1, <1>2

\* What is heard is taken off the wire, and is what it says: a ready, or a row that is shown.
HeardReady(r) ==
  r = Ready /\ loop' = "reading" /\ seen' = seen
  /\ view'.rows = view.rows /\ view'.cursor = view.cursor
HeardRow(r) ==
  /\ r # Ready /\ r \in RowSet /\ loop' = loop
  /\ view'.rows = MergeLive(view.rows, r) /\ view'.cursor = MaxOf(view.cursor, r[2])
  /\ seen'.got = seen.got \cup {r} /\ Passed' = Passed
  /\ seen'.ep = IF r[2] > view.cursor THEN r[1] ELSE seen.ep

LEMMA HearIs ==
  ASSUME StreamInv, Hear
  PROVE  /\ UNCHANGED <<tail, old, load, log, sub, spent>> /\ loop \in {"asking", "reading"}
         /\ wire # <<>> /\ wire' = Tail(wire)
         /\ HeardReady(wire[1]) \/ HeardRow(wire[1])
         /\ TypeOK'
<1>1. TypeOK /\ view \in View /\ wire \in Seq(RowSet \cup {Ready})
      /\ seen \in SeenSet
  BY DEF StreamInv, TypeOK
<1>2. /\ UNCHANGED <<tail, old, load, log, sub, spent>> /\ loop \in {"asking", "reading"}
      /\ wire # <<>> /\ wire' = Tail(wire)
  BY DEF Hear
<1>3. Head(wire) = wire[1] /\ 1 \in 1..Len(wire) /\ wire' \in Seq(RowSet \cup {Ready})
  BY <1>1, <1>2, TailIs
<1>4. PICK r : r = wire[1]
  OBVIOUS
<1>5. r # Ready => r \in RowSet /\ r[1] \in Numbers /\ r[2] \in Numbers
  BY <1>1, <1>3, <1>4, WireTypes
<1>6. CASE r = Ready
  <2>1. view' = [view EXCEPT !.conn = "live"] /\ loop' = "reading" /\ seen' = seen
    BY <1>3, <1>4, <1>6 DEF Hear
  <2>2. view' \in View /\ view'.rows = view.rows /\ view'.cursor = view.cursor
    BY <1>1, <2>1 DEF View
  <2>. QED
    BY <1>1, <1>2, <1>3, <1>4, <1>6, <2>1, <2>2 DEF TypeOK, HeardReady
<1>7. CASE r # Ready
  <2>1. /\ view' = [view EXCEPT !.cursor = MaxOf(view.cursor, r[2]), !.rows = MergeLive(view.rows, r)]
        /\ seen' = [seen EXCEPT !.got = seen.got \cup {r},
                                !.ep = IF r[2] > view.cursor THEN r[1] ELSE seen.ep]
        /\ loop' = loop
    BY <1>3, <1>4, <1>7 DEF Hear
  <2>2. \A j, k \in 1..Len(view.rows) : j < k => view.rows[j][2] # view.rows[k][2]
    BY DEF StreamInv, Shows, NewestFirst
  <2>3. MergeLive(view.rows, r) \in Seq(RowSet)
    BY <1>1, <1>5, <1>7, <2>2, MergeIs, StreamTypes DEF Numbers
  <2>4. MaxOf(view.cursor, r[2]) \in Nat
    BY <1>1, <1>5, <1>7, StreamTypes DEF MaxOf, Numbers
  <2>5. /\ view' \in View
        /\ view'.rows = MergeLive(view.rows, r) /\ view'.cursor = MaxOf(view.cursor, r[2])
    BY <1>1, <2>1, <2>3, <2>4 DEF View
  <2>6. /\ seen' \in SeenSet
        /\ seen'.got = seen.got \cup {r} /\ Passed' = Passed
        /\ seen'.ep = IF r[2] > view.cursor THEN r[1] ELSE seen.ep
    BY <1>1, <1>5, <1>7, <2>1 DEF SeenSet, Passed
  <2>7. HeardRow(r)
    BY <1>5, <1>7, <2>1, <2>5, <2>6 DEF HeardRow
  <2>8. TypeOK'
    BY <1>1, <1>2, <1>3, <2>1, <2>5, <2>6 DEF TypeOK
  <2>. QED
    BY <1>2, <1>4, <2>7, <2>8
<1>. QED
  BY <1>6, <1>7

\* A row that is heard is newer than those that are shown, and so comes first.
LEMMA HearShows ==
  ASSUME StreamInv, Hear
  PROVE  Shows'
<1>1. TypeOK /\ Shows
  BY DEF StreamInv
<1>2. /\ UNCHANGED <<tail, old, load, log, sub, spent>>
      /\ wire # <<>> /\ wire' = Tail(wire) /\ loop \in {"asking", "reading"}
      /\ HeardReady(wire[1]) \/ HeardRow(wire[1])
      /\ TypeOK'
  BY HearIs
<1>3. /\ Len(wire) \in Nat /\ 1 \in 1..Len(wire) /\ Len(wire') = Len(wire) - 1
      /\ \A i \in 1..(Len(wire) - 1) : wire'[i] = wire[i + 1] /\ i + 1 \in 1..Len(wire)
  BY <1>1, <1>2, TailIs, WireTypes
<1>4. PICK r : r = wire[1]
  OBVIOUS
<1>5. \A x : Past(x) => Past(x)'
  BY <1>2 DEF Past, Fed
<1>6. r # Ready => /\ Past(r) /\ r[2] \in Nat
                   /\ \A k \in 1..Len(view.rows) : Newer(r, view.rows[k])
  BY <1>1, <1>3, <1>4, WireTypes DEF Shows
<1>7. view.cursor \in Nat /\ view.rows \in Seq(RowSet)
      /\ \A k \in 1..Len(view.rows) : view.rows[k][2] \in Nat
  BY <1>1, StreamTypes DEF Numbers
<1>8. sub.at # "asked" /\ (sub.at = "subscribed" => r = Ready)
  BY <1>1, <1>2, <1>3, <1>4 DEF StreamInv, Phases
<1>9. \A k \in 1..Len(view'.rows) :
        \/ r # Ready /\ view'.rows[k] = r
        \/ \E l \in 1..Len(view.rows) : view'.rows[k] = view.rows[l]
  <2>1. CASE HeardReady(r)
    BY <2>1 DEF HeardReady
  <2>2. CASE HeardRow(r)
    <3>1. /\ r \in RowSet /\ r[2] \in Nat /\ view'.rows = MergeLive(view.rows, r)
          /\ \A j, k \in 1..Len(view.rows) : j < k => view.rows[j][2] # view.rows[k][2]
      BY <1>1, <1>6, <2>2 DEF HeardRow, Shows, NewestFirst
    <3>2. Merged(view'.rows, view.rows, r)
      BY <1>7, <3>1, MergeIs
    <3>3. PICK f \in [Nat -> Nat] :
              \A k \in 1..Len(view'.rows) :
                \/ k = 1 /\ view'.rows[k] = r
                \/ /\ k > 1 /\ f[k] \in 1..Len(view.rows)
                   /\ view'.rows[k] = view.rows[f[k]] /\ view.rows[f[k]][2] # r[2]
                   /\ \A j \in 2..(k - 1) : f[j] < f[k]
      BY <3>2, Zenon DEF Merged
    <3>4. ASSUME NEW k \in 1..Len(view'.rows)
          PROVE  \/ view'.rows[k] = r
                 \/ \E l \in 1..Len(view.rows) : view'.rows[k] = view.rows[l]
      BY <3>3, Zenon
    <3>5. r # Ready
      BY <2>2 DEF HeardRow
    <3>. QED
      BY <3>4, <3>5
  <2>. QED
    BY <1>2, <1>4, <2>1, <2>2
<1>10. NewestFirst'
  <2>1. CASE HeardReady(r)
    BY <1>1, <2>1 DEF Shows, NewestFirst, HeardReady, Newer
  <2>2. CASE HeardRow(r)
    <3>1. /\ r # Ready /\ r \in RowSet /\ r[2] \in Nat /\ view'.rows = MergeLive(view.rows, r)
          /\ \A j, k \in 1..Len(view.rows) : j < k => view.rows[j][2] # view.rows[k][2]
      BY <1>1, <1>6, <2>2 DEF HeardRow, Shows, NewestFirst
    <3>2. /\ Len(view'.rows) <= LiveCap
          /\ Merged(view'.rows, view.rows, r)
      BY <1>7, <3>1, MergeIs
    <3>3. PICK f \in [Nat -> Nat] :
              \A k \in 1..Len(view'.rows) :
                \/ k = 1 /\ view'.rows[k] = r
                \/ /\ k > 1 /\ f[k] \in 1..Len(view.rows)
                   /\ view'.rows[k] = view.rows[f[k]] /\ view.rows[f[k]][2] # r[2]
                   /\ \A j \in 2..(k - 1) : f[j] < f[k]
      BY <3>2 DEF Merged
    <3>4. ASSUME NEW j \in 1..Len(view'.rows), NEW k \in 1..Len(view'.rows), j < k
          PROVE  Newer(view'.rows[j], view'.rows[k]) /\ view'.rows[j][2] # view'.rows[k][2]
      <4>0. k \in Nat /\ j \in Nat /\ k > 1 /\ (j = 1 \/ j \in 2..(k - 1))
        BY <3>4
      <4>1. /\ f[k] \in 1..Len(view.rows) /\ view'.rows[k] = view.rows[f[k]]
            /\ view.rows[f[k]][2] # r[2] /\ \A i \in 2..(k - 1) : f[i] < f[k]
        <5>1. ~(k = 1)
          BY <4>0
        <5>. QED
          BY <3>3, <5>1, Zenon
      <4>2. CASE j = 1
        <5>0. ~(j > 1)
          BY <4>2
        <5>1. view'.rows[j] = r
          BY <3>3, <5>0, Zenon
        <5>. QED
          BY <1>6, <3>1, <4>1, <5>1
      <4>3. CASE j # 1
        <5>1. f[j] \in 1..Len(view.rows) /\ view'.rows[j] = view.rows[f[j]] /\ f[j] < f[k]
          BY <3>3, <4>0, <4>1, <4>3
        <5>. QED
          BY <1>1, <4>1, <5>1 DEF Shows, NewestFirst
      <4>. QED
        BY <4>2, <4>3
    <3>. QED
      BY <3>2, <3>4 DEF NewestFirst, Newer
  <2>. QED
    BY <1>2, <1>4, <2>1, <2>2
<1>11. view'.cursor \in Nat /\ view.cursor <= view'.cursor /\ (r # Ready => r[2] <= view'.cursor)
  BY <1>2, <1>4, <1>6, <1>7 DEF HeardReady, HeardRow, MaxOf
<1>12. ASSUME NEW k \in 1..Len(view'.rows)
       PROVE  /\ Past(view.rows[k])' /\ view'.rows[k][2] <= view'.cursor
              /\ sub'.at = "asked" \/ (sub'.at = "subscribed" /\ sub'.after > 0) =>
                   view'.rows[k][2] <= sub'.after
  <2>1. CASE r # Ready /\ view'.rows[k] = r
    BY <1>2, <1>5, <1>6, <1>8, <1>11, <2>1
  <2>2. CASE \E l \in 1..Len(view.rows) : view'.rows[k] = view.rows[l]
    <3>1. PICK l \in 1..Len(view.rows) : view'.rows[k] = view.rows[l]
      BY <2>2
    <3>2. /\ Past(view.rows[l]) /\ view.rows[l][2] <= view.cursor /\ view.rows[l][2] \in Nat
          /\ (sub.at = "subscribed" /\ sub.after > 0) => view.rows[l][2] <= sub.after
      BY <1>1, <1>7, <3>1 DEF Shows
    <3>3. view.rows[l][2] <= view'.cursor
      BY <1>7, <1>11, <3>2
    <3>. QED
      BY <1>2, <1>5, <1>8, <3>1, <3>2, <3>3
  <2>. QED
    BY <1>9, <2>1, <2>2
<1>13. ASSUME NEW i \in 1..Len(wire'), wire'[i] # Ready
       PROVE  /\ Past(wire[i])'
              /\ \A k \in 1..Len(view'.rows) : Newer(wire'[i], view'.rows[k])
              /\ \A j \in 1..Len(wire') : i < j /\ wire'[j] # Ready => Newer(wire'[j], wire'[i])
  <2>1. /\ wire'[i] = wire[i + 1] /\ i + 1 \in 1..Len(wire) /\ i \in Nat /\ 1 < i + 1
    BY <1>3
  <2>2. Past(wire[i + 1])
    BY <1>1, <1>13, <2>1 DEF Shows
  <2>3. Past(wire[i])'
    BY <1>5, <2>1, <2>2
  <2>4. ASSUME NEW k \in 1..Len(view'.rows) PROVE Newer(wire'[i], view'.rows[k])
    <3>1. r # Ready => Newer(wire'[i], r)
      BY <1>1, <1>3, <1>4, <1>13, <2>1 DEF Shows
    <3>2. \A l \in 1..Len(view.rows) : Newer(wire'[i], view.rows[l])
      BY <1>1, <1>13, <2>1 DEF Shows
    <3>. QED
      BY <1>9, <3>1, <3>2
  <2>5. ASSUME NEW j \in 1..Len(wire'), i < j, wire'[j] # Ready PROVE Newer(wire'[j], wire'[i])
    <3>1. wire'[j] = wire[j + 1] /\ j + 1 \in 1..Len(wire) /\ i + 1 < j + 1
      BY <1>3, <2>5
    <3>. QED
      BY <1>1, <1>13, <2>1, <2>5, <3>1 DEF Shows
  <2>. QED
    BY <2>3, <2>4, <2>5
<1>. QED
  BY <1>10, <1>12, <1>13 DEF Shows, Ready, Newer

\* What is heard is no longer on the wire, and is received.
LEMMA HearAccounts ==
  ASSUME StreamInv, Hear, NEW s \in Numbers, NEW i \in 1..Len(wire), NEW j, Accounted(s, i, j)
  PROVE  Accounted(s, i - 1, j)'
<1>1. TypeOK
  BY DEF StreamInv
<1>2. /\ log' = log /\ sub' = sub /\ wire # <<>> /\ wire' = Tail(wire)
      /\ HeardReady(wire[1]) \/ HeardRow(wire[1])
  BY HearIs
<1>3. Row(s)' = Row(s) /\ Row(s) # Ready
  BY <1>1, <1>2, RowIs DEF Row
<1>4. /\ Len(wire) \in Nat
      /\ \A k \in 2..Len(wire) : wire'[k - 1] = wire[k] /\ k - 1 \in 1..(Len(wire) - 1)
  BY <1>1, <1>2, TailIs, WireTypes
<1>5. seen.got \subseteq seen'.got /\ Passed \subseteq Passed'
  BY <1>2 DEF HeardReady, HeardRow, Passed
<1>6. CASE \E k \in 1..i : wire[k] = Row(s)
  <2>1. PICK k \in 1..i : wire[k] = Row(s)
    BY <1>6
  <2>2. CASE k = 1
    <3>1. wire[1] # Ready /\ wire[1] = Row(s)
      BY <1>3, <2>1, <2>2
    <3>2. wire[1] \in seen'.got
      BY <1>2, <3>1 DEF HeardReady, HeardRow
    <3>. QED
      BY <1>3, <3>1, <3>2 DEF Accounted
  <2>3. CASE k # 1
    <3>1. k \in 2..Len(wire) /\ k - 1 \in 1..(i - 1)
      BY <1>4, <2>1, <2>3
    <3>2. wire'[k - 1] = Row(s)
      BY <1>4, <2>1, <3>1
    <3>. QED
      BY <1>3, <3>1, <3>2 DEF Accounted
  <2>. QED
    BY <2>2, <2>3
<1>. QED
  BY <1>2, <1>3, <1>5, <1>6 DEF Accounted

LEMMA HearStream ==
  ASSUME StreamInv, Hear
  PROVE  StreamInv'
<1>1. TypeOK /\ TypeOK' /\ Shows'
  BY HearIs, HearShows DEF StreamInv
<1>2. /\ UNCHANGED <<tail, old, load, log, sub, spent>> /\ loop \in {"asking", "reading"}
      /\ wire # <<>> /\ wire' = Tail(wire)
      /\ HeardReady(wire[1]) \/ HeardRow(wire[1])
  BY HearIs
<1>3. /\ Len(wire) \in Nat /\ Len(wire) >= 1 /\ 1 \in 1..Len(wire) /\ Len(wire') = Len(wire) - 1
      /\ Head(wire) = wire[1]
      /\ \A i \in 1..(Len(wire) - 1) : wire'[i] = wire[i + 1] /\ i + 1 \in 1..Len(wire)
  BY <1>1, <1>2, TailIs, WireTypes
<1>4. wire[1] # Ready => /\ wire[1] \in RowSet /\ wire[1][1] \in Numbers /\ wire[1][2] \in Numbers
                         /\ Past(wire[1])
  BY <1>1, <1>3, WireTypes DEF StreamInv, Shows
<1>5. Phases'
  <2>1. loop' \in {"asking", "reading"} <=> sub'.at # "none"
    BY <1>2 DEF StreamInv, Phases, HeardReady, HeardRow
  <2>2. sub.at \notin {"none", "asked"}
    BY <1>2 DEF StreamInv, Phases
  <2>3. sub'.at = "subscribed" => \A i \in 1..Len(wire') : wire'[i] = Ready
    BY <1>2, <1>3 DEF StreamInv, Phases
  <2>4. ASSUME loop' = "asking", sub'.at \in {"subscribed", "live", "ended"} PROVE FALSE
    BY <1>2, <1>3, <2>4 DEF StreamInv, Phases, HeardReady, HeardRow
  <2>5. view'.cursor \in Nat
    BY <1>1, StreamTypes DEF TypeOK, View
  <2>. QED
    BY <1>2, <2>1, <2>2, <2>3, <2>4, Zenon DEF StreamInv, Phases
<1>6. Waits'
  BY <1>2, <1>4 DEF StreamInv, Waits, Fed, Past, HeardReady, HeardRow
<1>7. ASSUME Tracked PROVE Owed'
  <2>1. Owed
    BY <1>7 DEF StreamInv
  <2>2. sub.last \in Nat /\ log.seq \in Nat /\ log.ep \in Numbers /\ view.cursor \in Nat
        /\ \A j \in 1..Len(sub.buf) : sub.buf[j] \in Nat
    BY <1>1, StreamTypes, SubTypes
  <2>3. CursorKept'
    <3>1. ASSUME seen'.ep = log.ep, NEW s \in 1..view'.cursor PROVE Row(s) \in seen'.got \cup Passed'
      <4>1. CASE view'.cursor = view.cursor /\ seen'.ep = seen.ep
        <5>1. Row(s) \in seen.got \cup Passed
          BY <1>7, <2>1, <3>1, <4>1 DEF Owed, CursorKept, Tracked
        <5>. QED
          BY <1>2, <5>1 DEF HeardReady, HeardRow, Passed
      <4>2. CASE ~(view'.cursor = view.cursor /\ seen'.ep = seen.ep)
        <5>1. HeardRow(wire[1]) /\ wire[1][2] \in Numbers /\ wire[1][1] \in Numbers
          BY <1>2, <1>4, <4>2 DEF HeardReady, HeardRow
        <5>2. wire[1][2] > view.cursor /\ wire[1][1] = log.ep /\ s \in 1..wire[1][2]
          BY <2>2, <3>1, <4>2, <5>1 DEF HeardRow, MaxOf, Numbers
        <5>3. Accounted(s, 1, 0)
          BY <1>3, <2>1, <5>2 DEF Owed
        <5>4. Row(s) \in seen.got \cup Passed \/ wire[1] = Row(s)
          BY <5>3 DEF Accounted
        <5>. QED
          BY <5>1, <5>4 DEF HeardRow
      <4>. QED
        BY <4>1, <4>2
    <3>2. \A s : Row(s)' = Row(s)
      BY <1>2 DEF Row
    <3>. QED
      BY <1>2, <3>1, <3>2 DEF CursorKept
  <2>4. ASSUME NEW i \in 1..Len(wire'), wire'[i][1] = log.ep, NEW s \in 1..wire'[i][2]
        PROVE  Accounted(s, i, 0)'
    <3>1. wire'[i] = wire[i + 1] /\ i + 1 \in 1..Len(wire) /\ i \in Nat
      BY <1>3
    <3>2. wire[i + 1][2] \in Nat
      BY <1>1, <3>1, WireTypes
    <3>3. s \in Numbers /\ Accounted(s, i + 1, 0)
      BY <2>1, <2>4, <3>1, <3>2 DEF Owed, Numbers
    <3>4. Accounted(s, (i + 1) - 1, 0)'
      BY <3>1, <3>3, HearAccounts
    <3>. QED
      BY <3>1, <3>4
  <2>5. \A s \in Numbers, j \in Nat : Accounted(s, Len(wire), j) => Accounted(s, Len(wire), j)'
    <3>1. PICK n \in 1..Len(wire) : n = Len(wire)
      BY <1>3
    <3>2. \A s \in Numbers, j \in Nat : Accounted(s, n, j) => Accounted(s, n - 1, j)'
      BY HearAccounts
    <3>3. n - 1 = Len(wire)'
      BY <1>3, <3>1
    <3>. QED
      BY <3>1, <3>2, <3>3 DEF Accounted
  <2>6. \A n \in Nat : 1..n \subseteq Numbers
    BY DEF Numbers
  <2>7. Fed' => \A s \in 1..sub'.last : Accounted(s, Len(wire), 0)'
    BY <1>2, <2>1, <2>2, <2>5, <2>6 DEF Owed, Fed
  <2>8. sub'.at = "live" \/ (sub'.at = "subscribed" /\ sub'.after = 0) =>
       /\ \A j \in 1..Len(sub'.buf) : \A s \in 1..sub'.buf[j] : Accounted(s, Len(wire), j)'
       /\ ~sub'.closed => \A s \in 1..log'.seq : Accounted(s, Len(wire), Len(sub.buf))'
    <3>0. sub' = sub
      BY <1>2
    <3>1. Len(sub.buf) \in Nat /\ \A j \in 1..Len(sub.buf) : j \in Nat
      BY <1>1, SubTypes
    <3>. QED
      BY <1>2, <2>1, <2>2, <2>5, <2>6, <3>1 DEF Owed
  <2>. QED
    BY <1>2, <2>3, <2>4, <2>7, <2>8 DEF Owed
<1>8. Tracked' => Tracked
  BY <1>2 DEF Tracked
<1>. QED
  BY <1>1, <1>5, <1>6, <1>7, <1>8 DEF StreamInv

----------------------------------------------------------------------------
(* The gateway *)

LEMMA BufferIs ==
  ASSUME NEW q \in Seq(Numbers), NEW e \in Numbers
  PROVE  /\ Len(q) \in Nat
         /\ Append(q, e) \in Seq(Numbers) /\ Len(Append(q, e)) = Len(q) + 1
         /\ \A i \in 1..Len(q) : Append(q, e)[i] = q[i]
         /\ Append(q, e)[Len(q) + 1] = e
         /\ \A i \in 1..(Len(q) + 1) : i \in 1..Len(q) \/ i = Len(q) + 1
BY AppendProperties

\* A row that is appended waits, or drops the subscriber.
LEMMA AppendedIs ==
  ASSUME StreamInv, Appended
  PROVE  /\ UNCHANGED <<tail, view, loop, old, load, wire, seen, spent>>
         /\ log'.ep = log.ep /\ log'.seq = log.seq + 1
         /\ \/ UNCHANGED sub /\ (Fed => sub.closed)
            \/ /\ Fed /\ sub'.at = sub.at /\ sub'.after = sub.after /\ sub'.last = sub.last
               /\ \/ sub'.closed = sub.closed /\ sub'.buf = Append(sub.buf, log.seq + 1) /\ ~sub.closed
                  \/ sub'.closed = TRUE /\ sub'.buf = sub.buf
         /\ TypeOK'
<1>1. /\ TypeOK /\ log \in [ep : Numbers, lo : Numbers, seq : 0..MaxSeq] /\ sub \in Sub
      /\ log.seq < MaxSeq /\ MaxSeq \in Nat /\ RingCap \in Nat
      /\ UNCHANGED <<tail, view, loop, old, load, wire, seen, spent>>
  BY StreamAssumption DEF StreamInv, TypeOK, Appended
<1>2. log.lo \in Numbers /\ log.seq \in Nat /\ sub.buf \in Seq(Numbers)
  BY <1>1, StreamTypes, SubTypes
<1>3. MaxOf(log.lo, log.seq + 2 - RingCap) \in Numbers
  BY <1>1, <1>2 DEF MaxOf, Numbers
<1>4. log' = [log EXCEPT !.seq = log.seq + 1, !.lo = MaxOf(log.lo, log.seq + 2 - RingCap)]
  BY DEF Appended
<1>5. /\ log' \in [ep : Numbers, lo : Numbers, seq : 0..MaxSeq]
      /\ log'.ep = log.ep /\ log'.seq = log.seq + 1
  <2>1. log.seq + 1 \in 0..MaxSeq
    BY <1>1, <1>2
  <2>. QED
    BY <1>1, <1>3, <1>4, <2>1
<1>6. log.seq + 1 \in Numbers
  BY <1>2 DEF Numbers
<1>7. Append(sub.buf, log.seq + 1) \in Seq(Numbers)
  BY <1>2, <1>6, BufferIs
<1>8. CASE ~Fed \/ sub.closed
  <2>1. sub' = sub
    BY <1>8 DEF Appended, Fed
  <2>2. TypeOK'
    BY <1>1, <1>5, <2>1 DEF TypeOK
  <2>. QED
    BY <1>1, <1>5, <1>8, <2>1, <2>2
<1>9. CASE Fed /\ ~sub.closed /\ Len(sub.buf) < SubCap
  <2>1. sub' = [sub EXCEPT !.buf = Append(sub.buf, log.seq + 1)]
    BY <1>9 DEF Appended, Fed
  <2>2. /\ sub' \in Sub /\ sub'.at = sub.at /\ sub'.after = sub.after /\ sub'.last = sub.last
        /\ sub'.closed = sub.closed /\ sub'.buf = Append(sub.buf, log.seq + 1)
    BY <1>1, <1>7, <2>1 DEF Sub
  <2>3. TypeOK'
    BY <1>1, <1>5, <2>2 DEF TypeOK
  <2>. QED
    BY <1>1, <1>5, <1>9, <2>2, <2>3
<1>10. CASE Fed /\ ~sub.closed /\ ~(Len(sub.buf) < SubCap)
  <2>1. sub' = [sub EXCEPT !.closed = TRUE]
    BY <1>10 DEF Appended, Fed
  <2>2. /\ sub' \in Sub /\ sub'.at = sub.at /\ sub'.after = sub.after /\ sub'.last = sub.last
        /\ sub'.closed = TRUE /\ sub'.buf = sub.buf
    BY <1>1, <2>1 DEF Sub
  <2>3. TypeOK'
    BY <1>1, <1>5, <2>2 DEF TypeOK
  <2>. QED
    BY <1>1, <1>5, <1>10, <2>2, <2>3
<1>. QED
  BY <1>8, <1>9, <1>10

LEMMA AppendedStream ==
  ASSUME StreamInv, Appended
  PROVE  StreamInv'
<1>1. /\ UNCHANGED <<tail, view, loop, old, load, wire, seen, spent>>
      /\ log'.ep = log.ep /\ log'.seq = log.seq + 1 /\ TypeOK'
  BY AppendedIs
<1>2. /\ TypeOK /\ log.seq \in Nat /\ log.ep \in Numbers /\ sub.last \in Nat
      /\ sub.buf \in Seq(Numbers) /\ Len(sub.buf) \in Nat
      /\ \A i \in 1..Len(sub.buf) : sub.buf[i] \in Nat
  BY StreamTypes, SubTypes DEF StreamInv
<1>3. log.seq + 1 \in Numbers
  BY <1>2 DEF Numbers
<1>. DEFINE waits == Append(sub.buf, log.seq + 1)
<1>4. /\ Len(waits) = Len(sub.buf) + 1
      /\ \A i \in 1..Len(sub.buf) : waits[i] = sub.buf[i]
      /\ waits[Len(sub.buf) + 1] = log.seq + 1
      /\ \A i \in 1..(Len(sub.buf) + 1) : i \in 1..Len(sub.buf) \/ i = Len(sub.buf) + 1
  BY <1>2, <1>3, BufferIs
<1>. HIDE DEF waits
<1>5. \/ UNCHANGED sub /\ (Fed => sub.closed)
      \/ /\ Fed /\ sub'.at = sub.at /\ sub'.after = sub.after /\ sub'.last = sub.last
         /\ \/ sub'.closed = sub.closed /\ sub'.buf = waits /\ ~sub.closed
            \/ sub'.closed = TRUE /\ sub'.buf = sub.buf
  BY AppendedIs DEF waits
<1>6. sub'.at = sub.at /\ sub'.after = sub.after /\ sub'.last = sub.last
      /\ (sub'.buf = sub.buf \/ sub'.buf = waits) /\ (~Fed => UNCHANGED sub)
      /\ (Fed' <=> Fed)
  BY <1>5 DEF Fed
<1>7. Fed => \A i \in 1..Len(sub.buf) : sub.buf[i] <= log.seq
  BY DEF StreamInv, Waits
<1>8. Phases'
  BY <1>1, <1>6 DEF StreamInv, Phases, Fed
<1>9. ASSUME NEW x, x[1] \in Nat, x[2] \in Nat, Past(x)
      PROVE  Past(x)'
  <2>1. ASSUME Fed', x[1] = log.ep, NEW i \in 1..Len(sub'.buf), sub'.buf[i] > sub'.last
        PROVE  x[2] < sub'.buf[i]
    <3>1. CASE i \in 1..Len(sub.buf) /\ sub'.buf[i] = sub.buf[i]
      BY <1>6, <1>9, <2>1, <3>1 DEF Past
    <3>2. CASE sub'.buf[i] = log.seq + 1
      BY <1>2, <1>9, <2>1, <3>2 DEF Past
    <3>. QED
      BY <1>4, <1>6, <2>1, <3>1, <3>2
  <2>2. x[1] = log.ep => x[2] <= log.seq + 1
    BY <1>2, <1>9 DEF Past
  <2>. QED
    BY <1>1, <1>9, <2>1, <2>2 DEF Past
<1>10. Shows'
  <2>1. Shows /\ NewestFirst'
    BY <1>1 DEF StreamInv, Shows, NewestFirst, Newer
  <2>2. /\ \A k \in 1..Len(view.rows) : view.rows[k][1] \in Nat /\ view.rows[k][2] \in Nat
        /\ \A i \in 1..Len(wire) : wire[i][1] \in Nat /\ wire[i][2] \in Nat
    BY <1>2, StreamTypes, WireTypes DEF Numbers
  <2>3. \A k \in 1..Len(view.rows) : Past(view.rows[k])'
    BY <1>1, <1>9, <2>1, <2>2 DEF Shows
  <2>4. \A i \in 1..Len(wire) : wire[i] # Ready => Past(wire[i])'
    BY <1>1, <1>9, <2>1, <2>2 DEF Shows
  <2>. QED
    BY <1>1, <1>6, <2>1, <2>3, <2>4 DEF Shows, Ready, Newer
<1>11. Waits'
  <2>1. ASSUME Fed', NEW i \in 1..Len(sub'.buf)
        PROVE  /\ sub'.buf[i] <= log.seq + 1
               /\ \A j \in 1..Len(sub'.buf) : i < j => sub'.buf[i] < sub'.buf[j]
    <3>1. Fed /\ \A k \in 1..Len(sub.buf) : sub.buf[k] <= log.seq /\ sub.buf[k] < log.seq + 1
      BY <1>2, <1>6, <1>7, <2>1
    <3>2. CASE sub'.buf = sub.buf
      BY <1>2, <2>1, <3>1, <3>2 DEF StreamInv, Waits
    <3>3. CASE sub'.buf = waits
      <4>1. waits[i] <= log.seq + 1
        <5>1. i \in 1..Len(sub.buf) \/ i = Len(sub.buf) + 1
          BY <1>4, <2>1, <3>3
        <5>2. log.seq \in Nat /\ log.seq + 1 <= log.seq + 1
          BY <1>2
        <5>3. CASE i \in 1..Len(sub.buf)
          <6>1. waits[i] = sub.buf[i] /\ sub.buf[i] <= log.seq
            BY <1>4, <3>1, <5>3, Zenon
          <6>. QED
            BY <1>2, <5>2, <5>3, <6>1
        <5>4. CASE i = Len(sub.buf) + 1
          <6>1. waits[i] = log.seq + 1
            BY <1>4, <5>4, Zenon
          <6>. QED
            BY <5>2, <6>1
        <5>. QED
          BY <5>1, <5>3, <5>4, Zenon
      <4>2. ASSUME NEW j \in 1..Len(waits), i < j PROVE waits[i] < waits[j]
        <5>1. i \in 1..Len(sub.buf) /\ waits[i] = sub.buf[i]
          BY <1>2, <1>4, <2>1, <3>3, <4>2
        <5>2. CASE j \in 1..Len(sub.buf)
          BY <1>4, <3>1, <4>2, <5>1, <5>2 DEF StreamInv, Waits
        <5>3. CASE j = Len(sub.buf) + 1
          BY <1>4, <3>1, <5>1, <5>3
        <5>. QED
          BY <1>4, <5>2, <5>3
      <4>. QED
        BY <3>3, <4>1, <4>2
    <3>. QED
      BY <1>6, <3>2, <3>3
  <2>. QED
    BY <1>1, <2>1 DEF StreamInv, Waits
<1>12. ASSUME Tracked PROVE Owed'
  <2>1. Owed
    BY <1>12 DEF StreamInv
  <2>2. \A s : Row(s)' = Row(s)
    BY <1>1 DEF Row
  <2>3. ASSUME NEW s, NEW i, NEW j \in 0..Len(sub.buf), Accounted(s, i, j)
        PROVE  Accounted(s, i, j)'
    <3>1. \A k \in 1..j : sub'.buf[k] = sub.buf[k]
      BY <1>2, <1>4, <1>6
    <3>. QED
      BY <1>1, <2>2, <2>3, <3>1 DEF Accounted, Passed
  <2>4. CursorKept'
    BY <1>1, <2>1, <2>2 DEF Owed, CursorKept, Passed, Tracked
  <2>5. /\ \A i \in 1..Len(wire) : wire[i][1] = log.ep => \A s \in 1..wire[i][2] : Accounted(s, i, 0)'
        /\ Fed => \A s \in 1..sub.last : Accounted(s, Len(wire), 0)'
    <3>1. 0 \in 0..Len(sub.buf)
      BY <1>2
    <3>. QED
      BY <1>1, <2>1, <2>3, <3>1 DEF Owed
  <2>6. ASSUME sub.at = "live" \/ (sub.at = "subscribed" /\ sub.after = 0)
        PROVE  /\ \A j \in 1..Len(sub'.buf) : \A s \in 1..sub'.buf[j] : Accounted(s, Len(wire), j)'
               /\ ~sub'.closed => \A s \in 1..log'.seq : Accounted(s, Len(wire), Len(sub.buf))'
    <3>1. Fed
      BY <2>6 DEF Fed
    <3>2. /\ \A j \in 1..Len(sub.buf) : \A s \in 1..sub.buf[j] : Accounted(s, Len(wire), j)'
          /\ ~sub.closed => \A s \in 1..log.seq : Accounted(s, Len(wire), Len(sub.buf))
      <4>1. \A j \in 1..Len(sub.buf) : j \in 0..Len(sub.buf)
        BY <1>2
      <4>. QED
        BY <1>1, <2>1, <2>3, <2>6, <4>1 DEF Owed
    <3>3. CASE sub'.buf = sub.buf /\ sub'.closed
      BY <3>2, <3>3
    <3>4. CASE sub'.buf = waits /\ ~sub.closed
      <4>1. PICK n \in Nat : n = Len(sub.buf)
        BY <1>2
      <4>2. ASSUME NEW s \in 1..(log.seq + 1) PROVE Accounted(s, Len(wire), n + 1)'
        <5>1. CASE s \in 1..log.seq
          <6>1. Accounted(s, Len(wire), n) /\ n \in 0..Len(sub.buf)
            BY <3>2, <3>4, <4>1, <5>1
          <6>2. Accounted(s, Len(wire), n)'
            BY <1>1, <2>3, <6>1
          <6>. QED
            BY <6>2 DEF Accounted
        <5>2. CASE s = log.seq + 1
          <6>1. sub'.buf[n + 1] = s /\ n + 1 \in 1..(n + 1)
            BY <1>4, <3>4, <4>1, <5>2
          <6>. QED
            BY <6>1 DEF Accounted
        <5>. QED
          BY <1>2, <5>1, <5>2
      <4>3. Len(sub'.buf) = n + 1 /\ Len(sub.buf)' = n + 1
        BY <1>4, <3>4, <4>1
      <4>4. ASSUME NEW j \in 1..Len(sub'.buf), NEW s \in 1..sub'.buf[j]
            PROVE  Accounted(s, Len(wire), j)'
        <5>1. CASE j \in 1..Len(sub.buf)
          <6>1. s \in 1..sub.buf[j]
            BY <1>4, <3>4, <4>4, <5>1
          <6>. QED
            BY <3>2, <5>1, <6>1
        <5>2. CASE j = n + 1
          <6>1. s \in 1..(log.seq + 1)
            BY <1>4, <3>4, <4>1, <4>4, <5>2
          <6>. QED
            BY <4>2, <5>2, <6>1
        <5>. QED
          BY <1>4, <4>1, <4>3, <5>1, <5>2
      <4>5. \A s \in 1..log'.seq : Accounted(s, Len(wire), Len(sub.buf))'
        BY <1>1, <4>2, <4>3 DEF Accounted
      <4>. QED
        BY <4>4, <4>5
    <3>. QED
      BY <1>5, <3>1, <3>3, <3>4
  <2>. QED
    BY <1>1, <1>6, <2>4, <2>5, <2>6 DEF Owed
<1>13. Tracked' => Tracked
  BY <1>1 DEF Tracked
<1>. QED
  BY <1>1, <1>8, <1>10, <1>11, <1>12, <1>13 DEF StreamInv

LEMMA SubscribeIs ==
  ASSUME StreamInv, Subscribe
  PROVE  /\ UNCHANGED <<tail, view, loop, old, load, log, spent>> /\ sub.at = "asked"
         /\ sub'.at = "subscribed" /\ sub'.after = From /\ sub'.last = From /\ From \in Nat
         /\ sub'.buf = <<>> /\ sub'.closed = FALSE /\ wire' = <<Ready>>
         /\ seen'.got = seen.got /\ seen'.ep = seen.ep /\ Passed \subseteq Passed'
         /\ From = 0 => \A s \in 1..log.seq : Row(s) \in seen'.got \cup Passed'
         /\ From # 0 /\ seen.ep # log.ep => \A s \in (1..From) \cap (1..log.seq) : Row(s) \in seen'.got \cup Passed'
         /\ TypeOK'
<1>1. /\ TypeOK /\ sub \in Sub /\ log.seq \in Nat
      /\ seen \in SeenSet
      /\ sub.at = "asked" /\ sub.buf = <<>> /\ sub.closed = FALSE /\ sub.after \in Nat
      /\ UNCHANGED <<tail, view, loop, old, load, log, spent>>
  BY StreamTypes, SubTypes DEF StreamInv, TypeOK, Phases, Subscribe
<1>2. PICK from \in Nat : from = From
  BY <1>1 DEF From
<1>3. sub' = [sub EXCEPT !.at = "subscribed", !.after = from, !.last = from] /\ wire' = <<Ready>>
  BY <1>2 DEF Subscribe
<1>4. /\ sub' \in Sub /\ sub'.at = "subscribed" /\ sub'.after = from /\ sub'.last = from
      /\ sub'.buf = <<>> /\ sub'.closed = FALSE
  BY <1>1, <1>3 DEF Sub
<1>5. PICK more : more = Unasked
  OBVIOUS
<1>6. more \subseteq RowSet
  <2>1. \A s \in 1..log.seq : Row(s) \in RowSet
    BY <1>1, RowIs DEF Numbers
  <2>. QED
    BY <1>5, <2>1 DEF Unasked
<1>7. PICK p : p = Pass(more) /\ seen' = [p EXCEPT !.begun = TRUE]
  BY <1>5 DEF Subscribe
<1>8. /\ seen' \in SeenSet
      /\ seen'.got = seen.got /\ seen'.ep = seen.ep
      /\ Passed \subseteq Passed' /\ more \subseteq seen'.got \cup Passed'
  <2>1. /\ p \in SeenSet /\ p.got = seen.got /\ p.ep = seen.ep
        /\ Passed \subseteq p.free \cup p.lost
        /\ more \subseteq p.got \cup p.free \cup p.lost
    BY <1>1, <1>6, <1>7, PassIs
  <2>2. seen' \in SeenSet /\ seen'.got = p.got /\ seen'.ep = p.ep /\ seen'.free = p.free /\ seen'.lost = p.lost
    BY <1>7, <2>1 DEF SeenSet
  <2>. QED
    BY <2>1, <2>2 DEF Passed
<1>9. wire' \in Seq(RowSet \cup {Ready})
  BY <1>3
<1>10. TypeOK'
  BY <1>1, <1>4, <1>8, <1>9 DEF TypeOK
<1>11. /\ From = 0 => \A s \in 1..log.seq : Row(s) \in seen'.got \cup Passed'
       /\ From # 0 /\ seen.ep # log.ep => \A s \in (1..From) \cap (1..log.seq) : Row(s) \in seen'.got \cup Passed'
  <2>1. ASSUME NEW s \in 1..log.seq, From = 0 \/ (seen.ep # log.ep /\ s <= From)
        PROVE  Row(s) \in more
    BY <1>5, <2>1 DEF Unasked
  <2>. QED
    BY <1>1, <1>2, <1>8, <2>1
<1>. QED
  BY <1>1, <1>2, <1>3, <1>4, <1>8, <1>10, <1>11

LEMMA SubscribeStream ==
  ASSUME StreamInv, Subscribe
  PROVE  StreamInv'
<1>1. /\ UNCHANGED <<tail, view, loop, old, load, log, spent>> /\ sub.at = "asked"
      /\ sub'.at = "subscribed" /\ sub'.after = From /\ sub'.last = From /\ From \in Nat
      /\ sub'.buf = <<>> /\ sub'.closed = FALSE /\ wire' = <<Ready>>
      /\ seen'.got = seen.got /\ seen'.ep = seen.ep /\ Passed \subseteq Passed'
      /\ From = 0 => \A s \in 1..log.seq : Row(s) \in seen'.got \cup Passed'
      /\ From # 0 /\ seen.ep # log.ep => \A s \in (1..From) \cap (1..log.seq) : Row(s) \in seen'.got \cup Passed'
      /\ TypeOK'
  BY SubscribeIs
<1>2. Len(wire') = 1 /\ wire'[1] = Ready /\ Head(wire') = Ready /\ wire' # <<>> /\ Len(sub'.buf) = 0
      /\ \A i \in 1..Len(wire') : i = 1
  BY <1>1
<1>3. TypeOK /\ sub.after \in Nat /\ view.cursor \in Nat /\ log.ep \in Numbers /\ seen.ep \in Numbers
      /\ log.seq \in Nat
  BY StreamTypes, SubTypes DEF StreamInv
<1>4. From = sub.after \/ From = 0
  BY DEF From
<1>5. Phases'
  BY <1>1, <1>2 DEF StreamInv, Phases
<1>6. Shows'
  <2>1. Shows
    BY DEF StreamInv
  <2>2. NewestFirst'
    BY <1>1, <2>1 DEF Shows, NewestFirst, Newer
  <2>3. ASSUME NEW k \in 1..Len(view.rows)
        PROVE  Past(view.rows[k])' /\ view.rows[k][2] <= view.cursor
               /\ (sub'.after > 0 => view.rows[k][2] <= sub'.after)
    <3>1. Past(view.rows[k]) /\ view.rows[k][2] <= view.cursor /\ view.rows[k][2] <= sub.after
      BY <1>1, <2>1, <2>3 DEF Shows
    <3>2. Past(view.rows[k])'
      BY <1>1, <1>2, <3>1 DEF Past, Fed
    <3>. QED
      BY <1>1, <1>4, <3>1, <3>2
  <2>. QED
    BY <1>1, <1>2, <2>2, <2>3 DEF Shows, Ready, Newer
<1>7. Waits'
  BY <1>1, <1>2 DEF StreamInv, Waits
<1>8. ASSUME Tracked PROVE Owed'
  <2>1. CursorKept /\ (log.ep = 1 => seen.ep = log.ep)
    BY <1>3, <1>8 DEF StreamInv, Owed, Waits, Numbers
  <2>2. \A s : Row(s)' = Row(s)
    BY <1>1 DEF Row
  <2>3. CursorKept'
    BY <1>1, <2>1, <2>2 DEF CursorKept, Passed, Tracked
  <2>4. ASSUME NEW s \in 1..From PROVE Row(s) \in seen'.got \cup Passed'
    <3>1. From # 0 /\ From = sub.after /\ From <= view.cursor
      BY <1>1, <1>3, <1>4, <2>4 DEF StreamInv, Phases
    <3>2. CASE seen.ep = log.ep
      <4>1. s \in 1..view.cursor
        BY <1>1, <1>3, <3>1
      <4>. QED
        BY <1>1, <1>8, <2>1, <3>2, <4>1 DEF CursorKept, Tracked
    <3>3. CASE seen.ep # log.ep
      <4>1. tail = "logs"
        BY <1>8, <2>1, <3>3 DEF Tracked
      <4>2. From <= log.seq
        BY <1>3, <3>1, <4>1 DEF From
      <4>. QED
        BY <1>1, <1>3, <3>1, <3>3, <4>2
    <3>. QED
      BY <3>2, <3>3
  <2>5. \A s \in 1..sub'.last : Accounted(s, Len(wire), 0)'
    BY <1>1, <2>2, <2>4 DEF Accounted
  <2>6. sub'.after = 0 => \A s \in 1..log.seq : Accounted(s, Len(wire), Len(sub.buf))'
    BY <1>1, <2>2 DEF Accounted
  <2>7. wire'[1][1] # log.ep
    BY <1>2, <1>3 DEF Ready, Numbers
  <2>. QED
    BY <1>1, <1>2, <2>3, <2>5, <2>6, <2>7 DEF Owed
<1>9. Tracked' => Tracked
  BY <1>1 DEF Tracked
<1>. QED
  BY <1>1, <1>5, <1>6, <1>7, <1>8, <1>9 DEF StreamInv

\* What is replayed is the rows of an interval that ends with the last number.
Low == MaxOf(MaxOf(log.lo, log.seq + 1 - ReplayMax), sub.after + 1)

LEMMA ReplayedIs ==
  ASSUME TypeOK
  PROVE  /\ Low \in Numbers /\ Low \in Nat /\ Low > sub.after
         /\ \A s : s \in Replayed <=> s \in Nat /\ Low <= s /\ s <= log.seq
         /\ \A s \in Nat : s > sub.after /\ s <= log.seq /\ s < Low => s \notin Newest(ReplayMax)
         /\ IF Low <= log.seq
            THEN /\ Highest(Replayed) = log.seq
                 /\ Ascending(Replayed) = [k \in 1..(log.seq - Low + 1) |-> Row(Low + k - 1)]
            ELSE /\ Highest(Replayed) = 0
                 /\ Ascending(Replayed) = <<>>
<1>1. ReplayMax \in Nat \ {0}
  BY StreamAssumption
<1>2. PICK m : m = MaxOf(log.lo, log.seq + 1 - ReplayMax)
  OBVIOUS
<1>3. /\ m \in Nat /\ log.seq \in Nat /\ sub.after \in Nat
      /\ \A s : s \in Newest(ReplayMax) <=> s \in Nat /\ m <= s /\ s <= log.seq
  BY <1>1, <1>2, NewestIs, StreamTypes, SubTypes DEF Numbers
<1>4. Low = MaxOf(m, sub.after + 1)
  BY <1>2 DEF Low
<1>5. Low \in Numbers /\ Low \in Nat /\ Low > sub.after
  BY <1>3, <1>4 DEF MaxOf, Numbers
<1>6. \A s : s \in Replayed <=> s \in Nat /\ Low <= s /\ s <= log.seq
  BY <1>3, <1>4 DEF MaxOf, Replayed
<1>7. \A s \in Nat : s > sub.after /\ s <= log.seq /\ s < Low => s \notin Newest(ReplayMax)
  BY <1>3, <1>4 DEF MaxOf
<1>. HIDE DEF Low, Replayed
<1>8. Replayed = Low..log.seq
  <2>1. \A s : s \in Replayed <=> s \in Low..log.seq
    BY <1>3, <1>5, <1>6
  <2>. QED
    BY <2>1
<1>9. CASE Low <= log.seq
  <2>1. Highest(Replayed) = log.seq
    <3>1. log.seq \in Replayed /\ \A s \in Replayed : s <= log.seq
      BY <1>3, <1>6, <1>9
    <3>2. \A x : x \in Replayed \cup {0} /\ (\A t \in Replayed : t <= x) => x = log.seq
      BY <1>3, <1>6, <3>1
    <3>. QED
      BY <3>1, <3>2 DEF Highest
  <2>2. (CHOOSE s \in Replayed : \A t \in Replayed : s <= t) = Low
    <3>1. Low \in Replayed /\ \A s \in Replayed : Low <= s
      BY <1>5, <1>6, <1>9
    <3>2. \A x : x \in Replayed /\ (\A t \in Replayed : x <= t) => x = Low
      BY <1>5, <1>6, <3>1
    <3>. QED
      BY <3>1, <3>2
  <2>3. Cardinality(Replayed) = log.seq - Low + 1
    BY <1>3, <1>5, <1>8, <1>9, FS_Interval
  <2>4. Ascending(Replayed) = [k \in 1..(log.seq - Low + 1) |-> Row(Low + k - 1)]
    <3>1. Ascending(Replayed) =
            [k \in 1..Cardinality(Replayed) |->
               Row((CHOOSE s \in Replayed : \A t \in Replayed : s <= t) + k - 1)]
      BY DEF Ascending
    <3>2. PICK l, c : l = (CHOOSE s \in Replayed : \A t \in Replayed : s <= t) /\ c = Cardinality(Replayed)
      OBVIOUS
    <3>3. Ascending(Replayed) = [k \in 1..c |-> Row(l + k - 1)]
      BY <3>1, <3>2
    <3>4. l = Low /\ c = log.seq - Low + 1
      BY <2>2, <2>3, <3>2
    <3>. QED
      BY <3>3, <3>4
  <2>. QED
    BY <1>5, <1>6, <1>7, <1>9, <2>1, <2>4
<1>10. CASE ~(Low <= log.seq)
  <2>1. Replayed = {}
    BY <1>3, <1>5, <1>6, <1>10
  <2>2. Highest(Replayed) = 0
    BY <2>1 DEF Highest
  <2>3. Cardinality(Replayed) = 0
    BY <2>1, FS_EmptySet
  <2>4. Ascending(Replayed) = <<>>
    BY <2>3 DEF Ascending
  <2>. QED
    BY <1>5, <1>6, <1>7, <1>10, <2>2, <2>4
<1>. QED
  BY <1>9, <1>10

\* The replay puts its rows after what is on the wire.
Resent ==
  /\ Len(wire') \in Nat /\ Len(wire') >= Len(wire)
  /\ \A i \in 1..Len(wire) : wire'[i] = wire[i] /\ i \in 1..Len(wire')
  /\ \A i \in 1..Len(wire') : i \notin 1..Len(wire) =>
       \E s \in Low..log.seq : wire'[i] = Row(s) /\ i = Len(wire) + (s - Low) + 1
  /\ \A s \in Low..log.seq : /\ Len(wire) + (s - Low) + 1 \in 1..Len(wire')
                             /\ wire'[Len(wire) + (s - Low) + 1] = Row(s)
  /\ sub'.last = IF Low <= log.seq THEN MaxOf(sub.last, log.seq) ELSE sub.last
  /\ \A s \in 1..log.seq : s > sub.after /\ s < Low => Row(s) \in seen'.got \cup Passed'

LEMMA ResentIs ==
  ASSUME TypeOK, sub.at = "subscribed", sub.after # 0, Replay
  PROVE  /\ wire' \in Seq(RowSet \cup {Ready})
         /\ Resent
<1>1. /\ Low \in Nat /\ Low \in Numbers /\ log.seq \in Nat /\ wire \in Seq(RowSet \cup {Ready})
      /\ Len(wire) \in Nat /\ sub.last \in Nat /\ sub \in Sub
      /\ seen \in SeenSet
  BY ReplayedIs, StreamTypes, WireTypes, SubTypes DEF TypeOK
<1>2. /\ wire' = wire \o Ascending(Replayed)
      /\ sub' = [sub EXCEPT !.at = "live", !.last = MaxOf(sub.last, Highest(Replayed))]
      /\ seen' = [seen EXCEPT !.free = seen.free \cup
           {Row(s) : s \in {t \in 1..log.seq : t > sub.after /\ t \notin Newest(ReplayMax)}}]
  BY DEF Replay
<1>3. PICK q : q = Ascending(Replayed)
  OBVIOUS
<1>4. /\ q = IF Low <= log.seq THEN [k \in 1..(log.seq - Low + 1) |-> Row(Low + k - 1)] ELSE <<>>
      /\ Highest(Replayed) = IF Low <= log.seq THEN log.seq ELSE 0
  BY <1>3, ReplayedIs
<1>5. \A s \in Low..log.seq : Row(s) \in RowSet
  BY <1>1, RowIs DEF Numbers
<1>6. /\ q \in Seq(RowSet \cup {Ready})
      /\ Len(q) = IF Low <= log.seq THEN log.seq - Low + 1 ELSE 0
      /\ \A k \in 1..Len(q) : q[k] = Row(Low + k - 1) /\ Low + k - 1 \in Low..log.seq
  <2>1. CASE Low <= log.seq
    <3>1. log.seq - Low + 1 \in Nat
      BY <1>1, <2>1
    <3>2. \A k \in 1..(log.seq - Low + 1) : Low + k - 1 \in Low..log.seq
      BY <1>1, <2>1
    <3>3. \A k \in 1..(log.seq - Low + 1) : Row(Low + k - 1) \in RowSet \cup {Ready}
      BY <1>5, <3>2
    <3>4. PICK n \in Nat : n = log.seq - Low + 1
      BY <3>1
    <3>5. q = [k \in 1..n |-> Row(Low + k - 1)]
      BY <1>4, <2>1, <3>4
    <3>. QED
      BY <2>1, <3>2, <3>3, <3>4, <3>5
  <2>2. CASE ~(Low <= log.seq)
    <3>1. q = <<>> /\ Len(q) = 0
      BY <1>4, <2>2
    <3>. QED
      BY <2>2, <3>1
  <2>. QED
    BY <2>1, <2>2
<1>7. /\ wire' \in Seq(RowSet \cup {Ready}) /\ Len(wire') = Len(wire) + Len(q) /\ Len(q) \in Nat
      /\ \A i \in 1..(Len(wire) + Len(q)) : wire'[i] = IF i <= Len(wire) THEN wire[i] ELSE q[i - Len(wire)]
  BY <1>1, <1>2, <1>3, <1>6, ConcatProperties
<1>8. \A i \in 1..Len(wire) : wire'[i] = wire[i] /\ i \in 1..Len(wire')
  BY <1>1, <1>7
<1>9. ASSUME NEW i \in 1..Len(wire'), i \notin 1..Len(wire)
      PROVE  \E s \in Low..log.seq : wire'[i] = Row(s) /\ i = Len(wire) + (s - Low) + 1
  <2>1. i - Len(wire) \in 1..Len(q) /\ ~(i <= Len(wire)) /\ i \in Nat
    BY <1>1, <1>7, <1>9
  <2>2. PICK k \in 1..Len(q) : k = i - Len(wire)
    BY <2>1
  <2>3. wire'[i] = q[k]
    BY <1>1, <1>7, <2>1, <2>2
  <2>4. PICK s \in Low..log.seq : s = Low + k - 1 /\ q[k] = Row(s)
    BY <1>6
  <2>. QED
    BY <1>1, <1>7, <2>1, <2>2, <2>3, <2>4
<1>10. ASSUME NEW s \in Low..log.seq
       PROVE  /\ Len(wire) + (s - Low) + 1 \in 1..Len(wire')
              /\ wire'[Len(wire) + (s - Low) + 1] = Row(s)
  <2>1. PICK k \in 1..Len(q) : k = s - Low + 1 /\ Low + k - 1 = s
    BY <1>1, <1>6
  <2>2. q[k] = Row(s)
    BY <1>6, <2>1
  <2>3. PICK i : i = Len(wire) + k
    OBVIOUS
  <2>6. i \in 1..(Len(wire) + Len(q)) /\ ~(i <= Len(wire)) /\ i - Len(wire) = k
    BY <1>1, <1>7, <2>1, <2>3
  <2>7. i \in 1..Len(wire')
    BY <1>7, <2>6
  <2>4. wire'[i] = q[k]
    <3>1. wire'[i] = q[i - Len(wire)]
      BY <1>7, <2>6
    <3>. QED
      BY <2>6, <3>1
  <2>5. Len(wire) + (s - Low) + 1 = i
    BY <1>1, <2>1, <2>3
  <2>. QED
    BY <2>2, <2>4, <2>5, <2>7
<1>11. sub'.last = IF Low <= log.seq THEN MaxOf(sub.last, log.seq) ELSE sub.last
  <2>1. sub'.last = MaxOf(sub.last, Highest(Replayed))
    BY <1>1, <1>2 DEF Sub
  <2>. QED
    BY <1>1, <1>4, <2>1 DEF MaxOf
<1>12. ASSUME NEW s \in 1..log.seq, s > sub.after, s < Low
       PROVE  Row(s) \in seen'.got \cup Passed'
  <2>1. s \notin Newest(ReplayMax)
    BY <1>1, <1>12, ReplayedIs
  <2>2. s \in {t \in 1..log.seq : t > sub.after /\ t \notin Newest(ReplayMax)}
    BY <1>12, <2>1
  <2>3. Row(s) \in seen'.free
    BY <1>1, <1>2, <2>2 DEF SeenSet
  <2>. QED
    BY <2>3 DEF Passed
<1>. QED
  BY <1>1, <1>7, <1>8, <1>9, <1>10, <1>11, <1>12 DEF Resent

LEMMA ReplayIs ==
  ASSUME StreamInv, Replay
  PROVE  /\ UNCHANGED <<tail, view, loop, old, load, log, spent>>
         /\ sub.at = "subscribed" /\ sub'.at = "live" /\ sub'.after = sub.after
         /\ sub'.buf = sub.buf /\ sub'.closed = sub.closed
         /\ seen'.got = seen.got /\ seen'.ep = seen.ep /\ Passed \subseteq Passed'
         /\ IF sub.after = 0 THEN wire' = wire /\ sub'.last = sub.last ELSE Resent
         /\ TypeOK'
<1>1. /\ TypeOK /\ sub \in Sub /\ sub.last \in Nat /\ log.seq \in Nat
      /\ seen \in SeenSet
      /\ sub.at = "subscribed"
      /\ UNCHANGED <<tail, view, loop, old, load, log, spent>>
  BY StreamTypes, SubTypes DEF StreamInv, TypeOK, Replay
<1>2. CASE sub.after = 0
  <2>1. sub' = [sub EXCEPT !.at = "live"] /\ UNCHANGED <<wire, seen>>
    BY <1>2 DEF Replay
  <2>2. /\ sub' \in Sub /\ sub'.at = "live" /\ sub'.after = sub.after /\ sub'.last = sub.last
        /\ sub'.buf = sub.buf /\ sub'.closed = sub.closed
    BY <1>1, <2>1 DEF Sub
  <2>. QED
    BY <1>1, <1>2, <2>1, <2>2 DEF TypeOK, Passed
<1>3. CASE sub.after # 0
  <2>1. PICK last, more : /\ last = MaxOf(sub.last, Highest(Replayed))
                          /\ more = {Row(s) : s \in {t \in 1..log.seq : t > sub.after /\ t \notin Newest(ReplayMax)}}
    OBVIOUS
  <2>2. last \in Nat
    BY <1>1, <2>1, ReplayedIs DEF MaxOf
  <2>3. more \subseteq RowSet
    <3>1. \A s \in 1..log.seq : Row(s) \in RowSet
      BY <1>1, RowIs DEF Numbers
    <3>. QED
      BY <2>1, <3>1
  <2>4. /\ sub' = [sub EXCEPT !.at = "live", !.last = last]
        /\ seen' = [seen EXCEPT !.free = seen.free \cup more]
    BY <1>3, <2>1 DEF Replay
  <2>5. /\ sub' \in Sub /\ sub'.at = "live" /\ sub'.after = sub.after
        /\ sub'.buf = sub.buf /\ sub'.closed = sub.closed
    BY <1>1, <2>2, <2>4 DEF Sub
  <2>6. /\ seen' \in SeenSet
        /\ seen'.got = seen.got /\ seen'.ep = seen.ep /\ Passed \subseteq Passed'
    BY <1>1, <2>3, <2>4 DEF SeenSet, Passed
  <2>7. wire' \in Seq(RowSet \cup {Ready}) /\ Resent
    BY <1>1, <1>3, ResentIs
  <2>8. TypeOK'
    BY <1>1, <2>5, <2>6, <2>7 DEF TypeOK
  <2>. QED
    BY <1>1, <1>3, <2>5, <2>6, <2>7, <2>8
<1>. QED
  BY <1>2, <1>3

LEMMA ReplayShows ==
  ASSUME StreamInv, Replay
  PROVE  Shows'
<1>1. /\ UNCHANGED <<tail, view, loop, old, load, log, spent>>
      /\ sub.at = "subscribed" /\ sub'.at = "live" /\ sub'.buf = sub.buf
      /\ IF sub.after = 0 THEN wire' = wire /\ sub'.last = sub.last ELSE Resent
  BY ReplayIs
<1>2. /\ TypeOK /\ sub.last \in Nat /\ log.seq \in Nat /\ Low \in Nat /\ Low > sub.after /\ sub.after \in Nat
      /\ log.ep \in Nat /\ Len(wire) \in Nat /\ Low \in Numbers
      /\ \A i \in 1..Len(sub.buf) : sub.buf[i] \in Nat
      /\ \A k \in 1..Len(view.rows) : view.rows[k][1] \in Nat /\ view.rows[k][2] \in Nat
  BY StreamTypes, SubTypes, ReplayedIs, WireTypes DEF StreamInv, Numbers
<1>3. Shows /\ NewestFirst' /\ \A i \in 1..Len(wire) : wire[i] = Ready
  BY <1>1 DEF StreamInv, Shows, NewestFirst, Newer, Phases
<1>4. sub'.last \in Nat /\ sub.last <= sub'.last
      /\ (sub.after # 0 /\ Low <= log.seq => log.seq <= sub'.last)
  BY <1>1, <1>2 DEF Resent, MaxOf
<1>5. \A x : Past(x) => Past(x)'
  BY <1>1, <1>2, <1>4 DEF Past, Fed
<1>6. ASSUME NEW k \in 1..Len(view.rows)
      PROVE  Past(view.rows[k])' /\ view.rows[k][2] <= view.cursor
             /\ (sub.after # 0 => view.rows[k][1] <= log.ep /\ view.rows[k][2] <= sub.after)
  <2>1. Past(view.rows[k]) /\ view.rows[k][2] <= view.cursor
        /\ (sub.after > 0 => view.rows[k][2] <= sub.after)
    BY <1>1, <1>3 DEF Shows
  <2>2. Past(view.rows[k])'
    BY <1>1, <1>5, <2>1
  <2>3. view.rows[k][1] <= log.ep
    BY <2>1 DEF Past
  <2>. QED
    BY <1>2, <2>1, <2>2, <2>3
<1>7. \A i \in 1..Len(wire') : wire'[i] # Ready =>
        sub.after # 0 /\ \E s \in Low..log.seq : wire'[i] = Row(s) /\ i = Len(wire) + (s - Low) + 1
  BY <1>1, <1>3 DEF Resent
<1>8. \A s \in Low..log.seq : s \in Nat /\ Row(s)[1] = log.ep /\ Row(s)[2] = s
  BY <1>2, RowIs DEF Numbers
<1>9. ASSUME NEW i \in 1..Len(wire'), wire'[i] # Ready
      PROVE  /\ Past(wire[i])'
             /\ \A k \in 1..Len(view.rows) : Newer(wire'[i], view.rows[k])
             /\ \A j \in 1..Len(wire') : i < j /\ wire'[j] # Ready => Newer(wire'[j], wire'[i])
  <2>1. sub.after # 0
    BY <1>7, <1>9
  <2>2. PICK s \in Low..log.seq : wire'[i] = Row(s) /\ i = Len(wire) + (s - Low) + 1
    BY <1>7, <1>9
  <2>7. /\ sub.after \in Nat /\ log.seq \in Nat /\ Low \in Nat /\ log.ep \in Nat /\ Len(wire) \in Nat
        /\ Low > sub.after
    BY <1>2
  <2>8. s \in Nat /\ Low <= s /\ s <= log.seq
    BY <2>7
  <2>9. s <= sub'.last /\ s > sub.after
    BY <1>4, <2>1, <2>7, <2>8
  <2>3. wire'[i][1] = log.ep /\ wire'[i][2] = s /\ s \in Nat /\ s <= log.seq
        /\ s <= sub'.last /\ s > sub.after
    BY <1>8, <2>2, <2>8, <2>9
  <2>4. Past(wire[i])'
    <3>1. sub'.buf = sub.buf /\ log' = log /\ sub'.last \in Nat
      BY <1>1, <1>4
    <3>3. ASSUME NEW j \in 1..Len(sub.buf), sub.buf[j] > sub'.last PROVE s < sub.buf[j]
      <4>1. sub.buf[j] \in Nat
        BY <1>2
      <4>. QED
        BY <2>3, <3>1, <3>3, <4>1
    <3>2. wire'[i][1] <= log'.ep /\ wire'[i][2] <= log'.seq
      BY <2>3, <2>7, <3>1
    <3>. QED
      BY <2>3, <3>1, <3>2, <3>3 DEF Past
  <2>5. ASSUME NEW k \in 1..Len(view.rows) PROVE Newer(wire'[i], view.rows[k])
    <3>1. /\ view.rows[k][1] \in Nat /\ view.rows[k][2] \in Nat
          /\ view.rows[k][1] <= log.ep /\ view.rows[k][2] <= sub.after
      BY <1>2, <1>6, <2>1
    <3>2. PICK e \in Nat, a \in Nat : e = view.rows[k][1] /\ a = view.rows[k][2]
      BY <3>1
    <3>3. a <= sub.after /\ e <= log.ep
      BY <3>1, <3>2
    <3>4. sub.after \in Nat /\ log.ep \in Nat /\ s \in Nat /\ s > sub.after
      BY <2>7, <2>8, <2>9
    <3>5. a < s /\ (log.ep > e \/ log.ep = e)
      BY <3>3, <3>4
    <3>6. wire'[i][1] = log.ep /\ wire'[i][2] = s
      BY <2>3
    <3>. QED
      BY <3>2, <3>4, <3>5, <3>6 DEF Newer
  <2>6. ASSUME NEW j \in 1..Len(wire'), i < j, wire'[j] # Ready PROVE Newer(wire'[j], wire'[i])
    <3>1. PICK t \in Low..log.seq : wire'[j] = Row(t) /\ j = Len(wire) + (t - Low) + 1
      BY <1>7, <2>6
    <3>2. wire'[j][1] = log.ep /\ wire'[j][2] = t /\ t \in Nat
      BY <1>8, <3>1
    <3>3. s < t
      BY <2>2, <2>3, <2>6, <2>7, <3>1, <3>2
    <3>. QED
      BY <2>3, <3>2, <3>3 DEF Newer
  <2>. QED
    BY <2>4, <2>5, <2>6
<1>. QED
  BY <1>1, <1>3, <1>6, <1>9 DEF Shows, Ready, Newer

LEMMA ReplayStream ==
  ASSUME StreamInv, Replay
  PROVE  StreamInv'
<1>1. /\ UNCHANGED <<tail, view, loop, old, load, log, spent>>
      /\ sub.at = "subscribed" /\ sub'.at = "live" /\ sub'.after = sub.after
      /\ sub'.buf = sub.buf /\ sub'.closed = sub.closed
      /\ seen'.got = seen.got /\ seen'.ep = seen.ep /\ Passed \subseteq Passed'
      /\ IF sub.after = 0 THEN wire' = wire /\ sub'.last = sub.last ELSE Resent
      /\ TypeOK' /\ Shows'
  BY ReplayIs, ReplayShows
<1>2. /\ TypeOK /\ sub.last \in Nat /\ log.seq \in Nat /\ Low \in Nat /\ Low > sub.after /\ sub.after \in Nat
      /\ log.ep \in Numbers /\ wire \in Seq(RowSet \cup {Ready}) /\ Len(wire) \in Nat
      /\ \A i \in 1..Len(sub.buf) : sub.buf[i] \in Nat
  BY StreamTypes, SubTypes, ReplayedIs, WireTypes DEF StreamInv, TypeOK
<1>3. /\ Len(wire) <= Len(wire') /\ Len(wire') \in Nat
      /\ \A i \in 1..Len(wire) : wire'[i] = wire[i] /\ i \in 1..Len(wire')
  BY <1>1, <1>2 DEF Resent
<1>4. sub.last = sub.after /\ \A i \in 1..Len(wire) : wire[i] = Ready
  BY <1>1 DEF StreamInv, Phases
<1>5. Phases'
  <2>1. ASSUME loop = "asking" PROVE wire' # <<>> /\ Head(wire') = Ready
    <3>1. wire # <<>> /\ Head(wire) = Ready
      BY <1>1, <2>1 DEF StreamInv, Phases
    <3>2. wire[1] = Ready /\ 1 \in 1..Len(wire) /\ wire'[1] = Ready
      BY <1>2, <1>3, <3>1, TailIs
    <3>3. wire' # <<>>
      BY <1>3, <3>2
    <3>. QED
      BY <1>1, <3>2, <3>3, TailIs DEF TypeOK
  <2>. QED
    BY <1>1, <2>1 DEF StreamInv, Phases
<1>6. Waits'
  BY <1>1 DEF StreamInv, Waits, Fed
<1>7. ASSUME Tracked PROVE Owed'
  <2>1. Owed
    BY <1>7 DEF StreamInv
  <2>2. \A s : Row(s)' = Row(s)
    BY <1>1 DEF Row
  <2>3. CursorKept'
    BY <1>1, <2>1, <2>2 DEF Owed, CursorKept, Passed, Tracked
  <2>4. ASSUME NEW s, NEW i \in 0..Len(wire), NEW m \in Nat, i <= m, m <= Len(wire'), NEW j, Accounted(s, i, j)
        PROVE  Accounted(s, m, j)'
    <3>1. \A k \in 1..i : wire'[k] = wire[k] /\ k \in 1..m
      BY <1>2, <1>3, <2>4
    <3>. QED
      BY <1>1, <2>2, <2>4, <3>1 DEF Accounted
  <2>5. PICK n \in Nat : n = Len(wire')
    BY <1>3
  <2>6. CASE sub.after = 0
    <3>1. wire' = wire /\ sub'.last = sub.last
      BY <1>1, <2>6
    <3>2. \A s, i, j : Accounted(s, i, j) => Accounted(s, i, j)'
      BY <1>1, <2>2, <3>1 DEF Accounted
    <3>3. \A s, j : Accounted(s, Len(wire), j) => Accounted(s, Len(wire), j)'
      BY <3>1, <3>2
    <3>4. \A s : Accounted(s, Len(wire), Len(sub.buf)) => Accounted(s, Len(wire), Len(sub.buf))'
      BY <1>1, <3>1, <3>2
    <3>. QED
      BY <1>1, <2>1, <2>3, <2>6, <3>1, <3>2, <3>3, <3>4 DEF Owed, Fed
  <2>7. CASE sub.after # 0
    <3>1. Resent
      BY <1>1, <2>7
    <3>2. ASSUME NEW s \in 1..log.seq, NEW m \in Nat, Len(wire) <= m, m <= n,
                 s >= Low => Len(wire) + (s - Low) + 1 <= m
          PROVE  Accounted(s, m, 0)'
      <4>1. CASE s <= sub.after
        <5>1. s \in 1..sub.last
          BY <1>2, <1>4, <4>1
        <5>2. Accounted(s, Len(wire), 0)
          BY <1>1, <2>1, <5>1 DEF Owed, Fed
        <5>3. PICK l \in 0..Len(wire) : l = Len(wire)
          BY <1>2
        <5>. QED
          BY <2>4, <2>5, <3>2, <5>2, <5>3
      <4>2. CASE s > sub.after /\ s < Low
        <5>1. Row(s) \in seen'.got \cup Passed'
          BY <3>1, <3>2, <4>2 DEF Resent
        <5>. QED
          BY <2>2, <5>1 DEF Accounted
      <4>3. CASE s >= Low
        <5>1. PICK k \in 1..m : k = Len(wire) + (s - Low) + 1
          BY <1>2, <3>2, <4>3
        <5>2. wire'[k] = Row(s)
          BY <1>2, <3>1, <3>2, <4>3, <5>1 DEF Resent
        <5>. QED
          BY <2>2, <5>2 DEF Accounted
      <4>. QED
        BY <1>2, <4>1, <4>2, <4>3
    <3>3. ASSUME NEW s \in 1..log.seq PROVE Accounted(s, n, 0)'
      <4>1. s >= Low => Len(wire) + (s - Low) + 1 <= n
        BY <1>2, <2>5, <3>1, <3>3 DEF Resent
      <4>2. Len(wire) <= n /\ n <= n
        BY <1>2, <1>3, <2>5
      <4>. QED
        BY <3>2, <4>1, <4>2
    <3>4. ASSUME NEW i \in 1..n, wire'[i][1] = log.ep, NEW s \in 1..wire'[i][2] PROVE Accounted(s, i, 0)'
      <4>1. i \notin 1..Len(wire)
        BY <1>2, <1>3, <1>4, <3>4 DEF Ready, Numbers
      <4>2. PICK t \in Low..log.seq : wire'[i] = Row(t) /\ i = Len(wire) + (t - Low) + 1
        BY <2>5, <3>1, <4>1 DEF Resent
      <4>3. t \in Numbers /\ wire'[i][2] = t
        BY <1>2, <4>2, RowIs DEF Numbers
      <4>4. /\ s \in 1..log.seq /\ Len(wire) <= i /\ i <= n /\ i \in Nat
            /\ s >= Low => Len(wire) + (s - Low) + 1 <= i
        <5>1. Len(wire) \in Nat /\ Low \in Nat /\ log.seq \in Nat /\ t \in Nat
          BY <1>2, <4>3 DEF Numbers
        <5>2. s \in 1..t /\ i \in 1..n
          BY <3>4, <4>3
        <5>3. Low <= t /\ t <= log.seq
          BY <5>1
        <5>. QED
          BY <4>2, <5>1, <5>2, <5>3
      <4>. QED
        BY <3>2, <4>4
    <3>5. ASSUME NEW s \in 1..sub'.last PROVE Accounted(s, n, 0)'
      <4>1. CASE s \in 1..log.seq
        BY <3>3, <4>1
      <4>2. CASE s \in 1..sub.last
        <5>1. Accounted(s, Len(wire), 0)
          BY <1>1, <2>1, <4>2 DEF Owed, Fed
        <5>2. PICK l \in 0..Len(wire) : l = Len(wire) /\ l <= n
          BY <1>2, <1>3, <2>5
        <5>. QED
          BY <2>4, <2>5, <5>1, <5>2
      <4>. QED
        BY <1>2, <3>1, <3>5, <4>1, <4>2 DEF Resent, MaxOf
    <3>6. \A s \in 1..log.seq : \A j : Accounted(s, Len(wire), j)'
      BY <2>5, <3>3 DEF Accounted
    <3>7. ASSUME NEW j \in 1..Len(sub.buf), NEW s \in 1..sub.buf[j] PROVE s \in 1..log.seq
      BY <1>1, <1>2, <3>7 DEF StreamInv, Waits, Fed
    <3>8. \A s \in 1..log.seq : Accounted(s, Len(wire), Len(sub.buf))'
      BY <3>6
    <3>9. \A s \in 1..sub'.last : Accounted(s, Len(wire), 0)'
      BY <2>5, <3>5 DEF Accounted
    <3>. QED
      BY <1>1, <2>3, <2>5, <3>4, <3>6, <3>7, <3>8, <3>9 DEF Owed
  <2>. QED
    BY <2>6, <2>7
<1>8. Tracked' => Tracked
  BY <1>1 DEF Tracked
<1>. QED
  BY <1>1, <1>5, <1>6, <1>7, <1>8 DEF StreamInv

\* The first row that waits is sent, unless the replay had it.
Sends(n) ==
  /\ n \in Numbers /\ n = sub.buf[1] /\ Len(sub.buf) >= 1
  /\ sub'.buf = Tail(sub.buf) /\ Len(sub'.buf) = Len(sub.buf) - 1
  /\ \A i \in 1..(Len(sub.buf) - 1) : sub'.buf[i] = sub.buf[i + 1] /\ i + 1 \in 1..Len(sub.buf)
  /\ \A i \in 2..Len(sub.buf) : sub'.buf[i - 1] = sub.buf[i] /\ i - 1 \in 1..(Len(sub.buf) - 1)
  /\ sub'.last = MaxOf(sub.last, n)
  /\ IF n > sub.last THEN wire' = Append(wire, Row(n)) ELSE wire' = wire
  /\ \A i \in 1..Len(wire) : wire'[i] = wire[i] /\ i \in 1..Len(wire')
  /\ Len(wire') = IF n > sub.last THEN Len(wire) + 1 ELSE Len(wire)
  /\ n > sub.last => wire'[Len(wire) + 1] = Row(n)
  /\ \A i \in 1..Len(wire') : i \in 1..Len(wire) \/ (i = Len(wire) + 1 /\ n > sub.last)

LEMMA DeliverIs ==
  ASSUME StreamInv, Deliver
  PROVE  /\ UNCHANGED <<tail, view, loop, old, load, log, seen, spent>>
         /\ sub.at = "live" /\ sub'.at = "live" /\ sub'.after = sub.after /\ sub'.closed = sub.closed
         /\ \E n : Sends(n)
         /\ TypeOK'
<1>1. /\ TypeOK /\ sub \in Sub /\ sub.last \in Nat /\ sub.buf \in Seq(Numbers) /\ sub.buf # <<>>
      /\ wire \in Seq(RowSet \cup {Ready}) /\ Len(wire) \in Nat
      /\ sub.at = "live"
      /\ UNCHANGED <<tail, view, loop, old, load, log, seen, spent>>
  BY SubTypes, WireTypes DEF StreamInv, TypeOK, Deliver
<1>2. /\ Len(sub.buf) \in Nat /\ Len(sub.buf) >= 1 /\ Head(sub.buf) = sub.buf[1] /\ 1 \in 1..Len(sub.buf)
      /\ Tail(sub.buf) \in Seq(Numbers) /\ Len(Tail(sub.buf)) = Len(sub.buf) - 1
      /\ \A i \in 1..(Len(sub.buf) - 1) : Tail(sub.buf)[i] = sub.buf[i + 1] /\ i + 1 \in 1..Len(sub.buf)
      /\ \A i \in 2..Len(sub.buf) : Tail(sub.buf)[i - 1] = sub.buf[i] /\ i - 1 \in 1..(Len(sub.buf) - 1)
  BY <1>1, TailIs
<1>3. PICK n \in Numbers : n = sub.buf[1]
  BY <1>1, <1>2, SubTypes
<1>4. MaxOf(sub.last, n) \in Nat
  BY <1>1, <1>3 DEF MaxOf, Numbers
<1>5. /\ sub' = [sub EXCEPT !.buf = Tail(sub.buf), !.last = MaxOf(sub.last, n)]
      /\ wire' = IF n > sub.last THEN Append(wire, Row(n)) ELSE wire
  BY <1>2, <1>3 DEF Deliver
<1>6. /\ sub' \in Sub /\ sub'.at = "live" /\ sub'.after = sub.after /\ sub'.closed = sub.closed
      /\ sub'.buf = Tail(sub.buf) /\ sub'.last = MaxOf(sub.last, n)
  BY <1>1, <1>2, <1>4, <1>5 DEF Sub
<1>7. Row(n) \in RowSet \cup {Ready}
  BY <1>1, RowIs
<1>8. /\ wire' \in Seq(RowSet \cup {Ready})
      /\ \A i \in 1..Len(wire) : wire'[i] = wire[i] /\ i \in 1..Len(wire')
      /\ Len(wire') = IF n > sub.last THEN Len(wire) + 1 ELSE Len(wire)
      /\ n > sub.last => wire'[Len(wire) + 1] = Row(n)
  BY <1>1, <1>5, <1>7, AppendProperties
<1>9. \A i \in 1..Len(wire') : i \in 1..Len(wire) \/ (i = Len(wire) + 1 /\ n > sub.last)
  BY <1>1, <1>8
<1>10. Sends(n)
  BY <1>2, <1>3, <1>5, <1>6, <1>8, <1>9 DEF Sends
<1>11. TypeOK'
  BY <1>1, <1>6, <1>8 DEF TypeOK
<1>. QED
  BY <1>1, <1>6, <1>10, <1>11

LEMMA DeliverShows ==
  ASSUME StreamInv, Deliver
  PROVE  Shows'
<1>1. /\ UNCHANGED <<tail, view, loop, old, load, log, seen, spent>>
      /\ sub.at = "live" /\ sub'.at = "live"
      /\ \E n : Sends(n)
  BY DeliverIs
<1>2. PICK n : Sends(n)
  BY <1>1
<1>3. /\ TypeOK /\ sub.last \in Nat /\ log.seq \in Nat /\ log.ep \in Nat /\ Len(wire) \in Nat
      /\ Len(sub.buf) \in Nat
      /\ \A i \in 1..Len(sub.buf) : sub.buf[i] \in Nat
      /\ \A k \in 1..Len(view.rows) : view.rows[k][1] \in Nat /\ view.rows[k][2] \in Nat
      /\ \A i \in 1..Len(wire) : wire[i][1] \in Nat /\ wire[i][2] \in Nat
  BY StreamTypes, SubTypes, WireTypes DEF StreamInv, Numbers
<1>4. Shows /\ NewestFirst'
  BY <1>1 DEF StreamInv, Shows, NewestFirst, Newer
<1>5. n \in Nat /\ 1 \in 1..Len(sub.buf) /\ sub.buf[1] = n /\ n <= log.seq
      /\ Row(n)[1] = log.ep /\ Row(n)[2] = n
  BY <1>1, <1>2, <1>3, RowIs DEF Sends, StreamInv, Waits, Fed, Numbers
<1>6. \A i \in 1..Len(sub'.buf) : /\ sub'.buf[i] = sub.buf[i + 1] /\ i + 1 \in 1..Len(sub.buf)
                                  /\ sub'.buf[i] \in Nat /\ n < sub'.buf[i]
  <2>1. ASSUME NEW i \in 1..Len(sub'.buf)
        PROVE  /\ sub'.buf[i] = sub.buf[i + 1] /\ i + 1 \in 1..Len(sub.buf) /\ 1 < i + 1
    BY <1>2, <1>3 DEF Sends
  <2>2. \A j \in 1..Len(sub.buf) : 1 < j => sub.buf[1] < sub.buf[j]
    BY <1>1, <1>5 DEF StreamInv, Waits, Fed
  <2>. QED
    BY <1>3, <1>5, <2>1, <2>2
<1>7. sub'.last \in Nat /\ sub.last <= sub'.last
  BY <1>2, <1>3, <1>5 DEF Sends, MaxOf
<1>8. ASSUME NEW x, Past(x) PROVE Past(x)'
  <2>1. ASSUME x[1] = log.ep, NEW i \in 1..Len(sub'.buf), sub'.buf[i] > sub'.last
        PROVE  x[2] < sub'.buf[i]
    <3>1. sub'.buf[i] = sub.buf[i + 1] /\ i + 1 \in 1..Len(sub.buf) /\ sub.buf[i + 1] \in Nat
      BY <1>3, <1>6
    <3>2. sub.buf[i + 1] > sub.last
      BY <1>3, <1>7, <2>1, <3>1
    <3>3. Fed
      BY <1>1 DEF Fed
    <3>4. x[2] < sub.buf[i + 1]
      BY <1>8, <2>1, <3>1, <3>2, <3>3 DEF Past
    <3>. QED
      BY <3>1, <3>4
  <2>. QED
    BY <1>1, <1>8, <2>1 DEF Past
<1>9. ASSUME NEW x, n > sub.last, Past(x), x[1] \in Nat, x[2] \in Nat PROVE Newer(Row(n), x)
  <2>1. Fed
    BY <1>1 DEF Fed
  <2>2. x[1] = log.ep => x[2] < n
    BY <1>5, <1>9, <2>1 DEF Past
  <2>3. x[1] <= log.ep /\ log.ep \in Nat
    BY <1>3, <1>9 DEF Past
  <2>. QED
    BY <1>5, <1>9, <2>2, <2>3 DEF Newer
<1>10. Past(Row(n))'
  BY <1>1, <1>3, <1>5, <1>6 DEF Past, Fed, Row
<1>11. \A k \in 1..Len(view.rows) : Past(view.rows[k])'
  BY <1>1, <1>4, <1>8 DEF Shows
<1>12. ASSUME NEW i \in 1..Len(wire'), wire'[i] # Ready
       PROVE  /\ Past(wire[i])'
              /\ \A k \in 1..Len(view.rows) : Newer(wire'[i], view.rows[k])
              /\ \A j \in 1..Len(wire') : i < j /\ wire'[j] # Ready => Newer(wire'[j], wire'[i])
  <2>1. CASE i \in 1..Len(wire)
    <3>1. wire'[i] = wire[i]
      BY <1>2, <2>1 DEF Sends
    <3>2. Past(wire[i]) /\ \A k \in 1..Len(view.rows) : Newer(wire[i], view.rows[k])
      BY <1>4, <1>12, <2>1, <3>1 DEF Shows
    <3>3. Past(wire[i])'
      BY <1>8, <3>1, <3>2
    <3>4. ASSUME NEW j \in 1..Len(wire'), i < j, wire'[j] # Ready PROVE Newer(wire'[j], wire'[i])
      <4>1. CASE j \in 1..Len(wire)
        <5>1. wire'[j] = wire[j]
          BY <1>2, <4>1 DEF Sends
        <5>. QED
          BY <1>4, <1>12, <2>1, <3>1, <3>4, <4>1, <5>1 DEF Shows
      <4>2. CASE j \notin 1..Len(wire)
        <5>1. wire'[j] = Row(n) /\ n > sub.last
          BY <1>2, <4>2 DEF Sends
        <5>. QED
          BY <1>3, <1>9, <2>1, <3>1, <3>2, <5>1
      <4>. QED
        BY <4>1, <4>2
    <3>. QED
      BY <3>1, <3>2, <3>3, <3>4
  <2>2. CASE i \notin 1..Len(wire)
    <3>1. wire'[i] = Row(n) /\ n > sub.last /\ i = Len(wire) + 1 /\ Len(wire') = Len(wire) + 1
      BY <1>2, <2>2 DEF Sends
    <3>2. Past(wire[i])'
      BY <1>1, <1>10, <3>1 DEF Past, Row
    <3>3. \A k \in 1..Len(view.rows) : Newer(wire'[i], view.rows[k])
      BY <1>3, <1>4, <1>9, <3>1 DEF Shows
    <3>4. \A j \in 1..Len(wire') : ~(i < j)
      BY <1>3, <3>1
    <3>. QED
      BY <3>2, <3>3, <3>4
  <2>. QED
    BY <2>1, <2>2
<1>. QED
  BY <1>1, <1>4, <1>11, <1>12 DEF Shows, Ready, Newer

LEMMA DeliverStream ==
  ASSUME StreamInv, Deliver
  PROVE  StreamInv'
<1>1. /\ UNCHANGED <<tail, view, loop, old, load, log, seen, spent>>
      /\ sub.at = "live" /\ sub'.at = "live" /\ sub'.after = sub.after /\ sub'.closed = sub.closed
      /\ (\E n : Sends(n)) /\ TypeOK' /\ Shows'
  BY DeliverIs, DeliverShows
<1>2. PICK n : Sends(n)
  BY <1>1
<1>3. /\ TypeOK /\ sub.last \in Nat /\ log.seq \in Nat /\ wire \in Seq(RowSet \cup {Ready}) /\ Len(wire) \in Nat
      /\ Len(sub.buf) \in Nat /\ n \in Numbers /\ n \in Nat
      /\ \A i \in 1..Len(sub.buf) : sub.buf[i] \in Nat
  BY <1>2, StreamTypes, SubTypes, WireTypes DEF StreamInv, TypeOK, Sends, Numbers
<1>4. Phases'
  <2>1. ASSUME loop = "asking" PROVE wire' # <<>> /\ Head(wire') = Ready
    <3>1. wire # <<>> /\ Head(wire) = Ready
      BY <1>1, <2>1 DEF StreamInv, Phases
    <3>2. wire[1] = Ready /\ 1 \in 1..Len(wire) /\ wire'[1] = Ready /\ 1 \in 1..Len(wire')
      BY <1>2, <1>3, <3>1, TailIs DEF Sends
    <3>3. wire' # <<>>
      BY <3>2
    <3>. QED
      BY <1>1, <3>2, <3>3, TailIs DEF TypeOK
  <2>. QED
    BY <1>1, <2>1 DEF StreamInv, Phases
<1>5. \A i \in 1..Len(sub'.buf) : sub'.buf[i] = sub.buf[i + 1] /\ i + 1 \in 1..Len(sub.buf) /\ i \in Nat
  <2>1. /\ Len(sub'.buf) = Len(sub.buf) - 1
        /\ \A i \in 1..(Len(sub.buf) - 1) : sub'.buf[i] = sub.buf[i + 1] /\ i + 1 \in 1..Len(sub.buf)
    BY <1>2 DEF Sends
  <2>. QED
    BY <2>1
<1>6. Waits'
  <2>1. ASSUME NEW i \in 1..Len(sub'.buf)
        PROVE  /\ sub'.buf[i] <= log.seq
               /\ \A j \in 1..Len(sub'.buf) : i < j => sub'.buf[i] < sub'.buf[j]
    <3>1. sub'.buf[i] = sub.buf[i + 1] /\ i + 1 \in 1..Len(sub.buf)
      BY <1>5
    <3>2. ASSUME NEW j \in 1..Len(sub'.buf), i < j PROVE sub'.buf[i] < sub'.buf[j]
      <4>1. sub'.buf[j] = sub.buf[j + 1] /\ j + 1 \in 1..Len(sub.buf) /\ i + 1 < j + 1
        BY <1>5, <3>2
      <4>. QED
        BY <1>1, <3>1, <4>1 DEF StreamInv, Waits, Fed
    <3>. QED
      BY <1>1, <3>1, <3>2 DEF StreamInv, Waits, Fed
  <2>. QED
    BY <1>1, <2>1 DEF StreamInv, Waits
<1>7. ASSUME Tracked PROVE Owed'
  <2>1. Owed
    BY <1>7 DEF StreamInv
  <2>2. \A s : Row(s)' = Row(s)
    BY <1>1 DEF Row
  <2>3. CursorKept'
    BY <1>1, <2>1, <2>2 DEF Owed, CursorKept, Passed, Tracked
  <2>4. PICK w \in Nat, m \in Nat : w = Len(wire) /\ m = Len(wire') /\ w <= m
    BY <1>2, <1>3 DEF Sends
  <2>5. ASSUME NEW s, NEW i \in 0..w, Accounted(s, i, 0) PROVE Accounted(s, i, 0)'
    <3>1. \A k \in 1..i : wire'[k] = wire[k]
      BY <1>2, <2>4 DEF Sends
    <3>. QED
      BY <1>1, <2>2, <2>5, <3>1 DEF Accounted, Passed
  <2>6. \A s \in 1..sub.last : Accounted(s, m, 0)'
    <3>1. \A s \in 1..sub.last : Accounted(s, w, 0)'
      BY <1>1, <2>1, <2>4, <2>5 DEF Owed, Fed
    <3>. QED
      BY <2>4, <3>1 DEF Accounted
  <2>7. ASSUME NEW s \in Nat, NEW j \in 1..Len(sub.buf), Accounted(s, w, j) PROVE Accounted(s, m, j - 1)'
    <3>1. CASE Row(s) \in seen.got \cup Passed
      BY <1>1, <2>2, <3>1 DEF Accounted, Passed
    <3>2. CASE \E k \in 1..w : wire[k] = Row(s)
      <4>1. PICK k \in 1..w : wire[k] = Row(s)
        BY <3>2
      <4>2. wire'[k] = Row(s) /\ k \in 1..m
        BY <1>2, <2>4, <4>1 DEF Sends
      <4>. QED
        BY <2>2, <4>2 DEF Accounted
    <3>3. CASE \E k \in 1..j : sub.buf[k] = s
      <4>1. PICK k \in 1..j : sub.buf[k] = s
        BY <3>3
      <4>2. CASE k = 1
        <5>1. s = n
          BY <1>2, <4>1, <4>2 DEF Sends
        <5>2. CASE n > sub.last
          <6>1. wire'[w + 1] = Row(s) /\ m = w + 1 /\ w + 1 \in 1..m
            BY <1>2, <2>4, <5>1, <5>2 DEF Sends
          <6>. QED
            BY <2>2, <6>1 DEF Accounted
        <5>3. CASE ~(n > sub.last)
          <6>1. s \in 1..sub.last
            BY <1>3, <5>1, <5>3 DEF Numbers
          <6>. QED
            BY <2>6, <6>1 DEF Accounted
        <5>. QED
          BY <5>2, <5>3
      <4>3. CASE k # 1
        <5>1. k \in 2..Len(sub.buf) /\ k - 1 \in 1..(j - 1)
          BY <1>3, <4>1, <4>3
        <5>2. sub'.buf[k - 1] = s
          BY <1>2, <4>1, <5>1 DEF Sends
        <5>. QED
          BY <5>1, <5>2 DEF Accounted
      <4>. QED
        BY <4>2, <4>3
    <3>. QED
      BY <2>7, <3>1, <3>2, <3>3 DEF Accounted
  <2>8. ASSUME NEW s \in 1..n PROVE Accounted(s, m, 0)'
    <3>1. 1 \in 1..Len(sub.buf) /\ sub.buf[1] = n
      BY <1>2, <1>3 DEF Sends
    <3>2. Accounted(s, w, 1)
      BY <1>1, <2>1, <2>4, <3>1 DEF Owed
    <3>3. s \in Nat /\ 1 - 1 = 0
      OBVIOUS
    <3>4. Accounted(s, m, 1 - 1)'
      BY <2>7, <3>1, <3>2, <3>3
    <3>. QED
      BY <3>3, <3>4
  <2>9. ASSUME NEW i \in 1..m, wire'[i][1] = log.ep, NEW s \in 1..wire'[i][2] PROVE Accounted(s, i, 0)'
    <3>1. CASE i \in 1..w
      <4>1. wire'[i] = wire[i] /\ i \in 1..Len(wire) /\ i \in 0..w
        BY <1>2, <2>4, <3>1 DEF Sends
      <4>2. Accounted(s, i, 0)
        BY <2>1, <2>9, <4>1 DEF Owed
      <4>. QED
        BY <2>5, <4>1, <4>2
    <3>2. CASE i \notin 1..w
      <4>1. i = m /\ wire'[i] = Row(n)
        BY <1>2, <2>4, <2>9, <3>2 DEF Sends
      <4>2. s \in 1..n
        BY <1>3, <2>9, <4>1, RowIs
      <4>. QED
        BY <2>8, <4>1, <4>2
    <3>. QED
      BY <3>1, <3>2
  <2>10. \A s \in 1..sub'.last : Accounted(s, m, 0)'
    <3>1. \A s \in 1..sub'.last : s \in 1..sub.last \/ s \in 1..n
      BY <1>2, <1>3 DEF Sends, MaxOf
    <3>. QED
      BY <2>6, <2>8, <3>1
  <2>11. ASSUME NEW j \in 1..Len(sub'.buf), NEW s \in 1..sub'.buf[j] PROVE Accounted(s, m, j)'
    <3>1. sub'.buf[j] = sub.buf[j + 1] /\ j + 1 \in 1..Len(sub.buf) /\ j \in Nat /\ sub.buf[j + 1] \in Nat
      BY <1>3, <1>5
    <3>2. Accounted(s, w, j + 1) /\ s \in Nat
      BY <1>1, <2>1, <2>4, <2>11, <3>1 DEF Owed
    <3>3. Accounted(s, m, (j + 1) - 1)'
      BY <2>7, <3>1, <3>2
    <3>. QED
      BY <3>1, <3>3
  <2>12. ASSUME ~sub.closed, NEW s \in 1..log.seq PROVE Accounted(s, Len(wire), Len(sub.buf))'
    <3>1. PICK c \in 1..Len(sub.buf) : c = Len(sub.buf) /\ Len(sub.buf)' = c - 1
      BY <1>2, <1>3 DEF Sends
    <3>2. Accounted(s, w, c) /\ s \in Nat
      BY <1>1, <1>3, <2>1, <2>4, <2>12, <3>1 DEF Owed
    <3>3. Accounted(s, m, c - 1)'
      BY <2>7, <3>1, <3>2
    <3>. QED
      BY <2>4, <3>1, <3>3 DEF Accounted
  <2>13. /\ \A s \in 1..sub'.last : Accounted(s, Len(wire), 0)'
         /\ \A j \in 1..Len(sub'.buf) : \A s \in 1..sub'.buf[j] : Accounted(s, Len(wire), j)'
    BY <2>4, <2>10, <2>11 DEF Accounted
  <2>. QED
    BY <1>1, <2>3, <2>4, <2>9, <2>12, <2>13 DEF Owed
<1>8. Tracked' => Tracked
  BY <1>1 DEF Tracked
<1>. QED
  BY <1>1, <1>4, <1>6, <1>7, <1>8 DEF StreamInv

\* The channel of a subscriber that was dropped is at its end.
LEMMA HandlerEndsStream ==
  ASSUME StreamInv, HandlerEnds
  PROVE  StreamInv'
<1>1. /\ TypeOK /\ sub \in Sub /\ sub.at = "live" /\ sub' = [sub EXCEPT !.at = "ended"]
      /\ UNCHANGED <<tail, view, loop, old, load, log, wire, spent>>
      /\ seen \in SeenSet /\ sub.last \in Nat /\ log.seq \in Nat
  BY SubTypes, StreamTypes DEF StreamInv, TypeOK, HandlerEnds
<1>0. /\ seen' \in SeenSet /\ seen'.got = seen.got /\ seen'.ep = seen.ep
      /\ seen'.free = seen.free /\ seen'.lost = seen.lost
  <2>1. PICK more : more = {Row(s) : s \in (sub.last + 1)..log.seq}
    OBVIOUS
  <2>2. \A s \in (sub.last + 1)..log.seq : s \in Numbers
    BY <1>1 DEF Numbers
  <2>3. more \subseteq RowSet
    BY <1>1, <2>1, <2>2, RowIs
  <2>4. seen' = [seen EXCEPT !.due = seen.due \cup more]
    BY <2>1 DEF HandlerEnds
  <2>. QED
    BY <1>1, <2>3, <2>4 DEF SeenSet
<1>2. sub' \in Sub /\ sub'.at = "ended"
  BY <1>1 DEF Sub
<1>3. TypeOK'
  BY <1>0, <1>1, <1>2 DEF TypeOK
<1>4. Phases'
  BY <1>1, <1>2 DEF StreamInv, Phases
<1>5. ~Fed'
  BY <1>2 DEF Fed
<1>6. \A x : Past(x) => Past(x)'
  BY <1>1, <1>5 DEF Past
<1>7. Shows'
  <2>1. Shows /\ NewestFirst'
    BY <1>1 DEF StreamInv, Shows, NewestFirst, Newer
  <2>2. /\ \A k \in 1..Len(view.rows) : Past(view.rows[k])'
        /\ \A i \in 1..Len(wire) : wire[i] # Ready => Past(wire[i])'
    BY <1>1, <1>6, <2>1 DEF Shows
  <2>. QED
    BY <1>1, <1>2, <2>1, <2>2 DEF Shows, Ready, Newer
<1>8. Waits'
  BY <1>0, <1>1, <1>5 DEF StreamInv, Waits
<1>9. ASSUME Tracked PROVE Owed'
  <2>1. Owed
    BY <1>9 DEF StreamInv
  <2>2. \A s : Row(s)' = Row(s)
    BY <1>1 DEF Row
  <2>3. CursorKept'
    BY <1>0, <1>1, <2>1, <2>2 DEF Owed, CursorKept, Passed, Tracked
  <2>4. \A s, i : Accounted(s, i, 0) => Accounted(s, i, 0)'
    BY <1>0, <1>1, <2>2 DEF Accounted, Passed
  <2>. QED
    BY <1>1, <1>2, <1>5, <2>1, <2>3, <2>4 DEF Owed
<1>10. Tracked' => Tracked
  BY <1>1 DEF Tracked
<1>. QED
  BY <1>3, <1>4, <1>7, <1>8, <1>9, <1>10 DEF StreamInv

----------------------------------------------------------------------------
(* What may go wrong *)

\* What was sent last is lost, and what was sent before it is not.
LEMMA CutIs ==
  ASSUME TypeOK, NEW n \in 0..Len(wire), Cut(n)
  PROVE  /\ wire' \in Seq(RowSet \cup {Ready}) /\ Len(wire') = n
         /\ \A i \in 1..n : wire'[i] = wire[i] /\ i \in 1..Len(wire)
         /\ sub' \in Sub /\ sub'.at = "cut"
<1>1. /\ Len(wire) \in Nat /\ \A i \in 1..Len(wire) : wire[i] \in RowSet \cup {Ready}
      /\ NoSub \in Sub
  <2>1. view \in View
    BY DEF TypeOK
  <2>. QED
    BY <2>1, WireTypes, AsksIs
<1>2. 1 \in Int /\ n \in Int /\ n \in Nat /\ \A i \in 1..n : i \in 1..Len(wire)
  BY <1>1
<1>3. wire' = SubSeq(wire, 1, n) /\ sub' = [NoSub EXCEPT !.at = "cut"]
  BY DEF Cut
<1>4. /\ wire' \in Seq(RowSet \cup {Ready})
      /\ Len(wire') = IF 1 <= n THEN n - 1 + 1 ELSE 0
      /\ \A i \in 1..(n - 1 + 1) : wire'[i] = wire[1 + i - 1]
  <2>1. \A i \in 1..n : wire[i] \in RowSet \cup {Ready}
    BY <1>1, <1>2
  <2>. QED
    BY <1>2, <1>3, <2>1, SubSeqProperties
<1>5. Len(wire') = n /\ \A i \in 1..n : wire'[i] = wire[i]
  BY <1>2, <1>4
<1>6. sub' \in Sub /\ sub'.at = "cut"
  BY <1>1, <1>3 DEF Sub
<1>. QED
  BY <1>2, <1>4, <1>5, <1>6

\* A stream is cut, by the network or by a restart, after which every number is of another process.
LEMMA CutStream ==
  ASSUME StreamInv, TypeOK', UNCHANGED <<tail, view, loop, seen>>,
         (log'.ep = log.ep /\ log'.seq = log.seq) \/ log'.ep = log.ep + 1,
         load'.ep <= log'.ep,
         \/ UNCHANGED <<sub, wire>> /\ sub.at = "none"
         \/ sub.at # "none" /\ \E n \in 0..Len(wire) : Cut(n)
  PROVE  StreamInv'
<1>1. /\ TypeOK /\ log.ep \in Numbers /\ log.ep \in Nat /\ seen.ep \in Nat /\ Len(wire) \in Nat
      /\ view.cursor \in Nat
      /\ \A k \in 1..Len(view.rows) : view.rows[k][1] \in Nat /\ view.rows[k][2] \in Nat
      /\ \A i \in 1..Len(wire) : wire[i][1] \in Nat /\ wire[i][2] \in Nat /\ (wire[i] = Ready => wire[i][1] = 0)
  BY StreamTypes, WireTypes DEF StreamInv, Numbers
<1>2. PICK n \in Nat : /\ Len(wire') = n /\ n <= Len(wire)
                       /\ \A i \in 1..n : wire'[i] = wire[i] /\ i \in 1..Len(wire)
                       /\ sub'.at \in {"none", "cut"}
                       /\ sub'.at = "none" <=> sub.at = "none"
                       /\ sub'.at = "none" => wire' = <<>>
  <2>1. CASE UNCHANGED <<sub, wire>> /\ sub.at = "none"
    BY <1>1, <2>1 DEF StreamInv, Phases
  <2>2. CASE sub.at # "none" /\ \E n \in 0..Len(wire) : Cut(n)
    <3>1. PICK n \in 0..Len(wire) : Cut(n)
      BY <2>2
    <3>. QED
      BY <1>1, <2>2, <3>1, CutIs
  <2>. QED
    BY <2>1, <2>2
<1>3. ~Fed'
  BY <1>2 DEF Fed
<1>4. Phases'
  BY <1>2 DEF StreamInv, Phases
<1>5. ASSUME NEW x, x[1] \in Nat, Past(x) PROVE Past(x)'
  BY <1>1, <1>3, <1>5 DEF Past
<1>6. Shows'
  <2>1. Shows /\ NewestFirst'
    BY DEF StreamInv, Shows, NewestFirst, Newer
  <2>2. /\ \A k \in 1..Len(view.rows) : Past(view.rows[k])'
        /\ \A i \in 1..Len(wire) : wire[i] # Ready => Past(wire[i]) /\ \A x : x = wire[i] => Past(x)'
    BY <1>1, <1>5, <2>1 DEF Shows
  <2>3. ASSUME NEW i \in 1..Len(wire'), wire'[i] # Ready
        PROVE  /\ Past(wire[i])'
               /\ \A k \in 1..Len(view.rows) : Newer(wire'[i], view.rows[k])
               /\ \A j \in 1..Len(wire') : i < j /\ wire'[j] # Ready => Newer(wire'[j], wire'[i])
    <3>1. wire'[i] = wire[i] /\ i \in 1..Len(wire)
      BY <1>2, <2>3
    <3>2. Past(wire[i])'
      BY <2>2, <2>3, <3>1
    <3>3. ASSUME NEW j \in 1..Len(wire'), i < j, wire'[j] # Ready PROVE Newer(wire'[j], wire'[i])
      <4>1. wire'[j] = wire[j] /\ j \in 1..Len(wire)
        BY <1>2, <3>3
      <4>. QED
        BY <2>1, <2>3, <3>1, <3>3, <4>1 DEF Shows
    <3>. QED
      BY <2>1, <2>3, <3>1, <3>2, <3>3 DEF Shows
  <2>. QED
    BY <1>2, <2>1, <2>2, <2>3 DEF Shows, Ready, Newer
<1>7. Waits'
  BY <1>1, <1>3 DEF StreamInv, Waits
<1>8. ASSUME Tracked' PROVE Owed'
  <2>1. CASE log'.ep = log.ep /\ log'.seq = log.seq
    <3>1. Owed
      BY <1>8, <2>1 DEF StreamInv, Tracked
    <3>2. \A s : Row(s)' = Row(s)
      BY <2>1 DEF Row
    <3>3. CursorKept'
      BY <2>1, <3>1, <3>2 DEF Owed, CursorKept, Passed, Tracked
    <3>4. ASSUME NEW i \in 1..n, wire'[i][1] = log'.ep, NEW s \in 1..wire'[i][2] PROVE Accounted(s, i, 0)'
      <4>1. wire'[i] = wire[i] /\ i \in 1..Len(wire) /\ \A k \in 1..i : wire'[k] = wire[k]
        BY <1>1, <1>2
      <4>2. Accounted(s, i, 0)
        BY <2>1, <3>1, <3>4, <4>1 DEF Owed
      <4>. QED
        BY <3>2, <4>1, <4>2 DEF Accounted, Passed
    <3>. QED
      BY <1>2, <1>3, <3>3, <3>4 DEF Owed, Fed
  <2>2. CASE log'.ep = log.ep + 1
    <3>1. seen.ep # log'.ep
      BY <1>1, <2>2 DEF StreamInv, Waits
    <3>2. CursorKept'
      BY <3>1 DEF CursorKept
    <3>3. ASSUME NEW i \in 1..n PROVE wire'[i][1] # log'.ep
      <4>1. wire'[i] = wire[i] /\ i \in 1..Len(wire)
        BY <1>2
      <4>2. wire[i][1] <= log.ep /\ wire[i][1] \in Nat
        BY <1>1, <4>1 DEF StreamInv, Shows, Past
      <4>. QED
        BY <1>1, <2>2, <4>1, <4>2
    <3>. QED
      BY <1>2, <1>3, <3>2, <3>3 DEF Owed, Fed
  <2>. QED
    BY <2>1, <2>2
<1>. QED
  BY <1>4, <1>6, <1>7, <1>8 DEF StreamInv

LEMMA TroubleStream ==
  ASSUME StreamInv, StreamFails \/ Restart
  PROVE  StreamInv'
<1>1. /\ TypeOK /\ load \in Load /\ log.ep \in Numbers /\ load.ep <= log.ep /\ load.ep \in Numbers
      /\ MaxSeq \in Nat
  BY StreamTypes, StreamAssumption DEF StreamInv, TypeOK, Waits
<1>2. CASE StreamFails
  <2>1. /\ sub.at # "none" /\ Trouble
        /\ \E n \in 0..Len(wire) : Cut(n)
        /\ UNCHANGED <<tail, view, loop, old, load, log, seen>>
    BY <1>2 DEF StreamFails
  <2>2. sub' \in Sub /\ wire' \in Seq(RowSet \cup {Ready})
    BY <1>1, <2>1, CutIs
  <2>3. TypeOK'
    BY <1>1, <2>1, <2>2, Spends DEF TypeOK
  <2>. QED
    BY <1>1, <2>1, <2>3, CutStream
<1>3. CASE Restart
  <2>1. /\ Trouble /\ UNCHANGED <<tail, view, loop, old, seen>>
        /\ log' = [ep |-> log.ep + 1, lo |-> 1, seq |-> 0]
        /\ load' = IF load.st = "sent" THEN [load EXCEPT !.st = "fail"] ELSE load
        /\ \/ UNCHANGED <<sub, wire>> /\ sub.at = "none"
           \/ sub.at # "none" /\ \E n \in 0..Len(wire) : Cut(n)
    BY <1>3 DEF Restart
  <2>2. sub' \in Sub /\ wire' \in Seq(RowSet \cup {Ready})
    BY <1>1, <2>1, CutIs DEF TypeOK
  <2>3. log' \in [ep : Numbers, lo : Numbers, seq : 0..MaxSeq] /\ log'.ep = log.ep + 1
    BY <1>1, <2>1 DEF Numbers
  <2>4. load' \in Load /\ load'.ep = load.ep
    BY <1>1, <2>1 DEF Load
  <2>5. TypeOK'
    BY <1>1, <2>1, <2>2, <2>3, <2>4, Spends DEF TypeOK
  <2>6. load'.ep <= log'.ep
    BY <1>1, <2>3, <2>4 DEF Numbers
  <2>. QED
    BY <2>1, <2>3, <2>5, <2>6, CutStream
<1>. QED
  BY <1>2, <1>3

LEMMA InitStream ==
  ASSUME Init
  PROVE  StreamInv
<1>1. /\ view = [live |-> FALSE, paused |-> FALSE, conn |-> "off", loading |-> TRUE, loaded |-> FALSE,
                 err |-> "none", history |-> 0, cursor |-> 0, rows |-> <<>>]
      /\ tail \in {"logs", "events"} /\ loop = "none" /\ old = 0
      /\ load = [NoLoad EXCEPT !.st = "sent"]
      /\ log = [ep |-> 1, lo |-> 1, seq |-> 0]
      /\ sub = NoSub /\ wire = <<>>
      /\ seen = NothingSeen
      /\ spent = [clicks |-> 0, troubles |-> 0]
  BY DEF Init
<1>2. /\ view.rows = <<>> /\ Len(view.rows) = 0 /\ view.cursor = 0 /\ log.ep = 1 /\ log.seq = 0
      /\ seen.ep = 1 /\ load.ep = 1 /\ sub.at = "none" /\ Len(wire) = 0
  BY <1>1 DEF NoLoad, NoSub, NothingSeen
<1>3. view \in View
  <2>1. <<>> \in Seq(RowSet)
    OBVIOUS
  <2>. QED
    BY <1>1, <2>1 DEF View, Errors
<1>4. load \in Load /\ sub \in Sub
  BY <1>1 DEF NoLoad, Load, NoSub, Sub, Numbers
<1>5. log \in [ep : Numbers, lo : Numbers, seq : 0..MaxSeq]
  BY <1>1, StreamAssumption DEF Numbers
<1>6. /\ seen \in SeenSet
      /\ wire \in Seq(RowSet \cup {Ready}) /\ spent \in [clicks : Nat, troubles : Nat]
  BY <1>1 DEF Numbers, SeenSet, NothingSeen
<1>7. TypeOK
  BY <1>1, <1>3, <1>4, <1>5, <1>6 DEF TypeOK
<1>8. Phases
  BY <1>1, <1>2 DEF Phases
<1>9. Shows
  <2>1. LiveCap \in Nat
    BY StreamAssumption
  <2>. QED
    BY <1>2, <2>1 DEF Shows, NewestFirst
<1>10. Waits
  BY <1>2 DEF Waits, Fed
<1>11. Owed
  BY <1>2 DEF Owed, CursorKept, Fed
<1>. QED
  BY <1>7, <1>8, <1>9, <1>10, <1>11 DEF StreamInv

LEMMA StepStream ==
  ASSUME StreamInv, [Next]_vars
  PROVE  StreamInv'
<1>1. CASE Next
  <2>1. CASE User
    BY <2>1, UserStream
  <2>2. CASE LoadArrives
    BY <2>2, LoadStream
  <2>3. CASE Hear
    BY <2>3, HearStream
  <2>4. CASE LoopWaits \/ WaitOver \/ OldLoopReturns \/ ServeLoad \/ LoadFails
    BY <2>4, QuietStream
  <2>5. CASE Subscribe
    BY <2>5, SubscribeStream
  <2>6. CASE Replay
    BY <2>6, ReplayStream
  <2>7. CASE Deliver
    BY <2>7, DeliverStream
  <2>8. CASE HandlerEnds
    BY <2>8, HandlerEndsStream
  <2>9. CASE Appended
    BY <2>9, AppendedStream
  <2>10. CASE StreamFails \/ Restart
    BY <2>10, TroubleStream
  <2>. QED
    BY <1>1, <2>1, <2>2, <2>3, <2>4, <2>5, <2>6, <2>7, <2>8, <2>9, <2>10 DEF Next, Own, Loop, Handler
<1>2. CASE UNCHANGED vars
  <2>1. UNCHANGED <<tail, view, loop, old, load, log, sub, wire, seen, spent>>
    BY <1>2 DEF vars
  <2>2. TypeOK'
    BY <2>1 DEF StreamInv, TypeOK
  <2>3. view.cursor \in Nat /\ log.ep \in Numbers /\ load.ep <= log.ep /\ seen.ep <= log.ep
    BY StreamTypes DEF StreamInv, Waits
  <2>. QED
    BY <2>1, <2>2, <2>3, PageStep, SkippedSame DEF Passed
<1>. QED
  BY <1>1, <1>2

LEMMA Invariance == Spec => []StreamInv
<1>1. Init => StreamInv
  BY InitStream
<1>2. StreamInv /\ [Next]_vars => StreamInv'
  BY StepStream
<1>. QED
  BY <1>1, <1>2, PTL DEF Spec

\* The page, the stream and the gateway have the fields and the ranges they are meant to have,
\* and the rows of a history are numbers that the gateway gave.
THEOREM TypeCorrect == Spec => []TypeOK
<1>1. StreamInv => TypeOK
  BY DEF StreamInv
<1>. QED
  BY <1>1, Invariance, PTL

\* The tail on the page is newest first, and has no number twice, through replays, restarts of
\* the gateway and rows that leave it (mergeLive).
THEOREM NewestFirstAlways == Spec => []NewestFirst
<1>1. StreamInv => NewestFirst
  BY DEF StreamInv, Shows
<1>. QED
  BY <1>1, Invariance, PTL

\* The cursor of a page passes over no row that it did not receive, that is owed, and that is
\* not one of those a history or a stream that begins anew passed over.
THEOREM NothingSkippedAlways == Spec => []NothingSkipped
<1>1. StreamInv => NothingSkipped
  BY DEF StreamInv, Owed, CursorKept, Tracked, NothingSkipped, Told, Passed
<1>. QED
  BY <1>1, Invariance, PTL

\* A tail at rest is connected, and has every row that is owed and was not passed over.
THEOREM RestIsCaughtUpAlways == Spec => []RestIsCaughtUp
<1>1. StreamInv /\ StatusInv => RestIsCaughtUp
  <2>. SUFFICES ASSUME StreamInv, StatusInv, Running(view), tail = "logs" \/ log.ep = 1, AtRest
                PROVE  Shown(view) = "live" /\ \A s \in 1..log.seq : Row(s) \in seen.got \cup Passed
    BY DEF RestIsCaughtUp, Told, Passed
  <2>1. loop \in {"asking", "reading"}
    BY DEF StatusInv, StatusIsTrue, AtRest
  <2>2. sub.at = "live" /\ wire = <<>> /\ sub.buf = <<>> /\ ~sub.closed
    BY <2>1 DEF AtRest, StreamInv, Phases
  <2>3. loop = "reading"
    BY <2>1, <2>2 DEF StreamInv, Phases
  <2>4. Shown(view) = "live"
    BY <2>3 DEF StatusInv, StatusIsTrue
  <2>5. Tracked /\ Owed
    BY DEF Tracked, StreamInv
  <2>6. \A s \in 1..log.seq : Accounted(s, 0, 0)
    BY <2>2, <2>5 DEF Owed
  <2>. QED
    BY <2>4, <2>6 DEF Accounted
<1>2. Spec => []StatusInv
  BY InitStatus, NextStatus, PTL DEF Spec
<1>. QED
  BY <1>1, <1>2, Invariance, PTL

----------------------------------------------------------------------------
(* What a page shows of a load (PageState): what api/page-state.ts says of *)
(* itself, in the comments of classifyPageState and listMetaCount, and the *)
(* page of a list that clampPageOffset finds, whose offset may be one that *)
(* the list has shrunk below.                                              *)

\* "Empty is only true after a successful load with zero items and no error.
\* Permission/error never claim emptiness": a page never shows rows and emptiness at once.
THEOREM EmptyIsTrue ==
  ASSUME NEW p \in Loads, ShowEmpty(p)
  PROVE  p.loaded /\ ~p.loading /\ p.err = "none" /\ p.count = 0 /\ ~ShowItems(p)
BY DEF Loads, Errors, ShowEmpty, ShowItems, Kind, KeepsStale

\* "Stale keeps last-known items only when keepStale is set": rows beside an error were
\* loaded before, and a page that was refused shows none.
THEOREM StaleIsKept ==
  ASSUME NEW p \in Loads, ShowItems(p)
  PROVE  /\ p.loaded /\ p.count > 0
         /\ p.err = "none" \/ p.loading \/ p.keepStale
         /\ p.err # "denied"
         /\ ~InventoryBlocksMutation(p)
BY DEF Loads, Errors, ShowItems, InventoryBlocksMutation, Kind, KeepsStale

\* "Blocking inventory never claims a numeric zero": zero is counted only of a list that is
\* known to be empty, or whose rows the page shows.
THEOREM ZeroIsKnown ==
  ASSUME NEW p \in Loads, NEW n \in Nat, ListMetaCount(p, n) = 0
  PROVE  n = 0 /\ (ShowEmpty(p) \/ ShowItems(p))
<1>1. NoCount # 0
  BY DEF NoCount
<1>. QED
  BY <1>1 DEF Loads, Errors, ListMetaCount, ShowEmpty, ShowItems, Kind, KeepsStale

\* The start of a page of size rows.
LEMMA PageStart ==
  ASSUME NEW size \in Nat \ {0}, NEW k \in Nat
  PROVE  LET s == (k \div size) * size
         IN  s \in Nat /\ s % size = 0 /\ s <= k /\ k < s + size
OBVIOUS

\* The page shown has rows as long as there are any: it starts at a multiple of its size
\* inside the list, and it is the page of the offset or, past the end, the last page.
THEOREM ClampedPage ==
  ASSUME NEW total \in Nat, NEW offset \in Nat, NEW size \in Nat \ {0}
  PROVE  LET s == ClampPageOffset(total, offset, size)
         IN  /\ s \in Nat /\ s % size = 0
             /\ total > 0 => s < total
             /\ offset < total => s <= offset /\ offset < s + size
             /\ total > 0 /\ offset >= total => s + size >= total
<1>1. CASE total = 0
  BY <1>1 DEF ClampPageOffset
<1>2. CASE total > 0 /\ offset >= total
  <2>1. total - 1 \in Nat
    BY <1>2
  <2>. QED
    BY <1>2, <2>1, PageStart DEF ClampPageOffset
<1>3. CASE total > 0 /\ offset < total
  BY <1>3, PageStart DEF ClampPageOffset
<1>. QED
  BY <1>1, <1>2, <1>3

-----------------------------------------------------------------------------
(* Addresses *)

\* What a hash can say in a build with demo screens (d) or without.
IsRoute(t, p, s, d) ==
  /\ t \in Tabs /\ (t \in DemoTabs => d)
  /\ IF t = "settings" THEN p \in SettingsPages ELSE p = NoPage
  /\ IF t = "traces" THEN s \in Traces ELSE s = NoTrace

LEMMA SegmentFacts ==
  /\ NoTrace \in Segments /\ NoTrace.id = FALSE
  /\ \A x \in Words : /\ Seg(x) \in Segments /\ Seg(x).raw = x /\ Seg(x).name = x
                      /\ Seg(x).id = TRUE
<1>1. ASSUME NEW x \in Texts, NEW i \in BOOLEAN
      PROVE  [raw |-> x, name |-> x, id |-> i] \in Segments
  BY DEF Segments
<1>2. "none" \in Texts
  BY DEF Texts, Words
<1>3. \A x \in Words : x \in Texts
  BY DEF Texts
<1>4. NoTrace \in Segments /\ \A x \in Words : Seg(x) \in Segments
  BY <1>1, <1>2, <1>3, Zenon DEF NoTrace, Seg
<1>5. /\ NoTrace.id = FALSE
      /\ \A x : Seg(x).raw = x /\ Seg(x).name = x /\ Seg(x).id = TRUE
  BY DEF NoTrace, Seg
<1>. QED
  BY <1>4, <1>5

\* What the hash of one or two segments has.
LEMMA HashFacts ==
  /\ \A x \in Segments : LET h == Hash(<<x>>)
                         IN  /\ h \in Hashes /\ h.segs # <<>> /\ Len(h.segs) = 1
                             /\ h.segs[1] = x /\ h.bare = FALSE /\ h.odd = FALSE
  /\ \A x, y \in Segments : LET h == Hash(<<x, y>>)
                            IN  /\ h \in Hashes /\ h.segs # <<>> /\ Len(h.segs) = 2
                                /\ h.segs[1] = x /\ h.segs[2] = y /\ h.bare = FALSE /\ h.odd = FALSE
BY DEF Hash, Hashes

\* The hash of one word of the tables, and what is read of it.
LEMMA OneWord ==
  ASSUME NEW w \in Words, NEW d
  PROVE  LET h == Hash(<<Seg(w)>>)
         IN  /\ h \in Hashes /\ h.segs # <<>> /\ Len(h.segs) = 1
             /\ h.segs[1].name = w
             /\ w \notin {"overview", "config", "traces", "functions"} => ParseHash(h, d) = ParseOther(h, d)
             /\ w = "overview" => ParseHash(h, d) = Overview(d, FALSE, FALSE)
             /\ w = "config" => ParseHash(h, d) = Parsed("settings", DefaultSettingsPage, NoTrace, d, FALSE, FALSE)
             /\ w = "traces" => ParseHash(h, d) = Parsed("traces", NoPage, NoTrace, d, FALSE, FALSE)
<1>. DEFINE h == Hash(<<Seg(w)>>)
<1>1. PICK x \in Segments : x = Seg(w) /\ x.name = w
  BY SegmentFacts, Zenon
<1>2. h \in Hashes /\ h.segs # <<>> /\ Len(h.segs) = 1 /\ h.segs[1].name = w /\ h.bare = FALSE
  BY <1>1, HashFacts
<1>. HIDE DEF h
<1>3. Second(h) = NoTrace
  BY <1>2 DEF Second
<1>4. CASE w = "overview"
  <2>1. (Len(h.segs) > 1) = FALSE
    BY <1>2
  <2>2. ParseHash(h, d) = Overview(d, Len(h.segs) > 1, Len(h.segs) > 1)
    BY <1>2, <1>4, Zenon DEF ParseHash
  <2>. QED
    BY <1>2, <1>4, <2>1, <2>2 DEF h
<1>5. CASE w = "config"
  <2>1. Second(h).name \notin SettingsPages /\ ConfigRewrites(h, DefaultSettingsPage) = FALSE
    BY <1>2, <1>3 DEF ConfigRewrites, SettingsPages, NoTrace
  <2>2. ParseConfig(h, d) = Parsed("settings", DefaultSettingsPage, NoTrace, d, FALSE, FALSE)
    BY <2>1, Zenon DEF ParseConfig
  <2>3. ParseHash(h, d) = ParseConfig(h, d)
    BY <1>2, <1>5 DEF ParseHash
  <2>. QED
    BY <1>2, <1>5, <2>2, <2>3 DEF h
<1>6. CASE w = "traces"
  <2>1. TraceIdOf(Second(h)) = NoTrace /\ TracesRewrites(h) = FALSE
    BY <1>2, <1>3 DEF TracesRewrites, TraceIdOf, NoTrace
  <2>2. ParseTraces(h, d) = Parsed("traces", NoPage, NoTrace, d, FALSE, FALSE)
    BY <2>1, Zenon DEF ParseTraces
  <2>3. ParseHash(h, d) = ParseTraces(h, d)
    BY <1>2, <1>6 DEF ParseHash
  <2>. QED
    BY <1>2, <1>6, <2>2, <2>3 DEF h
<1>7. CASE w \notin {"overview", "config", "traces"}
  <2>1. w # "functions" => ParseHash(h, d) = ParseOther(h, d)
    BY <1>2, <1>7 DEF ParseHash
  <2>. QED
    BY <1>2, <1>7, <2>1 DEF h
<1>. QED
  BY <1>4, <1>5, <1>6, <1>7

\* The hash of a tab that is written and read by one word w.
LEMMA OneWordTab ==
  ASSUME NEW t \in Tabs, NEW w \in Words, NEW d \in BOOLEAN,
         w \notin {"overview", "config", "traces", "functions"},
         SegTab(w) = t, t # NoTab, t \in DemoTabs => d,
         SerializeHash(t, NoPage, NoTrace, d) = Hash(<<Seg(w)>>)
  PROVE  ParseHash(Hash(<<Seg(w)>>), d) = Parsed(t, NoPage, NoTrace, d, FALSE, FALSE)
<1>. DEFINE h == Hash(<<Seg(w)>>)
<1>1. ParseHash(h, d) = ParseOther(h, d) /\ Len(h.segs) = 1 /\ h.segs[1].name = w
  BY OneWord
<1>2. SerializeHash(t, NoPage, NoTrace, d) = h
  OBVIOUS
<1>. HIDE DEF h
<1>3. OtherRewrites(h, h) = FALSE
  BY <1>1 DEF OtherRewrites
<1>4. ParseOther(h, d) = Parsed(t, NoPage, NoTrace, d, FALSE, FALSE)
  BY <1>1, <1>2, <1>3, Zenon DEF ParseOther
<1>. QED
  BY <1>1, <1>4 DEF h

\* A route that is written is read again as it was, and needs no rewriting.
LEMMA RoundTrip ==
  ASSUME NEW t, NEW p, NEW s, NEW d \in BOOLEAN, IsRoute(t, p, s, d)
  PROVE  /\ SerializeHash(t, p, s, d) \in Hashes
         /\ SerializeHash(t, p, s, d).segs # <<>>
         /\ ParseHash(SerializeHash(t, p, s, d), d) = Parsed(t, p, s, d, FALSE, FALSE)
<1>. DEFINE h == SerializeHash(t, p, s, d)
<1>1. CASE t = "settings" /\ p = DefaultSettingsPage
  <2>1. h = Hash(<<Seg("config")>>)
    BY <1>1 DEF SerializeHash, DefaultSettingsPage, NoPage, TabSeg, SameName, DemoTabs
  <2>2. s = NoTrace /\ "config" \in Words
    BY <1>1 DEF IsRoute, Words
  <2>. QED
    BY <1>1, <2>1, <2>2, OneWord, Zenon
<1>2. CASE t = "settings" /\ p # DefaultSettingsPage
  <2>1. p \in SettingsPages /\ p \in Words /\ "config" \in Words /\ s = NoTrace
    BY <1>2 DEF IsRoute, Words
  <2>2. h = Hash(<<Seg("config"), Seg(p)>>)
    BY <1>2, <2>1 DEF SerializeHash, NoPage, DemoTabs, SettingsPages
  <2>3. PICK x \in Segments, y \in Segments :
          x = Seg("config") /\ x.name = "config" /\ y = Seg(p) /\ y.name = p
    BY <2>1, SegmentFacts, Zenon
  <2>4. /\ h \in Hashes /\ h.segs # <<>> /\ Len(h.segs) = 2 /\ h.bare = FALSE
        /\ h.segs[1].name = "config" /\ h.segs[2].name = p
    BY <2>2, <2>3, HashFacts
  <2>. HIDE DEF h
  <2>5. Second(h).name = p /\ ConfigRewrites(h, p) = FALSE
    BY <1>2, <2>4 DEF Second, ConfigRewrites
  <2>6. ParseConfig(h, d) = Parsed("settings", p, NoTrace, d, FALSE, FALSE)
    BY <2>1, <2>5, Zenon DEF ParseConfig
  <2>7. ParseHash(h, d) = ParseConfig(h, d)
    BY <2>4 DEF ParseHash
  <2>. QED
    BY <1>2, <2>1, <2>4, <2>6, <2>7 DEF h
<1>3. CASE t = "traces" /\ s = NoTrace
  <2>1. h = Hash(<<Seg("traces")>>) /\ p = NoPage /\ "traces" \in Words
    BY <1>3 DEF IsRoute, SerializeHash, TraceIdOf, TabSeg, SameName, DemoTabs, Words, NoTrace
  <2>. QED
    BY <1>3, <2>1, OneWord, Zenon
<1>4. CASE t = "traces" /\ s # NoTrace
  <2>1. p = NoPage /\ "traces" \in Words /\ s \in Segments /\ s.id
    BY <1>4 DEF IsRoute, Words, SameName, Traces
  <2>2. TraceIdOf(s) = s
    BY <2>1 DEF TraceIdOf
  <2>3. h = Hash(<<Seg("traces"), s>>)
    BY <1>4, <2>1, <2>2 DEF SerializeHash, DemoTabs
  <2>4. PICK x \in Segments : x = Seg("traces") /\ x.name = "traces"
    BY <2>1, SegmentFacts, Zenon
  <2>5. /\ h \in Hashes /\ h.segs # <<>> /\ Len(h.segs) = 2 /\ h.bare = FALSE
        /\ h.segs[1].name = "traces" /\ h.segs[2] = s
    BY <2>1, <2>3, <2>4, HashFacts
  <2>. HIDE DEF h
  <2>6. Second(h) = s
    BY <2>5 DEF Second
  <2>7. TracesRewrites(h) = FALSE
    BY <2>1, <2>5, <2>6 DEF TracesRewrites
  <2>8. ParseTraces(h, d) = Parsed("traces", NoPage, s, d, FALSE, FALSE)
    BY <2>2, <2>6, <2>7, Zenon DEF ParseTraces
  <2>9. ParseHash(h, d) = ParseTraces(h, d)
    BY <2>5 DEF ParseHash
  <2>. QED
    BY <1>4, <2>1, <2>5, <2>8, <2>9 DEF h
<1>5. CASE t = "crm"
  <2>1. p = NoPage /\ s = NoTrace /\ "overview" \in Words
    BY <1>5 DEF IsRoute, Words
  <2>2. h = Hash(<<Seg("overview")>>)
    BY <1>5 DEF SerializeHash, TabSeg, SameName, DemoTabs
  <2>. QED
    BY <1>5, <2>1, <2>2, OneWord, Zenon DEF Overview
<1>6. CASE t \in Tabs \ {"settings", "traces", "crm"}
  <2>1. p = NoPage /\ s = NoTrace /\ (t \in DemoTabs => d)
    BY <1>6 DEF IsRoute
  <2>. DEFINE w == TabSeg(t)
  <2>2. w \in Words \ {"overview", "config", "traces", "functions"} /\ SegTab(w) = t /\ t # NoTab
    <3>1. CASE t = "decisionFlow"
      <4>1. w = "decision-flow"
        BY <3>1 DEF TabSeg, SameName, DemoTabs
      <4>2. w \notin SameName \cup Inherited
        BY <4>1 DEF SameName, DemoTabs, Inherited
      <4>3. SegTab(w) = "decisionFlow"
        BY <4>1, <4>2 DEF SegTab
      <4>. QED
        BY <3>1, <4>1, <4>3 DEF Words, NoTab
    <3>2. CASE t \in SameName \ {"traces"}
      <4>1. w = t
        BY <3>2 DEF TabSeg
      <4>2. t \notin {"overview", "config", "decision-flow", "functions", "webhooks", "projects",
                     "agent-team", "agent-link", "agent-setting", "api-keys", "import-export",
                     "kgraph", "backup-restore"}
        BY <3>2 DEF SameName, DemoTabs
      <4>4. SegTab(t) = t
        BY <3>2, <4>2 DEF SegTab
      <4>3. t \in Words /\ t \notin {"overview", "config", "functions", NoTab}
        BY <3>2 DEF Words, SameName, DemoTabs, NoTab
      <4>. QED
        BY <3>2, <4>1, <4>3, <4>4
    <3>. QED
      BY <1>6, <3>1, <3>2 DEF Tabs
  <2>3. h = Hash(<<Seg(w)>>)
    BY <1>6, <2>1 DEF SerializeHash, Tabs, SameName, DemoTabs
  <2>. HIDE DEF w
  <2>4. h \in Hashes /\ h.segs # <<>>
    BY <2>2, <2>3, OneWord
  <2>5. ParseHash(h, d) = Parsed(t, NoPage, NoTrace, d, FALSE, FALSE)
    BY <1>6, <2>1, <2>2, <2>3, OneWordTab, Zenon
  <2>. QED
    BY <2>1, <2>4, <2>5
<1>. QED
  BY <1>1, <1>2, <1>3, <1>4, <1>5, <1>6 DEF IsRoute

LEMMA ParsedFields ==
  ASSUME NEW t, NEW p, NEW s, NEW d, NEW r, NEW u
  PROVE  LET q == Parsed(t, p, s, d, r, u)
         IN  /\ q.tab = t /\ q.page = p /\ q.trace = s /\ q.rewrite = r /\ q.unknown = u
             /\ q.canonical = SerializeHash(t, p, s, d)
BY DEF Parsed

\* The tab of a segment.
LEMMA SegTabs ==
  ASSUME NEW x, x \notin Inherited \cup {"config", "traces"}, SegTab(x) # NoTab
  PROVE  SegTab(x) \in Tabs \ {"settings", "traces"}
<1>1. CASE x \in SameName
  <2>1. x \notin {"overview", "config", "decision-flow", "functions", "webhooks", "projects",
                 "agent-team", "agent-link", "agent-setting", "api-keys", "import-export",
                 "kgraph", "backup-restore"}
    BY <1>1 DEF SameName, DemoTabs
  <2>2. SegTab(x) = x
    BY <1>1, <2>1 DEF SegTab
  <2>3. x # "settings"
    BY <1>1 DEF SameName, DemoTabs
  <2>. QED
    BY <1>1, <2>2, <2>3 DEF Tabs
<1>2. CASE x \notin SameName
  <2>1. SegTab(x) \in {"crm", "decisionFlow", "tools", "hooks", "chat", "agents", "apikeys", "impexp",
                      "kg", "backup"}
    BY <1>2 DEF SegTab
  <2>. QED
    BY <2>1 DEF Tabs, SameName, DemoTabs
<1>. QED
  BY <1>1, <1>2

\* What is read of a hash that is not empty is a route, and its canonical hash is that route
\* written.
LEMMA ReadRoute ==
  ASSUME NEW h \in Hashes, h.segs # <<>>, ~NamesInherited(h), NEW d \in BOOLEAN
  PROVE  \E t, p, s, r, u : IsRoute(t, p, s, d) /\ ParseHash(h, d) = Parsed(t, p, s, d, r, u)
<1>. DEFINE head == h.segs[1].name
<1>1. Second(h) \in Segments
  BY SegmentFacts DEF Second, Hashes
<1>2. \A x \in Segments : TraceIdOf(x) \in Traces
  BY DEF TraceIdOf, Traces
<1>3. "crm" \in Tabs /\ "crm" \notin DemoTabs
  BY DEF Tabs, DemoTabs
<1>4. "traces" \in Tabs /\ "traces" \notin DemoTabs /\ "settings" \in Tabs /\ "settings" \notin DemoTabs
  BY DEF Tabs, SameName, DemoTabs
<1>5. IsRoute("crm", NoPage, NoTrace, d)
  BY <1>3 DEF IsRoute
<1>6. CASE h.bare /\ h.segs[1].raw = "traces"
  <2>1. PICK s \in Traces : ParseBareTraces(h, d) = Parsed("traces", NoPage, s, d, TRUE, FALSE)
    <3>. DEFINE id == IF Len(h.segs) = 2 /\ ~h.odd THEN TraceIdOf(h.segs[2]) ELSE NoTrace
    <3>1. id \in Traces
      BY <1>2 DEF Hashes, Traces
    <3>. QED
      BY <3>1 DEF ParseBareTraces
  <2>2. ParseHash(h, d) = ParseBareTraces(h, d)
    BY <1>6 DEF ParseHash
  <2>. QED
    BY <1>4, <2>1, <2>2 DEF IsRoute
<1>7. CASE ~(h.bare /\ h.segs[1].raw = "traces") /\ head = "overview"
  <2>1. ParseHash(h, d) = Overview(d, Len(h.segs) > 1, Len(h.segs) > 1)
    BY <1>7, Zenon DEF ParseHash
  <2>. QED
    BY <1>5, <2>1, Zenon DEF Overview
<1>8. CASE ~(h.bare /\ h.segs[1].raw = "traces") /\ head = "config"
  <2>1. ParseHash(h, d) = ParseConfig(h, d)
    BY <1>8 DEF ParseHash
  <2>2. DefaultSettingsPage \in SettingsPages
    BY DEF DefaultSettingsPage, SettingsPages
  <2>3. PICK p \in SettingsPages :
          ParseConfig(h, d) = Parsed("settings", p, NoTrace, d, ConfigRewrites(h, p), FALSE)
    BY <2>2, Zenon DEF ParseConfig
  <2>. QED
    BY <1>4, <2>1, <2>3, Zenon DEF IsRoute
<1>9. CASE ~(h.bare /\ h.segs[1].raw = "traces") /\ head = "traces"
  <2>1. ParseHash(h, d) = ParseTraces(h, d)
    BY <1>9 DEF ParseHash
  <2>. QED
    BY <1>1, <1>2, <1>4, <2>1, Zenon DEF ParseTraces, IsRoute
<1>10. CASE ~(h.bare /\ h.segs[1].raw = "traces") /\ head = "functions"
  <2>1. ParseHash(h, d) = Parsed("tools", NoPage, NoTrace, d, TRUE, FALSE)
    BY <1>10 DEF ParseHash
  <2>2. "tools" \in Tabs /\ "tools" \notin DemoTabs
    BY DEF Tabs, SameName, DemoTabs
  <2>. QED
    BY <2>1, <2>2 DEF IsRoute
<1>11. CASE ~(h.bare /\ h.segs[1].raw = "traces") /\ head \notin {"overview", "config", "traces", "functions"}
  <2>1. ParseHash(h, d) = ParseOther(h, d)
    BY <1>11 DEF ParseHash
  <2>2. head \notin Inherited
    BY DEF NamesInherited
  <2>3. CASE SegTab(head) = NoTab \/ (SegTab(head) \in DemoTabs /\ ~d)
    <3>1. ParseOther(h, d) = Overview(d, TRUE, TRUE)
      BY <2>3 DEF ParseOther
    <3>. QED
      BY <1>5, <2>1, <3>1, Zenon DEF Overview
  <2>4. CASE ~(SegTab(head) = NoTab \/ (SegTab(head) \in DemoTabs /\ ~d))
    <3>. DEFINE t == SegTab(head)
    <3>1. t \in Tabs \ {"settings", "traces"} /\ (t \in DemoTabs => d)
      BY <1>11, <2>2, <2>4, SegTabs
    <3>2. ParseOther(h, d) =
            Parsed(t, NoPage, NoTrace, d, OtherRewrites(h, SerializeHash(t, NoPage, NoTrace, d)), FALSE)
      BY <2>4, Zenon DEF ParseOther
    <3>3. IsRoute(t, NoPage, NoTrace, d)
      BY <3>1 DEF IsRoute
    <3>. QED
      BY <2>1, <3>2, <3>3, Zenon
  <2>. QED
    BY <2>3, <2>4
<1>. QED
  BY <1>6, <1>7, <1>8, <1>9, <1>10, <1>11

\* An inherited property is taken for a tab.
LEMMA ReadInherited ==
  ASSUME NEW h \in Hashes, NamesInherited(h), NEW d \in BOOLEAN
  PROVE  ParseHash(h, d).tab \in Inherited /\ ParseHash(h, d).canonical = Hash(<<Seg("overview")>>)
<1>. DEFINE head == h.segs[1].name
<1>1. h.segs[1] \in Segments /\ h.segs # <<>> /\ head \in {"constructor", "__proto__"}
  BY DEF NamesInherited, Hashes, Inherited
<1>2. h.segs[1].raw # "traces"
  BY <1>1 DEF Segments, Words, SameName
<1>3. ParseHash(h, d) = ParseOther(h, d)
  BY <1>1, <1>2 DEF ParseHash
<1>4. SegTab(head) = head
  BY <1>1 DEF SegTab, Inherited
<1>5. head # NoTab /\ head \notin DemoTabs
  BY <1>1 DEF NoTab, DemoTabs
<1>6. SerializeHash(head, NoPage, NoTrace, d) = Hash(<<Seg("overview")>>)
  BY <1>1 DEF SerializeHash, TabSeg, SameName, DemoTabs
<1>7. ParseOther(h, d) =
        Parsed(head, NoPage, NoTrace, d, OtherRewrites(h, Hash(<<Seg("overview")>>)), FALSE)
  BY <1>4, <1>5, <1>6, Zenon DEF ParseOther
<1>. QED
  BY <1>1, <1>3, <1>6, <1>7 DEF Parsed, Inherited

\* The empty hash, with or without its slash.
LEMMA ReadNothing ==
  ASSUME NEW h \in Hashes, h.segs = <<>>, NEW d \in BOOLEAN
  PROVE  LET q == ParseHash(h, d)
         IN  /\ q.tab = "crm" /\ q.page = NoPage /\ q.trace = NoTrace
             /\ q.rewrite = FALSE /\ q.unknown = FALSE
             /\ q.canonical \in Hashes /\ q.canonical.segs = <<>>
             /\ q.canonical.bare = h.bare /\ q.canonical.odd = FALSE
BY DEF ParseHash, Overview, Parsed, Hashes

\* The address that parseHash asks for is the address of the same place, and reading it asks
\* for no other: replacing an old hash ends after one step. Only a hash that names an
\* inherited property has no such address.
THEOREM CanonicalIsFixed ==
  ASSUME NEW h \in Hashes, ~NamesInherited(h), NEW d \in BOOLEAN
  PROVE  LET p == ParseHash(h, d)
             q == ParseHash(p.canonical, d)
         IN  /\ p.canonical \in Hashes
             /\ q.tab = p.tab /\ q.page = p.page /\ q.trace = p.trace
             /\ q.rewrite = FALSE /\ q.canonical = p.canonical
<1>1. CASE h.segs = <<>>
  <2>. DEFINE p == ParseHash(h, d)
              q == ParseHash(p.canonical, d)
  <2>1. /\ p.tab = "crm" /\ p.page = NoPage /\ p.trace = NoTrace /\ p.canonical \in Hashes
        /\ p.canonical.segs = <<>> /\ p.canonical.odd = FALSE
    BY <1>1, ReadNothing
  <2>. HIDE DEF p
  <2>2. /\ q.tab = "crm" /\ q.page = NoPage /\ q.trace = NoTrace /\ q.rewrite = FALSE
        /\ q.canonical \in Hashes /\ q.canonical.segs = <<>> /\ q.canonical.odd = FALSE
        /\ q.canonical.bare = p.canonical.bare
    BY <2>1, ReadNothing
  <2>. HIDE DEF q
  <2>3. q.canonical = p.canonical
    BY <2>1, <2>2 DEF Hashes
  <2>. QED
    BY <2>1, <2>2, <2>3 DEF p, q
<1>2. CASE h.segs # <<>>
  <2>1. PICK t, p, s, r, u : IsRoute(t, p, s, d) /\ ParseHash(h, d) = Parsed(t, p, s, d, r, u)
    BY <1>2, ReadRoute
  <2>2. /\ SerializeHash(t, p, s, d) \in Hashes
        /\ ParseHash(SerializeHash(t, p, s, d), d) = Parsed(t, p, s, d, FALSE, FALSE)
    BY <2>1, RoundTrip
  <2>. DEFINE c == SerializeHash(t, p, s, d)
              q == Parsed(t, p, s, d, FALSE, FALSE)
  <2>3. LET o == Parsed(t, p, s, d, r, u)
        IN  o.tab = t /\ o.page = p /\ o.trace = s /\ o.canonical = c
    BY DEF Parsed
  <2>4. q.tab = t /\ q.page = p /\ q.trace = s /\ q.canonical = c /\ q.rewrite = FALSE
    BY DEF Parsed
  <2>. HIDE DEF c, q
  <2>5. ParseHash(ParseHash(h, d).canonical, d) = q /\ ParseHash(h, d).canonical = c
    BY <2>1, <2>2, <2>3 DEF c, q
  <2>. QED
    BY <2>1, <2>2, <2>3, <2>4, <2>5 DEF c
<1>. QED
  BY <1>1, <1>2

\* "Unknown live hashes rewrite to Overview #/overview": a hash whose first segment is none of
\* the words of the tables. The properties that every object inherits are found, and are no tabs.
THEOREM UnknownGoesHome ==
  ASSUME NEW h \in Hashes, h.segs # <<>>, NEW d,
         h.segs[1].raw \notin Words, h.segs[1].name \notin Words
  PROVE  ParseHash(h, d) = Parsed("crm", NoPage, NoTrace, d, TRUE, TRUE)
<1>. DEFINE head == h.segs[1].name
<1>1. /\ head \notin SameName \cup Inherited
      /\ head \notin {"overview", "config", "decision-flow", "functions", "webhooks", "projects",
                     "agent-team", "agent-link", "agent-setting", "api-keys", "import-export",
                     "kgraph", "backup-restore"}
      /\ head # "traces" /\ h.segs[1].raw # "traces"
  BY DEF Words, SameName
<1>2. ParseHash(h, d) = ParseOther(h, d)
  BY <1>1 DEF ParseHash
<1>3. SegTab(head) = NoTab
  BY <1>1 DEF SegTab
<1>. QED
  BY <1>2, <1>3 DEF ParseOther, Overview

-----------------------------------------------------------------------------
\* The inductive invariant: besides what is shown, the types that the lemmas ask for and the
\* highlighted row.
PaletteOk ==
  /\ palette.rows \in Seq(Side) /\ palette.active \in Nat
  /\ PaletteOnRow

RouteInv ==
  /\ demo \in BOOLEAN /\ address \in Hashes
  /\ AddressAgrees /\ SomethingShown /\ PaletteOk

LEMMA SideRoutes ==
  /\ Side \subseteq Rendered
  /\ \A id \in Side : id \in Tabs /\ (id \in DemoTabs => demo)
BY DEF Side, Rendered, LiveTabs, Tabs, SameName, DemoTabs

LEMMA TabsShown ==
  ASSUME NEW t \in Tabs, t \in DemoTabs => demo
  PROVE  t \in Rendered
BY DEF Rendered, LiveTabs, Tabs, SameName, DemoTabs

LEMMA ShowRowsOk ==
  ASSUME PaletteOk, NEW open, NEW rows \in Lists, NEW typed, ShowRows(open, rows, typed), demo' = demo
  PROVE  PaletteOk'
<1>1. /\ palette'.rows = rows
      /\ palette'.active = IF typed \/ Len(rows) # Len(palette.rows) THEN 0 ELSE palette.active
  BY DEF ShowRows
<1>2. rows \in Seq(Side) /\ Side' = Side
  BY DEF Lists, Side
<1>3. palette'.active \in Nat /\ (rows # <<>> => palette'.active < Len(rows))
  BY <1>1, <1>2 DEF PaletteOk, PaletteOnRow
<1>. QED
  BY <1>1, <1>2, <1>3 DEF PaletteOk, PaletteOnRow

LEMMA HighlightOk ==
  ASSUME PaletteOk, Highlight
  PROVE  PaletteOk'
<1>. DEFINE n == Len(palette.rows)
<1>1. n \in Nat /\ n > 0
  BY DEF PaletteOk, Highlight
<1>2. PICK i \in {(palette.active + 1) % n, (palette.active - 1 + n) % n} \cup 0 .. (n - 1) :
        palette' = [palette EXCEPT !.active = i]
  BY Zenon DEF Highlight
<1>3. i \in Nat /\ i < n
  <2>1. palette.active \in Nat
    BY DEF PaletteOk
  <2>2. (palette.active + 1) % n \in 0 .. (n - 1) /\ (palette.active - 1 + n) % n \in 0 .. (n - 1)
    BY <1>1, <2>1
  <2>. QED
    BY <1>1, <1>2, <2>2
<1>4. palette'.rows = palette.rows /\ (palette'.active = i \/ palette'.active = palette.active)
  BY <1>2
<1>5. Side' = Side
  BY DEF Highlight, Side
<1>. QED
  BY <1>1, <1>3, <1>4, <1>5 DEF PaletteOk, PaletteOnRow

\* A click on a tab.
LEMMA GoToOk ==
  ASSUME RouteInv, NEW id \in Side, GoTo(id), demo' = demo
  PROVE  address' \in Hashes /\ AddressAgrees' /\ SomethingShown'
<1>. DEFINE now == Read(address)
            keep == now.tab = id
            p == IF keep /\ id = "settings" THEN now.page ELSE NoPage
            s == IF keep /\ id = "traces" THEN now.trace ELSE NoTrace
            next == HashForTab(id, p, s, demo)
<1>1. PICK q : /\ IsRoute(id, q, s, demo)
               /\ next = SerializeHash(id, q, s, demo)
  <2>1. id \in Tabs /\ (id \in DemoTabs => demo)
    BY SideRoutes
  <2>2. CASE ~keep
    <3>. DEFINE q == IF id = "settings" THEN DefaultSettingsPage ELSE NoPage
    <3>1. IsRoute(id, q, s, demo)
      BY <2>1, <2>2 DEF IsRoute, DefaultSettingsPage, SettingsPages, Traces
    <3>2. next = SerializeHash(id, q, s, demo)
      BY <2>2 DEF HashForTab, SerializeHash
    <3>. QED
      BY <3>1, <3>2
  <2>3. CASE keep
    <3>1. CASE id \notin {"settings", "traces"}
      BY <2>1, <3>1 DEF IsRoute, HashForTab
    <3>2. CASE id \in {"settings", "traces"}
      <4>1. now.tab = id /\ id # "crm" /\ id \notin Inherited
        BY <2>3, <3>2 DEF Inherited
      <4>2. address.segs # <<>> /\ demo \in BOOLEAN /\ address \in Hashes
        BY <4>1, ReadNothing DEF RouteInv, Read
      <4>3. ~NamesInherited(address)
        BY <4>1, <4>2, ReadInherited DEF Read
      <4>4. PICK t, pp, ss, r, u : IsRoute(t, pp, ss, demo) /\ now = Parsed(t, pp, ss, demo, r, u)
        BY <4>2, <4>3, ReadRoute DEF Read
      <4>5. now.tab = t /\ now.page = pp /\ now.trace = ss
        BY <4>4 DEF Parsed
      <4>6. IsRoute(id, now.page, now.trace, demo)
        BY <4>1, <4>4, <4>5
      <4>. HIDE DEF now
      <4>7. CASE id = "settings"
        BY <2>3, <4>6, <4>7 DEF IsRoute, HashForTab
      <4>8. CASE id = "traces"
        BY <2>3, <4>6, <4>8 DEF IsRoute, HashForTab
      <4>. QED
        BY <3>2, <4>7, <4>8
    <3>. QED
      BY <3>1, <3>2
  <2>. QED
    BY <2>2, <2>3
<1>2. /\ next \in Hashes
      /\ Read(next) = Parsed(id, q, s, demo, FALSE, FALSE)
  BY <1>1, RoundTrip DEF RouteInv, Read
<1>3. Read(next).tab = id /\ Read(next).rewrite = FALSE
  BY <1>2 DEF Parsed
<1>. HIDE DEF next
<1>4. address' = next /\ due' = IF next = address \/ due = "mount" THEN due ELSE "event"
  BY <1>3 DEF GoTo, SetHash, next
<1>5. tab' = id /\ due # "mount" /\ Mounts(id, address')
  BY DEF GoTo
<1>6. SomethingShown'
  BY <1>5, SideRoutes DEF SomethingShown, Rendered
<1>7. CASE next # address
  BY <1>2, <1>4, <1>5, <1>6, <1>7 DEF AddressAgrees
<1>8. CASE next = address
  <2>1. address' = address /\ due' = due
    BY <1>4, <1>8
  <2>2. Read(address)' = Read(address) /\ PageFromHash(address)' = PageFromHash(address)
    BY <2>1 DEF Read, PageFromHash
  <2>3. ParseTraceHash(address)' = ParseTraceHash(address)
    BY <2>1 DEF ParseTraceHash
  <2>4. AddressAgrees'
    BY <1>3, <1>5, <1>8, <2>1, <2>2, <2>3 DEF AddressAgrees, RouteInv, Mounts
  <2>. QED
    BY <1>2, <1>4, <1>6, <2>4
<1>. QED
  BY <1>7, <1>8

\* The mount of App, and the listeners.
LEMMA ApplyHashOk ==
  ASSUME RouteInv, ApplyHash
  PROVE  address' \in Hashes /\ AddressAgrees' /\ SomethingShown'
<1>. DEFINE p == Read(address)
<1>1. demo \in BOOLEAN /\ address \in Hashes /\ demo' = demo
  BY DEF RouteInv, ApplyHash
<1>2. /\ address' = address \/ address' = p.canonical
      /\ tab' = p.tab /\ Copies(p.tab, address')
  BY DEF ApplyHash
<1>3. \A h : /\ Read(h)' = Read(h) /\ PageFromHash(h)' = PageFromHash(h)
             /\ ParseTraceHash(h)' = ParseTraceHash(h)
  BY <1>1 DEF Read, PageFromHash, ParseTraceHash
<1>4. CASE NamesInherited(address)
  <2>1. p.tab \in Inherited /\ p.canonical = Hash(<<Seg("overview")>>)
    BY <1>1, <1>4, ReadInherited DEF Read
  <2>2. p.canonical \in Hashes
    BY <2>1, OneWord DEF Words
  <2>3. tab' \in Inherited /\ tab' # "settings" /\ tab' # "traces"
    BY <1>2, <2>1 DEF Inherited
  <2>. QED
    BY <1>1, <1>2, <2>2, <2>3 DEF AddressAgrees, SomethingShown
<1>5. CASE ~NamesInherited(address)
  <2>1. p.canonical \in Hashes /\ Read(p.canonical).tab = p.tab
    BY <1>1, <1>5, CanonicalIsFixed DEF Read
  <2>2. p.tab \in Tabs /\ (p.tab \in DemoTabs => demo)
    <3>1. CASE address.segs = <<>>
      BY <1>1, <3>1, ReadNothing DEF Read, Tabs, DemoTabs
    <3>2. CASE address.segs # <<>>
      <4>1. PICK t, q, s, r, u : IsRoute(t, q, s, demo) /\ p = Parsed(t, q, s, demo, r, u)
        BY <1>1, <1>5, <3>2, ReadRoute DEF Read
      <4>2. p.tab = t
        BY <4>1 DEF Parsed
      <4>. QED
        BY <4>1, <4>2 DEF IsRoute
    <3>. QED
      BY <3>1, <3>2
  <2>. HIDE DEF p
  <2>3. tab' \in Rendered'
    BY <1>1, <1>2, <2>2, TabsShown DEF Rendered
  <2>4. Read(address').tab = tab' /\ address' \in Hashes
    BY <1>1, <1>2, <2>1 DEF p
  <2>5. /\ tab' = "settings" => page' = PageFromHash(address')
        /\ tab' = "traces" => trace' = ParseTraceHash(address')
    BY <1>2 DEF Copies
  <2>6. /\ Read(address)' = Read(address') /\ PageFromHash(address)' = PageFromHash(address')
        /\ ParseTraceHash(address)' = ParseTraceHash(address')
    BY <1>1 DEF Read, PageFromHash, ParseTraceHash
  <2>7. AddressAgrees'
    BY <2>4, <2>5, <2>6 DEF AddressAgrees
  <2>. QED
    BY <2>3, <2>4, <2>7 DEF SomethingShown
<1>. QED
  BY <1>4, <1>5

LEMMA UserHashOk ==
  ASSUME RouteInv, UserHash
  PROVE  address' \in Hashes /\ AddressAgrees' /\ SomethingShown'
<1>1. PICK h \in Hashes : SetHash(h) /\ UNCHANGED <<demo, tab, page, trace, palette>>
  BY DEF UserHash
<1>2. SomethingShown'
  BY <1>1 DEF RouteInv, SomethingShown, Rendered
<1>3. CASE h = address
  BY <1>1, <1>2, <1>3 DEF RouteInv, AddressAgrees, SetHash, Read, PageFromHash, ParseTraceHash
<1>4. CASE h # address
  BY <1>1, <1>2, <1>4 DEF AddressAgrees, SetHash
<1>. QED
  BY <1>3, <1>4

LEMMA PickPageOk ==
  ASSUME RouteInv, PickPage
  PROVE  address' \in Hashes /\ AddressAgrees' /\ SomethingShown'
<1>1. PICK p \in SettingsPages :
        /\ tab = "settings" /\ due # "mount" /\ page' = p
        /\ SetHash(SerializeHash("settings", p, NoTrace, demo))
        /\ UNCHANGED <<demo, tab, trace, palette>>
  BY Zenon DEF PickPage
<1>. DEFINE next == SerializeHash("settings", p, NoTrace, demo)
<1>2. IsRoute("settings", p, NoTrace, demo)
  BY DEF IsRoute, Tabs, DemoTabs
<1>3. next \in Hashes /\ Read(next) = Parsed("settings", p, NoTrace, demo, FALSE, FALSE)
  BY <1>2, RoundTrip DEF RouteInv, Read
<1>4. Read(next).tab = "settings" /\ PageFromHash(next) = p
  BY <1>3 DEF Parsed, PageFromHash
<1>. HIDE DEF next
<1>5. address' = next /\ due' = IF next = address \/ due = "mount" THEN due ELSE "event"
  BY <1>1 DEF SetHash, next
<1>6. SomethingShown'
  BY <1>1 DEF RouteInv, SomethingShown, Rendered
<1>7. Read(address)' = Read(next) /\ PageFromHash(address)' = PageFromHash(next)
  BY <1>1, <1>5 DEF Read, PageFromHash
<1>8. AddressAgrees'
  BY <1>1, <1>4, <1>7 DEF AddressAgrees
<1>. QED
  BY <1>3, <1>5, <1>6, <1>8

LEMMA PickTraceOk ==
  ASSUME RouteInv, PickTrace
  PROVE  address' \in Hashes /\ AddressAgrees' /\ SomethingShown'
<1>1. PICK s \in Traces :
        /\ tab = "traces" /\ due # "mount" /\ trace' = s
        /\ address' = SerializeHash("traces", NoPage, s, FALSE)
        /\ UNCHANGED <<demo, tab, due, page, palette>>
  BY Zenon DEF PickTrace
<1>. DEFINE next == SerializeHash("traces", NoPage, s, FALSE)
<1>2. \A d \in BOOLEAN : IsRoute("traces", NoPage, s, d)
  BY DEF IsRoute, Tabs, SameName, DemoTabs
<1>3. /\ next \in Hashes
      /\ ParseHash(next, FALSE) = Parsed("traces", NoPage, s, FALSE, FALSE, FALSE)
  BY <1>2, RoundTrip
<1>4. SerializeHash("traces", NoPage, s, demo) = next
  BY DEF SerializeHash, DemoTabs
<1>5. Read(next) = Parsed("traces", NoPage, s, demo, FALSE, FALSE)
  BY <1>2, <1>4, RoundTrip DEF RouteInv, Read
<1>. HIDE DEF next
<1>6. Read(next).tab = "traces" /\ ParseTraceHash(next) = s
  <2>1. Read(next).tab = "traces"
    BY <1>5 DEF Parsed
  <2>2. ParseHash(next, FALSE).tab = "traces" /\ ParseHash(next, FALSE).trace = s
    <3>1. \A d : LET q == Parsed("traces", NoPage, s, d, FALSE, FALSE)
                 IN  q.tab = "traces" /\ q.trace = s
      BY DEF Parsed
    <3>. QED
      BY <1>3, <3>1, Zenon
  <2>. QED
    BY <2>1, <2>2 DEF ParseTraceHash
<1>7. address' = next
  BY <1>1 DEF next
<1>8. SomethingShown'
  BY <1>1 DEF RouteInv, SomethingShown, Rendered
<1>9. Read(address)' = Read(next) /\ ParseTraceHash(address)' = ParseTraceHash(next)
  BY <1>1, <1>7 DEF Read, ParseTraceHash
<1>10. AddressAgrees'
  BY <1>1, <1>6, <1>9 DEF AddressAgrees
<1>. QED
  BY <1>3, <1>7, <1>8, <1>10

\* A step that leaves the place alone, or the palette.
LEMMA SamePlace ==
  ASSUME RouteInv, UNCHANGED <<demo, tab, address, due, page, trace>>
  PROVE  address' \in Hashes /\ AddressAgrees' /\ SomethingShown'
BY DEF RouteInv, AddressAgrees, SomethingShown, Rendered, Read, PageFromHash, ParseTraceHash

LEMMA SamePalette ==
  ASSUME RouteInv, UNCHANGED <<demo, palette>>
  PROVE  PaletteOk'
BY DEF RouteInv, PaletteOk, PaletteOnRow, Side

LEMMA CloseOk ==
  ASSUME RouteInv, Close, demo' = demo
  PROVE  PaletteOk'
BY ShowRowsOk, Zenon DEF Close, RouteInv

LEMMA RouteInit == InitRoute => RouteInv
<1>. SUFFICES ASSUME InitRoute PROVE RouteInv
  OBVIOUS
<1>1. demo \in BOOLEAN /\ address \in Hashes /\ tab = Read(address).tab /\ due = "mount"
  BY DEF InitRoute
<1>2. PaletteOk
  <2>1. PICK rows \in Lists : palette = [open |-> FALSE, rows |-> rows, active |-> 0]
    BY DEF InitRoute
  <2>2. palette.rows = rows /\ palette.active = 0
    BY <2>1
  <2>. QED
    BY <2>1, <2>2 DEF PaletteOk, PaletteOnRow, Lists
<1>3. SomethingShown
  <2>1. CASE NamesInherited(address)
    BY <1>1, <2>1, ReadInherited DEF Read, SomethingShown
  <2>2. CASE address.segs = <<>>
    BY <1>1, <2>2, ReadNothing DEF Read, SomethingShown, Rendered, LiveTabs
  <2>3. CASE ~NamesInherited(address) /\ address.segs # <<>>
    <3>1. PICK t, q, s, r, u : IsRoute(t, q, s, demo) /\ Read(address) = Parsed(t, q, s, demo, r, u)
      BY <1>1, <2>3, ReadRoute DEF Read
    <3>2. tab = t
      BY <1>1, <3>1 DEF Parsed
    <3>. QED
      BY <3>1, <3>2, TabsShown DEF IsRoute, SomethingShown
  <2>. QED
    BY <2>1, <2>2, <2>3
<1>. QED
  BY <1>1, <1>2, <1>3 DEF RouteInv, AddressAgrees

LEMMA RouteStep == RouteInv /\ [NextRoute]_routeVars => RouteInv'
<1>. SUFFICES ASSUME RouteInv, [NextRoute]_routeVars PROVE RouteInv'
  OBVIOUS
<1>0. demo' = demo /\ (demo' \in BOOLEAN)
  BY Zenon DEF RouteInv, NextRoute, routeVars, ApplyHash, UserHash, Go, PickPage, PickTrace, Shortcut, Rows, Highlight, Pick
<1>1. CASE ApplyHash
  <2>1. UNCHANGED <<demo, palette>>
    BY <1>1 DEF ApplyHash
  <2>. QED
    BY <1>0, <1>1, <2>1, ApplyHashOk, SamePalette DEF RouteInv
<1>2. CASE UserHash
  <2>1. UNCHANGED <<demo, palette>>
    BY <1>2 DEF UserHash
  <2>. QED
    BY <1>0, <1>2, <2>1, UserHashOk, SamePalette DEF RouteInv
<1>3. CASE Go
  <2>1. PICK id \in Side : GoTo(id) /\ UNCHANGED <<demo, palette>>
    BY <1>3 DEF Go
  <2>. QED
    BY <1>0, <2>1, GoToOk, SamePalette DEF RouteInv
<1>4. CASE PickPage
  <2>1. UNCHANGED <<demo, palette>>
    BY <1>4 DEF PickPage
  <2>. QED
    BY <1>0, <1>4, <2>1, PickPageOk, SamePalette DEF RouteInv
<1>5. CASE PickTrace
  <2>1. UNCHANGED <<demo, palette>>
    BY <1>5 DEF PickTrace
  <2>. QED
    BY <1>0, <1>5, <2>1, PickTraceOk, SamePalette DEF RouteInv
<1>6. CASE Shortcut
  <2>1. UNCHANGED <<demo, tab, address, due, page, trace>>
    BY <1>6 DEF Shortcut
  <2>2. CASE Close
    BY <1>0, <2>1, <2>2, CloseOk, SamePlace DEF RouteInv
  <2>3. CASE palette' = [palette EXCEPT !.open = TRUE]
    <3>1. palette'.rows = palette.rows /\ palette'.active = palette.active /\ Side' = Side
      BY <1>0, <2>3 DEF Side
    <3>2. PaletteOk'
      BY <3>1 DEF RouteInv, PaletteOk, PaletteOnRow
    <3>. QED
      BY <1>0, <2>1, <3>2, SamePlace DEF RouteInv
  <2>. QED
    BY <1>6, <2>2, <2>3 DEF Shortcut
<1>7. CASE Rows
  <2>1. UNCHANGED <<demo, tab, address, due, page, trace>>
    BY <1>7 DEF Rows
  <2>2. PaletteOk'
    BY <1>0, <1>7, ShowRowsOk, Zenon DEF Rows, RouteInv
  <2>. QED
    BY <1>0, <2>1, <2>2, SamePlace DEF RouteInv
<1>8. CASE Highlight
  <2>1. UNCHANGED <<demo, tab, address, due, page, trace>>
    BY <1>8 DEF Highlight
  <2>. QED
    BY <1>0, <1>8, <2>1, HighlightOk, SamePlace DEF RouteInv
<1>9. CASE Pick
  <2>1. palette.rows[Highlighted] \in Side
    BY <1>9 DEF RouteInv, PaletteOk, Pick, Highlighted
  <2>2. GoTo(palette.rows[Highlighted]) /\ Close
    BY <1>9 DEF Pick
  <2>. QED
    BY <1>0, <2>1, <2>2, GoToOk, CloseOk DEF RouteInv
<1>10. CASE UNCHANGED routeVars
  BY <1>0, <1>10, SamePlace, SamePalette DEF routeVars, RouteInv
<1>. QED
  BY <1>1, <1>2, <1>3, <1>4, <1>5, <1>6, <1>7, <1>8, <1>9, <1>10 DEF NextRoute

\* Once the listeners have run, the tab, the page of the settings and the selected trace are
\* those of the address, however clicks, palette, typed addresses and the back button came
\* between the events; App always has a page to show; Enter picks the highlighted row.
THEOREM RouteIsKept == SpecRoute => [](AddressAgrees /\ SomethingShown /\ PaletteOnRow)
<1>1. RouteInv => AddressAgrees /\ SomethingShown /\ PaletteOnRow
  BY DEF RouteInv, PaletteOk
<1>. QED
  BY <1>1, RouteInit, RouteStep, PTL DEF SpecRoute
=============================================================================
