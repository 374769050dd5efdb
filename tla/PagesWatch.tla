----------------------------- MODULE PagesWatch -----------------------------
(***************************************************************************)
(* The pages on which an operator watches the system: approvals, nodes,    *)
(* activity, traces, the overview and the two CRM reports                  *)
(* (control-plane/src/pages).                                              *)
(***************************************************************************)
EXTENDS ConsolePage

----------------------------------------------------------------------------
(* ApprovalsPage: a row that is on is pending; POLL_MS reloads it quietly. *)

ApprovalsView == Extended(BlankList, [open |-> NoRow, ask |-> NoRow, kind |-> "none"])

CanResolve(i) == view.rows[i].on

\* load(true): it neither raises nor clears loading.
QuietList(tail) == [List(tail) EXCEPT !.op = "quiet"]
ApprovalsPoll == Ask(QuietList("none"), view)
ApprovalsQuiet == \E c \in Answered("quiet") : Answer(c, Ends(Heard(view, c), c.tail))

ApprovalsOpen ==
  \E i \in Items :
    \/ Local([view EXCEPT !.open = IF @ = i THEN NoRow ELSE i])
    \/ /\ ~Blocked /\ CanResolve(i) /\ ~(\E b \in view.busy : b[3] = i)
       /\ \E kind \in {"approve", "deny"} : OpenDialog(kind, i)

ApprovalsSubmit ==
  /\ view.ask # NoRow /\ ~Blocked /\ Idle
  /\ Write(view.kind, "close", view.ask, "busy")

ApprovalsDone ==
  \E c \in Answered("approve") \cup Answered("deny") :
    IF Ok(c) THEN AnswerThen(c, CloseDialog(view), QuietList("busy")) ELSE Answer(c, Ends(view, "busy"))

ApprovalsNext ==
  \/ ListArrives \/ ApprovalsPoll \/ ApprovalsQuiet \/ ApprovalsOpen \/ ApprovalsSubmit
  \/ ApprovalsDone \/ CancelDialog
  \/ RefreshWhen(~view.loading /\ Idle)

----------------------------------------------------------------------------
(* NodesPage: a row that is on waits for a decision, one that is off is paired. *)

NodesView == Extended(BlankList, [ask |-> NoRow, kind |-> "none"])

NodesOpen ==
  \E i \in Items, kind \in {"approve", "deny", "revoke"} :
    /\ ~Blocked /\ ~(\E b \in view.busy : b[3] = i)
    /\ view.rows[i].on <=> kind # "revoke"
    /\ OpenDialog(kind, i)

NodesSubmit ==
  /\ view.ask # NoRow /\ ~Blocked /\ Idle
  /\ Write(view.kind, [approve |-> "close", deny |-> "deny", revoke |-> "delete"][view.kind], view.ask, "busy")

NodesDone ==
  \E c \in UNION {Answered(op) : op \in {"approve", "deny", "revoke"}} : WroteThenLoads(c, CloseDialog(view))

NodesNext ==
  \/ ListArrives \/ NodesOpen \/ NodesSubmit \/ NodesDone \/ CancelDialog
  \/ RefreshWhen(~view.loading /\ Idle)

----------------------------------------------------------------------------
(* ActivityPage: at is the length of the stack of cursors, more is next_before. *)

ActivityView == Extended(BlankList, [filter |-> NoRow, at |-> 0, more |-> FALSE, open |-> NoRow])

MaxDepth == 1      \* bound: pages an operator goes forward
ListOf(filter) == [List("none") EXCEPT !.arg = filter]

ActivityLoaded ==
  \E c \in Answered("list"), more \in BOOLEAN :
    Answer(c, IF Ok(c) THEN [Loaded(view, c) EXCEPT !.more = more] ELSE Loaded(view, c))

\* A filter starts again from the newest record, whatever load is under way.
ActivityFilter ==
  \E f \in Maybe(Ids) \ {view.filter} :
    /\ ~Blocked
    /\ Ask(ListOf(f), Loading([view EXCEPT !.filter = f, !.at = 0, !.open = NoRow]))

ActivityPageTurn ==
  /\ ~Blocked /\ ~view.loading
  /\ \/ view.more /\ view.at < MaxDepth /\ Ask(ListOf(view.filter), Loading([view EXCEPT !.at = @ + 1]))
     \/ view.at > 0 /\ Ask(ListOf(view.filter), Loading([view EXCEPT !.at = @ - 1]))

ActivityOpen == \E i \in Items : ~Blocked /\ Local([view EXCEPT !.open = IF @ = i THEN NoRow ELSE i])

ActivityNext ==
  \/ ActivityLoaded \/ ActivityFilter \/ ActivityPageTurn \/ ActivityOpen
  \/ (~view.loading \/ Kind(LoadOf(view)) = "stale") /\ Ask(ListOf(view.filter), Loading(view))

----------------------------------------------------------------------------
(* TracesPage: sel is also the trace named by the hash of the address, det the one shown. *)

TracesView == Extended(BlankList, [filter |-> NoRow, sel |-> NoRow, det |-> NoRow, more |-> FALSE, at |-> 0])

\* The answer, and not the control, says at which offset the page is (the call carries it as gen).
TracesLoaded ==
  \E c \in Answered("list"), more \in BOOLEAN :
    Answer(c, IF Ok(c) THEN [Loaded(view, c) EXCEPT !.more = more, !.at = c.gen] ELSE Loaded(view, c))

TracesFilter ==
  \E f \in Maybe(Ids) \ {view.filter} : ~Blocked /\ Ask(ListOf(f), Loading([view EXCEPT !.filter = f]))

TracesPageTurn ==
  \/ /\ ~Blocked /\ ~view.loading
     /\ \/ view.more /\ view.at < MaxDepth /\ Ask([ListOf(view.filter) EXCEPT !.gen = view.at + 1], Loading(view))
        \/ view.at > 0 /\ Ask([ListOf(view.filter) EXCEPT !.gen = view.at - 1], Loading(view))
  \/ /\ ~view.loading \/ Kind(LoadOf(view)) = "stale"
     /\ Ask([ListOf(view.filter) EXCEPT !.gen = view.at], Loading(view))

\* openTrace, from a row or from the address; the listener of the address sees no block.
TracesOpen ==
  \E i \in Ids :
    /\ (i \in Items /\ ~Blocked) \/ i # view.sel
    /\ Ask([Call("detail", "get", i) EXCEPT !.tail = "detail"],
           Flag([view EXCEPT !.sel = i], "detail", "detail", i))

TracesDetail ==
  \E c \in Answered("detail") : Answer(c, Ends([view EXCEPT !.det = IF Ok(c) THEN c.got ELSE NoRow], "detail"))

\* An address without a trace: nothing is chosen, the detail stays.
TracesUnhash == view.sel # NoRow /\ Local([view EXCEPT !.sel = NoRow])

TracesNext ==
  \/ TracesLoaded \/ TracesFilter \/ TracesPageTurn \/ TracesOpen \/ TracesDetail \/ TracesUnhash

----------------------------------------------------------------------------
(* OverviewPage: pulls are numbered, a new one aborts the one before.  shown is *)
(* the number of the pull whose snapshot is shown, snap what it says.           *)

OverviewView == Extended(BlankList, [seq |-> 1, shown |-> 0, snap |-> "none"])

\* pull, from the timer of the page or from Refresh (which alone raises loading).
Pull(n) == [Call("pull", "list", NoRow) EXCEPT !.gen = n]
OverviewPull ==
  \E v \in {Loading(view), view} :
    /\ v.loading = view.loading \/ ~view.loading
    /\ Spend
    /\ calls' = {c \in calls : c.st # "sent"} \cup {Pull(view.seq + 1)}
    /\ view' = [v EXCEPT !.seq = @ + 1]
    /\ UNCHANGED <<page, gw, calm>>

\* A failure makes the snapshot stale when one can be kept, and offline otherwise.
OverviewPulled ==
  \E c \in Answered("pull") :
    Answer(c, IF c.gen # view.seq THEN view
              ELSE [view EXCEPT !.loading = FALSE, !.shown = c.gen, !.rows = c.rows,
                                !.snap = CASE Ok(c) -> "connected"
                                           [] ~Ok(c) /\ @ \in {"connected", "stale"} -> "stale"
                                           [] OTHER -> "offline"])

OverviewNext == OverviewPull \/ OverviewPulled

----------------------------------------------------------------------------
(* CrmMetricsPage and HeatmapPage: the health of the CRM is asked first, then *)
(* the metrics and the advice are awaited together, or the report alone.      *)

ReportView == Extended(BlankList, [online |-> "?", report |-> FALSE, advice |-> FALSE])

ReportLoad == ~view.loading /\ Ask(Call("health", "run", NoRow), Loading(view))

ReportHealth ==
  \E c \in Answered("health") :
    IF Ok(c) THEN AnswerThen(c, [view EXCEPT !.online = "yes"], Call("report", "list", NoRow))
    ELSE Answer(c, [view EXCEPT !.online = "no", !.report = FALSE, !.advice = FALSE, !.err = "none",
                                !.loading = FALSE])

\* Promise.allSettled: either may have failed.
MetricsArrive ==
  \E c \in Answered("report"), m, a \in BOOLEAN :
    /\ Ok(c) <=> m /\ a
    /\ Answer(c, [view EXCEPT !.report = m, !.advice = a, !.err = IF Ok(c) THEN "none" ELSE c.st,
                              !.loading = FALSE])

HeatmapArrives ==
  \E c \in Answered("report") :
    Answer(c, [view EXCEPT !.report = Ok(c), !.err = IF Ok(c) THEN "none" ELSE c.st, !.loading = FALSE])

MetricsNext == ReportLoad \/ ReportHealth \/ MetricsArrive
HeatmapNext == ReportLoad \/ ReportHealth \/ HeatmapArrives
=============================================================================
