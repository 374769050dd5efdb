---------------------------- MODULE ConsolePage ----------------------------
(***************************************************************************)
(* What every page of the control plane has in common.  A page is a React  *)
(* component: its state (view) is changed by the handlers of its controls, *)
(* which run to their first await, and by the continuations that run when  *)
(* the answer of a request arrives.  The requests of a page overlap and    *)
(* their answers arrive in any order.  The gateway is seen through the     *)
(* rows of the inventory the page is about.                                *)
(*                                                                         *)
(* A request (call) is a record: the handler that sent it (op), the row it *)
(* is about (arg), the version it is based on (base), what the handler had *)
(* captured when it began (cap, and the filter q), the number of its load  *)
(* (gen), the busy flag that is cleared when it ends (tail), and what      *)
(* became of it: st, rows, got, ver.                                       *)
(***************************************************************************)
EXTENDS PageState, FiniteSets

CONSTANTS
  Ids,            \* the rows an inventory can have
  InitRows,       \* the sets of rows an inventory may have when the page is opened
  NoRow,          \* no row
  Budget          \* bound, for each page: handlers that send a request, requests that fail,
                  \* answers that are lost and changes by somebody else, together

ASSUME ConsoleAssumption ==
  /\ IsFiniteSet(Ids) /\ InitRows \subseteq SUBSET Ids /\ NoRow \notin Ids
  /\ \A p \in DOMAIN Budget : Budget[p] \in Nat

VARIABLES
  page,           \* the page that is mounted
  view,           \* its React state, a record whose fields depend on the page
  calls,          \* its requests under way
  gw,             \* the inventory at the gateway: a function from its rows to their state
  spent,          \* what the bound counts
  calm            \* no trouble so far, and no request or answer overtook another one

vars == <<page, view, calls, gw, spent, calm>>

Spend == page \in DOMAIN Budget /\ spent < Budget[page] /\ spent' = spent + 1
Trouble == Spend /\ calm' = FALSE

Row == [ver: Nat, on: BOOLEAN]
NoRows == [i \in {} |-> [ver |-> 0, on |-> TRUE]]
NewRow == [ver |-> 0, on |-> TRUE]
Maybe(S) == S \cup {NoRow}

\* A record with more fields, and an inventory with a row.
Extended(v, w) == [x \in DOMAIN v \cup DOMAIN w |-> IF x \in DOMAIN v THEN v[x] ELSE w[x]]
PutRow(rows, i, row) == [j \in DOMAIN rows \cup {i} |-> IF j = i THEN row ELSE rows[j]]

----------------------------------------------------------------------------
(* Requests *)

\* The requests under way are numbered as they are sent.
Later == {c.n + 1 : c \in calls} \cup {1}
FreshN == CHOOSE n \in Later : \A m \in Later : m <= n
Oldest(c, C) == \A d \in C : c.n <= d.n

Request(op, do, arg) ==
  [n |-> 1, op |-> op, do |-> do, arg |-> arg, base |-> 0, cap |-> NoRow, q |-> NoRow, gen |-> 0,
   tail |-> "none", st |-> "sent", rows |-> NoRows, got |-> NoRow, ver |-> 0]

Call(op, do, arg) == [Request(op, do, arg) EXCEPT !.n = FreshN]
List(tail) == [Call("list", "list", NoRow) EXCEPT !.tail = tail]

Answered(op) == {c \in calls : c.op = op /\ c.st # "sent"}
Ok(c) == c.st = "ok"

\* A handler that only changes the page.
Local(v) == view' = v /\ UNCHANGED <<page, calls, gw, spent, calm>>

\* A handler of the user that ends in sending requests.
AskAll(C, v) ==
  /\ Spend
  /\ calls' = calls \cup C
  /\ view' = v
  /\ UNCHANGED <<page, gw, calm>>
Ask(c, v) == AskAll({c}, v)
AskBoth(c, d, v) == AskAll({c, [d EXCEPT !.n = @ + 1]}, v)

\* The continuation of a handler: it ends, or goes on to send another request.
Ending(c, C, v) ==
  /\ calls' = (calls \ {c}) \cup C
  /\ view' = v
  /\ calm' = (calm /\ Oldest(c, calls))
  /\ UNCHANGED <<page, gw, spent>>
Answer(c, v) == Ending(c, {}, v)
AnswerThen(c, v, next) == Ending(c, {next}, v)

----------------------------------------------------------------------------
(* The gateway, seen from the console: external to these pages. *)

\* What became of a request.
Become(c, d) == calls' = (calls \ {c}) \cup {d}

\* With a filter, the rows it lets through: one row, here.
ServeList(c) ==
  /\ c.do = "list"
  /\ Become(c, [c EXCEPT !.st = "ok",
                         !.rows = IF c.arg = NoRow THEN gw
                                  ELSE [i \in DOMAIN gw \cap {c.arg} |-> gw[i]]])
  /\ UNCHANGED gw

ServeGet(c) ==
  /\ c.do = "get"
  /\ IF c.arg \in DOMAIN gw
     THEN Become(c, [c EXCEPT !.st = "ok", !.got = c.arg, !.ver = gw[c.arg].ver])
     ELSE Become(c, [c EXCEPT !.st = "fail"])
  /\ UNCHANGED gw

\* A row is made; an inventory that holds every row of the model refuses (bound).
ServeCreate(c) ==
  /\ c.do = "create"
  /\ IF DOMAIN gw = Ids
     THEN Become(c, [c EXCEPT !.st = "fail"]) /\ UNCHANGED gw
     ELSE \E i \in Ids \ DOMAIN gw :
          /\ gw' = PutRow(gw, i, NewRow)
          /\ Become(c, [c EXCEPT !.st = "ok", !.got = i])

\* A row is changed: "check" names the version it may replace (409 otherwise), "live"
\* and "close" need a row that is on, "close" switches it off and "open" on.
PutRefused(c) ==
  \/ c.arg \notin DOMAIN gw
  \/ c.do = "check" /\ c.base # gw[c.arg].ver
  \/ c.do \in {"live", "close"} /\ ~gw[c.arg].on
  \/ c.do = "open" /\ gw[c.arg].on

ServePut(c) ==
  /\ c.do \in {"put", "check", "live", "close", "open"}
  /\ IF PutRefused(c)
     THEN Become(c, [c EXCEPT !.st = "fail"]) /\ UNCHANGED gw
     ELSE LET n == gw[c.arg].ver + 1 IN
          /\ gw' = [gw EXCEPT ![c.arg] = [ver |-> n, on |-> (@.on \/ c.do = "open") /\ c.do # "close"]]
          /\ Become(c, [c EXCEPT !.st = "ok", !.got = c.arg, !.ver = n])

\* A row is written whether it is there or not.
ServeUpsert(c) ==
  /\ c.do = "upsert"
  /\ gw' = PutRow(gw, c.arg, IF c.arg \in DOMAIN gw THEN [ver |-> gw[c.arg].ver + 1, on |-> TRUE] ELSE NewRow)
  /\ Become(c, [c EXCEPT !.st = "ok", !.got = c.arg, !.ver = gw'[c.arg].ver])

\* "deny" drops a row that still waits.
ServeDelete(c) ==
  /\ c.do \in {"delete", "deny"}
  /\ IF c.arg \notin DOMAIN gw \/ (c.do = "deny" /\ ~gw[c.arg].on)
     THEN Become(c, [c EXCEPT !.st = "fail"]) /\ UNCHANGED gw
     ELSE gw' = [i \in DOMAIN gw \ {c.arg} |-> gw[i]] /\ Become(c, [c EXCEPT !.st = "ok"])

\* Something is run that leaves the inventory as it is.
ServeRun(c) ==
  /\ c.do = "run"
  /\ Become(c, [c EXCEPT !.st = "ok", !.got = c.arg])
  /\ UNCHANGED gw

\* A contact is merged into another one, and the last merge is undone.
ServeMerge(c) ==
  \/ /\ c.do = "merge"
     /\ IF {c.arg, c.cap} \subseteq DOMAIN gw
        THEN /\ gw' = [i \in DOMAIN gw \ {c.cap} |-> IF i = c.arg THEN [gw[i] EXCEPT !.on = FALSE] ELSE gw[i]]
             /\ Become(c, [c EXCEPT !.st = "ok"])
        ELSE Become(c, [c EXCEPT !.st = "fail"]) /\ UNCHANGED gw
  \/ /\ c.do = "undo"
     /\ IF c.arg \in DOMAIN gw /\ ~gw[c.arg].on /\ DOMAIN gw # Ids
        THEN /\ \E i \in Ids \ DOMAIN gw : gw' = PutRow([gw EXCEPT ![c.arg].on = TRUE], i, NewRow)
             /\ Become(c, [c EXCEPT !.st = "ok"])
        ELSE Become(c, [c EXCEPT !.st = "fail"]) /\ UNCHANGED gw

Serve(c) ==
  \/ ServeList(c) \/ ServeGet(c) \/ ServeCreate(c) \/ ServePut(c) \/ ServeUpsert(c)
  \/ ServeDelete(c) \/ ServeRun(c) \/ ServeMerge(c)

Served ==
  /\ \E c \in calls :
       /\ c.st = "sent" /\ Serve(c)
       /\ calm' = (calm /\ Oldest(c, {d \in calls : d.st = "sent"}))
  /\ UNCHANGED <<page, view, spent>>

\* A request is refused, or never reaches the gateway.  Only a load tells 401 and 403 apart.
Reads == {"list", "get", "run"}
Refused ==
  /\ Trouble
  /\ \E c \in calls, st \in {"fail", "denied"} :
       c.st = "sent" /\ (st = "denied" => c.do = "list") /\ Become(c, [c EXCEPT !.st = st])
  /\ UNCHANGED <<page, view, gw>>

\* What was asked is done and its answer is lost.
AnswerLost ==
  /\ Trouble
  /\ \E c \in calls : /\ c.st = "ok" /\ c.do \notin Reads
                      /\ Become(c, [c EXCEPT !.st = "fail", !.got = NoRow, !.ver = 0])
  /\ UNCHANGED <<page, view, gw>>

\* Another operator, a channel or the gateway itself changes the inventory.  Only a
\* request that is still to be served can tell when.
Elsewhere ==
  /\ Trouble
  /\ \E c \in calls : c.st = "sent"
  /\ \E i \in DOMAIN gw :
       \/ gw' = [gw EXCEPT ![i].ver = @ + 1]
       \/ gw[i].on /\ gw' = [gw EXCEPT ![i].on = FALSE]
       \/ gw' = [j \in DOMAIN gw \ {i} |-> gw[j]]
  /\ UNCHANGED <<page, view, calls>>

Outside == Served \/ Refused \/ AnswerLost \/ Elsewhere

----------------------------------------------------------------------------
(* The part of a view every page has: the load of its inventory. *)

BlankList == [loading |-> TRUE, loaded |-> FALSE, err |-> "none", rows |-> NoRows, busy |-> {}]

\* The input every page gives classifyPageState.
LoadOf(v) ==
  [loading |-> v.loading, loaded |-> v.loaded, err |-> v.err,
   count |-> Cardinality(DOMAIN v.rows), keepStale |-> TRUE]

Blocked == InventoryBlocksMutation(LoadOf(view))
Items == IF ShowItems(LoadOf(view)) THEN DOMAIN view.rows ELSE {}
Idle == view.busy = {}

\* try { rows; loaded; no error } catch { the error }, and finally { no longer loading }
Heard(v, c) ==
  IF Ok(c) THEN [v EXCEPT !.rows = c.rows, !.loaded = TRUE, !.err = "none"] ELSE [v EXCEPT !.err = c.st]
Loaded(v, c) == [Heard(v, c) EXCEPT !.loading = FALSE]

Loading(v) == [v EXCEPT !.loading = TRUE]

\* A busy flag: its name, the handler that set it and the row it is about.  A page
\* that keeps one string for all its rows has one flag, and the later handler takes it.
Flag(v, tag, what, i) == [v EXCEPT !.busy = {b \in @ : b[1] # tag} \cup {<<tag, what, i>>}]
Ends(v, tag) == [v EXCEPT !.busy = {b \in @ : b[1] # tag}]
Flagged(tag) == \E b \in view.busy : b[1] = tag

\* A handler that sets a flag, sends one request and clears the flag when it ends.
Write(op, do, i, tag) == Ask([Call(op, do, i) EXCEPT !.tail = tag], Flag(view, tag, op, i))

\* Mutants of WroteThenLoads: the flag is cleared on success only; nothing is loaded.
WroteKeepsFlag(c, v) ==
  IF Ok(c) THEN AnswerThen(c, Loading(v), List(c.tail)) ELSE Answer(c, view)
WroteOnly(c, v) == Answer(c, Ends(IF Ok(c) THEN v ELSE view, c.tail))

\* Its continuation, when a success is followed by an awaited load: v is the view then.
WroteThenLoads(c, v) ==
  IF Ok(c) THEN AnswerThen(c, Loading(v), List(c.tail)) ELSE Answer(c, Ends(view, c.tail))

\* The refresh control, offered when g; the status line offers it when the rows are stale.
RefreshWhen(g) ==
  /\ g \/ Kind(LoadOf(view)) = "stale"
  /\ Ask(List("none"), Loading(view))

\* The end of a load, and of the handler that waited for it.
ListArrives == \E c \in Answered("list") : Answer(c, Ends(Loaded(view, c), c.tail))

\* A dialog is about one row: asked for by its control, answered or put away in it.
OpenDialog(kind, i) == Local([view EXCEPT !.ask = i, !.kind = kind])
CloseDialog(v) == [v EXCEPT !.ask = NoRow, !.kind = "none"]
CancelDialog == view.ask # NoRow /\ ~Blocked /\ Idle /\ Local(CloseDialog(view))

\* The page is left: what still arrives finds nothing to change.
LeavePage ==
  /\ page' = "left"
  /\ calls' = {}
  /\ view' = [BlankList EXCEPT !.loading = FALSE]
  /\ UNCHANGED <<gw, spent, calm>>

ChangeRow(v, i, ver) == IF i \in DOMAIN v.rows THEN [v EXCEPT !.rows[i].ver = ver] ELSE v
DropRow(v, i) == [v EXCEPT !.rows = [j \in DOMAIN @ \ {i} |-> @[j]]]
=============================================================================
