----------------------------- MODULE PagesTools -----------------------------
(***************************************************************************)
(* The pages over what agents work with: skills, the tools of an agent,    *)
(* scheduled jobs, connectors, packages, workstations, model providers,    *)
(* speech and campaigns (control-plane/src/pages).                         *)
(***************************************************************************)
EXTENDS ConsolePage

----------------------------------------------------------------------------
(* Loads that are numbered, and whose answer counts for the newest one only (seq): *)
(* q is what is asked for, of what the rows came with, shown the number of the     *)
(* load whose outcome is shown.                                                    *)

NumberedView == Extended(BlankList, [seq |-> 1, shown |-> 0, q |-> NoRow, of |-> NoRow, open |-> FALSE])

NextSeq(v) == Loading([v EXCEPT !.seq = @ + 1])
Numbered(op, do, q) == [Call(op, do, q) EXCEPT !.gen = view.seq + 1]

\* Mutant of NumberedArrives: the answer of any load is shown.
AnyArrives ==
  \E c \in Answered("list") :
    Answer(c, [Loaded(view, c) EXCEPT !.shown = c.gen, !.of = IF Ok(c) THEN c.arg ELSE @])

NumberedArrives ==
  \E c \in Answered("list") :
    Answer(c, IF c.gen # view.seq THEN view
              ELSE [Loaded(view, c) EXCEPT !.shown = c.gen, !.of = IF Ok(c) THEN c.arg ELSE @])

----------------------------------------------------------------------------
(* SkillsSurface of FunctionsPage *)

SkillsView == NumberedView

SkillsLoad ==
  \/ \E q \in Maybe(Ids) \ {view.q} : Ask(Numbered("list", "list", q), NextSeq([view EXCEPT !.q = q]))
  \/ (~view.loading \/ Kind(LoadOf(view)) = "stale") /\ Ask(Numbered("list", "list", view.q), NextSeq(view))

SkillsForm == ~Blocked /\ \E o \in {TRUE, ~view.open} : Local([view EXCEPT !.open = o])

\* createSkill and archiveSkill: no flag; the load that follows asks for the query of their time.
SkillsWrite ==
  \/ view.open /\ ~Blocked /\ Ask([Call("create", "create", NoRow) EXCEPT !.q = view.q], view)
  \/ \E i \in Items : ~Blocked /\ Ask([Call("archive", "delete", i) EXCEPT !.q = view.q], view)
  \/ \E c \in Answered("create") \cup Answered("archive") :
       LET v == IF c.op = "create" THEN [view EXCEPT !.open = FALSE] ELSE view IN
       IF Ok(c) THEN AnswerThen(c, NextSeq(v), Numbered("list", "list", c.q)) ELSE Answer(c, view)

SkillsNext == NumberedArrives \/ SkillsLoad \/ SkillsForm \/ SkillsWrite

----------------------------------------------------------------------------
(* ToolsSurface of FunctionsPage: rows are the agents, q the agent that is chosen, of *)
(* the agent whose tools are shown; the tools have a load of their own.               *)

ToolsView == Extended(BlankList, [q |-> NoRow, of |-> NoRow, tErr |-> "none"])

ToolsCall(i) == [Call("tools", "get", i) EXCEPT !.tail = "tools"]
ToolsLoading(v) == Flag(v, "tools", "tools", NoRow)
NoTools(v) == Ends([v EXCEPT !.of = NoRow, !.tErr = "none"], "tools")

\* classifyToolView, of the agents first; an agent has tools here.
ToolsKind ==
  LET agents == Kind(LoadOf(view))
      tools == Kind([loading |-> Flagged("tools"), loaded |-> view.of # NoRow, err |-> view.tErr,
                     count |-> IF view.of = NoRow THEN 0 ELSE 1, keepStale |-> TRUE])
  IN CASE agents \in {"loading", "permission", "error", "stale"} -> agents
       [] agents = "empty" -> "no_agent"
       [] view.q = NoRow -> "no_selection"
       [] OTHER -> tools

\* loadTools, from the effect of the select; without an agent there are none.
ToolsSelect ==
  /\ view.err = "none" /\ view.loaded
  /\ \E q \in Maybe(DOMAIN view.rows) \ {view.q} :
       LET v == [view EXCEPT !.q = q] IN
       IF q = NoRow THEN Local(NoTools(v)) ELSE Ask(ToolsCall(q), ToolsLoading(v))

ToolsRefresh ==
  /\ (~view.loading /\ ~Flagged("tools")) \/ ToolsKind = "stale"
  /\ IF view.q = NoRow THEN Ask(List("none"), NoTools(Loading(view)))
     ELSE AskBoth(List("none"), ToolsCall(view.q), ToolsLoading(Loading(view)))

ToolsArrive ==
  \E c \in Answered("tools") :
    Answer(c, Ends(IF Ok(c) THEN [view EXCEPT !.of = c.got, !.tErr = "none"] ELSE [view EXCEPT !.tErr = c.st], "tools"))

\* toggle: the agent that is chosen and the tool that is shown (cap is whose it is).
ToolsToggle ==
  \/ /\ ToolsKind \in {"ready", "stale"}
     /\ Ask([Call("toggle", "put", view.q) EXCEPT !.cap = view.of], view)
  \/ \E c \in Answered("toggle") :
       IF Ok(c) THEN AnswerThen(c, ToolsLoading(view), ToolsCall(c.arg)) ELSE Answer(c, view)

ToolsNext == ListArrives \/ ToolsSelect \/ ToolsRefresh \/ ToolsArrive \/ ToolsToggle

----------------------------------------------------------------------------
(* CronSurface of FunctionsPage: the sessions come with the jobs. *)

CronView == Extended(BlankList, [sess |-> "err", open |-> FALSE])

CronLoaded ==
  \E c \in Answered("list"), s \in {"ok", "empty", "err"} : Answer(c, [Loaded(view, c) EXCEPT !.sess = s])

\* cronCreateBlocked
CronCreateBlocked == Blocked \/ view.sess \in {"err", "empty"}

CronForm ==
  \/ ~CronCreateBlocked /\ \E o \in {TRUE, ~view.open} : Local([view EXCEPT !.open = o])

\* createCron, toggleCron and deleteCron: no flag.
CronWrite ==
  \/ view.open /\ ~CronCreateBlocked /\ Ask(Call("create", "create", NoRow), view)
  \/ \E i \in Items : ~Blocked /\ ( \/ Ask(Call("toggle", IF view.rows[i].on THEN "close" ELSE "put", i), view)
                                    \/ Ask(Call("delete", "delete", i), view) )
  \/ \E c \in UNION {Answered(op) : op \in {"create", "toggle", "delete"}} :
       IF Ok(c) THEN AnswerThen(c, Loading(IF c.op = "create" THEN [view EXCEPT !.open = FALSE] ELSE view), List("none"))
       ELSE Answer(c, view)

CronNext == CronLoaded \/ CronForm \/ CronWrite \/ RefreshWhen(~view.loading)

----------------------------------------------------------------------------
(* ConnectorPanel: draft, whether something is typed for the chosen connector; try, *)
(* the connector whose test is shown; link, the one named in the assignment.        *)

ConnectorsView == Extended(BlankList, [sel |-> NoRow, open |-> FALSE, draft |-> FALSE, try |-> NoRow])

\* The effect of the chosen connector and its endpoint: what is typed, and the test, go.
Chosen(v, w) ==
  LET of(x) == IF x.sel \in DOMAIN x.rows THEN <<x.sel, x.rows[x.sel].ver>> ELSE <<NoRow, 0>> IN
  IF of(v) = of(w) /\ v.sel = w.sel THEN w ELSE [w EXCEPT !.draft = FALSE, !.try = NoRow]

ConnectorsLoaded == \E c \in Answered("list") : Answer(c, Chosen(view, Ends(Loaded(view, c), c.tail)))

ConnectorsPick ==
  \/ \E i \in Items : ~Blocked /\ Local(Chosen(view, [view EXCEPT !.sel = i, !.open = FALSE]))
  \/ ~Blocked /\ Local([Chosen(view, [view EXCEPT !.sel = NoRow, !.open = TRUE]) EXCEPT !.try = NoRow])
  \/ ~Blocked /\ view.open /\ Local([view EXCEPT !.open = FALSE])
  \/ ~Blocked /\ view.sel \in DOMAIN view.rows /\ Local([view EXCEPT !.draft = TRUE])

ConnectorsCreate ==
  \/ ~Blocked /\ view.open /\ Idle /\ Write("create", "create", NoRow, "busy")
  \/ \E c \in Answered("create") :
       WroteThenLoads(c, [Chosen(view, [view EXCEPT !.sel = c.got, !.open = FALSE]) EXCEPT !.draft = FALSE])

\* saveConnector, and its answer: whatever token is typed by then is dropped.  A connector
\* that the environment owns cannot be saved; it is left out.
ConnectorsSave ==
  \/ ~Blocked /\ view.sel \in DOMAIN view.rows /\ Idle /\ Write("save", "put", view.sel, "busy")
  \/ \E c \in Answered("save") : WroteThenLoads(c, [view EXCEPT !.draft = FALSE])

\* toggleConnector waits for nothing; assign for the flag.
ConnectorsChange ==
  \/ \E i \in Items : ~Blocked /\ Write("toggle", IF view.rows[i].on THEN "close" ELSE "put", i, "busy")
  \/ \E i \in DOMAIN view.rows : ~Blocked /\ Idle /\ Write("assign", "run", i, "busy")
  \/ \E c \in Answered("toggle") \cup Answered("assign") : WroteThenLoads(c, view)

\* testConnector: its answer is shown under the connector that is chosen by then.
ConnectorsTest ==
  \/ ~Blocked /\ view.sel \in DOMAIN view.rows /\ ~Flagged("testing") /\ Write("test", "run", view.sel, "testing")
  \/ \E c \in Answered("test") : Answer(c, Ends([view EXCEPT !.try = IF Ok(c) THEN c.arg ELSE NoRow], "testing"))

ConnectorsNext ==
  \/ ConnectorsLoaded \/ ConnectorsPick \/ ConnectorsCreate \/ ConnectorsSave \/ ConnectorsChange
  \/ ConnectorsTest
  \/ RefreshWhen(~view.loading)

----------------------------------------------------------------------------
(* PackagesPage: a package that is off is partial or failed; active, some job runs. *)

PackagesView == Extended(BlankList, [active |-> FALSE, ask |-> NoRow, kind |-> "none"])

\* load: a quiet one neither raises nor clears loading.
Quiet(tail) == [List(tail) EXCEPT !.op = "quiet"]
PackagesLoaded ==
  \E c \in Answered("list") \cup Answered("quiet"), active \in BOOLEAN :
    LET v == IF c.op = "quiet" THEN Heard(view, c) ELSE Loaded(view, c) IN
    Answer(c, Ends(IF Ok(c) THEN [v EXCEPT !.active = active] ELSE v, c.tail))

\* The timer, while a job runs.
PackagesPoll == view.active /\ Ask(Quiet("none"), view)

\* addAllow, saveCLI and install
PackagesWrite ==
  \/ ~Blocked /\ Idle /\ Write("allow", "run", NoRow, "busy")
  \/ ~Blocked /\ Idle /\ Write("install", "create", NoRow, "busy")
  \/ \E c \in Answered("allow") \cup Answered("install") :
       IF Ok(c) THEN AnswerThen(c, view, Quiet("busy")) ELSE Answer(c, Ends(view, "busy"))

\* The confirmation may be opened and put away while another one is carried out.
PackagesAsk ==
  \/ \E i \in Items : ~Blocked /\ OpenDialog(IF view.rows[i].on THEN "uninstall" ELSE "recover", i)
  \/ \E i \in Items : ~Blocked /\ OpenDialog("unpin", i)
  \/ view.ask # NoRow /\ ~Blocked /\ Local(CloseDialog(view))

PackagesConfirm ==
  \/ /\ view.ask # NoRow /\ ~Blocked /\ Idle
     /\ Write(view.kind, [uninstall |-> "delete", recover |-> "open", unpin |-> "run"][view.kind], view.ask, "busy")
  \/ \E c \in UNION {Answered(op) : op \in {"uninstall", "recover", "unpin"}} :
       IF Ok(c) THEN AnswerThen(c, CloseDialog(view), Quiet("busy")) ELSE Answer(c, Ends(view, "busy"))

PackagesNext ==
  \/ PackagesLoaded \/ PackagesPoll \/ PackagesWrite \/ PackagesAsk \/ PackagesConfirm
  \/ RefreshWhen(~view.loading /\ Idle)

----------------------------------------------------------------------------
(* WorkstationsPage: form is the row the form was filled from, editing whether it is *)
(* saved into the chosen one.  A row that is off is disconnected.                    *)

WorkstationsView ==
  Extended(BlankList, [sel |-> NoRow, form |-> NoRow, editing |-> FALSE, open |-> FALSE, try |-> NoRow, ask |-> NoRow, kind |-> "none"])

RowBusy(i) == \E b \in view.busy : b[3] = i

WorkstationsForm ==
  \/ /\ ~Blocked /\ ~view.loading /\ Idle
     /\ Local([CloseDialog(view) EXCEPT !.sel = NoRow, !.form = NoRow, !.editing = FALSE, !.open = TRUE, !.try = NoRow])
  \/ \E i \in Items :
       /\ ~Blocked
       /\ Local([CloseDialog(view) EXCEPT !.sel = i, !.form = i, !.editing = TRUE, !.open = TRUE, !.try = NoRow])
  \/ view.open /\ ~Blocked /\ Idle /\ Local([view EXCEPT !.open = FALSE, !.editing = FALSE])

\* save: a new workstation is chosen once it is there, whatever the form holds by then.
WorkstationsSave ==
  \/ /\ view.open /\ ~Blocked /\ Idle
     /\ IF view.editing /\ view.sel # NoRow
        THEN Ask([Call("save", "put", view.sel) EXCEPT !.cap = view.form, !.tail = "busy"],
                 Flag(view, "busy", "save", NoRow))
        ELSE Write("create", "create", NoRow, "busy")
  \/ \E c \in Answered("save") : WroteThenLoads(c, view)
  \/ \E c \in Answered("create") : WroteThenLoads(c, [view EXCEPT !.sel = c.got, !.editing = TRUE])

WorkstationsTest ==
  \/ \E i \in Items : ~Blocked /\ ~RowBusy(i) /\ Write("test", "run", i, "busy")
  \/ view.open /\ view.editing /\ view.sel # NoRow /\ ~Blocked /\ Idle /\ Write("test", "run", view.sel, "busy")
  \/ \E c \in Answered("test") : WroteThenLoads(c, [view EXCEPT !.try = c.arg])

WorkstationsDialog ==
  \/ \E i \in Items, kind \in {"disconnect", "delete"} :
       /\ ~Blocked /\ ~RowBusy(i) /\ (kind = "disconnect" => view.rows[i].on)
       /\ OpenDialog(kind, i)
  \/ CancelDialog
  \/ /\ view.ask # NoRow /\ ~Blocked /\ Idle
     /\ Ask([Call(view.kind, IF view.kind = "delete" THEN "delete" ELSE "close", view.ask)
               EXCEPT !.cap = view.sel, !.tail = "busy"],
            Flag(view, "busy", view.kind, view.ask))
  \/ \E c \in Answered("disconnect") \cup Answered("delete") :
       LET v == [CloseDialog(view) EXCEPT !.try = NoRow] IN
       WroteThenLoads(c, IF c.op = "delete" /\ c.cap = c.arg
                         THEN [v EXCEPT !.sel = NoRow, !.form = NoRow, !.editing = FALSE, !.open = FALSE] ELSE v)

WorkstationsNext ==
  \/ ListArrives \/ WorkstationsForm \/ WorkstationsSave \/ WorkstationsTest \/ WorkstationsDialog
  \/ RefreshWhen(~view.loading /\ Idle)

----------------------------------------------------------------------------
(* ProvidersPage: form is the provider the form was filled from, key whether a key is *)
(* typed in it, try the provider whose test is shown.  A provider that the            *)
(* environment owns cannot be changed; it is left out.                                *)

ProvidersView == Extended(BlankList, [sel |-> NoRow, form |-> NoRow, key |-> FALSE, try |-> NoRow])

ProvidersForm ==
  \/ \E i \in Maybe(Items) : ~Blocked /\ Local([view EXCEPT !.sel = i, !.form = i, !.key = FALSE, !.try = NoRow])
  \/ ~Blocked /\ Local([view EXCEPT !.key = TRUE])

\* save: an update forgets the key that is typed by then, a new provider fills the form.
ProvidersSave ==
  \/ /\ ~Blocked /\ ~Flagged("saving")
     /\ IF view.sel = NoRow THEN Write("create", "create", NoRow, "saving")
        ELSE Ask([Call("save", "put", view.sel) EXCEPT !.cap = view.form, !.tail = "saving"],
                 Flag(view, "saving", "save", view.sel))
  \/ \E c \in Answered("save") : WroteThenLoads(c, [view EXCEPT !.key = FALSE])
  \/ \E c \in Answered("create") : WroteThenLoads(c, [view EXCEPT !.sel = c.got, !.form = c.got, !.key = FALSE])

ProvidersClear ==
  \/ ~Blocked /\ view.sel \in DOMAIN view.rows /\ ~Flagged("clearing") /\ Write("clear", "put", view.sel, "clearing")
  \/ \E c \in Answered("clear") : WroteThenLoads(c, [view EXCEPT !.key = FALSE])

ProvidersTest ==
  \/ \E i \in IF view.sel # NoRow THEN {view.sel} ELSE Ids : ~Blocked /\ ~Flagged("testing") /\ Write("test", "run", i, "testing")
  \/ \E c \in Answered("test") : Answer(c, Ends([view EXCEPT !.try = IF Ok(c) THEN c.arg ELSE NoRow], "testing"))

ProvidersNext == ListArrives \/ ProvidersForm \/ ProvidersSave \/ ProvidersClear \/ ProvidersTest \/ RefreshWhen(TRUE)

----------------------------------------------------------------------------
(* TTSPage: the rows are the configuration; edit, whether the form differs from it. *)

TtsView == Extended(BlankList, [edit |-> FALSE, open |-> FALSE])

TtsOpen == ~Blocked /\ Kind(LoadOf(view)) # "loading"

\* A load, and the answer to a write, fill the form.
TtsLoaded ==
  \E c \in Answered("list") : Answer(c, IF Ok(c) THEN [Loaded(view, c) EXCEPT !.edit = FALSE] ELSE Loaded(view, c))

TtsForm ==
  \/ TtsOpen /\ Idle /\ Local([view EXCEPT !.edit = TRUE])
  \/ TtsOpen /\ Idle /\ Local([view EXCEPT !.open = TRUE])
  \/ TtsOpen /\ view.open /\ Local([view EXCEPT !.open = FALSE])

\* save (which does not wait for a load), clearKey behind its confirmation, and test.
TtsWrite ==
  \/ \E i \in DOMAIN view.rows :
       /\ ~Blocked /\ Idle
       /\ \/ Ask([Call("save", "put", i) EXCEPT !.base = view.rows[i].ver, !.tail = "busy"], Flag(view, "busy", "save", i))
          \/ TtsOpen /\ view.open /\ Write("clear", "put", i, "busy")
          \/ TtsOpen /\ Write("test", "run", i, "busy")
  \/ \E c \in Answered("save") \cup Answered("clear") :
       LET v == [ChangeRow(view, c.arg, c.ver) EXCEPT !.edit = FALSE, !.open = @ /\ c.op = "save"] IN
       Answer(c, Ends(IF Ok(c) THEN v ELSE view, "busy"))
  \/ \E c \in Answered("test") : Answer(c, Ends(view, "busy"))

TtsNext == TtsLoaded \/ TtsForm \/ TtsWrite \/ RefreshWhen(~view.loading /\ Idle)

----------------------------------------------------------------------------
(* MarketingPage: q is the organisation; the health of the CRM is asked before a load. *)

MarketingView == Extended(NumberedView, [online |-> "?"])

MarketingBlocked == Blocked \/ view.online = "no"

MarketingLoad ==
  \/ \E q \in Maybe(Ids) \ {view.q} : Ask(Numbered("health", "run", q), NextSeq([view EXCEPT !.q = q]))
  \/ Ask(Numbered("health", "run", view.q), NextSeq(view))

MarketingHealth ==
  \E c \in Answered("health") :
    IF c.gen # view.seq THEN Answer(c, view)
    ELSE IF Ok(c) THEN AnswerThen(c, [view EXCEPT !.online = "yes"], [Call("list", "list", c.arg) EXCEPT !.gen = c.gen])
    ELSE Answer(c, [view EXCEPT !.online = "no", !.err = "fail", !.loading = FALSE, !.shown = c.gen])

MarketingForm == ~MarketingBlocked /\ \E o \in {TRUE, FALSE} : Local([view EXCEPT !.open = o])

\* run: no flag; the load that follows asks for the organisation of its time.
MarketingWrite ==
  \/ view.open /\ ~MarketingBlocked /\ Ask([Call("create", "create", NoRow) EXCEPT !.q = view.q], view)
  \/ \E i \in Items : ~MarketingBlocked /\ view.rows[i].on /\ Ask([Call("done", "close", i) EXCEPT !.q = view.q], view)
  \/ \E c \in Answered("create") \cup Answered("done") :
       LET v == IF c.op = "create" THEN [view EXCEPT !.open = FALSE] ELSE view IN
       IF Ok(c) THEN AnswerThen(c, NextSeq(v), Numbered("health", "run", c.q)) ELSE Answer(c, view)

MarketingNext == NumberedArrives \/ MarketingLoad \/ MarketingHealth \/ MarketingForm \/ MarketingWrite
=============================================================================
