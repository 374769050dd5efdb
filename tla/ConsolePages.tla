---------------------------- MODULE ConsolePages ----------------------------
(***************************************************************************)
(* The pages of the control plane, one mounted at a time: App renders the  *)
(* page of the route, and every route has a view, a first request and the  *)
(* actions of its module.                                                  *)
(***************************************************************************)
EXTENDS PagesTalk, PagesWatch, PagesKeys, PagesKnowledge, PagesTools

(* The view of a page when it is mounted. *)
Blank ==
  [sessions |-> SessionsView, agents |-> AgentsView, channels |-> ChannelsView,
   pairing |-> PairingView, pending |-> PendingView, contacts |-> ContactsView,
   teams |-> TeamsView, approvals |-> ApprovalsView, nodes |-> NodesView,
   activity |-> ActivityView, traces |-> TracesView, overview |-> OverviewView,
   metrics |-> ReportView, heatmap |-> ReportView, apikeys |-> ApiKeysView,
   webhooks |-> WebhooksView, tenants |-> TenantsView, settings |-> SettingsView,
   vault |-> VaultView, memory |-> MemoryView, kg |-> KgView, storage |-> StorageView,
   impexp |-> ImpExpView, backup |-> BackupView, skills |-> SkillsView, tools |-> ToolsView,
   cron |-> CronView, connectors |-> ConnectorsView, packages |-> PackagesView,
   workstations |-> WorkstationsView, providers |-> ProvidersView, tts |-> TtsView,
   marketing |-> MarketingView]

ASSUME PagesAssumption == DOMAIN Budget \subseteq DOMAIN Blank

\* The request the mount effect of a page sends.
FirstCall(p) ==
  CASE p = "overview" -> [Request("pull", "list", NoRow) EXCEPT !.gen = 1]
    [] p = "skills" -> [Request("list", "list", NoRow) EXCEPT !.gen = 1]
    [] p = "marketing" -> [Request("health", "run", NoRow) EXCEPT !.gen = 1]
    [] p \in {"metrics", "heatmap"} -> Request("health", "run", NoRow)
    [] p = "settings" -> Request("users", "list", NoRow)
    [] OTHER -> Request("list", "list", NoRow)

Init ==
  /\ page \in DOMAIN Budget
  /\ view = Blank[page]
  /\ \E S \in InitRows : gw = [i \in S |-> NewRow]
  /\ calls = {FirstCall(page)}
  /\ spent = 0 /\ calm = TRUE

Next ==
  \/ Outside
  \/ page = "sessions" /\ SessionsNext
  \/ page = "agents" /\ AgentsNext
  \/ page = "channels" /\ ChannelsNext
  \/ page = "pairing" /\ PairingNext
  \/ page = "pending" /\ PendingNext
  \/ page = "contacts" /\ ContactsNext
  \/ page = "teams" /\ TeamsNext
  \/ page = "approvals" /\ ApprovalsNext
  \/ page = "nodes" /\ NodesNext
  \/ page = "activity" /\ ActivityNext
  \/ page = "traces" /\ TracesNext
  \/ page = "overview" /\ OverviewNext
  \/ page = "metrics" /\ MetricsNext
  \/ page = "heatmap" /\ HeatmapNext
  \/ page = "apikeys" /\ ApiKeysNext
  \/ page = "webhooks" /\ WebhooksNext
  \/ page = "tenants" /\ TenantsNext
  \/ page = "settings" /\ SettingsNext
  \/ page = "vault" /\ VaultNext
  \/ page = "memory" /\ MemoryNext
  \/ page = "kg" /\ KgNext
  \/ page = "storage" /\ StorageNext
  \/ page = "impexp" /\ ImpExpNext
  \/ page = "backup" /\ BackupNext
  \/ page = "skills" /\ SkillsNext
  \/ page = "tools" /\ ToolsNext
  \/ page = "cron" /\ CronNext
  \/ page = "connectors" /\ ConnectorsNext
  \/ page = "packages" /\ PackagesNext
  \/ page = "workstations" /\ WorkstationsNext
  \/ page = "providers" /\ ProvidersNext
  \/ page = "tts" /\ TtsNext
  \/ page = "marketing" /\ MarketingNext

Spec == Init /\ [][Next]_vars

----------------------------------------------------------------------------
(* Properties *)

\* A page with no request under way has no busy flag and is not loading: whatever failed,
\* overlapped or came in another order, the finally of each handler ran, and no control of
\* the 33 pages stays disabled and no spinner stays for good.
QuietPageIsIdle == calls = {} => view.busy = {} /\ ~view.loading

\* The rows of these pages also change in what only their details show, which no list is
\* loaded for: the members and tasks of a team, the roles of a tenant, the tools of an agent,
\* the configuration among the settings.
OnlyInDetails == {"teams", "tenants", "tools", "settings"}

\* The filter the rows came with, where the page has one.
FilterOfRows ==
  CASE page \in {"activity", "traces"} -> view.filter
    [] page \in {"apikeys", "skills", "marketing"} -> view.of
    [] page = "storage" -> view.at
    [] OTHER -> NoRow

Passed(f, rows) == IF f = NoRow THEN rows ELSE [i \in DOMAIN rows \cap {f} |-> rows[i]]

\* A page at rest shows what the gateway has, when its requests were served and answered
\* in the order it sent them: every write of every page is followed by a load, or changes
\* the rows as the gateway changed them.
InOrderIsCurrent ==
  calls = {} /\ calm /\ view.loaded /\ page \notin OnlyInDetails =>
    view.rows = Passed(FilterOfRows, gw)

\* The pages that mean to write one thing at a time (disabled={busy ...}).
OneAtATime ==
  {"agents", "pending", "contacts", "approvals", "nodes", "apikeys", "tenants", "settings",
   "backup", "packages", "tts"}

\* On those pages no two writes are under way at once: no load, dialog or other answer
\* gives a control back while its write still runs, so nothing is created or decided twice.
OneWriteAtATime ==
  page \in OneAtATime =>
    Cardinality({c \in calls : c.st = "sent" /\ c.do \notin Reads}) <= 1

\* On the pages that number their loads, what is shown in the end is the outcome of the
\* newest load, in whatever order the answers of overlapping loads came.
NewestLoadShown ==
  page \in {"overview", "skills", "marketing"} /\ calls = {} => view.shown = view.seq

\* A secret that is on the API keys page when all is quiet opens something: revoking the
\* key takes its secret away.  (On the webhooks page it does not; see the README.)
SecretIsOfLiveKey ==
  page = "apikeys" /\ calls = {} /\ calm /\ view.secret => view.last \in DOMAIN gw /\ gw[view.last].on
=============================================================================
