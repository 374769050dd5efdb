----------------------------- MODULE PagesKeys ------------------------------
(***************************************************************************)
(* The pages that hand out or settle access: API keys, webhooks, tenants   *)
(* and the settings (control-plane/src/pages).  A secret is shown once, by *)
(* the answer that made it: last is its row, secret whether it is still on *)
(* the page.                                                               *)
(***************************************************************************)
EXTENDS ConsolePage

\* The list of a filter, with the row that is to stay chosen.
Filtered(q, keep, tail) == [List(tail) EXCEPT !.arg = q, !.cap = keep]

\* A key or webhook was revoked: its secret goes, if it was the one on the page when the
\* handler began.  Mutant: it stays.
KeepsSecret(v, c) == v
WithoutSecret(v, c) == IF c.cap = c.arg THEN [v EXCEPT !.last = NoRow, !.secret = FALSE] ELSE v

\* The rows that may be chosen after a list: the one kept, or the first one.
ChosenOf(c) == IF c.cap \in DOMAIN c.rows THEN {c.cap}
               ELSE IF DOMAIN c.rows = {} THEN {NoRow} ELSE DOMAIN c.rows

----------------------------------------------------------------------------
(* ApiKeysPage: of is the filter the rows came with. *)

ApiKeysView == Extended(BlankList, [sel |-> NoRow, q |-> NoRow, of |-> NoRow, last |-> NoRow, secret |-> FALSE, ask |-> NoRow, kind |-> "none"])

ApiKeysLoaded ==
  \E c \in Answered("list") : \E i \in ChosenOf(c) :
    LET v == Ends(Loaded(view, c), c.tail) IN Answer(c, IF Ok(c) THEN [v EXCEPT !.sel = i, !.of = c.arg] ELSE v)

\* The effect of the search field: a load whatever load is under way.
ApiKeysSearch ==
  \E q \in Maybe(Ids) \ {view.q} :
    ~Blocked /\ Ask(Filtered(q, NoRow, "none"), Loading([view EXCEPT !.q = q]))

ApiKeysCreate ==
  \/ /\ ~Blocked /\ Idle
     /\ Ask([Call("create", "create", NoRow) EXCEPT !.q = view.q, !.tail = "busy"],
            Flag(view, "busy", "create", NoRow))
  \/ \E c \in Answered("create") :
       IF Ok(c) THEN AnswerThen(c, Loading([view EXCEPT !.last = c.got, !.secret = TRUE]),
                                Filtered(c.q, c.got, "busy"))
       ELSE Answer(c, Ends(view, "busy"))

\* copySecret and hideSecret
ApiKeysHide == view.secret /\ ~Blocked /\ Local([view EXCEPT !.secret = FALSE])

ApiKeysRow ==
  \E i \in Items :
    /\ ~Blocked
    /\ \/ Local([CloseDialog(view) EXCEPT !.sel = i])
       \/ /\ view.rows[i].on /\ <<"busy", "revoke", view.ask>> \notin view.busy
          /\ Local([view EXCEPT !.sel = i, !.ask = i, !.kind = "revoke"])

\* submitRevoke: it looks at the secret that was on the page when it began.
ApiKeysRevoke ==
  \/ /\ view.ask # NoRow /\ ~Blocked /\ Idle
     /\ Ask([Call("revoke", "close", view.ask) EXCEPT !.cap = view.last, !.q = view.q, !.tail = "busy"],
            Flag(view, "busy", "revoke", view.ask))
  \/ \E c \in Answered("revoke") :
       IF ~Ok(c) THEN Answer(c, Ends(view, "busy"))
       ELSE AnswerThen(c, Loading(CloseDialog(WithoutSecret(view, c))), Filtered(c.q, c.arg, "busy"))

ApiKeysNext ==
  \/ ApiKeysLoaded \/ ApiKeysSearch \/ ApiKeysCreate \/ ApiKeysHide \/ ApiKeysRow \/ ApiKeysRevoke
  \/ CancelDialog
  \/ ((~view.loading /\ Idle) \/ Kind(LoadOf(view)) = "stale") /\ Ask(Filtered(view.q, view.sel, "none"), Loading(view))

----------------------------------------------------------------------------
(* WebhooksPage: one busy string for all rows, and no control waits for another. *)

WebhooksView == Extended(BlankList, [open |-> FALSE, last |-> NoRow, secret |-> FALSE])

WebhooksForm ==
  \/ ~Blocked /\ Local([view EXCEPT !.open = TRUE])
  \/ ~Blocked /\ view.open /\ Local([view EXCEPT !.open = FALSE])

WebhooksCreate ==
  \/ ~Blocked /\ view.open /\ <<"busy", "create", NoRow>> \notin view.busy /\ Write("create", "create", NoRow, "busy")
  \/ \E c \in Answered("create") :
       WroteThenLoads(c, [view EXCEPT !.last = c.got, !.secret = TRUE, !.open = FALSE])

RowFree(what, i) == ~Blocked /\ <<"busy", what, i>> \notin view.busy

WebhooksRotate ==
  \/ \E i \in Items : RowFree("rotate", i) /\ view.rows[i].on /\ Write("rotate", "live", i, "busy")
  \/ \E c \in Answered("rotate") : WroteThenLoads(c, [view EXCEPT !.last = c.arg, !.secret = TRUE])

WebhooksRevoke ==
  \/ \E i \in Items :
       /\ RowFree("revoke", i) /\ view.rows[i].on
       /\ Ask([Call("revoke", "close", i) EXCEPT !.cap = view.last, !.tail = "busy"],
              Flag(view, "busy", "revoke", i))
  \/ \E c \in Answered("revoke") :
       WroteThenLoads(c, WithoutSecret(view, c))

\* test and replay
WebhooksTry ==
  \/ \E i \in Items : RowFree("test", i) /\ view.rows[i].on /\ Write("test", "run", i, "busy")
  \/ \E c \in Answered("test") : WroteThenLoads(c, view)

\* copy of one part, or hide: here the secret is one part.
WebhooksHide == view.secret /\ Local([view EXCEPT !.secret = FALSE])

WebhooksNext ==
  \/ ListArrives \/ WebhooksForm \/ WebhooksCreate \/ WebhooksRotate \/ WebhooksRevoke \/ WebhooksTry
  \/ WebhooksHide
  \/ RefreshWhen(~view.loading)

----------------------------------------------------------------------------
(* TenantsPage: a list is followed by the details of the tenant it chooses. *)

TenantsView == Extended(BlankList, [sel |-> NoRow, det |-> NoRow, q |-> NoRow, ask |-> NoRow, kind |-> "none"])

TenantsLoaded ==
  \/ \E c \in Answered("list") : \E i \in ChosenOf(c) :
       IF ~Ok(c) THEN Answer(c, Ends(Loaded(view, c), c.tail))
       ELSE IF i = NoRow THEN Answer(c, Ends([Loaded(view, c) EXCEPT !.sel = i, !.det = i], c.tail))
       ELSE AnswerThen(c, [Heard(view, c) EXCEPT !.sel = i], [Call("listDetail", "get", i) EXCEPT !.tail = c.tail])
  \/ \E c \in Answered("listDetail") :
       Answer(c, Ends([view EXCEPT !.det = c.got, !.loading = FALSE], c.tail))

TenantsSearch ==
  \E q \in Maybe(Ids) \ {view.q} :
    ~Blocked /\ Ask(Filtered(q, view.sel, "none"), Loading([view EXCEPT !.q = q]))

TenantsPick ==
  \/ \E i \in Items : ~Blocked /\ Ask(Call("pick", "get", i), [CloseDialog(view) EXCEPT !.sel = i])
  \/ \E c \in Answered("pick") : Answer(c, [view EXCEPT !.det = c.got])

TenantsDetail == view.det # NoRow /\ ShowItems(LoadOf(view)) /\ ~Blocked /\ Idle

WriteOf(op, do, i) ==
  Ask([Call(op, do, i) EXCEPT !.q = view.q, !.tail = "busy"], Flag(view, "busy", op, i))

TenantsWrite ==
  \/ ~Blocked /\ Idle /\ WriteOf("create", "create", NoRow)
  \/ TenantsDetail /\ ( \/ WriteOf("activate", "open", view.det)
                        \/ WriteOf("member", "put", view.det)
                        \/ Write("role", "put", view.det, "busy") )

\* The dialog: a tenant is deactivated, or one of its members removed.
TenantsDialog ==
  \/ TenantsDetail /\ \E kind \in {"deactivate", "remove"} : OpenDialog(kind, view.det)
  \/ /\ view.ask # NoRow /\ ~Blocked /\ Idle
     /\ \/ view.kind = "deactivate" /\ WriteOf("deactivate", "close", view.ask)
        \/ view.kind = "remove" /\ WriteOf("remove", "put", view.ask)

\* What was written is shown (addMember, changeRole) and, but for a role, all is loaded again.
TenantsWrote ==
  \/ \E op \in {"create", "activate", "member", "deactivate", "remove"} : \E c \in Answered(op) :
       IF ~Ok(c) THEN Answer(c, Ends(view, "busy"))
       ELSE AnswerThen(c, Loading(CASE op = "member" -> [view EXCEPT !.det = c.got]
                                    [] op \in {"deactivate", "remove"} -> CloseDialog(view)
                                    [] OTHER -> view),
                       Filtered(c.q, c.got, "busy"))
  \/ \E c \in Answered("role") :
       Answer(c, Ends(IF Ok(c) THEN [view EXCEPT !.det = c.got] ELSE view, "busy"))

TenantsNext ==
  \/ TenantsLoaded \/ TenantsSearch \/ TenantsPick \/ TenantsWrite \/ TenantsDialog \/ TenantsWrote
  \/ CancelDialog
  \/ ((~view.loading /\ Idle) \/ Kind(LoadOf(view)) = "stale") /\ Ask(Filtered(view.q, view.sel, "none"), Loading(view))

----------------------------------------------------------------------------
(* SettingsPage: users stands for the CRM lists, quotas for the CRM forms; the  *)
(* sections share loading and saving, the CRM ones their error too.  cfg is the *)
(* configuration in the form (a row of the inventory) and shown its version.    *)

SettingsView ==
  Extended(BlankList, [sec |-> "users", quota |-> FALSE, cfg |-> NoRow, shown |-> 0, gwErr |-> "none", code |-> FALSE])

CrmSections == {"users", "quotas"}

\* load of a section, as its closure saw it.  The configuration is a row of the gateway.
ConfigRow == IF view.cfg # NoRow THEN {view.cfg} ELSE DOMAIN gw
SectionLoad(sec, i, tail) ==
  IF sec = "gateway" THEN [Call("gateway", "get", i) EXCEPT !.tail = tail]
  ELSE [List(tail) EXCEPT !.op = sec]

\* classifyPageState of the section on the screen.
SettingsLoadOf(v) ==
  IF v.sec = "gateway"
  THEN [loading |-> v.loading, loaded |-> v.cfg # NoRow, err |-> v.gwErr,
        count |-> IF v.cfg = NoRow THEN 0 ELSE 1, keepStale |-> TRUE]
  ELSE [loading |-> v.loading, loaded |-> v.loaded, err |-> v.err, keepStale |-> TRUE,
        count |-> IF v.sec = "users" THEN Cardinality(DOMAIN v.rows) ELSE IF v.quota THEN 1 ELSE 0]
SettingsBlocked == view.sec # "pairing" /\ InventoryBlocksMutation(SettingsLoadOf(view))

SettingsLoaded ==
  \/ \E c \in Answered("users") : Answer(c, Ends(Loaded(view, c), c.tail))
  \/ \E c \in Answered("quotas") :
       LET v == Loaded(view, c) IN
       Answer(c, Ends(IF Ok(c) THEN [v EXCEPT !.rows = view.rows, !.quota = TRUE] ELSE v, c.tail))
  \/ \E c \in Answered("gateway") :
       LET v == [view EXCEPT !.loading = FALSE] IN
       Answer(c, Ends(IF Ok(c) THEN [v EXCEPT !.cfg = c.got, !.shown = c.ver, !.gwErr = "none"]
                      ELSE [v EXCEPT !.gwErr = c.st], c.tail))

\* The menu, or the address: a code that was issued is forgotten, the new section is loaded.
SettingsSection ==
  \E sec \in (CrmSections \cup {"gateway", "pairing"}) \ {view.sec}, i \in ConfigRow :
    LET v == [view EXCEPT !.sec = sec, !.code = @ /\ sec = "pairing"] IN
    IF sec = "pairing" THEN Local(v) ELSE Ask(SectionLoad(sec, i, "none"), Loading(v))

\* run: one at a time, and the load of the section follows.  A user is made, changed or removed.
SaveOf(sec) == [users |-> "saveUser", quotas |-> "saveQuota", gateway |-> "saveConfig"][sec]
SettingsSave ==
  /\ ~Flagged("saving") /\ ~SettingsBlocked
  /\ \/ view.sec = "users" /\ Write("saveUser", "create", NoRow, "saving")
     \/ view.sec = "users" /\ \E i \in Items, do \in {"put", "delete"} : Write("saveUser", do, i, "saving")
     \/ view.sec = "quotas" /\ Write("saveQuota", "run", NoRow, "saving")
     \/ /\ view.sec = "gateway" /\ ~view.loading
        /\ Ask([Call("saveConfig", "check", view.cfg) EXCEPT !.base = view.shown, !.tail = "saving"],
               Flag(view, "saving", "saveConfig", view.cfg))

SettingsSaved ==
  \E sec \in CrmSections \cup {"gateway"} : \E c \in Answered(SaveOf(sec)) :
    IF Ok(c) THEN AnswerThen(c, Loading(view), SectionLoad(sec, c.arg, "saving")) ELSE Answer(c, Ends(view, "saving"))

\* A pairing code is issued; its answer is shown wherever the operator is by then.
SettingsPairing ==
  \/ view.sec = "pairing" /\ ~Flagged("pairing") /\ Write("pair", "run", NoRow, "pairing")
  \/ \E c \in Answered("pair") : Answer(c, Ends([view EXCEPT !.code = @ \/ Ok(c)], "pairing"))

\* persistBrowserToken and persistCrmOrgToken: what is stored takes effect by a reload.
SettingsToken == view.sec \in {"gateway", "quotas"} /\ LeavePage

SettingsNext ==
  \/ SettingsLoaded \/ SettingsSection \/ SettingsSave \/ SettingsSaved \/ SettingsPairing \/ SettingsToken
  \/ /\ view.sec \in CrmSections \cup {"gateway"} /\ (~view.loading \/ Kind(SettingsLoadOf(view)) = "stale")
     /\ \E i \in ConfigRow : Ask(SectionLoad(view.sec, i, "none"), Loading(view))
=============================================================================
