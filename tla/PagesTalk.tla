----------------------------- MODULE PagesTalk -----------------------------
(***************************************************************************)
(* The pages about conversations and who takes part in them: sessions,     *)
(* agents, channels with their pairing inbox, pending groups, contacts and *)
(* teams (control-plane/src/pages).  Text fields are not state here: a     *)
(* form is open or not, and which row it is about.                         *)
(***************************************************************************)
EXTENDS ConsolePage

----------------------------------------------------------------------------
(* SessionsPage *)

SessionsView == Extended(BlankList, [open |-> FALSE, agents |-> FALSE])

\* Both lists are awaited; the agents may have come, be none, or be those of before.
SessionsLoaded ==
  \E c \in Answered("list"), a \in BOOLEAN : Answer(c, [Loaded(view, c) EXCEPT !.agents = a])

SessionsForm ==
  \/ ~Blocked /\ Local([view EXCEPT !.open = TRUE])
  \/ view.open /\ ~Blocked /\ Idle /\ Local([view EXCEPT !.open = FALSE])

SessionsCreate ==
  /\ view.open /\ view.agents
  /\ ~Blocked /\ Idle /\ ~view.loading
  /\ Write("create", "create", NoRow, "creating")

\* A session that was created is picked: the application turns to the chat.
SessionsCreated ==
  \E c \in Answered("create") :
    IF Ok(c) THEN LeavePage ELSE Answer(c, Ends(view, "creating"))

SessionsMode ==
  \/ \E i \in Items : ~Blocked /\ Ask(Call("mode", "put", i), view)
  \/ \E c \in Answered("mode") : Answer(c, IF Ok(c) THEN ChangeRow(view, c.arg, c.ver) ELSE view)

SessionsRemove ==
  \/ \E i \in Items : ~Blocked /\ Idle /\ Write("delete", "delete", i, "deleting")
  \/ \E c \in Answered("delete") :
       Answer(c, Ends(IF Ok(c) THEN DropRow(view, c.arg) ELSE view, "deleting"))

SessionsNext ==
  \/ SessionsLoaded \/ SessionsForm \/ SessionsCreate \/ SessionsCreated
  \/ SessionsMode \/ SessionsRemove
  \/ RefreshWhen(TRUE)
  \/ Items # {} /\ LeavePage

----------------------------------------------------------------------------
(* AgentsPage: sel is the agent in the form, shown the version it was read at. *)

AgentsView == Extended(BlankList, [sel |-> NoRow, shown |-> 0, open |-> FALSE])

AgentsFormVisible == ~Blocked /\ (view.sel # NoRow \/ view.open)

\* applyDetail
Detail(v, i, n) == [v EXCEPT !.sel = i, !.shown = n, !.open = FALSE]

\* pick, and the reload a conflict offers: the answer fills the form.
AgentsPick ==
  \/ \E i \in Items : Idle /\ Write("detail", "get", i, "loadingDetail")
  \/ view.sel # NoRow /\ Write("detail", "get", view.sel, "loadingDetail")
  \/ \E c \in Answered("detail") :
       Answer(c, Ends(IF Ok(c) THEN Detail(view, c.got, c.ver) ELSE view, "loadingDetail"))

AgentsForm ==
  \/ ~Blocked /\ Local([view EXCEPT !.sel = NoRow, !.open = TRUE])
  \/ AgentsFormVisible /\ Idle /\ Local([view EXCEPT !.sel = NoRow, !.shown = 0, !.open = FALSE])

\* save: an update names the version the form was filled from (if_updated_at).
AgentsSave ==
  /\ AgentsFormVisible /\ Idle
  /\ IF view.sel = NoRow THEN Write("save", "create", NoRow, "saving")
     ELSE Ask([Call("save", "check", view.sel) EXCEPT !.base = view.shown, !.tail = "saving"],
              Flag(view, "saving", "save", view.sel))

AgentsSaved == \E c \in Answered("save") : WroteThenLoads(c, Detail(view, c.got, c.ver))

AgentsRemove ==
  \/ AgentsFormVisible /\ view.sel # NoRow /\ Idle /\ Write("delete", "delete", view.sel, "deleting")
  \/ \E c \in Answered("delete") :
       WroteThenLoads(c, [view EXCEPT !.sel = NoRow, !.shown = 0, !.open = FALSE])

AgentsNext ==
  \/ ListArrives \/ AgentsPick \/ AgentsForm \/ AgentsSave \/ AgentsSaved \/ AgentsRemove
  \/ RefreshWhen(TRUE)

----------------------------------------------------------------------------
(* ChannelsPage: drafts are the channels for which a secret is typed. *)

ChannelsView == Extended(BlankList, [drafts |-> {}, allow |-> {}])

\* A load that succeeds throws every draft of a secret away.
ChannelsLoaded ==
  \E c \in Answered("list") :
    LET v == Ends(Loaded(view, c), c.tail) IN
    Answer(c, IF Ok(c) THEN [v EXCEPT !.drafts = {}] ELSE v)

\* The fields of the rows.
MaxDrafts == 2     \* bound: fields that hold a draft at a time
ChannelsType ==
  \E i \in Items : ~Blocked /\ Cardinality(view.drafts) + Cardinality(view.allow) < MaxDrafts /\ ( \/ Local([view EXCEPT !.drafts = @ \cup {i}])
                                 \/ Local([view EXCEPT !.allow = @ \cup {i}]) )

\* bind and patchPolicy: no flag; and saveAllow, whose draft goes whatever the answer was.
ChannelsPolicy ==
  \/ \E i \in Items : ~Blocked /\ Ask(Call("policy", "put", i), view)
  \/ \E c \in Answered("policy") : IF Ok(c) THEN AnswerThen(c, Loading(view), List("none")) ELSE Answer(c, view)

ChannelsAllow ==
  \/ \E i \in Items \cap view.allow : ~Blocked /\ Ask(Call("allow", "put", i), view)
  \/ \E c \in Answered("allow") :
       IF Ok(c) THEN AnswerThen(c, Loading(view), [List("none") EXCEPT !.op = "allowList", !.cap = c.arg])
       ELSE Answer(c, [view EXCEPT !.allow = @ \ {c.arg}])
  \/ \E c \in Answered("allowList") :
       Answer(c, [Loaded(view, c) EXCEPT !.allow = @ \ {c.cap}, !.drafts = IF Ok(c) THEN {} ELSE @])

\* saveSecrets, clearSecrets and testChannel: each keeps one flag for all channels.
ChannelsSecret ==
  \/ \E i \in Items \cap view.drafts :
       ~Blocked /\ <<"saving", "secrets", i>> \notin view.busy /\ Write("secrets", "put", i, "saving")
  \/ \E i \in Items : ~Blocked /\ <<"clearing", "clear", i>> \notin view.busy /\ Write("clear", "put", i, "clearing")
  \/ \E c \in Answered("secrets") \cup Answered("clear") :
       WroteThenLoads(c, [view EXCEPT !.drafts = @ \ {c.arg}])

ChannelsTest ==
  \/ \E i \in Items : ~Blocked /\ <<"testing", "test", i>> \notin view.busy /\ Write("test", "run", i, "testing")
  \/ \E c \in Answered("test") : WroteThenLoads(c, view)

ChannelsLogout ==
  \/ ~Blocked /\ <<"busy", "logout", NoRow>> \notin view.busy /\ Write("logout", "run", NoRow, "busy")
  \/ \E c \in Answered("logout") : WroteThenLoads(c, view)

ChannelsNext ==
  \/ ChannelsLoaded \/ ChannelsType \/ ChannelsPolicy \/ ChannelsAllow \/ ChannelsSecret
  \/ ChannelsTest \/ ChannelsLogout
  \/ RefreshWhen(~view.loading /\ ~Flagged("busy"))

\* The pairing inbox of the same page; deny is the request the denial form is about.
PairingView == Extended(BlankList, [ask |-> NoRow, kind |-> "none"])

PairBusy(i) == \E what \in {"approve", "deny"} : <<"busy", what, i>> \in view.busy

PairingApprove ==
  \/ \E i \in Items : ~Blocked /\ ~PairBusy(i) /\ Write("approve", "delete", i, "busy")
  \/ \E c \in Answered("approve") : WroteThenLoads(c, view)

PairingDeny ==
  \/ \E i \in Items : ~Blocked /\ ~PairBusy(i) /\ OpenDialog("deny", i)
  \/ CancelDialog
  \/ view.ask # NoRow /\ ~Blocked /\ Idle /\ Write("deny", "delete", view.ask, "busy")
  \/ \E c \in Answered("deny") : WroteThenLoads(c, CloseDialog(view))

PairingNext == ListArrives \/ PairingApprove \/ PairingDeny \/ RefreshWhen(~view.loading /\ Idle)

----------------------------------------------------------------------------
(* PendingPage: a group that is off is being compacted; ask is the group of the dialog. *)

PendingView == Extended(BlankList, [ask |-> NoRow, kind |-> "none"])

Compacting(i) == ~view.rows[i].on
GroupBusy(i) == Compacting(i) \/ \E what \in {"compact", "clear"} : <<"busy", what, i>> \in view.busy

PendingOpen ==
  \E i \in Items, kind \in {"compact", "clear"} :
    /\ ~Blocked
    /\ IF kind = "compact" THEN ~Compacting(i) /\ Idle ELSE ~GroupBusy(i)
    /\ OpenDialog(kind, i)

\* Mutant of PendingSubmit: the confirmation does not wait for the one before.
PendingSubmitAgain ==
  /\ view.ask # NoRow /\ ~Blocked
  /\ IF view.kind = "compact" THEN Write("compact", "live", view.ask, "busy")
     ELSE Write("clear", "delete", view.ask, "busy")

PendingSubmit ==
  /\ view.ask # NoRow /\ ~Blocked /\ Idle
  /\ IF view.kind = "compact" THEN Write("compact", "live", view.ask, "busy")
     ELSE Write("clear", "delete", view.ask, "busy")

PendingDone ==
  \E c \in Answered("compact") \cup Answered("clear") : WroteThenLoads(c, CloseDialog(view))

PendingNext ==
  \/ ListArrives \/ PendingOpen \/ PendingSubmit \/ CancelDialog \/ PendingDone
  \/ RefreshWhen(~view.loading /\ Idle)

----------------------------------------------------------------------------
(* ContactsPage: a row that is off has a merge that can be undone. *)

ContactsView == Extended(BlankList, [chosen |-> {}, detail |-> NoRow, kind |-> "none", target |-> NoRow, source |-> NoRow])

ContactsSelect ==
  \E i \in Items :
    \/ ~Blocked /\ Local([view EXCEPT !.chosen = IF i \in @ THEN @ \ {i} ELSE @ \cup {i}])
    \/ Local([view EXCEPT !.detail = i])

\* mergePair: the open contact is the target when it is one of the two, and both must be listed.
ContactsOpenMerge ==
  /\ ~Blocked /\ Idle /\ Cardinality(view.chosen) = 2
  /\ view.chosen \subseteq DOMAIN view.rows
  /\ \E t \in view.chosen :
       /\ view.detail \in view.chosen => t = view.detail
       /\ Local([view EXCEPT !.kind = "merge", !.target = t, !.source = CHOOSE s \in view.chosen : s # t])

ContactsOpenUndo ==
  /\ view.detail \in Items /\ ~view.rows[view.detail].on /\ ~Blocked /\ Idle
  /\ Local([view EXCEPT !.kind = "undo", !.target = view.detail, !.source = NoRow])

ContactsDialog ==
  /\ view.kind # "none" /\ ~Blocked /\ Idle
  /\ \/ Local([view EXCEPT !.kind = "none", !.target = NoRow, !.source = NoRow])
     \/ view.kind = "merge" /\ Local([view EXCEPT !.target = view.source, !.source = view.target])

ContactsSubmit ==
  /\ view.kind # "none" /\ ~Blocked /\ Idle
  /\ IF view.kind = "merge"
     THEN Ask([Call("merge", "merge", view.target) EXCEPT !.cap = view.source, !.tail = "busy"],
              Flag(view, "busy", "merge", view.target))
     ELSE Write("undo", "undo", view.target, "busy")

\* recoverAfterWrite: nothing stays chosen, the contact that was kept is open.
ContactsDone ==
  \E c \in Answered("merge") \cup Answered("undo") :
    WroteThenLoads(c, [view EXCEPT !.kind = "none", !.target = NoRow, !.source = NoRow,
                                   !.chosen = {}, !.detail = c.arg])

ContactsNext ==
  \/ ListArrives \/ ContactsSelect \/ ContactsOpenMerge \/ ContactsOpenUndo \/ ContactsDialog
  \/ ContactsSubmit \/ ContactsDone
  \/ RefreshWhen(~view.loading /\ Idle)

----------------------------------------------------------------------------
(* TeamsPage: det is the team whose members, tasks and messages are shown. *)

TeamsView == Extended(BlankList, [sel |-> NoRow, det |-> NoRow, open |-> FALSE])

DetailCall(i) == [Call("members", "get", i) EXCEPT !.tail = "detail"]
DetailLoading(v, i) == Flag(v, "detail", "members", i)

\* loadDetail: members, tasks and messages, then the links of one of its agents, if any.
TeamsDetail ==
  \/ \E c \in Answered("members") :
       IF ~Ok(c) THEN Answer(c, Ends(view, "detail"))
       ELSE LET v == [view EXCEPT !.det = c.arg] IN
            \/ Answer(c, Ends(v, "detail"))
            \/ AnswerThen(c, v, [Call("evolution", "run", c.arg) EXCEPT !.tail = "detail"])
  \/ \E c \in Answered("evolution") : Answer(c, Ends(view, "detail"))

\* Choosing a team runs the effect that loads it.
TeamsSelect ==
  \/ \E i \in Items \ {view.sel} : Ask(DetailCall(i), DetailLoading([view EXCEPT !.sel = i], i))
  \/ ~Blocked /\ Local([view EXCEPT !.sel = NoRow, !.det = NoRow, !.open = TRUE])
  \/ view.sel = NoRow /\ view.open /\ Local([view EXCEPT !.open = FALSE])

\* createTeam: no flag; the list is loaded, then the new team is chosen.
TeamsCreate ==
  \/ view.sel = NoRow /\ view.open /\ ~Blocked /\ Ask(Call("create", "create", NoRow), view)
  \/ \E c \in Answered("create") :
       IF Ok(c) THEN AnswerThen(c, Loading([view EXCEPT !.open = FALSE]),
                                [List("none") EXCEPT !.op = "listThenSelect", !.cap = c.got])
       ELSE Answer(c, view)
  \/ \E c \in Answered("listThenSelect") :
       LET v == [Loaded(view, c) EXCEPT !.sel = c.cap] IN
       IF view.sel = c.cap THEN Answer(c, v)
       ELSE AnswerThen(c, DetailLoading(v, c.cap), DetailCall(c.cap))

\* saveTeam, addMember and setMemberLead: the team, its lead, the list and its details.
TeamsSave ==
  \/ view.sel # NoRow /\ Ask(Call("save", "put", view.sel), view)
  \/ \E c \in Answered("save") :
       IF Ok(c) THEN AnswerThen(c, view, Call("lead", "put", c.arg)) ELSE Answer(c, view)
  \/ view.sel # NoRow /\ Ask(Call("lead", "put", view.sel), view)
  \/ \E c \in Answered("lead") :
       IF Ok(c) THEN AnswerThen(c, Loading(view), [List("none") EXCEPT !.op = "listThenDetail", !.cap = c.arg])
       ELSE Answer(c, view)
  \/ \E c \in Answered("listThenDetail") :
       AnswerThen(c, DetailLoading(Loaded(view, c), c.cap), DetailCall(c.cap))

\* removeMember, addTask, moveTask, sendMsg and applySug: the change, then the details.
TeamsChange ==
  \/ view.sel # NoRow /\ Ask(Call("change", "put", view.sel), view)
  \/ \E c \in Answered("change") :
       IF Ok(c) THEN AnswerThen(c, DetailLoading(view, c.arg), DetailCall(c.arg)) ELSE Answer(c, view)

\* deleteTeam: nothing is chosen any more, whatever was chosen meanwhile.
TeamsDelete ==
  \/ view.sel \in DOMAIN view.rows /\ Ask(Call("delete", "delete", view.sel), view)
  \/ \E c \in Answered("delete") :
       IF Ok(c) THEN AnswerThen(c, Loading([view EXCEPT !.sel = NoRow, !.det = NoRow]), List("none"))
       ELSE Answer(c, view)

TeamsRefresh ==
  \/ view.sel = NoRow /\ Ask(List("none"), Loading(view))
  \/ view.sel # NoRow /\ Ask(DetailCall(view.sel), DetailLoading(view, view.sel))
  \/ Kind(LoadOf(view)) = "stale" /\ Ask(List("none"), Loading(view))

TeamsNext ==
  \/ ListArrives \/ TeamsDetail \/ TeamsSelect \/ TeamsCreate \/ TeamsSave \/ TeamsChange
  \/ TeamsDelete \/ TeamsRefresh
=============================================================================
