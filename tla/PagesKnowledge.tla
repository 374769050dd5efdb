--------------------------- MODULE PagesKnowledge ---------------------------
(***************************************************************************)
(* The pages over what the agents know and the files of the gateway:       *)
(* vault, memory, knowledge graph, storage, import and export, and backups *)
(* (control-plane/src/pages).                                              *)
(***************************************************************************)
EXTENDS ConsolePage

\* The details of a row: detailLoading is one flag, whichever row it is about, and then
\* says what else ends with them.
Details(i, then) == [Call("detail", "get", i) EXCEPT !.tail = then]
DetailsLoading(v, i) == Flag(v, "detail", "detail", i)
EndsDetails(c, v) == Ends(Ends(v, "detail"), c.tail)

\* vaultMutationsBlocked and memoryMutationsBlocked: also while a first list loads.
ListBlocked == Blocked \/ (Kind(LoadOf(view)) = "loading" /\ ~ShowItems(LoadOf(view)))

----------------------------------------------------------------------------
(* VaultPage: title is the document the form is about, when it was filled from one. *)

VaultView == Extended(BlankList, [sel |-> NoRow, title |-> NoRow, open |-> FALSE, hits |-> {}])

\* load, and then the document that is to be opened (cap).  The health and the graph that
\* are read after it only show, and are left out.
VaultLoaded ==
  \E c \in Answered("list") :
    IF c.cap = NoRow THEN Answer(c, Ends(Loaded(view, c), c.tail))
    ELSE AnswerThen(c, DetailsLoading(Loaded(view, c), c.cap), Details(c.cap, c.tail))

\* openDoc, from a row, a hit, a link or a node: document, links, title and body arrive together.
VaultOpen ==
  \/ \E i \in Items \cup view.hits \cup (Ids \cap {view.sel}) : ~ListBlocked /\ Ask(Details(i, "none"), DetailsLoading(view, i))
  \/ \E c \in Answered("detail") :
       Answer(c, EndsDetails(c, IF Ok(c) THEN [view EXCEPT !.sel = c.got, !.title = c.got] ELSE view))

VaultSearch ==
  \/ Local([view EXCEPT !.hits = {}])
  \/ Ask([List("none") EXCEPT !.op = "search"], view)
  \/ \E c \in Answered("search") : Answer(c, IF Ok(c) THEN [view EXCEPT !.hits = DOMAIN c.rows] ELSE view)

VaultForm ==
  \/ ~ListBlocked /\ Local([view EXCEPT !.open = TRUE])
  \/ ~ListBlocked /\ view.open /\ Local([view EXCEPT !.open = FALSE])

\* putDoc: the title of a listed document is confirmed first (vaultPutIsOverwrite; cap says it was).
VaultPut ==
  \/ \E i \in Ids :
       /\ view.open /\ ~ListBlocked
       /\ Ask([Call("put", "upsert", i) EXCEPT !.cap = IF i \in DOMAIN view.rows THEN i ELSE NoRow],
              [view EXCEPT !.title = i])
  \/ \E c \in Answered("put") :
       IF Ok(c) THEN AnswerThen(c, Loading([view EXCEPT !.sel = c.got, !.open = FALSE]),
                                [List("none") EXCEPT !.cap = c.got])
       ELSE Answer(c, view)

\* runSync: what is opened again is what was open when it began.
VaultSync ==
  \/ /\ ~ListBlocked /\ ~Flagged("syncing")
     /\ Ask([Call("sync", "run", NoRow) EXCEPT !.cap = view.sel, !.tail = "syncing"],
            Flag(view, "syncing", "sync", NoRow))
  \/ \E c \in Answered("sync") :
       IF Ok(c) THEN AnswerThen(c, Loading(view), [List("syncing") EXCEPT !.cap = c.cap])
       ELSE Answer(c, Ends(view, "syncing"))

VaultNext ==
  \/ VaultLoaded \/ VaultOpen \/ VaultSearch \/ VaultForm \/ VaultPut \/ VaultSync
  \/ RefreshWhen(~view.loading)

----------------------------------------------------------------------------
(* MemoryPage: text is the note whose text is in the editor, when it came from one; *)
(* the form of a new note and the details of an old one share the editor.           *)

MemoryView == Extended(BlankList, [sel |-> NoRow, text |-> NoRow, open |-> FALSE, sess |-> "err"])

\* The sessions come with the notes: some, none, or an error.
MemoryLoaded ==
  \E c \in Answered("list"), s \in {"ok", "empty", "err"} :
    LET v == [Loaded(view, c) EXCEPT !.sess = s] IN
    IF c.cap = NoRow THEN Answer(c, v) ELSE AnswerThen(c, DetailsLoading(v, c.cap), Details(c.cap, "none"))

\* memoryFormBlocked, and memoryCreateBlocked once a session is chosen
MemoryFormBlocked == ListBlocked \/ view.sess = "err"
MemoryCreateBlocked == MemoryFormBlocked \/ view.sess = "empty"

MemoryOpen ==
  \/ \E i \in Items : ~ListBlocked /\ Ask(Details(i, "none"), DetailsLoading(view, i))
  \/ \E c \in Answered("detail") :
       Answer(c, EndsDetails(c, IF Ok(c) THEN [view EXCEPT !.sel = c.got, !.text = c.got] ELSE view))

MemoryForm ==
  \/ ~MemoryCreateBlocked /\ Local([view EXCEPT !.open = TRUE])
  \/ view.open /\ ~MemoryFormBlocked /\ Local([view EXCEPT !.open = FALSE])

\* postNote: the editor is emptied, and the new note opened after the load.
MemoryPost ==
  \/ view.open /\ ~MemoryCreateBlocked /\ Ask(Call("create", "create", NoRow), view)
  \/ \E c \in Answered("create") :
       IF Ok(c) THEN AnswerThen(c, Loading([view EXCEPT !.text = NoRow, !.open = FALSE]),
                                [List("none") EXCEPT !.cap = c.got])
       ELSE Answer(c, view)

\* saveNote and deleteNote, of the note that was open when they began (cap: the text that is sent).
MemoryDetail == view.sel # NoRow /\ ~Flagged("detail") /\ ~ListBlocked
MemorySave ==
  \/ MemoryDetail /\ Ask([Call("save", "put", view.sel) EXCEPT !.cap = view.text], view)
  \/ \E c \in Answered("save") :
       IF Ok(c) THEN AnswerThen(c, Loading([view EXCEPT !.sel = c.got]), List("none")) ELSE Answer(c, view)

MemoryRemove ==
  \/ MemoryDetail /\ Ask(Call("delete", "delete", view.sel), view)
  \/ \E c \in Answered("delete") :
       IF Ok(c) THEN AnswerThen(c, Loading([view EXCEPT !.sel = NoRow, !.text = NoRow]), List("none"))
       ELSE Answer(c, view)

MemoryNext ==
  \/ MemoryLoaded \/ MemoryOpen \/ MemoryForm \/ MemoryPost \/ MemorySave \/ MemoryRemove
  \/ RefreshWhen(~view.loading)

----------------------------------------------------------------------------
(* KnowledgeGraphPage: rows are the agents, q the agent (with a scope) whose graph is *)
(* wanted, of the one whose graph is shown; the graph has a load of its own.          *)

KgView == Extended(BlankList, [q |-> NoRow, of |-> NoRow, gErr |-> "none", node |-> NoRow, det |-> NoRow])

GraphCall == [Call("graph", "get", view.q) EXCEPT !.tail = "graph"]
GraphLoading(v) == Flag(v, "graph", "graph", NoRow)
NoGraph(v) == Ends([v EXCEPT !.of = NoRow, !.gErr = "none", !.node = NoRow, !.det = NoRow], "graph")

\* classifyKgView: the agents first, then the graph; a graph that came has nodes here.
KgKind ==
  LET agents == Kind(LoadOf(view))
      graph == Kind([loading |-> Flagged("graph"), loaded |-> view.of # NoRow, err |-> view.gErr,
                     count |-> IF view.of = NoRow THEN 0 ELSE 1, keepStale |-> TRUE])
  IN CASE agents = "empty" -> "no_agent"
       [] agents # "ready" -> agents
       [] view.q = NoRow -> "no_selection"
       [] OTHER -> graph

\* The effect of the two selects: a graph is asked for, or forgotten.
KgSelect ==
  /\ view.err = "none" /\ view.loaded
  /\ \E q \in Maybe(DOMAIN view.rows) \ {view.q} :
       IF q = NoRow THEN Local([NoGraph(view) EXCEPT !.q = q])
       ELSE Ask([GraphCall EXCEPT !.arg = q], GraphLoading([view EXCEPT !.q = q]))

\* Refresh asks for both; the search for the graph, whatever is under way.
KgRefresh ==
  \/ /\ (~view.loading /\ ~Flagged("graph")) \/ KgKind = "stale"
     /\ IF view.q = NoRow THEN Ask(List("none"), Loading(view))
        ELSE AskBoth(List("none"), GraphCall, GraphLoading(Loading(view)))
  \/ KgKind \in {"ready", "empty", "stale"} /\ view.q # NoRow /\ Ask(GraphCall, GraphLoading(view))
  \/ KgKind = "stale" /\ view.q = NoRow /\ Local(NoGraph(view))

KgArrives ==
  \E c \in Answered("graph") :
    Answer(c, Ends(IF Ok(c) THEN [view EXCEPT !.of = c.got, !.gErr = "none"] ELSE [view EXCEPT !.gErr = c.st], "graph"))

\* openNode: no guard; nodes are named like rows.
KgOpen ==
  \/ \E i \in Ids :
       /\ KgKind \in {"ready", "stale"} /\ view.of # NoRow
       /\ Ask(Details(i, "none"), DetailsLoading([view EXCEPT !.node = i], i))
  \/ \E c \in Answered("detail") : Answer(c, EndsDetails(c, IF Ok(c) THEN [view EXCEPT !.det = c.got] ELSE view))

KgNext == ListArrives \/ KgSelect \/ KgRefresh \/ KgArrives \/ KgOpen

----------------------------------------------------------------------------
(* StoragePage: path is where the operator went, at the directory that is listed; *)
(* use is what the listing says of the store: usable, full or not configured.     *)

StorageView ==
  Extended(BlankList, [path |-> NoRow, at |-> NoRow, use |-> "ok", sel |-> NoRow, pre |-> NoRow, ask |-> NoRow, kind |-> "none"])

\* classifyStorageView and storageBlocksMutation
StorageKind ==
  LET k == Kind(LoadOf(view)) IN
  IF k \notin {"loading", "permission", "error", "stale"} /\ view.use = "off" THEN "not_configured" ELSE k
StorageBlocked == StorageKind \in {"error", "permission", "loading", "not_configured"} \/ view.use = "full"
StorageItems == IF StorageKind \in {"ready", "stale"} THEN DOMAIN view.rows ELSE {}

DirList(d, tail) == [List(tail) EXCEPT !.arg = d]
StorageLoaded ==
  \E c \in Answered("list"), use \in {"ok", "full", "off"} :
    Answer(c, Ends(IF Ok(c) THEN [Loaded(view, c) EXCEPT !.at = c.arg, !.use = use] ELSE Loaded(view, c), c.tail))

\* openDir, from a row or a crumb: nothing stays open.
StorageOpenDir ==
  \E d \in Maybe(StorageItems) :
    /\ StorageKind \in {"ready", "stale", "empty"}
    /\ Ask(DirList(d, "none"), Loading([CloseDialog(view) EXCEPT !.path = d, !.sel = NoRow, !.pre = NoRow]))

\* openFile: whatever is busy; the answer is shown under the file chosen by then.
StorageOpenFile ==
  \/ \E i \in StorageItems : Ask([Call("preview", "get", i) EXCEPT !.tail = "busy"],
                                 Flag([CloseDialog(view) EXCEPT !.sel = i], "busy", "preview", i))
  \/ \E c \in Answered("preview") : Answer(c, Ends([view EXCEPT !.pre = IF Ok(c) THEN c.got ELSE NoRow], "busy"))

\* onUpload, into the directory the operator is in, and onDownload of a row or of the open file.
StorageTransfer ==
  \/ /\ ~StorageBlocked /\ ~view.loading /\ Idle
     /\ Ask([Call("upload", "create", NoRow) EXCEPT !.q = view.path, !.tail = "busy"],
            Flag(view, "busy", "upload", NoRow))
  \/ \E i \in StorageItems : ~StorageBlocked /\ Idle /\ Write("download", "run", i, "busy")
  \/ \E c \in Answered("upload") :
       IF Ok(c) THEN AnswerThen(c, Loading(view), DirList(c.q, "busy")) ELSE Answer(c, Ends(view, "busy"))
  \/ \E c \in Answered("download") : Answer(c, Ends(view, "busy"))

\* The confirmation of a removal; it stays, out of sight, while the page is blocked.
StorageRemove ==
  \/ \E i \in StorageItems : ~StorageBlocked /\ Idle /\ OpenDialog("delete", i)
  \/ /\ view.ask # NoRow /\ ~StorageBlocked /\ Idle
     /\ \/ Local(CloseDialog(view))
        \/ Ask([Call("delete", "delete", view.ask) EXCEPT !.cap = view.sel, !.q = view.path, !.tail = "busy"],
               Flag(view, "busy", "delete", view.ask))
  \/ \E c \in Answered("delete") :
       IF ~Ok(c) THEN Answer(c, Ends(view, "busy"))
       ELSE LET v == IF c.cap = c.arg THEN [view EXCEPT !.sel = NoRow, !.pre = NoRow] ELSE view IN
            AnswerThen(c, Loading(CloseDialog(v)), DirList(c.q, "busy"))

StorageNext ==
  \/ StorageLoaded \/ StorageOpenDir \/ StorageOpenFile \/ StorageTransfer \/ StorageRemove
  \/ ((~view.loading /\ Idle) \/ StorageKind = "stale") /\ Ask(DirList(view.path, "none"), Loading(view))

----------------------------------------------------------------------------
(* ImportExportPage: pre is the valid archive that is previewed (named by the row it *)
(* holds), sure its confirmation, job the import that can be rolled back.            *)

ImpExpView == Extended(BlankList, [sel |-> {}, pre |-> NoRow, sure |-> FALSE, job |-> NoRow, export |-> FALSE])

ImpExpPick ==
  \/ \E i \in Items : ~Blocked /\ Local([view EXCEPT !.sel = IF i \in @ THEN @ \ {i} ELSE @ \cup {i}])
  \/ ~Blocked /\ Local([view EXCEPT !.sure = ~@])

ImpExpExport ==
  \/ ~Blocked /\ Idle /\ view.sel # {} /\ Write("export", "run", NoRow, "busy")
  \/ \E c \in Answered("export") : Answer(c, Ends([view EXCEPT !.export = @ \/ Ok(c)], "busy"))

\* onFile: a file may be chosen while something else is busy; an invalid archive is no archive.
ImpExpFile ==
  \/ \E i \in Ids : ~Blocked /\ Write("preview", "run", i, "busy")
  \/ \E c \in Answered("preview"), valid \in BOOLEAN :
       LET v == [view EXCEPT !.pre = IF Ok(c) /\ valid THEN c.arg ELSE NoRow] IN
       Answer(c, Ends(IF Ok(c) THEN [v EXCEPT !.job = NoRow] ELSE v, "busy"))

\* runImport: a rehearsal, or for good once it was confirmed.
ImpExpImport ==
  \/ ~Blocked /\ Idle /\ view.pre # NoRow /\ Write("rehearse", "run", view.pre, "busy")
  \/ ~Blocked /\ Idle /\ view.pre # NoRow /\ view.sure /\ Write("import", "upsert", view.pre, "busy")
  \/ \E c \in Answered("rehearse") : WroteThenLoads(c, [view EXCEPT !.job = NoRow])
  \/ \E c \in Answered("import") : WroteThenLoads(c, [view EXCEPT !.job = c.arg, !.sure = FALSE])

ImpExpRollback ==
  \/ ~Blocked /\ Idle /\ view.job # NoRow /\ Write("rollback", "delete", view.job, "busy")
  \/ \E c \in Answered("rollback") : WroteThenLoads(c, [view EXCEPT !.job = NoRow])

ImpExpNext ==
  \/ ListArrives \/ ImpExpPick \/ ImpExpExport \/ ImpExpFile \/ ImpExpImport \/ ImpExpRollback
  \/ RefreshWhen(~view.loading /\ Idle)

----------------------------------------------------------------------------
(* BackupPanel: sel is the file to restore, typed what was typed and ticked for it, *)
(* plan the file whose plan is shown, keys whether credentials are in the S3 form.  *)

BackupView == Extended(BlankList, [can |-> FALSE, sel |-> NoRow, typed |-> NoRow, plan |-> NoRow, keys |-> FALSE])

\* A load fills the S3 form again: the credentials typed in it are gone.
BackupLoaded ==
  \E c \in Answered("list"), can \in BOOLEAN :
    Answer(c, Ends(IF Ok(c) THEN [Loaded(view, c) EXCEPT !.can = can, !.keys = FALSE] ELSE Loaded(view, c), c.tail))

BackupType ==
  \/ \E i \in Maybe(DOMAIN view.rows) : Local([view EXCEPT !.sel = i])
  \/ \E i \in Maybe(DOMAIN view.rows) : Local([view EXCEPT !.typed = i])
  \/ Local([view EXCEPT !.keys = TRUE])

BackupCreate ==
  \/ view.can /\ Idle /\ Write("create", "create", NoRow, "busy")
  \/ \E c \in Answered("create") : WroteThenLoads(c, view)

\* runPlan of a row or of the chosen file; its answer chooses that file again.
BackupPlan ==
  \/ \E i \in DOMAIN view.rows \cup (Ids \cap {view.sel}) : Idle /\ Write("plan", "get", i, "busy")
  \/ \E c \in Answered("plan") :
       Answer(c, Ends(IF Ok(c) THEN [view EXCEPT !.plan = c.got, !.sel = c.got] ELSE view, "busy"))

\* runRestore and runDownload
BackupRun ==
  \/ \E i \in DOMAIN view.rows : Idle /\ Write("run", "run", i, "busy")
  \/ Idle /\ view.sel # NoRow /\ view.typed = view.sel /\ Write("run", "get", view.sel, "busy")
  \/ \E c \in Answered("run") : Answer(c, Ends(view, "busy"))

\* saveS3, and the three controls that set no flag: validate, test and clear.
BackupS3 ==
  \/ Idle /\ Write("s3", "run", NoRow, "busy")
  \/ Idle /\ Ask(Call("try", "run", NoRow), view)
  \/ \E c \in Answered("s3") : Answer(c, Ends(IF Ok(c) THEN [view EXCEPT !.keys = FALSE] ELSE view, "busy"))
  \/ \E c \in Answered("try") : Answer(c, view)

BackupNext ==
  \/ BackupLoaded \/ BackupType \/ BackupCreate \/ BackupPlan \/ BackupRun \/ BackupS3
  \/ RefreshWhen(~view.loading /\ Idle)
=============================================================================
