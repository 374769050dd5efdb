---------------------------- MODULE ConsoleRoute ----------------------------
(***************************************************************************)
(* Where the control plane is: the tab that App shows, the hash of the     *)
(* address bar, the part of it that SettingsPage and TracesPage keep a     *)
(* copy of, and the command palette.  A click changes the tab at once; a   *)
(* change of the hash is told to the listeners later (hashchange), and the *)
(* user may have clicked, typed or gone back again meanwhile.  A listener  *)
(* reads the hash when it runs, so that one value stands for all events    *)
(* on their way.  replaceState tells nobody.  No click comes before the    *)
(* effect of the mount.                                                    *)
(***************************************************************************)
EXTENDS HashRoute

VARIABLES
  demo,     \* the build shows the demo screens
  tab,      \* App: the tab shown
  address,  \* the hash of the address bar
  due,      \* what is still to run: the effect of the mount, a listener, or nothing
  page,     \* SettingsPage: its page, NoPage while it is not mounted
  trace,    \* TracesPage: the selected trace, NoTrace while there is none
  palette   \* CommandPalette: [open, rows, active]

routeVars == <<demo, tab, address, due, page, trace, palette>>

LiveTabs ==
  {"crm", "chat", "agents", "sessions", "pending", "contacts", "channels", "connectors", "nodes",
   "workstations", "skills", "decision", "decisionFlow", "tools", "mcp", "tts", "cron", "hooks",
   "memory", "vault", "meetings", "kg", "storage", "traces", "events", "activity", "logs",
   "tenants", "providers", "apikeys", "packages", "settings", "approvals", "impexp", "backup"}

\* The side bar, and the rows of the palette.
Side == LiveTabs \cup (IF demo THEN DemoTabs ELSE {})

\* The tabs for which App renders a page.
Rendered == LiveTabs \cup {"functions", "heatmap", "marketing", "teams"} \cup (IF demo THEN DemoTabs ELSE {})

\* There is no hash in the address.
NoHash == [bare |-> TRUE, segs |-> <<>>, odd |-> FALSE]

Read(h) == ParseHash(h, demo)

\* pageFromHash and parseTraceHash; the latter reads as a build with no demo screens.
PageFromHash(h) == IF Read(h).tab = "settings" THEN Read(h).page ELSE DefaultSettingsPage
ParseTraceHash(h) == LET p == ParseHash(h, FALSE) IN IF p.tab = "traces" THEN p.trace ELSE NoTrace

\* What a page copies from the hash h as it is mounted, once App shows tab t.
Mounts(t, h) ==
  /\ page' = IF t # "settings" THEN NoPage ELSE IF tab = "settings" THEN page ELSE PageFromHash(h)
  /\ trace' = IF t # "traces" THEN NoTrace ELSE IF tab = "traces" THEN trace ELSE ParseTraceHash(h)

\* What is copied from h by a page that stays, for its listener runs too.
Copies(t, h) ==
  /\ page' = IF t # "settings" THEN NoPage ELSE PageFromHash(h)
  /\ trace' = IF t # "traces" THEN NoTrace ELSE ParseTraceHash(h)

\* window.location.hash = h: an event, if that changes anything.
SetHash(h) == address' = h /\ due' = IF h = address \/ due = "mount" THEN due ELSE "event"

\* Any rows of the side bar: what a query leaves depends on the labels, so on the language.
Lists == Seq(Side)

\* A palette that shows other rows. The highlight goes back to the first with another query
\* (typed) or another number of rows.
ShowRows(open, rows, typed) ==
  palette' = [open |-> open, rows |-> rows,
              active |-> IF typed \/ Len(rows) # Len(palette.rows) THEN 0 ELSE palette.active]

InitRoute ==
  /\ demo \in BOOLEAN
  /\ address \in Hashes /\ tab = Read(address).tab /\ due = "mount"
  /\ page = IF tab = "settings" THEN PageFromHash(address) ELSE NoPage
  /\ trace = IF tab = "traces" THEN ParseTraceHash(address) ELSE NoTrace
  /\ \E rows \in Lists : palette = [open |-> FALSE, rows |-> rows, active |-> 0]

\* applyHash as App is mounted ("replace") and on hashchange and popstate ("sync"): an old
\* or unknown hash is replaced; then the listener of the page shown reads what is there.
ApplyHash ==
  LET p == Read(address)
      swap == p.rewrite \/ (due = "mount" /\ p.canonical # NoHash)
  IN  /\ due # "nothing" /\ due' = "nothing"
      /\ address' = IF swap THEN p.canonical ELSE address
      /\ tab' = p.tab
      /\ Copies(p.tab, address')
      /\ UNCHANGED <<demo, palette>>

\* The user types an address, follows a link or goes back.
UserHash == \E h \in Hashes :
  SetHash(h) /\ UNCHANGED <<demo, tab, page, trace, palette>>

\* go: settings and traces keep what the hash says of them.
GoTo(id) ==
  LET now == Read(address)
      keep == now.tab = id
      next == HashForTab(id, IF keep /\ id = "settings" THEN now.page ELSE NoPage,
                             IF keep /\ id = "traces" THEN now.trace ELSE NoTrace, demo)
      p == Read(next)
      to == IF p.rewrite THEN p.canonical ELSE next
  IN  /\ due # "mount"
      /\ IF p.rewrite THEN address' = to /\ UNCHANGED due ELSE SetHash(to)
      /\ tab' = id
      /\ Mounts(id, address')

Go == \E id \in Side : GoTo(id) /\ UNCHANGED <<demo, palette>>

\* SettingsPage: a page of its menu.
PickPage == \E p \in SettingsPages :
  /\ tab = "settings" /\ due # "mount"
  /\ page' = p
  /\ SetHash(SerializeHash("settings", p, NoTrace, demo))
  /\ UNCHANGED <<demo, tab, trace, palette>>

\* TracesPage.openTrace and its writeHash: the hash is replaced, and nobody is told.
PickTrace == \E s \in Traces :
  /\ tab = "traces" /\ due # "mount"
  /\ trace' = s
  /\ address' = SerializeHash("traces", NoPage, s, FALSE)
  /\ UNCHANGED <<demo, tab, due, page, palette>>

\* CommandPalette. Closing empties the query. The shortcut is the search of the chat while
\* that is shown.
Close == \E rows \in Lists, typed \in BOOLEAN : ShowRows(FALSE, rows, typed)

Shortcut ==
  /\ \/ tab # "chat" /\ ~palette.open /\ palette' = [palette EXCEPT !.open = TRUE]
     \/ palette.open /\ Close
  /\ UNCHANGED <<demo, tab, address, due, page, trace>>

\* The query, or the language and with it the labels.
Rows ==
  /\ \E rows \in Lists, typed \in BOOLEAN : ShowRows(palette.open, rows, typed)
  /\ UNCHANGED <<demo, tab, address, due, page, trace>>

\* ArrowDown, ArrowUp, and the pointer over a row.
Highlight ==
  /\ palette.open /\ palette.rows # <<>>
  /\ LET n == Len(palette.rows)
     IN  \E i \in {(palette.active + 1) % n, (palette.active - 1 + n) % n} \cup 0 .. (n - 1) :
           palette' = [palette EXCEPT !.active = i]
  /\ UNCHANGED <<demo, tab, address, due, page, trace>>

\* Enter: the highlighted row, or the first.
Highlighted == IF palette.active < Len(palette.rows) THEN palette.active + 1 ELSE 1

Pick ==
  /\ palette.open /\ palette.rows # <<>>
  /\ GoTo(palette.rows[Highlighted])
  /\ Close
  /\ UNCHANGED demo

NextRoute ==
  \/ ApplyHash \/ UserHash \/ Go \/ PickPage \/ PickTrace
  \/ Shortcut \/ Rows \/ Highlight \/ Pick

SpecRoute == InitRoute /\ [][NextRoute]_routeVars

\* Once the listeners have run, what is shown is what the address says: the tab, the page of
\* the settings and the selected trace.  A reload or a bookmark then shows the same.
AddressAgrees ==
  due = "nothing" =>
    /\ tab \in {Read(address).tab} \cup Inherited
    /\ tab = "settings" => page = PageFromHash(address)
    /\ tab = "traces" => trace = ParseTraceHash(address)

\* Whatever the address was and whatever was clicked, App has a page to show.
SomethingShown == tab \in Rendered \/ tab \in Inherited

\* The row that Enter picks is the highlighted one.
PaletteOnRow == palette.rows # <<>> => palette.active < Len(palette.rows)
=============================================================================
