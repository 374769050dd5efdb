------------------------------ MODULE HashRoute ------------------------------
(***************************************************************************)
(* The addresses of the control plane (api/hash-route.ts): how a tab is    *)
(* written into the hash of the address (serializeHash) and how a hash, of *)
(* today or of an old bookmark, is read (parseHash).                       *)
(*                                                                         *)
(* A hash is a record [bare, segs, odd]: its segments; whether the first   *)
(* one follows the # with no slash; and whether it has a slash too many    *)
(* (doubled or at the end).  A segment is [raw, name, id]: its text, that  *)
(* text in lower case, and whether it has the form of a trace id.          *)
(***************************************************************************)
EXTENDS Integers, Sequences

CONSTANT Others  \* the texts that no table has: ids of traces, and what a user may type

SettingsPages == {"account", "users", "roles", "nicks", "quotas", "templates",
                  "billing", "gateway", "backup", "pairing", "theme"}
DefaultSettingsPage == "gateway"
NoPage == "none"

DemoTabs == {"home", "tasks", "friends", "calendar", "gallery"}

\* The tabs that both tables write and read by their own name.
SameName == DemoTabs \cup
  {"heatmap", "chat", "agents", "teams", "sessions", "pending", "contacts", "marketing",
   "channels", "nodes", "workstations", "skills", "tools", "mcp", "tts", "cron", "decision",
   "hooks", "connectors", "memory", "vault", "kg", "storage", "traces", "events", "activity",
   "logs", "tenants", "providers", "apikeys", "packages", "approvals", "impexp", "backup",
   "meetings"}

\* TAB_SEG: the segment of a tab, overview for a tab that has none.
TabSeg(tab) ==
  IF tab \in SameName \cup {"webhooks"} THEN tab
  ELSE IF tab = "decisionFlow" THEN "decision-flow"
  ELSE IF tab = "settings" THEN "config"
  ELSE "overview"

\* SEG_TAB is an object: a segment that names one of its inherited properties is found too.
Inherited == {"constructor", "__proto__"}

NoTab == "no tab"

SegTab(seg) ==
  CASE seg \in SameName \cup Inherited -> seg
    [] seg = "overview" -> "crm"
    [] seg = "config" -> "settings"
    [] seg = "decision-flow" -> "decisionFlow"
    [] seg = "functions" -> "tools"
    [] seg = "webhooks" -> "hooks"
    [] seg = "projects" -> "chat"
    [] seg \in {"agent-team", "agent-link", "agent-setting"} -> "agents"
    [] seg = "api-keys" -> "apikeys"
    [] seg = "import-export" -> "impexp"
    [] seg = "kgraph" -> "kg"
    [] seg = "backup-restore" -> "backup"
    [] OTHER -> NoTab

Words == SameName \cup Inherited \cup SettingsPages \cup
  {"overview", "config", "decision-flow", "functions", "webhooks", "projects", "agent-team",
   "agent-link", "agent-setting", "api-keys", "import-export", "kgraph", "backup-restore", "none"}
Texts == Words \cup Others

Segments == {s \in [raw: Texts, name: Texts, id: BOOLEAN] : s.raw \in Words => s.name = s.raw}
Hashes == [bare: BOOLEAN, segs: Seq(Segments), odd: BOOLEAN]

\* A segment the program writes itself, and the segment of a trace that is not there.
Seg(s) == [raw |-> s, name |-> s, id |-> TRUE]
NoTrace == [raw |-> "none", name |-> "none", id |-> FALSE]
Traces == {s \in Segments : s.id} \cup {NoTrace}

\* The tabs a hash can name: all but functions and webhooks, which are read as others.
Tabs == SameName \cup {"crm", "decisionFlow", "settings"}

TraceIdOf(seg) == IF seg.id THEN seg ELSE NoTrace

\* The hash with these segments.
Hash(segs) == [bare |-> FALSE, segs |-> segs, odd |-> FALSE]

SerializeHash(tab, page, trace, demo) ==
  IF tab = "functions" THEN Hash(<<Seg("tools")>>)
  ELSE IF tab \in DemoTabs /\ ~demo THEN Hash(<<Seg("overview")>>)
  ELSE IF tab = "settings" /\ page \notin {NoPage, DefaultSettingsPage}
       THEN Hash(<<Seg("config"), Seg(page)>>)
  ELSE IF tab = "traces" /\ TraceIdOf(trace) # NoTrace THEN Hash(<<Seg("traces"), trace>>)
  ELSE Hash(<<Seg(TabSeg(tab))>>)

\* hashForTab
HashForTab(tab, page, trace, demo) == SerializeHash(tab, page, trace, demo)

\* parsed and overview
Parsed(tab, page, trace, demo, rewrite, unknown) ==
  [tab |-> tab, page |-> page, trace |-> trace, rewrite |-> rewrite, unknown |-> unknown,
   canonical |-> SerializeHash(tab, page, trace, demo)]
Overview(demo, rewrite, unknown) == Parsed("crm", NoPage, NoTrace, demo, rewrite, unknown)

\* The segment after the first, if there is one.
Second(h) == IF Len(h.segs) > 1 THEN h.segs[2] ELSE NoTrace

\* The form before the slash: everything after "traces/" is the id.
ParseBareTraces(h, demo) ==
  LET id == IF Len(h.segs) = 2 /\ ~h.odd THEN TraceIdOf(h.segs[2]) ELSE NoTrace
  IN  Parsed("traces", NoPage, id, demo, TRUE, FALSE)

ConfigRewrites(h, page) == Len(h.segs) > 1 /\ (Len(h.segs) > 2 \/ page = DefaultSettingsPage)

ParseConfig(h, demo) ==
  LET name == Second(h).name
      page == IF name \in SettingsPages THEN name ELSE DefaultSettingsPage
  IN  Parsed("settings", page, NoTrace, demo, ConfigRewrites(h, page), FALSE)

TracesRewrites(h) == Len(h.segs) > 2 \/ (Len(h.segs) = 2 /\ ~Second(h).id)

ParseTraces(h, demo) ==
  Parsed("traces", NoPage, TraceIdOf(Second(h)), demo, TracesRewrites(h), FALSE)

\* Any other segment: a tab, an old name of one, or none.
OtherRewrites(h, to) == Len(h.segs) > 1 \/ to.segs[1].name # h.segs[1].name

ParseOther(h, demo) ==
  LET tab == SegTab(h.segs[1].name)
      to == SerializeHash(tab, NoPage, NoTrace, demo)
  IN  IF tab = NoTab \/ (tab \in DemoTabs /\ ~demo) THEN Overview(demo, TRUE, TRUE)
      ELSE Parsed(tab, NoPage, NoTrace, demo, OtherRewrites(h, to), FALSE)

ParseHash(h, demo) ==
  IF h.segs = <<>>
  THEN [Overview(demo, FALSE, FALSE) EXCEPT !.canonical = [bare |-> h.bare, segs |-> <<>>, odd |-> FALSE]]
  ELSE LET head == h.segs[1].name
       IN  IF h.bare /\ h.segs[1].raw = "traces" THEN ParseBareTraces(h, demo)
           ELSE IF head = "overview" THEN Overview(demo, Len(h.segs) > 1, Len(h.segs) > 1)
           ELSE IF head = "config" THEN ParseConfig(h, demo)
           ELSE IF head = "traces" THEN ParseTraces(h, demo)
           ELSE IF head = "functions" THEN Parsed("tools", NoPage, NoTrace, demo, TRUE, FALSE)
           ELSE ParseOther(h, demo)

\* The hash names a property that every object has.
NamesInherited(h) == h.segs # <<>> /\ h.segs[1].name \in Inherited
=============================================================================
