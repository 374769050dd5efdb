--------------------------- MODULE MCConsolePages ---------------------------
(* Two rows; three things happen on a page, or two where a page has many controls. *)
EXTENDS ConsolePages, TLC

CONSTANTS r1, r2

MCInitRows == {{r1}, {r2}, {r1, r2}}
MCSym == Permutations({r1, r2})

Three ==
  {"sessions", "agents", "pairing", "pending", "contacts", "approvals", "nodes", "activity",
   "overview", "metrics", "heatmap", "settings", "memory", "kg", "storage", "impexp", "tools", "tts"}
Two ==
  {"channels", "teams", "traces", "apikeys", "webhooks", "tenants", "vault", "backup", "skills", "cron",
   "connectors", "packages", "workstations", "providers", "marketing"}

MCBudget == [p \in Three \cup Two |-> IF p \in Three THEN 3 ELSE 2]
=============================================================================
