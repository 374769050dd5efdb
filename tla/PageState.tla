----------------------------- MODULE PageState -----------------------------
(***************************************************************************)
(* What a page of the control plane shows for an inventory: a pure         *)
(* classification of how its last load went (api/page-state.ts).  A load   *)
(* is described by a record                                                *)
(*    [loading, loaded, err, count, keepStale]                             *)
(* where err is "none", "denied" (401 or 403) or "fail" (anything else).   *)
(***************************************************************************)
EXTENDS Integers

Errors == {"none", "fail", "denied"}

Loads == [loading: BOOLEAN, loaded: BOOLEAN, err: Errors, count: Nat, keepStale: BOOLEAN]

\* The rows that were loaded before may be shown beside an error.
KeepsStale(p) == p.keepStale /\ p.loaded /\ p.count > 0

\* classifyPageState: the kind, in the order of the returns.
Kind(p) ==
  IF p.loading /\ ~p.loaded THEN "loading"
  ELSE IF p.err = "denied" THEN "permission"
  ELSE IF p.loading THEN "loading"
  ELSE IF p.err # "none" THEN IF KeepsStale(p) THEN "stale" ELSE "error"
  ELSE IF ~p.loaded THEN "error"
  ELSE IF p.count = 0 THEN "empty"
  ELSE "ready"

\* The two flags it returns with the kind.
ShowItems(p) == \/ Kind(p) \in {"stale", "ready"}
                \/ Kind(p) = "loading" /\ p.loaded /\ p.count > 0

ShowEmpty(p) == Kind(p) = "empty"

\* inventoryBlocksMutation
InventoryBlocksMutation(p) == Kind(p) \in {"error", "permission"}

\* listMetaCount: the number of a list, or that no number can be given.
NoCount == -1
ListMetaCount(p, n) ==
  IF Kind(p) \in {"error", "permission"} \/ (Kind(p) = "loading" /\ n = 0) THEN NoCount ELSE n

\* isFilteredEmpty: there are rows and the filter passes none.
IsFilteredEmpty(p, total, visible) == ShowItems(p) /\ total > 0 /\ visible = 0

\* clampPageOffset: the start of the page that holds the offset, or of the last page.
ClampPageOffset(total, offset, size) ==
  IF total = 0 THEN 0
  ELSE IF offset >= total THEN ((total - 1) \div size) * size
  ELSE (offset \div size) * size
=============================================================================
