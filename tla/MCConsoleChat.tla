---------------------------- MODULE MCConsoleChat ----------------------------
(***************************************************************************)
(* Two sessions, and three uses of the controls or troubles in all.        *)
(***************************************************************************)
EXTENDS ConsoleChat

CONSTANTS a, b

MCSessions == {a, b}
MCSym == Permutations(MCSessions)
=============================================================================
