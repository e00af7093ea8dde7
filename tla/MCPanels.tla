------------------------------ MODULE MCPanels -------------------------------
(***************************************************************************)
(* Panels on a small instance. The values of the constants are in the .cfg *)
(* files.                                                                  *)
(***************************************************************************)
EXTENDS Panels, TLC

\* Rows, scopes and calls are interchangeable.
Symmetry == Permutations(Rows) \cup Permutations(Scopes) \cup Permutations(Calls)

=============================================================================
