------------------------------ MODULE MCSession ------------------------------
(***************************************************************************)
(* Session on a small instance. The values of the constants are in the     *)
(* .cfg files.                                                             *)
(***************************************************************************)
EXTENDS Session, TLC

\* Tabs are interchangeable, and so are the calls of a tab.
Symmetry == Permutations(Tabs) \cup Permutations(Calls)

=============================================================================
