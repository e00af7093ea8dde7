----------------------------- MODULE MCExecution -----------------------------
(***************************************************************************)
(* Execution on small instances. The values of the constants, the          *)
(* environments first, are in the .cfg files: each environment is a set of *)
(* faults that some of the properties claim to survive.                    *)
(***************************************************************************)
EXTENDS Execution, TLC

\* Tests are interchangeable, and so are executions and worker processes.
Symmetry == Permutations(Executions) \cup Permutations(Tests) \cup Permutations(Workers)

=============================================================================
