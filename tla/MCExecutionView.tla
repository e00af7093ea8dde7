--------------------------- MODULE MCExecutionView ---------------------------
(* ExecutionView on small instances; the constants are in the .cfg files.   *)
EXTENDS ExecutionView, TLC

=============================================================================
