----------------------------- MODULE MCRecorder -----------------------------
(***************************************************************************)
(* Recorder on a small instance. The values of the constants are in the    *)
(* .cfg files; the runs check liveness, so there is no symmetry.           *)
(***************************************************************************)
EXTENDS Recorder

=============================================================================
