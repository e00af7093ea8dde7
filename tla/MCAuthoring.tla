----------------------------- MODULE MCAuthoring -----------------------------
(* Authoring on small instances; the constants are in the .cfg files.       *)
EXTENDS Authoring, TLC

\* Nothing tells two identities of a step, two requests or two additions apart.
Symmetry == Permutations(Steps) \cup Permutations(Requests) \cup Permutations(Adders)

=============================================================================
