----------------------------- MODULE MCAccounts ------------------------------
(***************************************************************************)
(* Accounts and the demonstration data on a small instance. The values of  *)
(* the constants are in the .cfg files.                                    *)
(***************************************************************************)
EXTENDS Seed, TLC

\* People, organizations, requests and names are interchangeable, but for the demonstration's.
Symmetry == Permutations(Users \ Demo) \cup Permutations(Orgs) \cup Permutations(Requests)
            \cup Permutations(Names \ {DemoName})

=============================================================================
