------------------------------ MODULE MCEnroll ------------------------------
(* Hosts, keys, names and runs are interchangeable, and only safety is checked. *)
EXTENDS Enroll, TLC

Symmetry ==
    Permutations(Hosts) \cup Permutations(Keys) \cup Permutations(Names)
        \cup Permutations(Runs) \cup Permutations(Accounts) \cup Permutations(Logins)
=============================================================================
