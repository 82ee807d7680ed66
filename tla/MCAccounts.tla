----------------------------- MODULE MCAccounts -----------------------------
(* Two accounts at two providers that share an email address.              *)
EXTENDS Accounts, TLC

CONSTANTS a1, a2, p1, p2, e1

MCProviderOf == a1 :> p1 @@ a2 :> p2
MCEmailOf == a1 :> e1 @@ a2 :> e1

Symmetry == Permutations(KeyIds) \cup Permutations(Secrets) \cup Permutations(Requests)
=============================================================================
