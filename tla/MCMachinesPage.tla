--------------------------- MODULE MCMachinesPage ---------------------------
(* One machine of a user who comes back from a provider, and one of the dev  *)
(* user.                                                                     *)
EXTENDS MachinesPage, TLC

CONSTANTS u1, dev, m1, m2

OneEach == m1 :> u1 @@ m2 :> dev
=============================================================================
