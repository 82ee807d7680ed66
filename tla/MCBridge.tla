------------------------------- MODULE MCBridge -------------------------------
(* One machine, users of its tenant and of another one.                      *)
EXTENDS Bridge

CONSTANTS owner   \* the tenant the machine is enrolled under

MCTenantOf == [m \in Machines |-> owner]
=============================================================================
