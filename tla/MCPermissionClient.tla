------------------------- MODULE MCPermissionClient -------------------------
(***************************************************************************)
(* Small instances of PermissionClient for TLC.                            *)
(***************************************************************************)
EXTENDS PermissionClient, TLC

\* No definition tells two calls, clients, users or tenants apart. Used by
\* the runs without liveness properties only.
Symmetric ==
    Permutations(Calls) \cup Permutations(Clients)
        \cup Permutations(Users) \cup Permutations(Tenants)
=============================================================================
