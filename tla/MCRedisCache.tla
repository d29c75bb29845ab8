---------------------------- MODULE MCRedisCache ----------------------------
(***************************************************************************)
(* Small instances of RedisCache for TLC.                                  *)
(***************************************************************************)
EXTENDS RedisCache, TLC

\* No definition tells two users, tenants, arrays or sweeps apart.
Symmetric ==
    Permutations(Users) \cup Permutations(Tenants) \cup Permutations(Sweeps)
        \cup Permutations(Perms)
=============================================================================
