------------------------------- MODULE CacheKeys -------------------------------
(***************************************************************************)
(* How both caches address entries: one flat string for a user and a tenant*)
(* (in_memory_cache.go, redis_cache.go). A tenant is found again by a      *)
(* suffix test in the map and by a glob pattern in Redis.                  *)
(***************************************************************************)
EXTENDS Integers, Sequences

CONSTANTS Chars, Colon,
          Users, Tenants,  \* ids as character sequences
          KeyPrefix

\* The ids are uuids in the documents and tests. Nothing in the code keeps an
\* id with a ":" out, for which keys of two tenants coincide.
ASSUME IdsHaveNoColon ==
    /\ Colon \in Chars /\ KeyPrefix \in Seq(Chars)
    /\ Users \subseteq Seq(Chars \ {Colon})
    /\ Tenants \subseteq Seq(Chars \ {Colon})

memKey(u, t) == u \o <<Colon>> \o t

MemKeys == {memKey(u, t) : u \in Users, t \in Tenants}

endsWith(s, suffix) ==
    /\ Len(suffix) <= Len(s)
    /\ SubSeq(s, Len(s) - Len(suffix) + 1, Len(s)) = suffix

\* Mutant: the suffix is the tenant alone.
OfTenantUnseparated(k, t) == endsWith(k, t)

\* The entries that InvalidateTenant drops.
OfTenant(k, t) == endsWith(k, <<Colon>> \o t)

\* The same in Redis: key, and the pattern prefix*:t for an id without
\* wildcards.
RedisKey(u, t) == KeyPrefix \o memKey(u, t)

tenantPattern(k, t) ==
    /\ Len(KeyPrefix) + 1 + Len(t) <= Len(k)
    /\ SubSeq(k, 1, Len(KeyPrefix)) = KeyPrefix
    /\ endsWith(k, <<Colon>> \o t)
=============================================================================
