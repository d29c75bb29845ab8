-------------------------- MODULE PermissionCache --------------------------
(***************************************************************************)
(* The PermissionCache interface (cache.go:19-42) as what one command does *)
(* to the shared store. Each operator is one atomic command of the backing *)
(* store: a Redis command (redis_cache.go), or a critical section of the   *)
(* in-memory map (in_memory_cache.go). Callers say when a command runs.    *)
(*                                                                         *)
(* InvalidateTenant is several commands in Redis, a SCAN and a DEL for     *)
(* each batch of keys, so what it does in one step is to drop a batch.     *)
(***************************************************************************)
CONSTANTS Keys,    \* (userId, tenantId) pairs, the store's keys
          Values,  \* cached permission arrays
          None     \* no entry

VARIABLE store     \* store[k]: the cached value of key k, or None

TypeOK == store \in [Keys -> Values \cup {None}]

Init == store = [k \in Keys |-> None]

\* Get: a nil result is a miss. An empty array is a value, not a miss.
Hit(k) == store[k] # None

\* Mutant: Set without NX.
SetAlways(k, v) == store' = [store EXCEPT ![k] = v]

\* Set: SETNX, or the existence test under the write lock.
SetNX(k, v) == store' = IF Hit(k) THEN store ELSE [store EXCEPT ![k] = v]

\* WriteThrough: an explicit overwrite.
WriteThrough(k, v) == store' = [store EXCEPT ![k] = v]

\* One DEL of a set of keys: Invalidate of one, a batch of InvalidateTenant.
Drop(K) == store' = [k \in Keys |-> IF k \in K THEN None ELSE store[k]]
=============================================================================
