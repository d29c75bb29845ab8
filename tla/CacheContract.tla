----------------------------- MODULE CacheContract -----------------------------
(***************************************************************************)
(* What a cache with atomic operations promises its callers: the commands  *)
(* of PermissionCache on a map from users and tenants to arrays. Arrays are*)
(* values: what a caller does with a slice it passed in or got back has no *)
(* effect on the map, nor the other way round.                             *)
(***************************************************************************)
CONSTANTS Callers, Users, Tenants,
          Arrays,  \* permission arrays, the empty one included
          Empty,   \* the empty array
          Nil      \* no entry; a nil slice

VARIABLES store,  \* store[k]: the cached array of key k, or Nil
          slice   \* slice[c]: the slice that caller c works with

Keys == Users \X Tenants

Cache == INSTANCE PermissionCache WITH Values <- Arrays, None <- Nil

Init == Cache!Init /\ slice = [c \in Callers |-> Nil]

\* What may be kept of a slice. A nil slice is no array: an implementation keeps
\* the empty array or nothing that can be read.
Kept(s) == IF s = Nil THEN {Empty, Nil} ELSE {s}

Get(c, k) ==
    /\ slice' = [slice EXCEPT ![c] = store[k]]
    /\ UNCHANGED store

Set(c, k) == \E v \in Kept(slice[c]) : Cache!SetNX(k, v) /\ UNCHANGED slice

WriteThrough(c, k) ==
    \E v \in Kept(slice[c]) : Cache!WriteThrough(k, v) /\ UNCHANGED slice

Invalidate(k) == Cache!Drop({k}) /\ UNCHANGED slice

InvalidateTenant(t) == Cache!Drop({k \in Keys : k[2] = t}) /\ UNCHANGED slice

\* A caller makes, changes or forgets a slice of its own.
Use(c) ==
    /\ \E s \in Arrays \cup {Nil} : slice' = [slice EXCEPT ![c] = s]
    /\ UNCHANGED store

Next ==
    \/ \E c \in Callers : Use(c) \/ \E k \in Keys : Get(c, k) \/ Set(c, k) \/ WriteThrough(c, k)
    \/ \E k \in Keys : Invalidate(k)
    \/ \E t \in Tenants : InvalidateTenant(t)

Spec == Init /\ [][Next]_<<store, slice>>
=============================================================================
