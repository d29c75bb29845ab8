------------------------------ MODULE SweptCache ------------------------------
(***************************************************************************)
(* What a cache promises whose InvalidateTenant is not atomic (cache.go:39-*)
(* 41): the commands of PermissionCache, and sweeps that drop entries of   *)
(* their tenant bit by bit while every other command runs. A sweep may fail*)
(* at any moment; it may succeed only when it owes nothing: each entry that*)
(* the tenant had when it began has been dropped or overwritten since. How *)
(* it finds the entries is not said here.                                  *)
(***************************************************************************)
CONSTANTS Users, Tenants,
          Values,  \* what may be under a key
          None,    \* no entry
          Sweeps   \* calls of InvalidateTenant

VARIABLES store,   \* store[k]: the value under key k, or None
          status,  \* status[i]: progress of call i
          tenant,  \* tenant[i]: its argument
          owed     \* owed[i]: the keys with an entry from before the call

Keys == Users \X Tenants

Cache == INSTANCE PermissionCache

Init ==
    /\ Cache!Init
    /\ status = [i \in Sweeps |-> "idle"]
    /\ tenant \in [Sweeps -> Tenants]
    /\ owed = [i \in Sweeps |-> {}]

\* The entries of K are not from before any call.
Pay(K) == owed' = [i \in Sweeps |-> owed[i] \ K]

\* An entry that is there is kept, and owed as before.
Set(k, v) ==
    /\ Cache!SetNX(k, v) /\ UNCHANGED <<status, tenant>>
    /\ IF Cache!Hit(k) THEN UNCHANGED owed ELSE Pay({k})

WriteThrough(k, v) == Cache!WriteThrough(k, v) /\ Pay({k}) /\ UNCHANGED <<status, tenant>>

\* Invalidate, or an expiry.
Invalidate(k) == Cache!Drop({k}) /\ Pay({k}) /\ UNCHANGED <<status, tenant>>

InvalidateTenant(i) ==
    /\ status[i] = "idle"
    /\ status' = [status EXCEPT ![i] = "running"]
    /\ owed' = [owed EXCEPT ![i] = {k \in Keys : Cache!Hit(k) /\ k[2] = tenant[i]}]
    /\ UNCHANGED <<store, tenant>>

\* One command of a sweep, after which the call may have returned.
Sweep(i) ==
    /\ status[i] = "running"
    /\ \E K \in SUBSET {k \in Keys : k[2] = tenant[i]} : Cache!Drop(K) /\ Pay(K)
    /\ \E next \in {"running", "done", "failed"} :
           /\ next = "done" => owed'[i] = {}
           /\ status' = [status EXCEPT ![i] = next]
    /\ UNCHANGED tenant

Next ==
    \/ \E k \in Keys : Invalidate(k) \/ \E v \in Values : Set(k, v) \/ WriteThrough(k, v)
    \/ \E i \in Sweeps : InvalidateTenant(i) \/ Sweep(i)

Spec == Init /\ [][Next]_<<store, status, tenant, owed>>
=============================================================================
