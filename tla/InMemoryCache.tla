----------------------------- MODULE InMemoryCache -----------------------------
(***************************************************************************)
(* InMemoryPermissionCache (in_memory_cache.go). Every operation is one    *)
(* critical section of the RWMutex, so an action. What a lock does not     *)
(* cover is the memory behind the slices that operations take and return:  *)
(* slices are addresses of backing arrays, and a caller may write to an    *)
(* array it has the address of at any time.                                *)
(***************************************************************************)
EXTENDS CacheKeys

CONSTANTS Callers,
          Perms,    \* permissions; arrays of at most one are enough to tell
                    \* a write to an array
          Addrs,    \* addresses of backing arrays
          Nil       \* Go's nil slice

ASSUME NilIsNoAddr == Nil \notin Addrs

VARIABLES
    store,  \* the map, from keys to the addresses of arrays
    heap,   \* heap[a]: the array at address a
    held    \* held[c]: the slice that caller c works with

vars == <<store, heap, held>>

Arrays == {<<>>} \cup {<<p>> : p \in Perms}

TypeOK ==
    /\ DOMAIN store \subseteq MemKeys
    /\ \A k \in DOMAIN store : store[k] \in Addrs
    /\ heap \in [Addrs -> Arrays]
    /\ held \in [Callers -> Addrs \cup {Nil}]

Init ==
    /\ store = [k \in {} |-> Nil]
    /\ heap = [a \in Addrs |-> <<>>]
    /\ held = [c \in Callers |-> Nil]

\* make and append to an empty slice return an array nobody else has.
InUse == {store[k] : k \in DOMAIN store} \cup {held[c] : c \in Callers}

Fresh == CHOOSE a \in Addrs : a \notin InUse

\* Memory does not run out: Addrs is larger than what can be in use at once.
Allocate(array) ==
    /\ ~(Addrs \subseteq InUse)
    /\ heap' = [heap EXCEPT ![Fresh] = array]

\* Mutant: the copy of a nil slice is nil.
ContentsOrNil(s) == IF s = Nil THEN Nil ELSE heap[s]

Contents(s) == IF s = Nil THEN <<>> ELSE heap[s]

Put(k, a) == [x \in DOMAIN store \cup {k} |-> IF x = k THEN a ELSE store[x]]
-----------------------------------------------------------------------------
\* Mutant: the caller gets the array of the map.
GetShared(c, u, t) ==
    /\ held' = [held EXCEPT ![c] = IF memKey(u, t) \in DOMAIN store
                                   THEN store[memKey(u, t)] ELSE Nil]
    /\ UNCHANGED <<store, heap>>

\* Get: a copy of the array, also of an empty one, or nil.
Get(c, u, t) ==
    LET k == memKey(u, t)
    IN  \/ /\ k \in DOMAIN store
           /\ Allocate(heap[store[k]])
           /\ held' = [held EXCEPT ![c] = Fresh]
           /\ UNCHANGED store
        \/ /\ k \notin DOMAIN store
           /\ held' = [held EXCEPT ![c] = Nil]
           /\ UNCHANGED <<store, heap>>

\* A copy of slice s under key k. That of a nil slice is empty and not nil.
StoreCopy(k, s) ==
    /\ Allocate(Contents(s))
    /\ store' = Put(k, Fresh)
    /\ UNCHANGED held

\* Set: stores nothing over what is there.
Set(c, u, t) ==
    IF memKey(u, t) \in DOMAIN store THEN UNCHANGED vars
    ELSE StoreCopy(memKey(u, t), held[c])

WriteThrough(c, u, t) == StoreCopy(memKey(u, t), held[c])

Delete(K) ==
    /\ store' = [k \in DOMAIN store \ K |-> store[k]]
    /\ UNCHANGED <<heap, held>>

Invalidate(u, t) == Delete({memKey(u, t)})

InvalidateTenant(t) == Delete({k \in DOMAIN store : OfTenant(k, t)})

\* The program around the cache: a new slice, or a write through one it has.
NewSlice(c, array) ==
    /\ Allocate(array)
    /\ held' = [held EXCEPT ![c] = Fresh]
    /\ UNCHANGED store

WriteToSlice(c, p) ==
    /\ held[c] # Nil /\ heap[held[c]] # <<>>
    /\ heap' = [heap EXCEPT ![held[c]] = <<p>>]
    /\ UNCHANGED <<store, held>>

Call(c, u, t) == Get(c, u, t) \/ Set(c, u, t) \/ WriteThrough(c, u, t)

Next ==
    \/ \E c \in Callers, u \in Users, t \in Tenants : Call(c, u, t)
    \/ \E u \in Users, t \in Tenants : Invalidate(u, t)
    \/ \E t \in Tenants : InvalidateTenant(t)
    \/ \E c \in Callers, array \in Arrays : NewSlice(c, array)
    \/ \E c \in Callers, p \in Perms : WriteToSlice(c, p)

Spec == Init /\ [][Next]_vars
-----------------------------------------------------------------------------
(***************************************************************************)
(* Properties.                                                             *)
(***************************************************************************)
View == [k \in Users \X Tenants |->
            IF memKey(k[1], k[2]) \in DOMAIN store
            THEN heap[store[memKey(k[1], k[2])]] ELSE Nil]

Contract == INSTANCE CacheContract WITH
    Empty <- <<>>, store <- View,
    slice <- [c \in Callers |-> IF held[c] = Nil THEN Nil ELSE heap[held[c]]]

\* The cache keeps what the interface says, with arrays as values: no write to a
\* slice that was passed in or returned reaches an entry, and no operation on
\* one key, or on one tenant, reaches another's (in_memory_cache.go:36-39, 51,
\* 59, 79-81).
RefinesContract == Contract!Spec

\* No array has two owners, neither two entries nor an entry and a caller, so
\* that no write to a slice is seen through another (in_memory_cache.go:36).
NoAliasing ==
    /\ \A k, l \in DOMAIN store : store[k] = store[l] => k = l
    /\ \A k \in DOMAIN store, c \in Callers : store[k] # held[c]
    /\ \A c, d \in Callers : held[c] = held[d] /\ held[c] # Nil => c = d
=============================================================================
