------------------------------ MODULE InFlight ------------------------------
(***************************************************************************)
(* The coalescing group of one permissionClient, inFlight.getOrStart       *)
(* (permission_client.go:121-160).                                         *)
(*                                                                         *)
(* A call is one invocation of getOrStart. The call that finds no entry    *)
(* for its key creates one, registers it in the map and spawns a goroutine *)
(* that runs the fetch, stores the result in the entry, closes the entry's *)
(* channel and only then, in a second critical section, deletes the entry. *)
(* Each call creates at most one entry, so an entry is named by the call   *)
(* that created it, its leader.                                            *)
(*                                                                         *)
(* A slot is a key of one client's map; several clients (processes) are    *)
(* several slots for one key string. Everything between i.mu.Lock and      *)
(* i.mu.Unlock is one action: the map is touched only under the mutex.     *)
(***************************************************************************)
CONSTANTS Calls,    \* invocations of getOrStart, by any goroutine
          Slots,    \* the keys of the waiter maps
          Results,  \* what fetch() returns: permissions, or an error
          None      \* Go's nil: no entry, no result

ASSUME NoneIsNoValue ==
    None \notin Calls /\ None \notin Slots /\ None \notin Results

VARIABLES waiter,   \* i.waiter: the registered entry of each slot
          stage,    \* stage[c]: progress of the goroutine of entry c
          res,      \* res[c]: e.res and e.err of entry c
          slot,     \* slot[c]: the key argument of call c
          joined,   \* joined[c]: the entry whose done channel c receives on
          got       \* got[c]: what getOrStart returned to call c

vars == <<waiter, stage, res, slot, joined, got>>

\* "none": c created no entry; "fetching": fetch() is running; "fetched": e.res
\* and e.err are set; "closed": e.done is closed; "removed": the goroutine ended.
Stages == {"none", "fetching", "fetched", "closed", "removed"}

TypeOK ==
    /\ waiter \in [Slots -> Calls \cup {None}]
    /\ stage \in [Calls -> Stages]
    /\ res \in [Calls -> Results \cup {None}]
    /\ slot \in [Calls -> Slots \cup {None}]
    /\ joined \in [Calls -> Calls \cup {None}]
    /\ got \in [Calls -> Results \cup {None}]

Init ==
    /\ waiter = [s \in Slots |-> None]
    /\ stage = [c \in Calls |-> "none"]
    /\ res = [c \in Calls |-> None]
    /\ slot = [c \in Calls |-> None]
    /\ joined = [c \in Calls |-> None]
    /\ got = [c \in Calls |-> None]

\* Mutant: wait on any registered entry.
JoinAny(c, s) ==
    /\ joined[c] = None
    /\ \E t \in Slots :
           waiter[t] # None /\ joined' = [joined EXCEPT ![c] = waiter[t]]
    /\ slot' = [slot EXCEPT ![c] = s]
    /\ UNCHANGED <<waiter, stage, res, got>>

\* The map has an entry for the key: wait on its channel.
Join(c, s) ==
    /\ joined[c] = None
    /\ waiter[s] # None
    /\ joined' = [joined EXCEPT ![c] = waiter[s]]
    /\ slot' = [slot EXCEPT ![c] = s]
    /\ UNCHANGED <<waiter, stage, res, got>>

\* Mutant: the lookup and the registration are two critical sections.
StartUnchecked(c, s) ==
    /\ joined[c] = None
    /\ waiter' = [waiter EXCEPT ![s] = c]
    /\ stage' = [stage EXCEPT ![c] = "fetching"]
    /\ joined' = [joined EXCEPT ![c] = c]
    /\ slot' = [slot EXCEPT ![c] = s]
    /\ UNCHANGED <<res, got>>

\* Mutant: the new entry is not registered.
StartUnregistered(c, s) ==
    /\ joined[c] = None
    /\ waiter[s] = None
    /\ stage' = [stage EXCEPT ![c] = "fetching"]
    /\ joined' = [joined EXCEPT ![c] = c]
    /\ slot' = [slot EXCEPT ![c] = s]
    /\ UNCHANGED <<waiter, res, got>>

\* No entry for the key: register a new one and spawn its goroutine.
Start(c, s) ==
    /\ joined[c] = None
    /\ waiter[s] = None
    /\ waiter' = [waiter EXCEPT ![s] = c]
    /\ stage' = [stage EXCEPT ![c] = "fetching"]
    /\ joined' = [joined EXCEPT ![c] = c]
    /\ slot' = [slot EXCEPT ![c] = s]
    /\ UNCHANGED <<res, got>>

\* Mutant: the entry itself is stored in place of its result.
FetchReturnsEntry(c, r) ==
    /\ stage[c] = "fetching"
    /\ res' = [res EXCEPT ![c] = c]
    /\ stage' = [stage EXCEPT ![c] = "fetched"]
    /\ UNCHANGED <<waiter, slot, joined, got>>

\* e.res, e.err = fetch()
FetchReturns(c, r) ==
    /\ stage[c] = "fetching"
    /\ res' = [res EXCEPT ![c] = r]
    /\ stage' = [stage EXCEPT ![c] = "fetched"]
    /\ UNCHANGED <<waiter, slot, joined, got>>

\* Mutant: the channel is closed only when another call waits on it.
CloseForFollowers(c) ==
    /\ stage[c] = "fetched"
    /\ \E d \in Calls \ {c} : joined[d] = c
    /\ stage' = [stage EXCEPT ![c] = "closed"]
    /\ UNCHANGED <<waiter, res, slot, joined, got>>

\* close(e.done)
CloseDone(c) ==
    /\ stage[c] = "fetched"
    /\ stage' = [stage EXCEPT ![c] = "closed"]
    /\ UNCHANGED <<waiter, res, slot, joined, got>>

\* Mutant: the goroutine ends without deleting the entry.
RemoveForgotten(c) ==
    /\ stage[c] = "closed"
    /\ stage' = [stage EXCEPT ![c] = "removed"]
    /\ UNCHANGED <<waiter, res, slot, joined, got>>

\* delete(i.waiter, key), under the mutex; the goroutine ends.
Remove(c) ==
    /\ stage[c] = "closed"
    /\ waiter' = [waiter EXCEPT ![slot[c]] = None]
    /\ stage' = [stage EXCEPT ![c] = "removed"]
    /\ UNCHANGED <<res, slot, joined, got>>

\* A closed channel never blocks a receive, however late it is.
DoneClosed(e) == stage[e] \in {"closed", "removed"}

\* Mutant: the result is read as soon as it is stored.
ReceiveUnsynchronised(c) ==
    /\ joined[c] # None
    /\ got[c] = None
    /\ stage[joined[c]] \in {"fetched", "closed", "removed"}
    /\ got' = [got EXCEPT ![c] = res[joined[c]]]
    /\ UNCHANGED <<waiter, stage, res, slot, joined>>

\* Mutant: the entry is looked up again after the channel was closed.
ReceiveFromMap(c) ==
    /\ joined[c] # None
    /\ got[c] = None
    /\ DoneClosed(joined[c])
    /\ LET e == IF waiter[slot[c]] # None THEN waiter[slot[c]] ELSE joined[c]
       IN  got' = [got EXCEPT ![c] = res[e]]
    /\ UNCHANGED <<waiter, stage, res, slot, joined>>

\* <-e.done; return e.res, e.err
Receive(c) ==
    /\ joined[c] # None
    /\ got[c] = None
    /\ DoneClosed(joined[c])
    /\ got' = [got EXCEPT ![c] = res[joined[c]]]
    /\ UNCHANGED <<waiter, stage, res, slot, joined>>

Next ==
    \/ \E c \in Calls, s \in Slots : Join(c, s) \/ Start(c, s)
    \/ \E c \in Calls, r \in Results : FetchReturns(c, r)
    \/ \E c \in Calls : CloseDone(c) \/ Remove(c) \/ Receive(c)

Spec == Init /\ [][Next]_vars

\* The Go scheduler runs every runnable goroutine. That fetch() returns is an
\* assumption on its argument; PermissionClient discharges it from a timeout.
Fairness ==
    \A c \in Calls :
        /\ WF_vars(\E r \in Results : FetchReturns(c, r))
        /\ WF_vars(CloseDone(c))
        /\ WF_vars(Remove(c))
        /\ WF_vars(Receive(c))

FairSpec == Spec /\ Fairness
-----------------------------------------------------------------------------
(***************************************************************************)
(* Properties.                                                             *)
(***************************************************************************)
\* The goroutine of entry c has not yet deleted it from the map.
Live(c) == stage[c] \in {"fetching", "fetched", "closed"}

\* At most one fetch at a time per slot: two live entries of one slot are the
\* same entry, although the lookup, the fetch and the delete are separate
\* steps of many goroutines (getOrStart's coalescing, lines 121-124).
OneFlightPerSlot ==
    \A c, d \in Calls : Live(c) /\ Live(d) /\ slot[c] = slot[d] => c = d

\* The map and the live goroutines agree, so a goroutine that deletes by key
\* (line 155) deletes its own entry and never one registered after it.
MapHoldsLiveEntries ==
    /\ \A c \in Calls : Live(c) => waiter[slot[c]] = c
    /\ \A s \in Slots : waiter[s] # None =>
           Live(waiter[s]) /\ slot[waiter[s]] = s

\* A call only ever returns the result of a fetch made for its own key, and
\* only after that result was stored (lines 144-145 and 158-159).
OwnKeyResult ==
    \A c \in Calls : got[c] # None =>
        /\ slot[joined[c]] = slot[c]
        /\ got[c] = res[joined[c]]

\* No call is left blocked on a channel nobody closes, and no entry is left
\* in the map: every call that joined returns, every slot is freed again.
EveryCallerReleased ==
    \A c \in Calls : joined[c] # None ~> got[c] # None

SlotsFreed == \A s \in Slots : waiter[s] # None ~> waiter[s] = None

\* Strengthening under which the safety properties are inductive: only a call
\* that called getOrStart has an entry, a key or a result, and the entry a call
\* waits on was created for the same key.
CallRecordsConsistent ==
    /\ \A c \in Calls : joined[c] = None => stage[c] = "none" /\ got[c] = None
    /\ \A c \in Calls : joined[c] # None =>
           /\ slot[c] \in Slots
           /\ slot[joined[c]] = slot[c]
           /\ stage[joined[c]] # "none"
           /\ joined[joined[c]] = joined[c]
    /\ \A c \in Calls : stage[c] # "none" => joined[c] = c
    /\ \A c \in Calls : stage[c] \in {"fetched", "closed", "removed"} <=>
           res[c] # None

\* A call that returned did so from a closed channel, with the entry's result.
ReturnedFromClosed ==
    \A c \in Calls : got[c] # None =>
        DoneClosed(joined[c]) /\ got[c] = res[joined[c]]

IInv ==
    /\ TypeOK
    /\ MapHoldsLiveEntries
    /\ CallRecordsConsistent
    /\ ReturnedFromClosed
-----------------------------------------------------------------------------
(***************************************************************************)
(* Refinement of SharedFetch. A round is current while its entry is        *)
(* registered, its members are the calls blocked on a channel that is not  *)
(* closed yet, and closing the channel is the announcement.                *)
(***************************************************************************)
Blocked(c) == joined[c] # None /\ ~DoneClosed(joined[c])

RoundMembers == [s \in Slots |-> {c \in Calls : Blocked(c) /\ slot[c] = s}]

RoundRunning == [s \in Slots |-> waiter[s] # None]

RoundVerdict == [s \in Slots |->
    IF waiter[s] # None /\ stage[waiter[s]] = "closed"
    THEN res[waiter[s]] ELSE None]

ResultDue == [c \in Calls |->
    IF joined[c] # None /\ DoneClosed(joined[c]) THEN res[joined[c]] ELSE None]

Abstract == INSTANCE SharedFetch WITH
    members <- RoundMembers, running <- RoundRunning,
    verdict <- RoundVerdict, due <- ResultDue, got <- got

\* getOrStart keeps the promise of SharedFetch: one fetch per round, the same
\* result for every call of the round, no result from an ended round.
RefinesSharedFetch == Abstract!Spec
=============================================================================
