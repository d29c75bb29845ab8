-------------------------- MODULE PermissionClient --------------------------
(***************************************************************************)
(* The cache-first read path of the SDK (permission_client.go) in several  *)
(* processes that share one Redis with Helios, composed from the cache     *)
(* (PermissionCache) and each client's coalescing group (InFlight).        *)
(*                                                                         *)
(* A permission array is what Helios resolved for a key at one moment, so  *)
(* it is modelled by the key and Helios's revision of it: the properties   *)
(* are about which resolution a caller gets, never about its contents.     *)
(*                                                                         *)
(* Helios and Redis are outside the repository. Helios is modelled by what *)
(* the source says it does to the shared cache: after committing a role    *)
(* change it writes through, after a removal it invalidates (cache.go:29,  *)
(* 35). That it finishes one mutation of a key before it begins the next   *)
(* is an assumption: nothing in the repository says so, and with two       *)
(* mutations of a key on their way the commands could be applied in the    *)
(* wrong order. Redis runs commands atomically and may fail one, applied   *)
(* or not.                                                                 *)
(***************************************************************************)
EXTENDS Integers

CONSTANTS Calls,         \* calls of CallerHasPermission, GetUserPermissions, Explain
          Clients,       \* SDK clients, one per process
          Users, Tenants,
          MaxRev,        \* bound on Helios mutations per key
          Disturbances,  \* what may happen besides calls and answered fetches
          FetchTimeout,  \* HeliosClientOptions.FetchTimeout, 0 when not set
          ClientTimeout, \* Timeout of the injected http.Client, NoClient if none
          NoClient, None, Error, ByContract

ASSUME ConstantsDiffer ==
    /\ MaxRev \in Nat
    /\ None \notin Calls /\ None \notin Clients \X (Users \X Tenants)
    /\ None # Error /\ None # ByContract /\ Error # ByContract
    /\ {None, Error, ByContract} \cap [of : Users \X Tenants, rev : Nat] = {}

Keys == Users \X Tenants

Snapshots == [of : Keys, rev : 0..MaxRev]

\* Mutant: a client that is not injected gets no default timeout.
NoDefaultTimeout == FetchTimeout

\* NewHeliosClient: a client it builds itself gets FetchTimeout or 2s; an
\* injected client keeps its own timeout unless FetchTimeout is set.
EffectiveTimeout ==
    IF FetchTimeout > 0 THEN FetchTimeout
    ELSE IF ClientTimeout = NoClient THEN 2 ELSE ClientTimeout

VARIABLES
    store,                                    \* PermissionCache
    waiter, stage, res, slot, joined, got,    \* InFlight
    pc,         \* pc[c]: progress of call c through fetchAndCache
    req,        \* req[c]: the client called and the key asked about
    reply,      \* reply[c]: what the call returned
    answer,     \* answer[c]: Helios's response to the fetch of entry c, on its way
    cancelled,  \* the calls whose context was cancelled
    db,         \* db[k]: Helios's revision of key k
    owed,       \* owed[k]: the cache command Helios has yet to send for key k
    lapsed,     \* history: since k's last write-through its entry was dropped,
                \* or a command for it failed
    purged,     \* history: Helios's revision at the last Invalidate of k
    floor       \* history: the oldest revision call c may return

clientVars == <<pc, req, reply>>
heliosVars == <<db, owed>>
flightVars == <<waiter, stage, res, slot, joined, got>>
vars == <<store, flightVars, clientVars, answer, cancelled, heliosVars,
          lapsed, purged, floor>>

Cache == INSTANCE PermissionCache WITH Values <- Snapshots

Flight == INSTANCE InFlight WITH
    Slots <- Clients \X Keys, Results <- Snapshots \cup {Error}

KeyOf(s) == s[2]

TypeOK ==
    /\ Cache!TypeOK
    /\ Flight!TypeOK
    /\ pc \in [Calls -> {"idle", "lookup", "missed", "flight", "returned"}]
    /\ req \in [Calls -> (Clients \X Keys) \cup {None}]
    /\ reply \in [Calls -> Snapshots \cup {Error, ByContract, None}]
    /\ answer \in [Calls -> Snapshots \cup {None}]
    /\ cancelled \in SUBSET Calls
    /\ db \in [Keys -> 0..MaxRev]
    /\ owed \in [Keys -> {"none", "push", "drop"}]
    /\ lapsed \in [Keys -> BOOLEAN]
    /\ purged \in [Keys -> 0..MaxRev]
    /\ floor \in [Calls -> 0..MaxRev]

Init ==
    /\ Cache!Init
    /\ Flight!Init
    /\ pc = [c \in Calls |-> "idle"]
    /\ req = [c \in Calls |-> None]
    /\ reply = [c \in Calls |-> None]
    /\ answer = [c \in Calls |-> None]
    /\ cancelled = {}
    /\ db = [k \in Keys |-> 0]
    /\ owed = [k \in Keys |-> "none"]
    /\ lapsed = [k \in Keys |-> FALSE]
    /\ purged = [k \in Keys |-> 0]
    /\ floor = [c \in Calls |-> 0]
-----------------------------------------------------------------------------
(***************************************************************************)
(* A call in its caller's goroutine.                                       *)
(***************************************************************************)
\* IsUniversalPerm(perm): answered without the cache and without Helios.
ShortCircuit(c) ==
    /\ pc[c] = "idle"
    /\ pc' = [pc EXCEPT ![c] = "returned"]
    /\ reply' = [reply EXCEPT ![c] = ByContract]
    /\ UNCHANGED <<store, flightVars, req, answer, cancelled, heliosVars,
                   lapsed, purged, floor>>

Begin(c, s) ==
    /\ pc[c] = "idle"
    /\ pc' = [pc EXCEPT ![c] = "lookup"]
    /\ req' = [req EXCEPT ![c] = s]
    /\ floor' = [floor EXCEPT ![c] =
                    IF Cache!Hit(KeyOf(s)) THEN store[KeyOf(s)].rev ELSE 0]
    /\ UNCHANGED <<store, flightVars, reply, answer, cancelled, heliosVars,
                   lapsed, purged>>

\* cache.Get found an entry: return it.
CacheHit(c) ==
    /\ pc[c] = "lookup"
    /\ Cache!Hit(KeyOf(req[c]))
    /\ pc' = [pc EXCEPT ![c] = "returned"]
    /\ reply' = [reply EXCEPT ![c] = store[KeyOf(req[c])]]
    /\ UNCHANGED <<store, flightVars, req, answer, cancelled, heliosVars,
                   lapsed, purged, floor>>

CacheMiss(c) ==
    /\ pc[c] = "lookup"
    /\ ~Cache!Hit(KeyOf(req[c]))
    /\ pc' = [pc EXCEPT ![c] = "missed"]
    /\ UNCHANGED <<store, flightVars, req, reply, answer, cancelled, heliosVars,
                   lapsed, purged, floor>>

\* cache.Get failed or the stored value did not parse: a miss like any other,
\* whatever the cache holds.
CacheGetFails(c) ==
    /\ "redis" \in Disturbances
    /\ pc[c] = "lookup"
    /\ pc' = [pc EXCEPT ![c] = "missed"]
    /\ floor' = [floor EXCEPT ![c] = 0]
    /\ UNCHANGED <<store, flightVars, req, reply, answer, cancelled, heliosVars,
                   lapsed, purged>>

\* Mutant: fetches are coalesced by tenant, the user is not part of the key.
EnterTenantFlight(c) ==
    /\ pc[c] = "missed"
    /\ pc' = [pc EXCEPT ![c] = "flight"]
    /\ \/ \E u \in Users : LET s == <<req[c][1], <<u, req[c][2][2]>>>> IN
               /\ Flight!Join(c, s)
               /\ floor' = [floor EXCEPT ![c] = floor[waiter[s]]]
       \/ /\ Flight!Start(c, req[c])
          /\ floor' = [floor EXCEPT ![c] = db[KeyOf(req[c])]]
    /\ UNCHANGED <<store, req, reply, answer, cancelled, heliosVars,
                   lapsed, purged>>

\* getOrStart: share the fetch of this client and key, or start one. The cache
\* is not read again, however long ago the miss was.
EnterFlight(c) ==
    /\ pc[c] = "missed"
    /\ pc' = [pc EXCEPT ![c] = "flight"]
    /\ \/ /\ Flight!Join(c, req[c])
          /\ floor' = [floor EXCEPT ![c] = floor[waiter[req[c]]]]
       \/ /\ Flight!Start(c, req[c])
          /\ floor' = [floor EXCEPT ![c] = db[KeyOf(req[c])]]
    /\ UNCHANGED <<store, req, reply, answer, cancelled, heliosVars,
                   lapsed, purged>>

\* Mutant: return what the cache holds after the fetch, whoever filled it.
ReturnReadBack(c) ==
    /\ Flight!Receive(c)
    /\ pc' = [pc EXCEPT ![c] = "returned"]
    /\ reply' = [reply EXCEPT ![c] =
                    IF res[joined[c]] # Error /\ Cache!Hit(KeyOf(req[c]))
                    THEN store[KeyOf(req[c])] ELSE res[joined[c]]]
    /\ UNCHANGED <<store, req, answer, cancelled, heliosVars,
                   lapsed, purged, floor>>

\* The channel is closed: return the shared result, also if it is an error and
\* the cache has been filled since; the caller's own context is not consulted.
Return(c) ==
    /\ Flight!Receive(c)
    /\ pc' = [pc EXCEPT ![c] = "returned"]
    /\ reply' = [reply EXCEPT ![c] = res[joined[c]]]
    /\ UNCHANGED <<store, req, answer, cancelled, heliosVars,
                   lapsed, purged, floor>>

CancelContext(c) ==
    /\ "cancel" \in Disturbances
    /\ pc[c] \in {"lookup", "missed", "flight"}
    /\ cancelled' = cancelled \cup {c}
    /\ UNCHANGED <<store, flightVars, clientVars, answer, heliosVars,
                   lapsed, purged, floor>>
-----------------------------------------------------------------------------
(***************************************************************************)
(* The fetch of an entry, in the goroutine of the entry's leader.          *)
(***************************************************************************)
\* Helios resolves the request from its database and answers.
HeliosAnswers(c) ==
    /\ stage[c] = "fetching"
    /\ answer[c] = None
    /\ answer' = [answer EXCEPT ![c] =
                     [of |-> KeyOf(slot[c]), rev |-> db[KeyOf(slot[c])]]]
    /\ UNCHANGED <<store, flightVars, clientVars, cancelled, heliosVars,
                   lapsed, purged, floor>>

\* The answer arrives: Set it in the cache, an empty array when the user is not
\* an active member, and return it. A failed Set is only logged.
FetchAndPopulate(c) ==
    /\ answer[c] # None
    /\ Flight!FetchReturns(c, answer[c])
    /\ \/ Cache!SetNX(KeyOf(slot[c]), answer[c])
       \/ "redis" \in Disturbances /\ UNCHANGED store
    /\ answer' = [answer EXCEPT ![c] = None]
    /\ UNCHANGED <<clientVars, cancelled, heliosVars, lapsed, purged, floor>>

\* Mutant: the outcome of a failed fetch is cached like a resolution.
FetchFailsCached(c) ==
    /\ Flight!FetchReturns(c, Error)
    /\ Cache!SetNX(KeyOf(slot[c]), Error)
    /\ answer' = [answer EXCEPT ![c] = None]
    /\ UNCHANGED <<clientVars, cancelled, heliosVars, lapsed, purged, floor>>

\* FetchUserPermissions returns an error: nothing is cached.
FetchFails(c) ==
    /\ Flight!FetchReturns(c, Error)
    /\ answer' = [answer EXCEPT ![c] = None]
    /\ UNCHANGED <<store, clientVars, cancelled, heliosVars,
                   lapsed, purged, floor>>

\* A refused connection, a non-2xx status, a body that does not parse.
HeliosFails(c) == "helios" \in Disturbances /\ FetchFails(c)

TimesOut(c) == EffectiveTimeout > 0 /\ FetchFails(c)

\* The request carries the context of the call that started the fetch.
LeaderCancelled(c) == c \in cancelled /\ FetchFails(c)

CloseDone(c) ==
    /\ Flight!CloseDone(c)
    /\ UNCHANGED <<store, clientVars, answer, cancelled, heliosVars,
                   lapsed, purged, floor>>

Remove(c) ==
    /\ Flight!Remove(c)
    /\ UNCHANGED <<store, clientVars, answer, cancelled, heliosVars,
                   lapsed, purged, floor>>
-----------------------------------------------------------------------------
(***************************************************************************)
(* Helios, event consumers and Redis.                                      *)
(***************************************************************************)
\* Helios commits a mutation of key k and owes the cache a command for it. It
\* is assumed not to mutate k again until that command was sent: the guard on
\* owed is not in the repository.
Mutate(k, d, command) ==
    /\ d \in Disturbances
    /\ owed[k] = "none"
    /\ db[k] < MaxRev
    /\ db' = [db EXCEPT ![k] = @ + 1]
    /\ owed' = [owed EXCEPT ![k] = command]
    /\ UNCHANGED <<store, flightVars, clientVars, answer, cancelled,
                   lapsed, purged, floor>>

ChangeRole(k) == Mutate(k, "change", "push")

RemoveMember(k) == Mutate(k, "remove", "drop")

Settle(k) == owed' = [owed EXCEPT ![k] = "none"]

\* Client.WriteThrough, by Helios, of the committed value.
WriteThrough(k) ==
    /\ owed[k] = "push"
    /\ Cache!WriteThrough(k, [of |-> k, rev |-> db[k]])
    /\ Settle(k)
    /\ lapsed' = [lapsed EXCEPT ![k] = FALSE]
    /\ UNCHANGED <<flightVars, clientVars, answer, cancelled, db, purged, floor>>

\* What a drop of keys K does to the histories: a call that has not read the
\* cache yet may be answered by a fetch older than the dropped entry.
Lapse(K) ==
    /\ lapsed' = [k \in Keys |-> lapsed[k] \/ k \in K]
    /\ floor' = [c \in Calls |->
                    IF pc[c] = "lookup" /\ KeyOf(req[c]) \in K THEN 0 ELSE floor[c]]

\* Client.Invalidate, owed by Helios or on an event that is delivered again.
Invalidate(k) ==
    /\ owed[k] = "drop" \/ "event" \in Disturbances
    /\ Cache!Drop({k})
    /\ IF owed[k] = "drop" THEN Settle(k) ELSE UNCHANGED owed
    /\ Lapse({k})
    /\ purged' = [purged EXCEPT ![k] = db[k]]
    /\ UNCHANGED <<flightVars, clientVars, answer, cancelled, db>>

\* The Redis command failed: Helios logs it and goes on. An error does not tell
\* whether the command was applied.
CommandFails(k) ==
    /\ "redis" \in Disturbances
    /\ owed[k] # "none"
    /\ \/ UNCHANGED store
       \/ owed[k] = "push" /\ Cache!WriteThrough(k, [of |-> k, rev |-> db[k]])
       \/ owed[k] = "drop" /\ Cache!Drop({k})
    /\ Settle(k)
    /\ Lapse({k})
    /\ UNCHANGED <<flightVars, clientVars, answer, cancelled, db, purged>>

\* Client.InvalidateTenant: the DEL of one batch of the tenant's keys.
InvalidateTenant(t) ==
    /\ "tenant" \in Disturbances
    /\ \E K \in (SUBSET {k \in Keys : k[2] = t /\ Cache!Hit(k)}) \ {{}} :
           Cache!Drop(K) /\ Lapse(K)
    /\ UNCHANGED <<flightVars, clientVars, answer, cancelled, heliosVars, purged>>

\* Redis drops an entry on its own: its TTL ran out, or it was evicted.
Expire(k) ==
    /\ "expire" \in Disturbances
    /\ Cache!Hit(k)
    /\ Cache!Drop({k})
    /\ Lapse({k})
    /\ UNCHANGED <<flightVars, clientVars, answer, cancelled, heliosVars, purged>>
-----------------------------------------------------------------------------
Call(c) ==
    \/ ShortCircuit(c)
    \/ \E s \in Clients \X Keys : Begin(c, s)
    \/ CacheHit(c) \/ CacheMiss(c) \/ CacheGetFails(c)
    \/ EnterFlight(c) \/ Return(c) \/ CancelContext(c)

Fetch(c) ==
    \/ HeliosAnswers(c) \/ FetchAndPopulate(c)
    \/ HeliosFails(c) \/ TimesOut(c) \/ LeaderCancelled(c)
    \/ CloseDone(c) \/ Remove(c)

SharedCache(k) ==
    \/ ChangeRole(k) \/ RemoveMember(k)
    \/ WriteThrough(k) \/ Invalidate(k) \/ CommandFails(k) \/ Expire(k)

Next ==
    \/ \E c \in Calls : Call(c) \/ Fetch(c)
    \/ \E k \in Keys : SharedCache(k)
    \/ \E t \in Tenants : InvalidateTenant(t)

Spec == Init /\ [][Next]_vars

\* Runnable goroutines run, a Redis command returns or fails (go-redis has its
\* own timeouts), and an HTTP timeout that is set fires. Nothing says that
\* Helios answers or that a context is ever cancelled.
Fairness ==
    \A c \in Calls :
        /\ WF_vars(CacheHit(c) \/ CacheMiss(c))
        /\ WF_vars(EnterFlight(c))
        /\ WF_vars(TimesOut(c))
        /\ WF_vars(CloseDone(c))
        /\ WF_vars(Remove(c))
        /\ WF_vars(Return(c))

FairSpec == Spec /\ Fairness
-----------------------------------------------------------------------------
(***************************************************************************)
(* Properties that hold.                                                   *)
(***************************************************************************)
\* A call is answered for the user and tenant it asked about, through the
\* cache, its own fetch or another call's fetch, and the entry of a key is
\* always a resolution of that key (the "user:tenant" keys of
\* permission_client.go:178 and redis_cache.go:183).
AnswersOwnKey ==
    /\ \A k \in Keys : store[k] # None => store[k].of = k
    /\ \A c \in Calls : reply[c] \in Snapshots => reply[c].of = KeyOf(req[c])

\* Write-through keeps the cache exact (README:85-88): once Helios's commands
\* for a key are done, and unless its entry was dropped or a command failed
\* since the last write-through, the entry is Helios's current resolution, no
\* matter how many slow fetches started before the change. It rests on Mutate's
\* assumption about Helios.
Settled(k) == owed[k] = "none" /\ ~lapsed[k]

SettledEntryIsCurrent ==
    \A k \in Keys : Settled(k) /\ store[k] # None => store[k].rev = db[k]

\* No call returns a resolution older than the one cached when it began, or,
\* if it had to fetch, older than the start of the fetch it shares, or one
\* Helios has not made yet. Only a failed Get or a drop of the key between the
\* call's begin and its Get can make it older.
AnswersWithinWindow ==
    \A c \in Calls : reply[c] \in Snapshots =>
        floor[c] <= reply[c].rev /\ reply[c].rev <= db[KeyOf(req[c])]

\* While an entry stays in the cache it only moves forward: no late Set of a
\* slow fetch puts an older resolution over a newer one (Set is NX,
\* redis_cache.go:211-220), and a write-through never does either, as long as
\* Helios makes one mutation of a key at a time (Mutate).
CacheNeverGoesBack ==
    [][\A k \in Keys : store[k] # None /\ store'[k] # None =>
           store'[k].rev >= store[k].rev]_vars

\* Each client's calls keep the behaviour of its coalescing group, so that what
\* holds of InFlight, one fetch at a time per client and key above all, holds in
\* the composed system (permission_client.go:178-180).
Coalesces == Flight!Spec

\* Every call returns although Helios may never answer, contexts may never be
\* cancelled and the leader's goroutine is not the caller's: the fetch timeout
\* releases the whole group (client.go:126-136, permission_client.go:144-158).
EveryCallReturns == \A c \in Calls : pc[c] = "lookup" ~> pc[c] = "returned"
(***************************************************************************)
(* The inductive strengthening of the safety properties.                   *)
(***************************************************************************)
\* A resolution of key k that is neither older than f nor ahead of Helios.
Within(v, k, f) == v.of = k /\ f <= v.rev /\ v.rev <= db[k]

\* Where a call is in fetchAndCache says which of its records are set; a call
\* in the group inherited the floor of the fetch it waits for.
CallsInOrder ==
    \A c \in Calls :
        /\ pc[c] \in {"lookup", "missed", "flight"} => req[c] \in Clients \X Keys
        /\ pc[c] \in {"idle", "lookup", "missed"} => joined[c] = None
        /\ pc[c] # "returned" => reply[c] = None
        /\ joined[c] # None => slot[c] = req[c] /\ floor[c] = floor[joined[c]]

\* What a fetch has in hand, or has stored in its entry, is its key's, and not
\* older than the fetch.
FetchesWithinWindow ==
    \A c \in Calls :
        /\ answer[c] # None =>
               stage[c] = "fetching" /\ Within(answer[c], KeyOf(slot[c]), floor[c])
        /\ res[c] \in Snapshots => Within(res[c], KeyOf(slot[c]), floor[c])
        /\ stage[c] # "none" => floor[c] <= db[KeyOf(slot[c])]

\* An absent entry of a settled key means that nothing was ever changed, so
\* that a slow fetch that fills it cannot be stale.
CacheConsistent ==
    \A k \in Keys :
        /\ store[k] # None => Within(store[k], k, 0)
        /\ Settled(k) => IF store[k] # None THEN store[k].rev = db[k] ELSE db[k] = 0

\* Until its Get, a call still finds what the cache held when it began.
LookupFindsFloor ==
    \A c \in Calls : pc[c] = "lookup" /\ floor[c] # 0 =>
        store[KeyOf(req[c])] # None /\ floor[c] <= store[KeyOf(req[c])].rev

RepliesWithinWindow ==
    \A c \in Calls : reply[c] \in Snapshots =>
        req[c] \in Clients \X Keys /\ Within(reply[c], KeyOf(req[c]), floor[c])

IInv ==
    /\ TypeOK
    /\ Flight!IInv
    /\ CallsInOrder
    /\ FetchesWithinWindow
    /\ CacheConsistent
    /\ LookupFindsFloor
    /\ RepliesWithinWindow
-----------------------------------------------------------------------------
(***************************************************************************)
(* Claims of comments and documents that the code does not keep.           *)
(***************************************************************************)
\* redis_cache.go:213-214: NX keeps a slow read from resurrecting a value that
\* was invalidated after the read started. An entry is then never older than
\* the last Invalidate of its key.
NoResurrection ==
    \A k \in Keys : store[k] # None => store[k].rev >= purged[k]

\* HANDOFF.md:101 and permission_client_test.go:364-366: any number of
\* concurrent calls for one key make at most two upstream fetches. Stated for
\* a single key that nobody drops and fetches that do not fail, so that only
\* calls that had all missed before the first Set can fetch again.
FetchesStarted == {c \in Calls : stage[c] # "none"}

AtMostTwoFetches ==
    \A a, b, c \in FetchesStarted : a = b \/ b = c \/ a = c

\* permission_client.go:43-44: "On Helios unreachable: returns cached value if
\* present and StaleOnError is true, else returns the underlying error". It is
\* true by default (factory.go:64-66), so no fetch gives its callers an error
\* when the cache has an entry of the key: what the fetch leaves in res is what
\* each of them returns (Return), and none of them reads the cache again.
StaleOnErrorServed ==
    [][\A c \in Calls : res[c] # Error /\ res'[c] = Error =>
           ~Cache!Hit(KeyOf(slot[c]))]_vars
=============================================================================
