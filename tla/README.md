# helios-permissions-go: specification and proofs

The Go SDK answers "may this user do this in this tenant?" from a Redis that it
shares with Helios, and asks Helios over HTTP when Redis has no entry. These
modules model that read path with everything that races with it, both caches,
the factory that wires them and the generator that writes their tables, check
them on small instances with TLC, and prove the main results for every instance
with TLAPS. Paths below are relative to `src/helios_permissions/` unless they start
otherwise.

## 1. Inventory

| Component | Source | State | Operations | Status |
|---|---|---|---|---|
| In-flight coalescing | `permission_client.go:121-160` | `waiter` map under a mutex; per entry a `done` channel, `res`, `err` | `getOrStart`, the fetch goroutine | modelled, proved |
| PermissionClient facade | `permission_client.go` | none of its own beyond the two above | `CallerHasPermission`, `GetUserPermissions`, `Explain`, `WriteThrough`, `Invalidate`, `InvalidateTenant` | modelled, proved |
| Access decision | `permission_client.go:186-290`, `client.go:152-202` | the cached list | classify, normalise, decide, fold, explain | modelled, proved |
| PermissionCache interface | `cache.go` | key to permission array | `Get`, `Set` (NX), `WriteThrough`, `Invalidate`, `InvalidateTenant` | modelled |
| Redis cache | `redis_cache.go`, `duration.go` | Redis strings with a TTL | the same, as Redis commands; `InvalidateTenant` is a SCAN/DEL loop | modelled, proved |
| In-memory cache | `in_memory_cache.go` | a map under an RWMutex, and the arrays behind the slices in it | the same, one critical section each | modelled, proved |
| Helios HTTP client | `client.go` | options, the `http.Client` | `NewHeliosClient`, `FetchUserPermissions`, `sign` | partly (not the signature) |
| Contract tables | `role_permissions.go` | constants | lookups, `IsUniversalPerm` | modelled |
| Factory | `factory.go` | ownership of the Redis client, `closed` | `Create`, `Close` | modelled, proved |
| Code generator | `cmd/codegen/main.go` | none; its input and output files change | `emit` | modelled, proved |
| Logger, options, CI | several | none | | not modelled |

**Interaction.** A read calls `cache.Get`. On a miss (an absent key, a Redis
error, a value that does not parse) it enters `getOrStart`; one goroutine per
client and key calls Helios and `cache.Set`s the result, and all callers that
joined share it. Helios and event consumers write the same Redis keys from other
processes: `WriteThrough` after a role change, `Invalidate` after a removal,
`InvalidateTenant` for a tenant. `Create` builds or takes over the Redis client,
pings it and wires the rest; each `Create` of a process returns its own `Close`.
The tables come from a contract kept in another repository, through `emit`. There is no lock across processes and no version
in an entry, so whatever orders a fill against a write is NX and the order in
which Redis gets the commands.

**What is hard.** Fills race with write-throughs and invalidations; the miss is
decided before the group is entered and never re-checked; the entry is removed
after its result is published, so late callers join finished fetches; the fetch
runs under the context of the call that started it; Redis commands fail, applied
or not; SCAN guarantees little; Helios may not answer. Slices leave the in-memory
cache's lock with the arrays behind them. `Close` has no lock at all, and
instances share clients they do not own. The generator has few checks of its own
and relies on the compiler for the rest. `PROJECT.json` lists each
hazard at its line.

**What makes each component correct.**

- Coalescing: one fetch at a time per client and key; each caller gets the stored
  result of a fetch for its own key; nobody stays blocked; no entry stays behind.
- Facade: no answer for another user or tenant; no answer older than the one
  cached at the call's start or than the fetch it shares; an entry never steps
  back; once Helios's commands for a key are done the entry is exact; every call
  returns.
- Access decision: a grant comes from the contract or from an active membership
  that lists it; the three operations agree; an error is never a verdict.
- Redis cache: `InvalidateTenant` that returns nil left nothing from before it.
- In-memory cache: it keeps `CacheContract`, in which arrays are values and
  tenants are told apart exactly.
- Factory: a Redis client is closed by its owner, not before and not never;
  `Close` is as idempotent as a flag without a lock allows; `Create` returns.
- Code generator: a file that compiles says what the contract says; a contract to
  which something was appended, or nothing, gives a file with added lines only.

## 2. Modules and their correspondence to the code

```
SharedFetch  <-- refines --  InFlight  ----+
                                           +-- PermissionClient -- MCPermissionClient
                        PermissionCache ---+          |
                           |                          +-- PermissionClientProofs -- InFlightProofs
                           +-- CacheContract  <-- refines --  InMemoryCache -- CacheKeys
                                                      +-- MCInMemoryCache, InMemoryCacheProofs
PermissionCache --- SweptCache  <-- refines --  RedisCache -- MCRedisCache, RedisCacheProofs
PermissionTables --+-- RolePermissions -- AccessDecision -- AccessDecisionProofs --+
                   +-- Codegen -- MCCodegen, CodegenProofs -- SequenceFacts <------+
Lifecycle -- LifecycleProofs
```

- `SharedFetch` says what coalescing promises without entries or channels: a
  *round* per slot, one result for all its members, and a window after the
  announcement in which late callers get the announced result.
- `InFlight` is `getOrStart`. `waiter` is the Go map, an entry is named by the
  call that created it, `stage` is its goroutine's progress (152, 153, 154-156),
  `res` stands for `e.res` and `e.err`, `joined` for the channel a call receives
  on. A critical section is one action, `Join` or `Start` for the lookup and
  `Remove` for the delete. A *slot* is a key of one process's map.
- `PermissionCache` gives the effect of one atomic cache command on the store.
- `PermissionClient` composes them. `pc` follows a call through `fetchAndCache`:
  `lookup` (before `cache.Get`), `missed` (after it, before the lock of
  `getOrStart`), `flight` (blocked on the channel), `returned`. `FetchAndPopulate`
  is the SETNX and the return of the goroutine's function, `HeliosAnswers` the
  moment Helios reads its database, earlier by any amount of time. A permission
  array is the pair of its key and Helios's revision of that key; contents play
  no part in the races. `db` and `owed` are Helios's side: its revision and the
  cache command it has yet to send. `lapsed`, `purged` and `floor` are history
  variables that only properties read. The constant `Disturbances` names what a
  run lets happen: "change", "remove" (mutations), "event" (invalidations that
  are delivered again), "tenant", "redis" (failing commands), "helios" (failing
  fetches), "cancel" (contexts), "expire".
- `RedisCache` is `redis_cache.go` command by command. `phase`, `batch` and
  `last` are the local state of the SCAN loop; `pending` is what Redis promises a
  full SCAN: the keys present since its start that it has not returned yet. Texts
  that do not parse and the text `null` (a nil slice marshalled) are values of a
  key; `Decode` makes both a miss, `Set` does not replace them.
- `CacheContract` states the interface for its callers: `PermissionCache` with the
  slice each caller works with. An array is a value there, so no write to a slice
  may reach an entry. A nil slice may be kept as an empty array or as nothing,
  which is where the two caches differ (`in_memory_cache.go:51`,
  `redis_cache.go:202-208`).
- `SweptCache` is the interface for a cache whose `InvalidateTenant` is not atomic: a
  sweep drops entries of its tenant bit by bit, may fail at any time, and may
  succeed only when each entry from before it was dropped or overwritten. It knows
  nothing of cursors, batches, texts and expiries. `RedisCache!Content` maps a text
  to what a reader can tell of it: an array, no entry, or an entry that is a miss.
- `CacheKeys` has the key strings of both caches as sequences of characters, the
  suffix test and the glob pattern. It assumes ids without a colon, as the uuids
  of the documents are; the code does not check that.
- `InMemoryCache` is `in_memory_cache.go`. Every operation holds the lock, so each
  is one action; `store` maps key strings to addresses, `heap` holds the arrays,
  and callers write to the arrays whose address they have (`WriteToSlice`) between
  any two operations.
- `PermissionTables` are the functions that the generator appends to the tables,
  over any tables. `RolePermissions` is the committed contract by class: 72
  permissions differ only in scope and in the roles that list them, which leaves
  seven classes, and an eighth permission is unknown to the contract.
- `Lifecycle` is `factory.go` with several instances in one process. `conn` is the
  state of each Redis client, named by the `Create` that built it or `Injected`;
  `timeout` is the `Timeout` of the one `http.Client` the service injects, which
  `NewHeliosClient` may overwrite. A `Close` call goes through `called` (before the
  test of `closed`), `marking` (before the assignment) and `closing` (before
  `redisClient.Close()`). `closed` is a plain variable, so a read that races with
  another call's write may see either value; a call that begins after another has
  returned sees its write. `overlap` is a history variable: which calls of one
  instance ran at the same time.
- `Codegen` has the contract, edited permission by permission, and after each edit
  the file `emit` writes. The file is what a compiler reads: constants with their
  identifiers, tuples and tables that use identifiers. `Compiles` is the part of
  the Go compiler that matters: no constant or map key twice, nothing undeclared.
  `Table` gives the emitted functions over the emitted tables. `mapOrder` is Go's
  random iteration order and `today` the day of the run, which the header shows. `Sorted` is any permutation in the order of
  `sort.Strings`, which compares bytes (`Less`); names are byte sequences.
- `SequenceFacts` has no counterpart in the code: it holds the lemmas about
  sequences that the last two proof modules share.
- `AccessDecision` maps each possible answer of Helios to the three operations'
  results, in every order of the operations, so that each may be answered by the
  fetch or from the cache that another one filled. `explained` is the verdict that
  `Explain` returns and `shown` the list it returns with it.

Outside the repository and modelled from how its source uses them: Helios
(`cache.go:29-36`: write-through after a role change, invalidate after a
removal, after committing), Redis (atomic commands, the SCAN guarantee, expiry and eviction), go-redis (a closed client stays
closed; closing it again is `ErrClosed`), callers' contexts and slices, Go's
allocator, `sort.Strings` and the Go compiler, and the edits of the contract.

**One assumption about Helios is this project's own.** `PermissionClient!Mutate` lets
Helios begin a mutation of a key only when the cache command for the one before
was sent (applied or failed). No file of the repository says so. Two mutations of
one key on their way at once could reach Redis in the wrong order, and the older
value would stay. `SettledEntryIsCurrent`, the write-through half of
`CacheNeverGoesBack` and the theorems `WriteThroughKeepsCacheExact` and
`MonotonicCache` rest on this.

## 3. Runs

| Run | Instance | Shows |
|---|---|---|
| `InFlight` | 3 calls, 2 slots, 2 results | safety of the group, its inductive invariant, refinement of `SharedFetch`; every caller is released, every slot is freed |
| `PermissionClient_races` | 2 calls, 2 processes, 1 key, 2 mutations, all disturbances | every race of a fill with a write; the inductive invariant |
| `PermissionClient_live` | 3 calls, 1 process, 2 users x 2 tenants, no mutations, default timeout, Helios may never answer | no cross-talk between keys; every call returns, those that join late or fetch again too |
| `RedisCache_sweep` | 2 users, 1 tenant, 2 sweeps, a TTL | a sweep that succeeds purged the tenant; the inductive invariant, refinement of `SweptCache` |
| `AccessDecision` | all answers with at most 2 listed permissions | verdicts agree and come from Helios or the contract; a listed permission is allowed |
| `InMemoryCache` | 2 callers, 1 user, tenants `b` and `ab`, 5 arrays | no aliasing; refinement of `CacheContract` |
| `Lifecycle` | 2 instances, 3 `Close` calls, timeouts 0 and 1 | ownership, idempotence, timeouts, the inductive invariant; `Create` returns |
| `Codegen` | 2 services, 2 roles, 3 names of which two have one identifier, 5 scopes, 3 permissions and grants, 2 days | the file says what the contract says; appending adds lines only; stable diffs |

Runs that must find a violation, each of a claim the repository makes:

| Run | Claim | What happens |
|---|---|---|
| `NoResurrection` | `redis_cache.go:213-214` NX keeps a slow read from resurrecting an invalidated value | after the DEL the key is absent, so SETNX of the old value succeeds |
| `AtMostTwoFetches` | `HANDOFF.md:101` and `permission_client_test.go:364-366`, at most 2 fetches | each call that had missed may fetch again after the previous entry is deleted |
| `StaleOnErrorServed` | `permission_client.go:43-44` and `factory.go:64-66` (also `README.md:17`), on an error the cached value is returned | the flag is stored and never read: a fetch that fails after a write-through gives its callers the error |
| `SetHeals` | `redis_cache_test.go:161-162` the cache heals on the next Set | Set is NX and leaves the unreadable value |

The test behind `AtMostTwoFetches` asks about `athens:project:view`, which every
role has, so that it is answered without a fetch.

Disagreements read off the source, without a run: `GetUserPermissions` folds in the self-scope permissions only, so its view lacks
the ones that every role has and `CallerHasPermission` allows, where
`permission_client.go:232-233` says "a complete view". The generated header
carries the date (`main.go:105`, `date` in `Codegen!Declarations`), so comparing the output with the committed file,
as `bitbucket-pipelines.yml` sets out to, finds a difference on any other day.
`permConstName` (`main.go:359`) gives `a:b` and `aB` one identifier: a role that
lists an undeclared one silently gets the declared other. The properties of
`Codegen` that speak of tables are therefore conditioned on `DistinctIdents`; TLC
refutes them without it.

**Bounds.** `MaxRev` bounds Helios's mutations per key: two are needed for a fill
to be one change late while another is owed; the proofs have no bound. Two
processes are enough for a fill against a fill, three calls in one for a leader,
a follower or a call in the window between close and delete, and a second leader;
`InFlightProofs` covers any number. Each call is made once: a call keeps no state
after it returned, so a repeated call is another call. Two sweeps of one tenant delete each other's keys; the sweeps of different
tenants share no key. Lists of two show order and repetition. Arrays of at most
one permission show every write to an array, and five addresses are one more than
two entries and two callers hold. Three `Close` calls are two that race and one
that joins late or comes after. Three permissions and grants are two declared
names and a grant, or one name and two grants, enough for an order to sort, a
collision and a role that lacks what another has. The run of four keys has no
mutations and no invalidations, which are about one key each and are in the run of
one key; that they do not mix keys either is the theorem `NoCrossTalk`. Calls, processes, users, tenants,
slots and sweeps are interchangeable, and runs without liveness properties use
that symmetry where it helps; the others do not.
Deadlock is not checked where a system of single calls comes to an end;
`RedisCache_sweep`, `InMemoryCache` and `Codegen` check it.

**Fairness.** `InFlight` assumes that runnable goroutines run and that the fetch
returns. `PermissionClient` replaces the second by its cause: a fetch with a
timeout above zero fails at some time if nothing else happens (`TimesOut`,
`client.go:126-136`), and a Redis command returns or fails, as go-redis bounds
its commands. Nothing is assumed of Helios, of contexts or of scheduling between
processes. `Lifecycle` assumes that the ping's deadline passes
(`factory.go:126-129`) and that goroutines in `Close` run, and not that Redis
answers. An injected client without a timeout (`client.go:132`) has no such
guarantee; `EffectiveTimeout` is 0 then, and the liveness run takes the default
client.

## 4. What is proved

TLAPS checks these for all values of the constants, from the assumptions in the
modules (`NoneIsNoValue`, `ConstantsDiffer`, `SpecialValuesDiffer`, `NilIsNoAddr`:
sentinels are no values, bounds are numbers; `IdsHaveNoColon`; `ContractStrings`:
names in a contract are byte sequences).

- `InFlightProofs`. The inductive invariant `InFlight!IInv` adds to the type
  invariant that the map and the live goroutines agree (`MapHoldsLiveEntries`),
  that a call's records are consistent with the entry it waits on
  (`CallRecordsConsistent`) and that a call returned only from a closed channel.
  The agreement is what makes "delete by key" safe: without it `Remove` could
  free a slot whose entry is another's, and one fetch at a time would be lost one
  step later. From it follow `OneFetchAtATime`, `DeletesOwnEntry`,
  `ResultsAreForOwnKey`, and `Refinement`: every step of the code is a step of
  `SharedFetch` or leaves it unchanged.
- `PermissionClientProofs`. Every step of the composed system is a step of the
  coalescing group or leaves it alone (`CoalescingKept`), so the group's
  invariant is reused, not proved again. The rest of `IInv` follows a resolution
  from Helios through the answer, the entry, the store and the reply, always
  within its *window* (`Within`: of its key, not older than the fetch, not ahead
  of Helios). `CacheConsistent` is the heart: a settled key without an entry was
  never changed, so a slow fill of an absent entry cannot be stale there. From
  `IInv` follow `WriteThroughKeepsCacheExact`, `NoCrossTalk`, `BoundedStaleness`
  and the action property `MonotonicCache`.
- `RedisCacheProofs`. A sweep still owes itself each old key of its tenant, from
  a later SCAN or from the DEL in hand (`SweepsCoverOldKeys`); it can only end
  with success when it owes nothing: `TenantInvalidationComplete`. With the fact
  that a batch in hand is of the sweep's tenant (`BatchesAreOfTenant`),
  every command does what `SweptCache` says: `Refinement`. The run has one tenant,
  the theorem any number, so that a sweep leaves the others alone is proved only.
- `LifecycleProofs`. `IdempotentClose` is about calls that have returned, so it
  says nothing of a call about to close a client that is closed already. The
  strengthening `RacersOverlapCloser` does: a closed client was closed by a call
  that overlapped every call still on its way. `CloseConsistent` ties the flag to
  the calls that wrote it, and `CreateConsistent` the clients to the progress of
  `Create`. From these follow `FailedCreateLeavesNothing`,
  `ClientOutlivesOthers`, `CloseIsComplete`, `CloseIsIdempotent` and
  `TimeoutSurvivesSharing`, for any number of instances and calls.
- `InMemoryCacheProofs`. Keys and patterns are exact for ids of any length without
  a colon: the last colon of a key is where the tenant begins (`KeysAreExact`,
  `SuffixIsExact`, and `PatternIsExact` for Redis). Every array has one owner
  (`ArraysHaveOneOwner`), so a write to a slice changes that slice only. From both
  follows `Refinement`, operation by operation.
- `AccessDecisionProofs`. The cache holds nothing or the normalised answer of
  Helios, so an operation decides the same from either, and what an operation has
  returned is what it would return now. `GrantsComeFromHelios`, `VerdictsAgree`
  and `ErrorsStayErrors` follow for lists of any bounded length. `FoldedList` says
  what the loop of `foldSelfPermissions` returns; with it, what `view` and `shown`
  hold is known from the invariant, and `ListsAreTrue` and `TypeCorrect` follow.
- `CodegenProofs`. None of the properties speaks of how the file came to be; the
  inductive invariant `IInv` says that it is what `emit` makes of the contract,
  and that the contract has its shape. The same invariant holds in the run's
  instance. The rest is about `emit`. `Less` is a strict total order on strings,
  so the sorted list that `Sorted` chooses exists
  (`SortedNames`). Lemmas then follow the names of the contract forward through the
  flattened services, the buckets, the sorted copies and the identifiers
  (`DeclaredEntriesFacts` to `DeclarationsFacts`), and back from a file that
  compiles: each identifier has one constant, so the values behind a tuple or a
  role's list are the names that went in (`ValuesFacts`), and no name is in two
  tuples (`TuplesAreDisjoint`), which is why `PERM_SCOPE` says of each what the
  contract says. From these follow `TablesAreFaithful`, `NoGrantIsDropped` and
  `UniversalNeedsAGrant`, for contracts of any size and names of any length, and
  without the bounds of the run. `DiffsAreStable` needs only that two sorted lists
  agree on what they share. `AppendingAddsLines` relates two files, of any two
  days: each list of the earlier one embeds in the same list of the later one.
  Flattening keeps embeddings part by part (`FlattenEmbeds`), and so do the
  identifiers (`ImageEmbeds`); sorting keeps them too (`SortedEmbeds`), because the
  sorted order is unique (`SortedOrderIsUnique`).
- `SequenceFacts`. The library's induction theorems take an operator and cannot be
  used here; `LeastNatural` and `Induction` state them for a *set* of
  numbers, from the well-foundedness of strict inclusion between finite sets. What a recursive function of
  the library computes (`FlattenSeq`, `FoldLeft`) is proved by first showing that
  its recursion has a solution. The module states what flattening keeps, that
  a finite sequence can be permuted into the order of any strict total order
  (`SortedPermutation`), and that a loop that appends what it has not seen keeps
  each element once (`FoldWithoutRepetition`).

Every invariant and action property of a run that passes is stated by a theorem.
Model-checked only is liveness (`EveryCallerReleased`, `SlotsFreed`,
`EveryCallReturns`, `CreateReturns`): fairness and ENABLED are outside the prover's
reach. So are the violations, which are behaviours and not theorems.

## 5. What is not modelled

Logging, metrics and option defaults without effect; HMAC signing, headers and
URLs (pure functions of their inputs); the body size cap; ids with a colon and
wildcards in a tenant id, for which keys and patterns are not exact; `ExpiresAt`
of a membership, which no code reads; comments and layout of the generated
text, and its header apart from the date; the validator of the contract, which is in another repository; the error
path of `NewClient` in `Create` (`factory.go:161-166`), which no option reaches;
Redis replication and failover.

## 6. Plan

Done: all components above. What would add to them, in order:

1. Memberships and entries that expire: a clock in `PermissionClient`, how long a
   lapsed membership is served with and without a TTL, and liveness of a settled
   change (readers eventually see it once its commands succeed).
2. `PermissionClient` on top of `SweptCache`: its tenant invalidation tied to one
   sweep from start to return, and what calls may still see while it runs.
3. `Lifecycle` composed with `PermissionClient`: reads on an instance that is
   closed meanwhile.
