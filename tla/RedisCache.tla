----------------------------- MODULE RedisCache -----------------------------
(***************************************************************************)
(* RedisPermissionCache (redis_cache.go): one Redis command per operation, *)
(* except InvalidateTenant, a loop of SCAN and DEL commands between which  *)
(* every other command of every process may run.                           *)
(*                                                                         *)
(* Redis is outside the repository: commands are atomic, may fail applied  *)
(* or not, and a full SCAN returns at least the keys that were present     *)
(* from its start to its end. The keys of a tenant are those that the MATCH*)
(* pattern of a user and tenant id without ":" and wildcards selects.      *)
(***************************************************************************)
EXTENDS Integers

CONSTANTS Users, Tenants,
          Perms,       \* permission arrays, the empty one included
          Nil,         \* Go's nil slice
          Null,        \* the JSON text null
          Garbage,     \* any other text that is not a JSON array of strings
          Sweeps,      \* calls of InvalidateTenant
          TTLSeconds,  \* RedisCacheOptions.TTLSeconds
          HeliosTTL,   \* expiry that Helios's own writer sets, 0 for none
          Absent

ASSUME ConstantsDiffer ==
    /\ TTLSeconds \in Int /\ HeliosTTL \in Nat
    /\ Nil \notin Perms /\ Null \notin Perms /\ Garbage \notin Perms
    /\ Absent \notin Perms \cup {Null, Garbage}
    /\ Absent \notin [raw : Perms \cup {Null, Garbage}, ttl : Nat]

Keys == Users \X Tenants

Raw == Perms \cup {Null, Garbage}

\* The constructor treats a negative TTL as none; 0 is SET without expiry.
Ttl == IF TTLSeconds < 0 THEN 0 ELSE TTLSeconds

\* json.Marshal and json.Unmarshal of a []Permission; a parse error is a miss.
Encode(p) == IF p = Nil THEN Null ELSE p
Decode(raw) == IF raw \in Perms THEN raw ELSE Nil

VARIABLES
    db,       \* db[k]: the text and expiry stored under the key, or Absent
    phase,    \* phase[i]: progress of InvalidateTenant call i
    tenant,   \* tenant[i]: its argument
    batch,    \* batch[i]: the keys its last SCAN returned
    last,     \* last[i]: that SCAN returned cursor 0
    pending,  \* pending[i]: Redis's promise to the sweep, the keys present
              \* since its start that no SCAN of it has returned yet
    old,      \* history, old[i]: the keys whose entry was written before the
              \* sweep began
    wrote     \* history, wrote[k]: the SDK command that returned success on
              \* key k and after which nothing else touched it

sweepVars == <<phase, tenant, batch, last>>
vars == <<db, sweepVars, pending, old, wrote>>

TypeOK ==
    /\ db \in [Keys -> [raw : Raw, ttl : {0, Ttl, HeliosTTL}] \cup {Absent}]
    /\ phase \in [Sweeps -> {"idle", "scan", "delete", "done", "failed"}]
    /\ tenant \in [Sweeps -> Tenants]
    /\ batch \in [Sweeps -> SUBSET Keys]
    /\ last \in [Sweeps -> BOOLEAN]
    /\ pending \in [Sweeps -> SUBSET Keys]
    /\ old \in [Sweeps -> SUBSET Keys]
    /\ wrote \in [Keys -> {"nothing", "Set", "WriteThrough"}]

Init ==
    /\ db = [k \in Keys |-> Absent]
    /\ phase = [i \in Sweeps |-> "idle"]
    /\ tenant \in [Sweeps -> Tenants]
    /\ batch = [i \in Sweeps |-> {}]
    /\ last = [i \in Sweeps |-> FALSE]
    /\ pending = [i \in Sweeps |-> {}]
    /\ old = [i \in Sweeps |-> {}]
    /\ wrote = [k \in Keys |-> "nothing"]

Present == {k \in Keys : db[k] # Absent}

\* Get: nil is a miss, whether the key is absent or its text does not parse.
Get(k) == IF k \in Present THEN Decode(db[k].raw) ELSE Nil
-----------------------------------------------------------------------------
(***************************************************************************)
(* What a Redis command does to the keys and to the sweeps in progress.    *)
(***************************************************************************)
Store(k, raw, ttl, op) ==
    /\ db' = [db EXCEPT ![k] = [raw |-> raw, ttl |-> ttl]]
    /\ old' = [i \in Sweeps |-> old[i] \ {k}]
    /\ wrote' = [wrote EXCEPT ![k] = op]
    /\ UNCHANGED pending

Del(K) ==
    /\ db' = [k \in Keys |-> IF k \in K THEN Absent ELSE db[k]]
    /\ old' = [i \in Sweeps |-> old[i] \ K]
    /\ pending' = [i \in Sweeps |-> pending[i] \ K]
    /\ wrote' = [k \in Keys |-> IF k \in K THEN "nothing" ELSE wrote[k]]

\* Set: SETNX. That the key was there already is not an error.
Set(k, p) ==
    /\ IF k \in Present
       THEN /\ wrote' = [wrote EXCEPT ![k] = "Set"]
            /\ UNCHANGED <<db, old, pending>>
       ELSE Store(k, Encode(p), Ttl, "Set")
    /\ UNCHANGED sweepVars

\* WriteThrough: SET, of a nil slice too.
WriteThrough(k, p) ==
    /\ Store(k, Encode(p), Ttl, "WriteThrough")
    /\ UNCHANGED sweepVars

\* Invalidate: DEL of one key. The store may have changed if it failed, too.
Invalidate(k) == Del({k}) /\ UNCHANGED sweepVars

\* Helios and the SDKs of other languages write the same keys.
OtherWriter(k, raw) ==
    /\ Store(k, raw, HeliosTTL, "nothing")
    /\ UNCHANGED sweepVars

Expire(k) ==
    /\ k \in Present /\ db[k].ttl > 0
    /\ Del({k})
    /\ UNCHANGED sweepVars
-----------------------------------------------------------------------------
(***************************************************************************)
(* InvalidateTenant.                                                       *)
(***************************************************************************)
InvalidateTenant(i) ==
    /\ phase[i] = "idle"
    /\ phase' = [phase EXCEPT ![i] = "scan"]
    /\ LET matching == {k \in Present : k[2] = tenant[i]}
       IN  /\ pending' = [pending EXCEPT ![i] = matching]
           /\ old' = [old EXCEPT ![i] = matching]
    /\ UNCHANGED <<db, tenant, batch, last, wrote>>

\* Mutant: SCAN is taken to return everything at once.
FirstBatchOnly(end) == "done"

\* After a batch: the loop ends on cursor 0 only.
NextPhase(end) == IF end THEN "done" ELSE "scan"

\* Mutant: an empty batch ends the loop.
ScanUntilEmpty(i, K, end) ==
    /\ phase[i] = "scan"
    /\ end => pending[i] \subseteq K
    /\ pending' = [pending EXCEPT ![i] = @ \ K]
    /\ batch' = [batch EXCEPT ![i] = K]
    /\ last' = [last EXCEPT ![i] = end]
    /\ phase' = [phase EXCEPT ![i] = IF K = {} THEN "done" ELSE "delete"]
    /\ UNCHANGED <<db, tenant, old, wrote>>

\* SCAN cursor MATCH pattern: some of the tenant's keys that are there now,
\* possibly none or the same ones again. An empty batch is not deleted.
Scan(i, K, end) ==
    /\ phase[i] = "scan"
    /\ end => pending[i] \subseteq K
    /\ pending' = [pending EXCEPT ![i] = @ \ K]
    /\ batch' = [batch EXCEPT ![i] = K]
    /\ last' = [last EXCEPT ![i] = end]
    /\ phase' = [phase EXCEPT ![i] = IF K = {} THEN NextPhase(end) ELSE "delete"]
    /\ UNCHANGED <<db, tenant, old, wrote>>

\* Mutant: a failed DEL is logged and the loop goes on.
DeleteBatchOrGoOn(i) ==
    /\ phase[i] = "delete"
    /\ Del(batch[i]) \/ UNCHANGED <<db, old, pending, wrote>>
    /\ phase' = [phase EXCEPT ![i] = NextPhase(last[i])]
    /\ batch' = [batch EXCEPT ![i] = {}]
    /\ UNCHANGED <<tenant, last>>

\* DEL of the batch, whatever was written under its keys since the SCAN.
DeleteBatch(i) ==
    /\ phase[i] = "delete"
    /\ Del(batch[i])
    /\ phase' = [phase EXCEPT ![i] = NextPhase(last[i])]
    /\ batch' = [batch EXCEPT ![i] = {}]
    /\ UNCHANGED <<tenant, last>>

\* A SCAN or DEL fails: InvalidateTenant returns the error half-way.
SweepFails(i) ==
    /\ phase[i] \in {"scan", "delete"}
    /\ \/ UNCHANGED <<db, old, pending, wrote>>
       \/ phase[i] = "delete" /\ Del(batch[i])
    /\ phase' = [phase EXCEPT ![i] = "failed"]
    /\ UNCHANGED <<tenant, batch, last>>

Command(k) ==
    \/ \E p \in Perms : Set(k, p)
    \/ \E p \in Perms \cup {Nil} : WriteThrough(k, p)
    \/ \E raw \in Raw : OtherWriter(k, raw)
    \/ Invalidate(k) \/ Expire(k)

Sweep(i) ==
    \/ InvalidateTenant(i) \/ DeleteBatch(i) \/ SweepFails(i)
    \/ \E K \in SUBSET {k \in Present : k[2] = tenant[i]}, end \in BOOLEAN :
           Scan(i, K, end)

Next ==
    \/ \E k \in Keys : Command(k)
    \/ \E i \in Sweeps : Sweep(i)

Spec == Init /\ [][Next]_vars
-----------------------------------------------------------------------------
(***************************************************************************)
(* Properties.                                                             *)
(***************************************************************************)
\* When InvalidateTenant returns nil, every entry the tenant still has was
\* written after the call began, whatever was written, dropped or swept by
\* another call between its commands (redis_cache.go:266-289).
TenantPurged == \A i \in Sweeps : phase[i] = "done" => old[i] = {}

\* Strengthening: a sweep still owes itself every old key, either from a later
\* SCAN or from the DEL of the batch in hand.
SweepsCoverOldKeys ==
    \A i \in Sweeps :
        /\ phase[i] = "idle" => old[i] = {}
        /\ phase[i] = "scan" => old[i] \subseteq pending[i]
        /\ phase[i] = "delete" =>
               /\ old[i] \subseteq pending[i] \cup batch[i]
               /\ last[i] => pending[i] = {}

\* Strengthening: the keys that a sweep is about to drop are of its tenant.
BatchesAreOfTenant ==
    \A i \in Sweeps : phase[i] = "delete" => batch[i] \subseteq {k \in Keys : k[2] = tenant[i]}

IInv == TypeOK /\ TenantPurged /\ SweepsCoverOldKeys /\ BatchesAreOfTenant
\* What a reader can tell of a key: its array, no entry, or a text that is a miss
\* for Get and an entry for Set.
Content(k) ==
    IF k \notin Present THEN Absent ELSE IF db[k].raw \in Perms THEN db[k].raw ELSE Null

Progress(i) == IF phase[i] \in {"scan", "delete"} THEN "running" ELSE phase[i]

Contract == INSTANCE SweptCache WITH
    Values <- Perms \cup {Null}, None <- Absent, store <- [k \in Keys |-> Content(k)],
    status <- [i \in Sweeps |-> Progress(i)], owed <- old

\* The cache implements its contract with SCAN, DEL and texts: a sweep that is
\* interleaved with every other command, another sweep's included, drops nothing
\* of another tenant and returns nil only when it owes nothing, and a text that
\* does not parse is an entry like any other for Set and for a sweep
\* (redis_cache.go:211-289).
RefinesContract == Contract!Spec
-----------------------------------------------------------------------------
(***************************************************************************)
(* A claim that the code does not keep.                                    *)
(***************************************************************************)
\* redis_cache_test.go:161-162: a value that does not parse is a miss, and the
\* cache heals on the next Set: a key can be read after a Set that succeeded.
SetHeals == \A k \in Keys : wrote[k] = "Set" => Get(k) # Nil
=============================================================================
