-------------------------- MODULE RedisCacheProofs --------------------------
(***************************************************************************)
(* Theorems about RedisCache, for any number of users, tenants, arrays and *)
(* concurrent sweeps, and any two expiry policies.                         *)
(*                                                                         *)
(* TenantPurged is not inductive: nothing in it says why the last SCAN left*)
(* no old key behind. SweepsCoverOldKeys does, as every command of every   *)
(* process shrinks the set of old keys at least as much as Redis's promise *)
(* to the sweep. That the batch in hand is of the sweep's tenant is what   *)
(* the refinement of SweptCache needs besides.                             *)
(***************************************************************************)
EXTENDS RedisCache, TLAPS

\* Before the first command.
LEMMA InitEstablishesIInv == Init => IInv
  BY DEF Init, IInv, TypeOK, TenantPurged, SweepsCoverOldKeys, BatchesAreOfTenant

\* A command that writes key k makes it a new key of every sweep.
LEMMA StoreKeepsIInv ==
    ASSUME IInv, UNCHANGED sweepVars, NEW k \in Keys, NEW raw \in Raw,
           NEW ttl \in {0, Ttl, HeliosTTL},
           NEW op \in {"nothing", "Set", "WriteThrough"}, Store(k, raw, ttl, op)
    PROVE  IInv'
<1>1. TypeOK'
  BY DEF IInv, TypeOK, Store, sweepVars
<1>2. TenantPurged' /\ SweepsCoverOldKeys' /\ BatchesAreOfTenant'
  BY DEF IInv, TypeOK, TenantPurged, SweepsCoverOldKeys, BatchesAreOfTenant, Store, sweepVars
<1> QED BY <1>1, <1>2 DEF IInv

\* A DEL of any keys leaves fewer old keys and fewer keys to find.
LEMMA DelKeepsTypes ==
    ASSUME TypeOK, NEW K, Del(K)
    PROVE  /\ db' \in [Keys -> [raw : Raw, ttl : {0, Ttl, HeliosTTL}] \cup {Absent}]
           /\ old' \in [Sweeps -> SUBSET Keys]
           /\ pending' \in [Sweeps -> SUBSET Keys]
           /\ wrote' \in [Keys -> {"nothing", "Set", "WriteThrough"}]
           /\ \A i \in Sweeps : old'[i] = old[i] \ K /\ pending'[i] = pending[i] \ K
  BY DEF TypeOK, Del

\* The same, by a command that is no part of a sweep.
LEMMA DelKeepsIInv ==
    ASSUME IInv, UNCHANGED sweepVars, NEW K, Del(K)
    PROVE  IInv'
<1>1. TypeOK'
  BY DelKeepsTypes DEF IInv, TypeOK, sweepVars
<1>2. TenantPurged' /\ SweepsCoverOldKeys' /\ BatchesAreOfTenant'
  BY DelKeepsTypes DEF IInv, TypeOK, TenantPurged, SweepsCoverOldKeys, BatchesAreOfTenant, sweepVars
<1> QED BY <1>1, <1>2 DEF IInv

\* Every command, of a sweep or not, keeps the invariant.
LEMMA StepKeepsIInv == IInv /\ [Next]_vars => IInv'
<1> SUFFICES ASSUME IInv, [Next]_vars PROVE IInv'
    OBVIOUS
<1>1. ASSUME NEW k \in Keys, NEW p \in Perms, Set(k, p) PROVE IInv'
  <2>1. CASE k \in Present
    BY <1>1, <2>1
    DEF IInv, TypeOK, TenantPurged, SweepsCoverOldKeys, BatchesAreOfTenant, Set, sweepVars
  <2>2. CASE k \notin Present
    BY <1>1, <2>2, StoreKeepsIInv, ConstantsDiffer DEF Set, Encode, Raw
  <2> QED BY <2>1, <2>2
<1>2. ASSUME NEW k \in Keys, NEW p \in Perms \cup {Nil}, WriteThrough(k, p) PROVE IInv'
  BY <1>2, StoreKeepsIInv DEF WriteThrough, Encode, Raw
<1>3. ASSUME NEW k \in Keys, NEW raw \in Raw, OtherWriter(k, raw) PROVE IInv'
  BY <1>3, StoreKeepsIInv DEF OtherWriter
<1>4. ASSUME NEW k \in Keys, Invalidate(k) \/ Expire(k) PROVE IInv'
  BY <1>4, DelKeepsIInv DEF Invalidate, Expire
<1>5. ASSUME NEW i \in Sweeps, InvalidateTenant(i) PROVE IInv'
  <2>1. TypeOK'
    BY <1>5 DEF IInv, TypeOK, InvalidateTenant, Present
  <2>2. TenantPurged' /\ SweepsCoverOldKeys' /\ BatchesAreOfTenant'
    BY <1>5 DEF IInv, TypeOK, TenantPurged, SweepsCoverOldKeys, BatchesAreOfTenant, InvalidateTenant
  <2> QED BY <2>1, <2>2 DEF IInv
<1>6. ASSUME NEW i \in Sweeps, NEW K \in SUBSET {k \in Keys : k[2] = tenant[i]}, NEW end \in BOOLEAN,
             Scan(i, K, end)
      PROVE  IInv'
  <2>1. TypeOK'
    BY <1>6 DEF IInv, TypeOK, Scan, NextPhase
  <2>2. TenantPurged'
    BY <1>6 DEF IInv, TypeOK, TenantPurged, SweepsCoverOldKeys, BatchesAreOfTenant, Scan, NextPhase
  <2>3. SweepsCoverOldKeys' /\ BatchesAreOfTenant'
    BY <1>6 DEF IInv, TypeOK, SweepsCoverOldKeys, BatchesAreOfTenant, Scan, NextPhase
  <2> QED BY <2>1, <2>2, <2>3 DEF IInv
<1>7. ASSUME NEW i \in Sweeps, DeleteBatch(i) PROVE IInv'
  <2>1. TypeOK'
    BY <1>7, DelKeepsTypes DEF IInv, TypeOK, DeleteBatch, NextPhase
  <2>2. TenantPurged'
    BY <1>7, DelKeepsTypes
    DEF IInv, TypeOK, TenantPurged, SweepsCoverOldKeys, BatchesAreOfTenant, DeleteBatch, NextPhase
  <2>3. SweepsCoverOldKeys' /\ BatchesAreOfTenant'
    BY <1>7, DelKeepsTypes DEF IInv, TypeOK, SweepsCoverOldKeys, BatchesAreOfTenant, DeleteBatch, NextPhase
  <2> QED BY <2>1, <2>2, <2>3 DEF IInv
<1>8. ASSUME NEW i \in Sweeps, SweepFails(i) PROVE IInv'
  <2>1. CASE UNCHANGED <<db, old, pending, wrote>>
    BY <1>8, <2>1 DEF IInv, TypeOK, TenantPurged, SweepsCoverOldKeys, BatchesAreOfTenant, SweepFails
  <2>2. CASE Del(batch[i])
    BY <1>8, <2>2, DelKeepsTypes
    DEF IInv, TypeOK, TenantPurged, SweepsCoverOldKeys, BatchesAreOfTenant, SweepFails
  <2> QED BY <1>8, <2>1, <2>2 DEF SweepFails
<1>9. CASE UNCHANGED vars
  BY <1>9 DEF vars, sweepVars, IInv, TypeOK, TenantPurged, SweepsCoverOldKeys, BatchesAreOfTenant
<1>10. ASSUME NEW i \in Sweeps, Sweep(i) PROVE IInv'
  BY <1>5, <1>6, <1>7, <1>8, <1>10 DEF Sweep, Present
<1> QED
  BY <1>1, <1>2, <1>3, <1>4, <1>9, <1>10 DEF Next, Command

\* The strengthening always holds.
THEOREM InvariantHolds == Spec => []IInv
  BY InitEstablishesIInv, StepKeepsIInv, PTL DEF Spec

\* The variables keep their types.
THEOREM TypeCorrect == Spec => []TypeOK
<1>1. IInv => TypeOK
  BY DEF IInv
<1> QED BY <1>1, InvariantHolds, PTL

\* An InvalidateTenant that returns nil left no entry of the tenant that was
\* there before it, although it is many commands and nothing is locked.
THEOREM TenantInvalidationComplete == Spec => []TenantPurged
<1>1. IInv => TenantPurged
  BY DEF IInv
<1> QED BY <1>1, InvariantHolds, PTL

-----------------------------------------------------------------------------
(***************************************************************************)
(* The refinement of SweptCache.                                           *)
(***************************************************************************)
Contents == [k \in Keys |-> Content(k)]

Statuses == [i \in Sweeps |-> Progress(i)]

\* A command that writes a text makes it the content of its key.
LEMMA StoreContents ==
    ASSUME IInv, NEW k \in Keys, NEW raw \in Raw, NEW ttl \in Nat, NEW op,
           Store(k, raw, ttl, op)
    PROVE  Contents' = [Contents EXCEPT ![k] = IF raw \in Perms THEN raw ELSE Null]
<1>1. db' = [db EXCEPT ![k] = [raw |-> raw, ttl |-> ttl]] /\ k \in DOMAIN db
  BY DEF Store, IInv, TypeOK
<1>2. db'[k] # Absent
  BY <1>1, ConstantsDiffer DEF Raw
<1>3. Content(k)' = IF raw \in Perms THEN raw ELSE Null
  BY <1>1, <1>2 DEF Content, Present
<1>4. \A j \in Keys \ {k} : Content(j)' = Content(j)
  BY <1>1 DEF Content, Present
<1> QED BY <1>3, <1>4 DEF Contents

\* A DEL drops the content of its keys.
LEMMA DelContents ==
    ASSUME NEW K, Del(K)
    PROVE  /\ Contents' = [k \in Keys |-> IF k \in K THEN Absent ELSE Contents[k]]
           /\ Contract!Pay(K)
<1>1. \A k \in Keys : Content(k)' = IF k \in K THEN Absent ELSE Content(k)
  BY DEF Del, Content, Present
<1>2. Contents' = [k \in Keys |-> Content(k)']
  BY DEF Contents
<1> QED BY <1>1, <1>2 DEF Contents, Del, Contract!Pay

\* A key has an entry in the contract when there is any text under it.
LEMMA HitIsPresent ==
    ASSUME NEW k \in Keys
    PROVE  Contract!Cache!Hit(k) <=> k \in Present
  BY ConstantsDiffer DEF Contract!Cache!Hit, Contract!Keys, Keys, Content

\* A command that is no part of a sweep leaves the progress of every sweep alone.
LEMMA StatusesFollowPhase ==
    ASSUME UNCHANGED sweepVars
    PROVE  UNCHANGED <<Statuses, tenant>>
  BY DEF sweepVars, Statuses, Progress

\* Set, WriteThrough and the writers of other languages.
LEMMA WritesRefine ==
    ASSUME IInv, NEW k \in Keys, NEW raw \in Raw, NEW ttl \in Nat, NEW op,
           Store(k, raw, ttl, op), UNCHANGED sweepVars
    PROVE  \E v \in Perms \cup {Null} : Contract!WriteThrough(k, v)
<1> DEFINE v == IF raw \in Perms THEN raw ELSE Null
<1>1. Contract!Cache!WriteThrough(k, v)
  BY StoreContents DEF Contract!Cache!WriteThrough, Contents
<1>2. Contract!Pay({k})
  BY DEF Store, Contract!Pay
<1> QED BY <1>1, <1>2, StatusesFollowPhase DEF Contract!WriteThrough, Statuses

\* Set of a key that has an entry keeps the entry, whether it parses or not.
LEMMA SetRefines ==
    ASSUME IInv, NEW k \in Keys, NEW p \in Perms, Set(k, p)
    PROVE  Contract!Set(k, p)
<1>1. CASE k \in Present
  <2>1. UNCHANGED <<db, old, sweepVars>>
    BY <1>1 DEF Set
  <2>2. UNCHANGED Contents
    BY <2>1 DEF Contents, Content, Present
  <2> QED BY <1>1, <2>1, <2>2, HitIsPresent, StatusesFollowPhase
          DEF Contract!Set, Contract!Cache!SetNX, Contents, Statuses, sweepVars
<1>2. CASE k \notin Present
  <2>1. Store(k, p, Ttl, "Set") /\ UNCHANGED sweepVars /\ p \in Raw /\ Ttl \in Nat
    BY <1>2, ConstantsDiffer DEF Set, Encode, Raw, Ttl
  <2>2. Contents' = [Contents EXCEPT ![k] = p]
    BY <2>1, StoreContents
  <2>3. Contract!Cache!SetNX(k, p)
    BY <1>2, <2>2, HitIsPresent DEF Contract!Cache!SetNX, Contents
  <2>4. Contract!Pay({k})
    BY <2>1 DEF Store, Contract!Pay
  <2> QED BY <1>2, <2>1, <2>3, <2>4, HitIsPresent, StatusesFollowPhase
          DEF Contract!Set, Statuses
<1> QED BY <1>1, <1>2

\* A DEL of keys of a sweep's tenant, after which the sweep goes on or returns.
LEMMA SweepCommandRefines ==
    ASSUME IInv, NEW i \in Sweeps, phase[i] \in {"scan", "delete"},
           NEW next \in {"scan", "delete", "done", "failed"},
           phase' = [phase EXCEPT ![i] = next], UNCHANGED tenant,
           NEW K \in SUBSET {k \in Keys : k[2] = tenant[i]},
           Contents' = [k \in Keys |-> IF k \in K THEN Absent ELSE Contents[k]],
           Contract!Pay(K),
           next = "done" => old'[i] = {}
    PROVE  Contract!Sweep(i)
<1> DEFINE progress == IF next \in {"scan", "delete"} THEN "running" ELSE next
<1>1. Statuses[i] = "running" /\ progress \in {"running", "done", "failed"}
  BY DEF Statuses, Progress
<1>2. Statuses' = [Statuses EXCEPT ![i] = progress]
  <2>1. \A j \in Sweeps : Progress(j)' = IF j = i THEN progress ELSE Progress(j)
    BY DEF IInv, TypeOK, Progress
  <2> QED BY <2>1 DEF Statuses
<1>3. Contract!Cache!Drop(K) /\ K \in SUBSET {k \in Contract!Keys : k[2] = tenant[i]}
  BY DEF Contract!Cache!Drop, Contract!Keys, Keys, Contents
<1>4. progress = "done" => old'[i] = {}
  OBVIOUS
<1> HIDE DEF progress
<1> QED BY <1>1, <1>2, <1>3, <1>4 DEF Contract!Sweep, Statuses

\* Every command does what the contract says of it.
LEMMA StepRefines ==
    IInv /\ [Next]_vars => [Contract!Next]_<<Contents, Statuses, tenant, old>>
<1> SUFFICES ASSUME IInv, [Next]_vars
             PROVE  [Contract!Next]_<<Contents, Statuses, tenant, old>>
    OBVIOUS
<1>1. ASSUME NEW k \in Keys, NEW p \in Perms, Set(k, p) PROVE Contract!Next
  BY <1>1, SetRefines DEF Contract!Next, Contract!Keys, Keys
<1>2. ASSUME NEW k \in Keys, NEW p \in Perms \cup {Nil}, WriteThrough(k, p)
      PROVE  Contract!Next
  <2>1. Store(k, Encode(p), Ttl, "WriteThrough") /\ UNCHANGED sweepVars
        /\ Encode(p) \in Raw /\ Ttl \in Nat
    BY <1>2, ConstantsDiffer DEF WriteThrough, Encode, Raw, Ttl
  <2> QED BY <2>1, WritesRefine DEF Contract!Next, Contract!Keys, Keys
<1>3. ASSUME NEW k \in Keys, NEW raw \in Raw, OtherWriter(k, raw) PROVE Contract!Next
  BY <1>3, WritesRefine, ConstantsDiffer DEF OtherWriter, Contract!Next, Contract!Keys, Keys
<1>4. ASSUME NEW k \in Keys, Invalidate(k) \/ Expire(k) PROVE Contract!Next
  <2>1. Del({k}) /\ UNCHANGED sweepVars
    BY <1>4 DEF Invalidate, Expire
  <2>2. Contract!Invalidate(k)
    BY <2>1, DelContents, StatusesFollowPhase
    DEF Contract!Invalidate, Contract!Cache!Drop, Contract!Keys, Keys, Contents, Statuses
  <2> QED BY <2>2 DEF Contract!Next, Contract!Keys, Keys
<1>5. ASSUME NEW i \in Sweeps, InvalidateTenant(i) PROVE Contract!Next
  <2>1. Statuses[i] = "idle" /\ Statuses' = [Statuses EXCEPT ![i] = "running"]
    BY <1>5 DEF InvalidateTenant, IInv, TypeOK, Statuses, Progress
  <2>2. UNCHANGED <<Contents, tenant>>
    BY <1>5 DEF InvalidateTenant, Contents, Content, Present
  <2>3. {k \in Present : k[2] = tenant[i]}
            = {k \in Contract!Keys : Contract!Cache!Hit(k) /\ k[2] = tenant[i]}
    BY HitIsPresent DEF Contract!Keys, Keys, Present
  <2>4. Contract!InvalidateTenant(i)
    BY <1>5, <2>1, <2>2, <2>3 DEF InvalidateTenant, Contract!InvalidateTenant, Contents, Statuses
  <2> QED BY <2>4 DEF Contract!Next
<1>6. ASSUME NEW i \in Sweeps, NEW end \in BOOLEAN,
             NEW K \in SUBSET {k \in Present : k[2] = tenant[i]}, Scan(i, K, end)
      PROVE  Contract!Next
  <2> DEFINE next == IF K = {} THEN NextPhase(end) ELSE "delete"
  <2>1. phase[i] = "scan" /\ phase' = [phase EXCEPT ![i] = next] /\ UNCHANGED <<db, tenant, old>>
        /\ next \in {"scan", "delete", "done", "failed"}
    BY <1>6 DEF Scan, NextPhase
  <2>2. next = "done" => old'[i] = {}
    BY <1>6 DEF Scan, NextPhase, IInv, SweepsCoverOldKeys
  <2>3. /\ Contents' = [k \in Keys |-> IF k \in {} THEN Absent ELSE Contents[k]]
        /\ Contract!Pay({})
    BY <2>1 DEF Contents, Content, Present, Contract!Pay, IInv, TypeOK
  <2> HIDE DEF next
  <2>4. Contract!Sweep(i)
    BY <2>1, <2>2, <2>3, SweepCommandRefines
  <2> QED BY <2>4 DEF Contract!Next
<1>7. ASSUME NEW i \in Sweeps, DeleteBatch(i) PROVE Contract!Next
  <2>1. phase[i] = "delete" /\ phase' = [phase EXCEPT ![i] = NextPhase(last[i])]
        /\ Del(batch[i]) /\ UNCHANGED tenant
        /\ NextPhase(last[i]) \in {"scan", "delete", "done", "failed"}
    BY <1>7 DEF DeleteBatch, NextPhase
  <2>2. batch[i] \in SUBSET {k \in Keys : k[2] = tenant[i]}
    BY <2>1 DEF IInv, BatchesAreOfTenant
  <2>3. NextPhase(last[i]) = "done" => old'[i] = {}
    BY <2>1 DEF IInv, SweepsCoverOldKeys, Del, NextPhase
  <2>4. Contract!Sweep(i)
    BY <2>1, <2>2, <2>3, DelContents, SweepCommandRefines
  <2> QED BY <2>4 DEF Contract!Next
<1>8. ASSUME NEW i \in Sweeps, SweepFails(i) PROVE Contract!Next
  <2>1. phase[i] \in {"scan", "delete"} /\ phase' = [phase EXCEPT ![i] = "failed"]
        /\ UNCHANGED tenant
    BY <1>8 DEF SweepFails
  <2>2. PICK K \in SUBSET {k \in Keys : k[2] = tenant[i]} :
            /\ Contents' = [k \in Keys |-> IF k \in K THEN Absent ELSE Contents[k]]
            /\ Contract!Pay(K)
    <3>1. CASE UNCHANGED <<db, old, pending, wrote>>
      <4>1. /\ Contents' = [k \in Keys |-> IF k \in {} THEN Absent ELSE Contents[k]]
            /\ Contract!Pay({})
        BY <3>1 DEF Contents, Content, Present, Contract!Pay, IInv, TypeOK
      <4> QED BY <4>1
    <3>2. CASE phase[i] = "delete" /\ Del(batch[i])
      <4>1. batch[i] \in SUBSET {k \in Keys : k[2] = tenant[i]}
        BY <3>2 DEF IInv, BatchesAreOfTenant
      <4> QED BY <3>2, <4>1, DelContents
    <3> QED BY <1>8, <3>1, <3>2 DEF SweepFails
  <2>3. Contract!Sweep(i)
    BY <2>1, <2>2, SweepCommandRefines
  <2> QED BY <2>3 DEF Contract!Next
<1>9. CASE UNCHANGED vars
  BY <1>9 DEF vars, sweepVars, Contents, Content, Present, Statuses, Progress
<1> QED
  BY <1>1, <1>2, <1>3, <1>4, <1>5, <1>6, <1>7, <1>8, <1>9 DEF Next, Command, Sweep

\* RedisPermissionCache implements SweptCache: texts are entries, a SCAN or DEL is
\* a command of its sweep, and a sweep returns nil only when it owes nothing.
THEOREM Refinement == Spec => RefinesContract
<1>1. Init => Contract!Init
  BY DEF Init, Contract!Init, Contract!Cache!Init, Contract!Keys, Keys, Content, Present, Progress
<1>2. IInv /\ [Next]_vars => [Contract!Next]_<<Contents, Statuses, tenant, old>>
  BY StepRefines
<1> QED BY <1>1, <1>2, InvariantHolds, PTL
        DEF Spec, RefinesContract, Contract!Spec, Contents, Statuses
=============================================================================
