------------------------- MODULE InMemoryCacheProofs -------------------------
(***************************************************************************)
(* Theorems about InMemoryCache and the keys of both caches, for any       *)
(* callers, ids without ":", permissions and addresses.                    *)
(*                                                                         *)
(* The refinement rests on two facts: keys are exact, so that an operation *)
(* on the flat map touches the entries of one pair, or of one tenant; and  *)
(* no array has two owners, so that a write to a slice changes that slice  *)
(* only.                                                                   *)
(***************************************************************************)
EXTENDS InMemoryCache, SequenceTheorems, TLAPS

\* The characters of a joined key.
LEMMA KeyCharacters ==
    ASSUME NEW u \in Users, NEW t \in Tenants
    PROVE  /\ u \in Seq(Chars \ {Colon}) /\ t \in Seq(Chars \ {Colon})
           /\ memKey(u, t) \in Seq(Chars)
           /\ Len(memKey(u, t)) = Len(u) + 1 + Len(t)
           /\ \A i \in 1..Len(u) : memKey(u, t)[i] = u[i]
           /\ memKey(u, t)[Len(u) + 1] = Colon
           /\ \A i \in 1..Len(t) : memKey(u, t)[Len(u) + 1 + i] = t[i]
<1>1. u \in Seq(Chars) /\ t \in Seq(Chars) /\ <<Colon>> \in Seq(Chars)
      /\ u \in Seq(Chars \ {Colon}) /\ t \in Seq(Chars \ {Colon})
  BY IdsHaveNoColon
<1>2. /\ u \o <<Colon>> \in Seq(Chars)
      /\ Len(u \o <<Colon>>) = Len(u) + 1
      /\ \A i \in 1..Len(u) : (u \o <<Colon>>)[i] = u[i]
      /\ (u \o <<Colon>>)[Len(u) + 1] = Colon
  BY <1>1
<1> QED BY <1>1, <1>2 DEF memKey

\* The suffix ":t" of a key.
LEMMA SuffixCharacters ==
    ASSUME NEW s \in Seq(Chars), NEW t \in Tenants, endsWith(s, <<Colon>> \o t)
    PROVE  /\ Len(t) + 1 <= Len(s)
           /\ s[Len(s) - Len(t)] = Colon
           /\ \A i \in 1..Len(t) : s[Len(s) - Len(t) + i] = t[i]
<1> DEFINE x == <<Colon>> \o t
<1>1. /\ t \in Seq(Chars) /\ <<Colon>> \in Seq(Chars)
  BY IdsHaveNoColon
<1>2. /\ x \in Seq(Chars) /\ Len(x) = Len(t) + 1 /\ x[1] = Colon
      /\ \A i \in 1..Len(t) : x[i + 1] = t[i]
  BY <1>1
<1> HIDE DEF x
<1>3. Len(x) <= Len(s) /\ SubSeq(s, Len(s) - Len(x) + 1, Len(s)) = x
  BY DEF endsWith, x
<1>4. \A i \in 1..Len(x) : x[i] = s[Len(s) - Len(x) + i]
  <2> TAKE i \in 1..Len(x)
  <2>1. Len(s) \in Nat /\ Len(x) \in Nat
    BY <1>2
  <2>2. SubSeq(s, Len(s) - Len(x) + 1, Len(s))[i] = s[(Len(s) - Len(x) + 1) + i - 1]
    BY <1>2, <1>3, <2>1
  <2> QED BY <1>3, <2>1, <2>2
<1>5. Len(t) \in Nat /\ Len(s) \in Nat
  BY <1>1
<1> QED BY <1>2, <1>3, <1>4, <1>5

\* The suffix test finds the keys of the tenant and no others.
THEOREM SuffixIsExact ==
    ASSUME NEW u \in Users, NEW t \in Tenants, NEW t2 \in Tenants
    PROVE  OfTenant(memKey(u, t), t2) <=> t = t2
<1> DEFINE k == memKey(u, t)
<1>1. /\ t \in Seq(Chars \ {Colon}) /\ t2 \in Seq(Chars \ {Colon})
      /\ u \in Seq(Chars \ {Colon})
  BY IdsHaveNoColon
<1>2. Len(t) \in Nat /\ Len(t2) \in Nat /\ Len(u) \in Nat
  BY <1>1
<1>3. ASSUME OfTenant(k, t2) PROVE t = t2
  <2>1. /\ Len(t2) + 1 <= Len(k) /\ k[Len(k) - Len(t2)] = Colon
        /\ \A i \in 1..Len(t2) : k[Len(k) - Len(t2) + i] = t2[i]
    BY <1>3, KeyCharacters, SuffixCharacters DEF OfTenant
  <2>2. ~(Len(t2) < Len(t))
    <3> SUFFICES ASSUME Len(t2) < Len(t) PROVE FALSE
      OBVIOUS
    <3>1. k[Len(u) + 1 + (Len(t) - Len(t2))] = t[Len(t) - Len(t2)]
      BY <1>2, KeyCharacters
    <3>2. t[Len(t) - Len(t2)] # Colon
      BY <1>1, <1>2
    <3> QED BY <1>2, <2>1, <3>1, <3>2, KeyCharacters
  <2>3. ~(Len(t) < Len(t2))
    <3> SUFFICES ASSUME Len(t) < Len(t2) PROVE FALSE
      OBVIOUS
    <3>1. k[Len(k) - Len(t2) + (Len(t2) - Len(t))] = t2[Len(t2) - Len(t)]
      BY <1>2, <2>1
    <3>2. t2[Len(t2) - Len(t)] # Colon
      BY <1>1, <1>2
    <3> QED BY <1>2, <3>1, <3>2, KeyCharacters
  <2>4. Len(t) = Len(t2)
    BY <1>2, <2>2, <2>3
  <2>5. \A i \in 1..Len(t) : t[i] = t2[i]
    <3> TAKE i \in 1..Len(t)
    <3>1. Len(k) = Len(u) + 1 + Len(t)
      BY KeyCharacters
    <3>2. Len(k) - Len(t2) + i = Len(u) + 1 + i
      BY <1>2, <2>4, <3>1
    <3> QED BY <2>1, <2>4, <3>2, KeyCharacters
  <2> QED BY <1>1, <2>4, <2>5, SeqEqual
<1>4. ASSUME t = t2 PROVE OfTenant(k, t2)
  <2> DEFINE x == <<Colon>> \o t
  <2>1. /\ x \in Seq(Chars) /\ Len(x) = Len(t) + 1 /\ x[1] = Colon
        /\ \A i \in 1..Len(t) : x[i + 1] = t[i]
    BY <1>1, IdsHaveNoColon
  <2>2. k \in Seq(Chars) /\ Len(k) = Len(u) + 1 + Len(t)
    BY KeyCharacters
  <2> HIDE DEF x, k
  <2> DEFINE y == SubSeq(k, Len(k) - Len(x) + 1, Len(k))
  <2>3. y \in Seq(Chars) /\ Len(y) = Len(x)
        /\ \A i \in 1..Len(x) : y[i] = k[Len(u) + i]
    BY <1>2, <2>1, <2>2
  <2>4. \A i \in 1..Len(x) : y[i] = x[i]
    <3> TAKE i \in 1..Len(x)
    <3>1. CASE i = 1
      BY <2>1, <2>3, <3>1, KeyCharacters DEF k
    <3>2. CASE i # 1
      <4>1. i - 1 \in 1..Len(t) /\ i = (i - 1) + 1
        BY <1>2, <2>1, <3>2
      <4>2. x[i] = t[i - 1] /\ k[Len(u) + 1 + (i - 1)] = t[i - 1]
        BY <2>1, <4>1, KeyCharacters DEF k
      <4>3. Len(u) + 1 + (i - 1) = Len(u) + i
        BY <1>2, <4>1
      <4> HIDE DEF y
      <4> QED BY <2>3, <4>2, <4>3
    <3> QED BY <3>1, <3>2
  <2>5. y = x
    BY <2>1, <2>3, <2>4, SeqEqual
  <2> QED BY <1>2, <1>4, <2>1, <2>2, <2>5 DEF OfTenant, endsWith, x
<1> QED BY <1>3, <1>4

\* Two members never share a key.
THEOREM KeysAreExact ==
    ASSUME NEW u \in Users, NEW t \in Tenants, NEW u2 \in Users, NEW t2 \in Tenants,
           memKey(u, t) = memKey(u2, t2)
    PROVE  u = u2 /\ t = t2
<1>1. t = t2
  BY SuffixIsExact
<1>2. u \in Seq(Chars) /\ u2 \in Seq(Chars) /\ t \in Seq(Chars)
  BY IdsHaveNoColon
<1>3. Len(u) = Len(u2)
  BY <1>1, <1>2, KeyCharacters
<1>4. \A i \in 1..Len(u) : u[i] = u2[i]
  BY <1>3, KeyCharacters
<1> QED BY <1>1, <1>2, <1>3, <1>4, SeqEqual
\* A prefix does not change what a string ends with.
LEMMA SuffixAfterPrefix ==
    ASSUME NEW p \in Seq(Chars), NEW m \in Seq(Chars), NEW x \in Seq(Chars),
           Len(x) <= Len(m)
    PROVE  endsWith(p \o m, x) <=> endsWith(m, x)
<1> DEFINE s == p \o m
           y == SubSeq(s, Len(s) - Len(x) + 1, Len(s))
           z == SubSeq(m, Len(m) - Len(x) + 1, Len(m))
<1>1. Len(p) \in Nat /\ Len(m) \in Nat /\ Len(x) \in Nat
  OBVIOUS
<1>2. /\ s \in Seq(Chars) /\ Len(s) = Len(p) + Len(m)
      /\ \A i \in 1..Len(m) : s[Len(p) + i] = m[i]
  OBVIOUS
<1> HIDE DEF s
<1>3. /\ y \in Seq(Chars) /\ Len(y) = Len(x)
      /\ \A i \in 1..Len(x) : y[i] = s[Len(s) - Len(x) + i]
  BY <1>1, <1>2
<1>4. /\ z \in Seq(Chars) /\ Len(z) = Len(x)
      /\ \A i \in 1..Len(x) : z[i] = m[Len(m) - Len(x) + i]
  BY <1>1
<1>5. \A i \in 1..Len(x) : y[i] = z[i]
  <2> TAKE i \in 1..Len(x)
  <2>1. Len(m) - Len(x) + i \in 1..Len(m)
    BY <1>1
  <2>2. Len(s) - Len(x) + i = Len(p) + (Len(m) - Len(x) + i)
    BY <1>1, <1>2
  <2> HIDE DEF y, z
  <2> QED BY <1>2, <1>3, <1>4, <2>1, <2>2
<1>6. y = z
  BY <1>3, <1>4, <1>5, SeqEqual
<1>7. endsWith(s, x) <=> y = x
  BY <1>1, <1>2 DEF endsWith
<1>8. endsWith(m, x) <=> z = x
  BY DEF endsWith
<1> HIDE DEF y, z
<1> QED BY <1>6, <1>7, <1>8 DEF s

\* The pattern of InvalidateTenant selects the Redis keys of the tenant and no
\* others.
THEOREM PatternIsExact ==
    ASSUME NEW u \in Users, NEW t \in Tenants, NEW t2 \in Tenants
    PROVE  tenantPattern(RedisKey(u, t), t2) <=> t = t2
<1> DEFINE m == memKey(u, t)
           x == <<Colon>> \o t2
           k == KeyPrefix \o m
<1>1. /\ m \in Seq(Chars) /\ x \in Seq(Chars) /\ KeyPrefix \in Seq(Chars)
      /\ Len(x) = Len(t2) + 1
  BY KeyCharacters, IdsHaveNoColon
<1>2. Len(t2) \in Nat /\ t2 \in Seq(Chars)
  BY IdsHaveNoColon
<1> HIDE DEF m, x
<1>3. Len(k) = Len(KeyPrefix) + Len(m) /\ SubSeq(k, 1, Len(KeyPrefix)) = KeyPrefix
  BY <1>1
<1>4. tenantPattern(k, t2) <=> Len(x) <= Len(m) /\ endsWith(k, x)
  BY <1>1, <1>2, <1>3 DEF tenantPattern, x
<1>5. endsWith(m, x) <=> t = t2
  BY SuffixIsExact DEF OfTenant, m, x
<1>6. endsWith(m, x) => Len(x) <= Len(m)
  BY DEF endsWith
<1> QED BY <1>1, <1>4, <1>5, <1>6, SuffixAfterPrefix DEF RedisKey, m
-----------------------------------------------------------------------------
(***************************************************************************)
(* No array has two owners.                                                *)
(***************************************************************************)
IInv == TypeOK /\ NoAliasing

\* The array that is made is nobody's yet.
LEMMA FreshIsUnowned ==
    ASSUME ~(Addrs \subseteq InUse)
    PROVE  Fresh \in Addrs /\ Fresh \notin InUse
  BY DEF Fresh

\* The keys of the map.
LEMMA KeyTypes ==
    \A u \in Users, t \in Tenants : memKey(u, t) \in MemKeys
  BY DEF MemKeys

\* A copy under a key keeps the invariant.
LEMMA StoreCopyKeepsIInv ==
    ASSUME IInv, NEW k \in MemKeys, NEW s \in Addrs \cup {Nil}, StoreCopy(k, s)
    PROVE  IInv'
<1>1. Fresh \in Addrs /\ Fresh \notin InUse
  BY FreshIsUnowned DEF StoreCopy, Allocate
<1>2. Contents(s) \in Arrays
  BY DEF IInv, TypeOK, Contents, Arrays
<1> DEFINE a == Fresh
<1>3. /\ store' = [x \in DOMAIN store \cup {k} |-> IF x = k THEN a ELSE store[x]]
      /\ heap' = [heap EXCEPT ![a] = Contents(s)]
      /\ held' = held
  BY DEF StoreCopy, Allocate, Put
<1> HIDE DEF a
<1>4. TypeOK'
  BY <1>1, <1>2, <1>3 DEF IInv, TypeOK, a
<1>5. NoAliasing'
  BY <1>1, <1>3 DEF IInv, TypeOK, NoAliasing, InUse, a
<1> QED BY <1>4, <1>5 DEF IInv

\* A new slice of a caller keeps the invariant.
LEMMA HoldFreshKeepsIInv ==
    ASSUME IInv, NEW c \in Callers, NEW array \in Arrays, Allocate(array),
           held' = [held EXCEPT ![c] = Fresh], UNCHANGED store
    PROVE  IInv'
<1>1. Fresh \in Addrs /\ Fresh \notin InUse
  BY FreshIsUnowned DEF Allocate
<1>2. TypeOK'
  BY <1>1 DEF IInv, TypeOK, Allocate
<1>3. NoAliasing'
  BY <1>1, NilIsNoAddr DEF IInv, TypeOK, NoAliasing, InUse
<1> QED BY <1>2, <1>3 DEF IInv

\* Fewer entries keep the invariant.
LEMMA DeleteKeepsIInv ==
    ASSUME IInv, NEW K, Delete(K)
    PROVE  IInv'
  BY DEF IInv, TypeOK, NoAliasing, Delete

LEMMA StepKeepsIInv == IInv /\ [Next]_vars => IInv'
<1> SUFFICES ASSUME IInv, [Next]_vars PROVE IInv'
    OBVIOUS
<1>1. ASSUME NEW c \in Callers, NEW u \in Users, NEW t \in Tenants, Get(c, u, t)
      PROVE  IInv'
  <2>1. CASE memKey(u, t) \in DOMAIN store /\ Allocate(heap[store[memKey(u, t)]])
             /\ held' = [held EXCEPT ![c] = Fresh] /\ UNCHANGED store
    <3>1. heap[store[memKey(u, t)]] \in Arrays
      BY <2>1 DEF IInv, TypeOK
    <3> QED BY <2>1, <3>1, HoldFreshKeepsIInv
  <2>2. CASE held' = [held EXCEPT ![c] = Nil] /\ UNCHANGED <<store, heap>>
    BY <2>2, NilIsNoAddr DEF IInv, TypeOK, NoAliasing
  <2> QED BY <1>1, <2>1, <2>2 DEF Get
<1>2. ASSUME NEW c \in Callers, NEW u \in Users, NEW t \in Tenants,
             Set(c, u, t) \/ WriteThrough(c, u, t)
      PROVE  IInv'
  <2>1. CASE UNCHANGED vars
    BY <2>1 DEF vars, IInv, TypeOK, NoAliasing
  <2>2. CASE StoreCopy(memKey(u, t), held[c])
    BY <2>2, StoreCopyKeepsIInv, KeyTypes DEF IInv, TypeOK
  <2> QED BY <1>2, <2>1, <2>2 DEF Set, WriteThrough
<1>3. ASSUME NEW u \in Users, NEW t \in Tenants, Invalidate(u, t) PROVE IInv'
  BY <1>3, DeleteKeepsIInv DEF Invalidate
<1>4. ASSUME NEW t \in Tenants, InvalidateTenant(t) PROVE IInv'
  BY <1>4, DeleteKeepsIInv DEF InvalidateTenant
<1>5. ASSUME NEW c \in Callers, NEW array \in Arrays, NewSlice(c, array) PROVE IInv'
  BY <1>5, HoldFreshKeepsIInv DEF NewSlice
<1>6. ASSUME NEW c \in Callers, NEW p \in Perms, WriteToSlice(c, p) PROVE IInv'
  BY <1>6 DEF IInv, TypeOK, NoAliasing, WriteToSlice, Arrays
<1>7. CASE UNCHANGED vars
  BY <1>7 DEF vars, IInv, TypeOK, NoAliasing
<1> QED
  BY <1>1, <1>2, <1>3, <1>4, <1>5, <1>6, <1>7 DEF Next, Call

LEMMA InvariantHolds == Spec => []IInv
<1>1. Init => IInv
  BY NilIsNoAddr DEF Init, IInv, TypeOK, NoAliasing, Arrays
<1> QED BY <1>1, StepKeepsIInv, PTL DEF Spec

\* The variables keep their types.
THEOREM TypeCorrect == Spec => []TypeOK
<1>1. IInv => TypeOK
  BY DEF IInv
<1> QED BY <1>1, InvariantHolds, PTL

\* No write through a slice reaches an entry or another slice.
THEOREM ArraysHaveOneOwner == Spec => []NoAliasing
<1>1. IInv => NoAliasing
  BY DEF IInv
<1> QED BY <1>1, InvariantHolds, PTL
-----------------------------------------------------------------------------
(***************************************************************************)
(* The cache implements its contract.                                      *)
(***************************************************************************)
Slices == [c \in Callers |-> IF held[c] = Nil THEN Nil ELSE heap[held[c]]]

Pairs == Users \X Tenants

\* What the map says of a pair of ids.
LEMMA ViewOf ==
    ASSUME NEW u \in Users, NEW t \in Tenants
    PROVE  View[<<u, t>>] = IF memKey(u, t) \in DOMAIN store
                            THEN heap[store[memKey(u, t)]] ELSE Nil
  BY DEF View

\* A new array changes neither the map nor the slices of the callers.
LEMMA AllocateIsInvisible ==
    ASSUME IInv, NEW array, Allocate(array)
    PROVE  /\ \A k \in DOMAIN store : heap'[store[k]] = heap[store[k]]
           /\ \A c \in Callers : held[c] # Nil => heap'[held[c]] = heap[held[c]]
           /\ heap'[Fresh] = array
<1>1. Fresh \in Addrs /\ Fresh \notin InUse
  BY FreshIsUnowned DEF Allocate
<1> QED BY <1>1 DEF IInv, TypeOK, Allocate, InUse

\* A copy of a caller's slice changes the entry of one pair.
LEMMA StoreCopyView ==
    ASSUME IInv, NEW u \in Users, NEW t \in Tenants, NEW c \in Callers,
           StoreCopy(memKey(u, t), held[c])
    PROVE  /\ View' = [View EXCEPT ![<<u, t>>] = Contents(held[c])]
           /\ Slices' = Slices
<1>1. /\ \A k \in DOMAIN store : heap'[store[k]] = heap[store[k]]
      /\ \A d \in Callers : held[d] # Nil => heap'[held[d]] = heap[held[d]]
      /\ heap'[Fresh] = Contents(held[c])
  BY AllocateIsInvisible DEF StoreCopy
<1>2. /\ DOMAIN store' = DOMAIN store \cup {memKey(u, t)}
      /\ store'[memKey(u, t)] = Fresh
      /\ \A k \in DOMAIN store : k # memKey(u, t) => store'[k] = store[k]
      /\ held' = held
  BY DEF StoreCopy, Put
<1>3. \A v \in Users, s \in Tenants :
          View'[<<v, s>>] = IF <<v, s>> = <<u, t>> THEN Contents(held[c]) ELSE View[<<v, s>>]
  <2> TAKE v \in Users, s \in Tenants
  <2>1. View'[<<v, s>>] = IF memKey(v, s) \in DOMAIN store'
                          THEN heap'[store'[memKey(v, s)]] ELSE Nil
    BY DEF View
  <2>2. memKey(v, s) = memKey(u, t) => <<v, s>> = <<u, t>>
    BY KeysAreExact
  <2> QED BY <1>1, <1>2, <2>1, <2>2, ViewOf
<1>4. View' = [View EXCEPT ![<<u, t>>] = Contents(held[c])]
  <2>1. View = [k \in Pairs |-> View[k]] /\ View' = [k \in Pairs |-> View'[k]]
    BY DEF View, Pairs
  <2>2. \A k \in Pairs : View'[k] = IF k = <<u, t>> THEN Contents(held[c]) ELSE View[k]
    BY <1>3 DEF Pairs
  <2> HIDE DEF View
  <2> QED BY <2>1, <2>2
<1> QED BY <1>1, <1>2, <1>4 DEF Slices

\* A deletion of keys empties the entries of the pairs with these keys.
LEMMA DeleteView ==
    ASSUME NEW K, Delete(K)
    PROVE  /\ View' = [k \in Pairs |-> IF memKey(k[1], k[2]) \in K THEN Nil ELSE View[k]]
           /\ Slices' = Slices
  BY DEF Delete, View, Slices, Pairs

\* Every step is a step of the contract, or is not seen by it.
LEMMA StepRefines == IInv /\ [Next]_vars => [Contract!Next]_<<View, Slices>>
<1> SUFFICES ASSUME IInv, [Next]_vars PROVE [Contract!Next]_<<View, Slices>>
    OBVIOUS
<1>1. ASSUME NEW c \in Callers, NEW u \in Users, NEW t \in Tenants, Get(c, u, t)
      PROVE  Contract!Get(c, <<u, t>>)
  <2>1. View' = View /\ Slices' = [Slices EXCEPT ![c] = View[<<u, t>>]]
    <3>1. CASE memKey(u, t) \in DOMAIN store /\ Allocate(heap[store[memKey(u, t)]])
               /\ held' = [held EXCEPT ![c] = Fresh] /\ UNCHANGED store
      <4>1. Fresh # Nil
        BY <3>1, FreshIsUnowned, NilIsNoAddr DEF Allocate
      <4>2. held'[c] = Fresh /\ \A d \in Callers : d # c => held'[d] = held[d]
        BY <3>1 DEF IInv, TypeOK
      <4>3. View' = View
        BY <3>1, AllocateIsInvisible DEF View
      <4>4. \A d \in Callers : Slices'[d] = IF d = c THEN View[<<u, t>>] ELSE Slices[d]
        BY <3>1, <4>1, <4>2, AllocateIsInvisible, ViewOf DEF Slices
      <4> QED BY <4>3, <4>4 DEF Slices
    <3>2. CASE memKey(u, t) \notin DOMAIN store
               /\ held' = [held EXCEPT ![c] = Nil] /\ UNCHANGED <<store, heap>>
      <4>1. View' = View /\ View[<<u, t>>] = Nil
        BY <3>2, ViewOf DEF View
      <4>2. Slices' = [Slices EXCEPT ![c] = Nil]
        BY <3>2 DEF IInv, TypeOK, Slices
      <4> QED BY <4>1, <4>2
    <3> QED BY <1>1, <3>1, <3>2 DEF Get
  <2> QED BY <2>1 DEF Contract!Get, Slices
<1>2. ASSUME NEW c \in Callers, NEW u \in Users, NEW t \in Tenants, WriteThrough(c, u, t)
      PROVE  Contract!WriteThrough(c, <<u, t>>)
  <2>1. Contents(held[c]) \in Contract!Kept(Slices[c])
    BY DEF Contract!Kept, Contents, Slices
  <2>2. /\ View' = [View EXCEPT ![<<u, t>>] = Contents(held[c])]
        /\ Slices' = Slices
    BY <1>2, StoreCopyView DEF WriteThrough
  <2> QED BY <2>1, <2>2 DEF Contract!WriteThrough, Contract!Cache!WriteThrough, Slices
<1>3. ASSUME NEW c \in Callers, NEW u \in Users, NEW t \in Tenants, Set(c, u, t)
      PROVE  Contract!Set(c, <<u, t>>) \/ UNCHANGED <<View, Slices>>
  <2>1. CASE UNCHANGED vars
    BY <2>1 DEF vars, View, Slices
  <2>2. CASE memKey(u, t) \notin DOMAIN store /\ StoreCopy(memKey(u, t), held[c])
    <3>1. Contents(held[c]) \in Contract!Kept(Slices[c])
      BY DEF Contract!Kept, Contents, Slices
    <3>2. View[<<u, t>>] = Nil
      BY <2>2, ViewOf
    <3>3. /\ View' = [View EXCEPT ![<<u, t>>] = Contents(held[c])]
          /\ Slices' = Slices
      BY <2>2, StoreCopyView
    <3> QED BY <3>1, <3>2, <3>3
            DEF Contract!Set, Contract!Cache!SetNX, Contract!Cache!Hit, Slices
  <2> QED BY <1>3, <2>1, <2>2 DEF Set
<1>4. ASSUME NEW u \in Users, NEW t \in Tenants, Invalidate(u, t)
      PROVE  Contract!Invalidate(<<u, t>>)
  <2>1. /\ View' = [k \in Pairs |-> IF memKey(k[1], k[2]) = memKey(u, t) THEN Nil ELSE View[k]]
        /\ Slices' = Slices
    BY <1>4, DeleteView DEF Invalidate
  <2>2. \A k \in Pairs : memKey(k[1], k[2]) = memKey(u, t) <=> k \in {<<u, t>>}
    BY KeysAreExact DEF Pairs
  <2>3. View' = [k \in Pairs |-> IF k \in {<<u, t>>} THEN Nil ELSE View[k]]
    BY <2>1, <2>2
  <2> QED BY <2>1, <2>3
          DEF Contract!Invalidate, Contract!Cache!Drop, Contract!Keys, Pairs, Slices
<1>5. ASSUME NEW t \in Tenants, InvalidateTenant(t) PROVE Contract!InvalidateTenant(t)
  <2> DEFINE K == {k \in DOMAIN store : OfTenant(k, t)}
  <2>1. /\ View' = [k \in Pairs |-> IF memKey(k[1], k[2]) \in K THEN Nil ELSE View[k]]
        /\ Slices' = Slices
    BY <1>5, DeleteView DEF InvalidateTenant
  <2>2. \A k \in Pairs : OfTenant(memKey(k[1], k[2]), t) <=> k[2] = t
    BY SuffixIsExact DEF Pairs
  <2>3. \A k \in Pairs : memKey(k[1], k[2]) \notin DOMAIN store => View[k] = Nil
    BY DEF View, Pairs
  <2>4. View' = [k \in Pairs |-> IF k \in {l \in Pairs : l[2] = t} THEN Nil ELSE View[k]]
    BY <2>1, <2>2, <2>3
  <2> QED BY <2>1, <2>4
          DEF Contract!InvalidateTenant, Contract!Cache!Drop, Contract!Keys, Pairs, Slices
<1>6. ASSUME NEW c \in Callers, NEW array \in Arrays, NewSlice(c, array)
      PROVE  Contract!Use(c)
  <2>1. Fresh # Nil
    BY <1>6, FreshIsUnowned, NilIsNoAddr DEF NewSlice, Allocate
  <2>2. View' = View
    BY <1>6, AllocateIsInvisible DEF NewSlice, View
  <2>3. \A d \in Callers : Slices'[d] = IF d = c THEN array ELSE Slices[d]
    BY <1>6, <2>1, AllocateIsInvisible DEF NewSlice, IInv, TypeOK, Slices
  <2>4. Slices' = [Slices EXCEPT ![c] = array]
    BY <2>3 DEF Slices
  <2> QED BY <2>2, <2>4 DEF Contract!Use, Slices
<1>7. ASSUME NEW c \in Callers, NEW p \in Perms, WriteToSlice(c, p)
      PROVE  Contract!Use(c)
  <2>1. View' = View
    BY <1>7 DEF WriteToSlice, IInv, TypeOK, NoAliasing, View
  <2>2. \A d \in Callers : Slices'[d] = IF d = c THEN <<p>> ELSE Slices[d]
    BY <1>7 DEF WriteToSlice, IInv, TypeOK, NoAliasing, Slices
  <2>3. Slices' = [Slices EXCEPT ![c] = <<p>>]
    BY <2>2 DEF Slices
  <2>4. <<p>> \in Arrays
    BY DEF Arrays
  <2> QED BY <2>1, <2>3, <2>4 DEF Contract!Use, Slices
<1>8. CASE UNCHANGED vars
  BY <1>8 DEF vars, View, Slices
<1>9. \A u \in Users, t \in Tenants : <<u, t>> \in Contract!Keys
  BY DEF Contract!Keys
<1> QED
  BY <1>1, <1>2, <1>3, <1>4, <1>5, <1>6, <1>7, <1>8, <1>9 DEF Next, Call, Contract!Next

\* The in-memory cache implements its contract: on the map of pairs and the
\* callers' arrays, every operation does what PermissionCache says, and nothing
\* else changes the map.
THEOREM Refinement == Spec => RefinesContract
<1>1. Init => Contract!Init
  BY DEF Init, Contract!Init, Contract!Cache!Init, Contract!Keys, View
<1>2. IInv /\ [Next]_vars => [Contract!Next]_<<View, Slices>>
  BY StepRefines
<1> QED BY <1>1, <1>2, InvariantHolds, PTL DEF Spec, RefinesContract, Contract!Spec, Slices
=============================================================================
