----------------------------- MODULE SequenceFacts -----------------------------
(***************************************************************************)
(* Lemmas about the operators of the community modules that the models     *)
(* build their lists with, as far as the proofs need them: induction over  *)
(* the naturals, FlattenSeq, and the existence of a sorted permutation.    *)
(*                                                                         *)
(* The induction theorems of the library take a predicate as a parameter.  *)
(* Here induction is stated for a set, which the provers can instantiate,  *)
(* and follows from the well-foundedness of strict inclusion between finite*)
(* sets.                                                                   *)
(***************************************************************************)
EXTENDS Integers, SequencesExt, FiniteSetTheorems, SequenceTheorems,
        WellFoundedInduction, TLAPS

\* A non-empty set of naturals has a least element.
LEMMA LeastNatural ==
    ASSUME NEW T, T \subseteq Nat, T # {}
    PROVE  \E x \in T : \A y \in T : x <= y
<1> DEFINE R == StrictSubsetOrdering(Nat)
           U == {0..k : k \in T}
<1>1. IsWellFoundedOn(R, FiniteSubsetsOf(Nat))
  BY FS_StrictSubsetOrderingWellFounded
<1>2. U # {} /\ U \subseteq FiniteSubsetsOf(Nat)
  <2>1. ASSUME NEW k \in T PROVE 0..k \in FiniteSubsetsOf(Nat)
    <3>1. k \in Int /\ 0 \in Int /\ 0..k \in SUBSET Nat
      OBVIOUS
    <3>2. IsFiniteSet(0..k)
      BY <3>1, FS_Interval
    <3> QED BY <3>1, <3>2 DEF FiniteSubsetsOf
  <2> QED BY <2>1
<1>3. \E I \in U : \A J \in U : ~ (<<J, I>> \in R)
  <2> HIDE DEF R, U
  <2> QED BY <1>1, <1>2, WFMin
<1>4. PICK x \in T : \A y \in T : ~ (<<0..y, 0..x>> \in R)
  BY <1>3
<1>5. \A y \in T : ~ (y < x)
  <2> SUFFICES ASSUME NEW y \in T, y < x PROVE FALSE
    OBVIOUS
  <2>1. 0..y \subseteq 0..x /\ x \in 0..x /\ x \notin 0..y
    OBVIOUS
  <2>2. 0..y \in SUBSET Nat /\ 0..x \in SUBSET Nat
    OBVIOUS
  <2>3. <<0..y, 0..x>> \in R
    BY <2>1, <2>2 DEF StrictSubsetOrdering
  <2> QED BY <1>4, <2>3
<1> QED BY <1>4, <1>5

\* A set with 0 and the successors of its members holds every natural.
LEMMA Induction ==
    ASSUME NEW S, 0 \in S, \A k \in Nat : k \in S => k + 1 \in S
    PROVE  \A k \in Nat : k \in S
<1> DEFINE T == {k \in Nat : k \notin S}
<1>1. SUFFICES ASSUME T # {} PROVE FALSE
  OBVIOUS
<1>2. PICK x \in T : \A y \in T : x <= y
  <2>1. T \subseteq Nat
    OBVIOUS
  <2> HIDE DEF T
  <2> QED BY <1>1, <2>1, LeastNatural
<1>3. x \in Nat /\ x # 0 /\ x - 1 \in Nat /\ x - 1 \notin T
  BY <1>2
<1> QED BY <1>2, <1>3

-----------------------------------------------------------------------------
\* The parts of a flattened sequence, one after the other.
LEMMA FlattenSeqParts ==
    ASSUME NEW S, NEW ss \in Seq(Seq(S)), Len(ss) # 0
    PROVE  \E f \in [1..Len(ss) -> Seq(S)] :
               /\ FlattenSeq(ss) = f[Len(ss)]
               /\ f[1] = ss[1]
               /\ \A i \in 1..Len(ss) : i # 1 => f[i] = f[i - 1] \o ss[i]
<1> DEFINE n == Len(ss)
           Eq(f, k) == f = [i \in 1..k |-> IF i = 1 THEN ss[i] ELSE f[i - 1] \o ss[i]]
           Defined == {k \in Nat : k \in 1..n => \E f : Eq(f, k)}
<1>1. n \in Nat /\ n \in 1..n /\ 1 \in 1..n
  BY LenProperties
<1> HIDE DEF n
<1>2. \E f : Eq(f, n)
  <2>1. 0 \in Defined
    OBVIOUS
  <2>2. \E f : Eq(f, 1)
    <3>1. Eq([i \in 1..1 |-> ss[1]], 1)
      OBVIOUS
    <3> HIDE DEF Eq
    <3> QED BY <3>1
  <2>3. ASSUME NEW k \in Nat, k # 0, NEW f, Eq(f, k) PROVE \E g : Eq(g, k + 1)
    <3> DEFINE g == [i \in 1..(k + 1) |-> IF i = k + 1 THEN f[k] \o ss[i] ELSE f[i]]
    <3>1. \A i \in 1..k : f[i] = IF i = 1 THEN ss[i] ELSE f[i - 1] \o ss[i]
      BY <2>3
    <3>2. \A i \in 1..(k + 1) : g[i] = IF i = 1 THEN ss[i] ELSE g[i - 1] \o ss[i]
      <4>1. ASSUME NEW i \in 1..k PROVE g[i] = f[i] /\ (i # 1 => g[i - 1] = f[i - 1])
        BY <2>3
      <4>2. /\ k \in 1..(k + 1) /\ k + 1 \in 1..(k + 1)
            /\ k # k + 1 /\ (k + 1) - 1 = k /\ k + 1 # 1
        BY <2>3
      <4>5. g[k + 1] = f[k] \o ss[k + 1] /\ g[k] = f[k]
        BY <4>2
      <4> HIDE DEF g
      <4>3. \A i \in 1..k : g[i] = IF i = 1 THEN ss[i] ELSE g[i - 1] \o ss[i]
        BY <4>1, <3>1
      <4>4. \A i \in 1..(k + 1) : i \in 1..k \/ i = k + 1
        OBVIOUS
      <4> QED BY <4>2, <4>5, <4>3, <4>4
    <3>3. g = [i \in 1..(k + 1) |-> g[i]]
      OBVIOUS
    <3> HIDE DEF g
    <3>4. Eq(g, k + 1)
      BY <3>2, <3>3
    <3> HIDE DEF Eq
    <3> QED BY <3>4
  <2> HIDE DEF Eq
  <2>4. ASSUME NEW k \in Nat, k \in Defined PROVE k + 1 \in Defined
    <3> SUFFICES ASSUME k + 1 \in 1..n PROVE \E f : Eq(f, k + 1)
      OBVIOUS
    <3>1. k = 0 \/ k \in 1..n
      BY <1>1
    <3> QED BY <3>1, <2>2, <2>3, <2>4
  <2> HIDE DEF Defined
  <2>5. n \in Defined
    BY <1>1, <2>1, <2>4, Induction
  <2> QED BY <1>1, <2>5 DEF Defined
<1> DEFINE f == CHOOSE f : Eq(f, n)
<1>3. f = [i \in 1..n |-> IF i = 1 THEN ss[i] ELSE f[i - 1] \o ss[i]]
  <2>1. Eq(f, n)
    <3> HIDE DEF Eq
    <3> QED BY <1>2
  <2> HIDE DEF f
  <2> QED BY <2>1
<1>4. FlattenSeq(ss) = f[n]
  BY DEF FlattenSeq, n
<1> HIDE DEF f
<1>5. /\ f[1] = ss[1] /\ f = [i \in 1..n |-> f[i]]
      /\ \A i \in 1..n : i # 1 => f[i] = f[i - 1] \o ss[i]
  BY <1>1, <1>3
<1>6. \A i \in 1..n : f[i] \in Seq(S)
  <2> DEFINE Typed == {k \in Nat : k \in 1..n => f[k] \in Seq(S)}
  <2>1. 0 \in Typed
    OBVIOUS
  <2>2. ASSUME NEW k \in Nat, k \in Typed PROVE k + 1 \in Typed
    <3> SUFFICES ASSUME k + 1 \in 1..n PROVE f[k + 1] \in Seq(S)
      OBVIOUS
    <3>1. ss[k + 1] \in Seq(S)
      BY ElementOfSeq DEF n
    <3>2. CASE k = 0
      BY <3>1, <3>2, <1>5
    <3>3. CASE k # 0
      <4>1. k \in 1..n /\ (k + 1) - 1 = k /\ k + 1 # 1
        BY <3>3, <1>1
      <4>2. f[k + 1] = f[k] \o ss[k + 1]
        BY <4>1, <1>5
      <4> QED BY <2>2, <4>1, <4>2, <3>1, ConcatProperties
    <3> QED BY <3>2, <3>3
  <2>3. \A k \in Nat : k \in Typed
    <3> HIDE DEF Typed
    <3> QED BY <2>1, <2>2, Induction
  <2> QED BY <2>3, <1>1
<1> QED BY <1>4, <1>5, <1>6 DEF n

\* What a concatenation holds; one without repetition has disjoint parts.
LEMMA ConcatContents ==
    ASSUME NEW S, NEW s \in Seq(S), NEW t \in Seq(S)
    PROVE  /\ ToSet(s \o t) = ToSet(s) \cup ToSet(t)
           /\ IsInjective(s \o t) => ToSet(s) \cap ToSet(t) = {} /\ IsInjective(s)
<1> DEFINE st == s \o t
<1>1. /\ Len(s) \in Nat /\ Len(t) \in Nat
      /\ DOMAIN s = 1..Len(s) /\ DOMAIN t = 1..Len(t) /\ DOMAIN st = 1..(Len(s) + Len(t))
      /\ \A i \in 1..(Len(s) + Len(t)) : st[i] = IF i <= Len(s) THEN s[i] ELSE t[i - Len(s)]
  BY ConcatProperties, LenProperties
<1> HIDE DEF st
<1>2. \A i \in 1..Len(s) : i \in DOMAIN st /\ st[i] = s[i]
  BY <1>1
<1>3. \A j \in 1..Len(t) : /\ Len(s) + j \in DOMAIN st /\ st[Len(s) + j] = t[j]
                           /\ Len(s) + j \notin 1..Len(s)
  <2> SUFFICES ASSUME NEW j \in 1..Len(t)
               PROVE  /\ Len(s) + j \in DOMAIN st /\ st[Len(s) + j] = t[j]
                      /\ Len(s) + j \notin 1..Len(s)
    OBVIOUS
  <2>1. /\ Len(s) + j \in 1..(Len(s) + Len(t)) /\ ~(Len(s) + j <= Len(s))
        /\ (Len(s) + j) - Len(s) = j
    BY <1>1
  <2> QED BY <2>1, <1>1
<1>4. \A i \in DOMAIN st : \/ i \in 1..Len(s)
                           \/ \E j \in 1..Len(t) : i = Len(s) + j
  <2> SUFFICES ASSUME NEW i \in DOMAIN st, i \notin 1..Len(s)
               PROVE  \E j \in 1..Len(t) : i = Len(s) + j
    OBVIOUS
  <2>1. i - Len(s) \in 1..Len(t) /\ i = Len(s) + (i - Len(s))
    BY <1>1
  <2> QED BY <2>1
<1>5. ToSet(st) = ToSet(s) \cup ToSet(t)
  <2>1. ToSet(st) \subseteq ToSet(s) \cup ToSet(t)
    BY <1>1, <1>2, <1>3, <1>4 DEF ToSet
  <2>2. ToSet(s) \cup ToSet(t) \subseteq ToSet(st)
    BY <1>1, <1>2, <1>3 DEF ToSet
  <2> QED BY <2>1, <2>2
<1>6. IsInjective(st) => ToSet(s) \cap ToSet(t) = {}
  <2> SUFFICES ASSUME IsInjective(st), NEW i \in 1..Len(s), NEW j \in 1..Len(t), s[i] = t[j]
               PROVE  FALSE
    BY <1>1 DEF ToSet
  <2> QED BY <1>2, <1>3 DEF IsInjective
<1>7. IsInjective(st) => IsInjective(s)
  BY <1>1, <1>2 DEF IsInjective
<1> QED BY <1>5, <1>6, <1>7 DEF st

\* A flattened sequence holds what its parts hold, and if nothing twice then no
\* two parts have a member in common.
LEMMA FlattenSeqContents ==
    ASSUME NEW S, NEW ss \in Seq(Seq(S))
    PROVE  /\ FlattenSeq(ss) \in Seq(S)
           /\ ToSet(FlattenSeq(ss)) = UNION {ToSet(ss[i]) : i \in DOMAIN ss}
           /\ IsInjective(FlattenSeq(ss)) =>
                  \A i, j \in DOMAIN ss : i # j => ToSet(ss[i]) \cap ToSet(ss[j]) = {}
<1>1. CASE Len(ss) = 0
  <2>1. ss = <<>> /\ DOMAIN ss = {}
    BY <1>1, EmptySeq, LenProperties
  <2>2. FlattenSeq(ss) = <<>> /\ <<>> \in Seq(S) /\ DOMAIN <<>> = {}
    BY <1>1, <2>1, EmptySeq DEF FlattenSeq
  <2>3. ToSet(<<>>) = {}
    BY <2>2 DEF ToSet
  <2>4. UNION {ToSet(ss[i]) : i \in DOMAIN ss} = {}
    BY <2>1
  <2> HIDE DEF ToSet
  <2> QED BY <2>1, <2>2, <2>3, <2>4
<1>2. CASE Len(ss) # 0
  <2> DEFINE n == Len(ss)
             Parts(k) == {ToSet(ss[i]) : i \in 1..k}
             Disjoint(k) == \A i, j \in 1..k : i # j => ToSet(ss[i]) \cap ToSet(ss[j]) = {}
  <2>1. n \in Nat /\ n # 0 /\ DOMAIN ss = 1..n /\ \A i \in 1..n : ss[i] \in Seq(S)
    BY <1>2, LenProperties, ElementOfSeq
  <2>2. PICK f \in [1..n -> Seq(S)] :
            /\ FlattenSeq(ss) = f[n]
            /\ f[1] = ss[1]
            /\ \A i \in 1..n : i # 1 => f[i] = f[i - 1] \o ss[i]
    BY <1>2, FlattenSeqParts
  <2> HIDE DEF n
  <2> DEFINE Good == {k \in Nat : k \in 1..n =>
                         /\ ToSet(f[k]) = UNION Parts(k)
                         /\ IsInjective(f[k]) => Disjoint(k)}
  <2>3. 0 \in Good
    OBVIOUS
  <2>4. ASSUME NEW k \in Nat, k \in Good PROVE k + 1 \in Good
    <3> HIDE DEF Parts, Disjoint
    <3> SUFFICES ASSUME k + 1 \in 1..n
                 PROVE  /\ ToSet(f[k + 1]) = UNION Parts(k + 1)
                        /\ IsInjective(f[k + 1]) => Disjoint(k + 1)
      BY <2>1
    <3> USE DEF Parts, Disjoint
    <3>1. CASE k = 0
      <4>1. f[k + 1] = ss[1] /\ 1..(k + 1) = {1}
        BY <3>1, <2>2
      <4> QED BY <4>1
    <3>2. CASE k # 0
      <4>1. /\ k \in 1..n /\ (k + 1) - 1 = k /\ k + 1 # 1
            /\ 1..(k + 1) = 1..k \cup {k + 1} /\ k + 1 \notin 1..k
        BY <3>2, <2>1
      <4>2. f[k + 1] = f[k] \o ss[k + 1] /\ f[k] \in Seq(S) /\ ss[k + 1] \in Seq(S)
        BY <4>1, <2>1, <2>2
      <4>3. /\ ToSet(f[k + 1]) = ToSet(f[k]) \cup ToSet(ss[k + 1])
            /\ IsInjective(f[k + 1]) =>
                   ToSet(f[k]) \cap ToSet(ss[k + 1]) = {} /\ IsInjective(f[k])
        BY <4>2, ConcatContents
      <4>4. ToSet(f[k]) = UNION Parts(k) /\ (IsInjective(f[k]) => Disjoint(k))
        BY <2>4, <4>1
      <4>5. UNION Parts(k + 1) = (UNION Parts(k)) \cup ToSet(ss[k + 1])
        <5>1. Parts(k + 1) = Parts(k) \cup {ToSet(ss[k + 1])}
          BY <4>1
        <5> HIDE DEF Parts
        <5> QED BY <5>1
      <4>6. ASSUME IsInjective(f[k + 1]) PROVE Disjoint(k + 1)
        <5>1. Disjoint(k) /\ \A i \in 1..k : ToSet(ss[i]) \cap ToSet(ss[k + 1]) = {}
          BY <4>3, <4>4, <4>6
        <5> QED BY <5>1, <4>1
      <4> QED BY <4>3, <4>4, <4>5, <4>6
    <3> QED BY <3>1, <3>2
  <2>5. n \in Good
    <3> HIDE DEF Good
    <3> QED BY <2>1, <2>3, <2>4, Induction
  <2>6. n \in 1..n
    BY <2>1
  <2> QED BY <2>1, <2>2, <2>5, <2>6
<1> QED BY <1>1, <1>2

-----------------------------------------------------------------------------
\* Of finitely many members of a strict order one is below none of the others.
LEMMA MaximalElement ==
    ASSUME NEW B, NEW R,
           \A a \in B : <<a, a>> \notin R,
           \A a, b, c \in B : <<a, b>> \in R /\ <<b, c>> \in R => <<a, c>> \in R,
           NEW n \in Nat, n # 0, NEW s \in [1..n -> B]
    PROVE  \E m \in 1..n : \A j \in 1..n : <<s[m], s[j]>> \notin R
<1> DEFINE Found == {k \in Nat : k \in 1..n =>
                        \E m \in 1..k : \A j \in 1..k : <<s[m], s[j]>> \notin R}
<1>1. 0 \in Found
  OBVIOUS
<1>2. ASSUME NEW k \in Nat, k \in Found PROVE k + 1 \in Found
  <2> SUFFICES ASSUME k + 1 \in 1..n
               PROVE  \E m \in 1..(k + 1) : \A j \in 1..(k + 1) : <<s[m], s[j]>> \notin R
    OBVIOUS
  <2>1. 1..(k + 1) = 1..k \cup {k + 1} /\ 1..(k + 1) \subseteq 1..n
    OBVIOUS
  <2>2. \A i \in 1..(k + 1) : s[i] \in B
    BY <2>1
  <2>3. CASE k = 0
    <3>2. 1..(k + 1) = {k + 1}
      BY <2>3
    <3> QED BY <3>2, <2>2
  <2>4. CASE k # 0
    <3>1. k \in 1..n
      BY <2>4
    <3>2. PICK m \in 1..k : \A j \in 1..k : <<s[m], s[j]>> \notin R
      BY <3>1, <1>2
    <3>3. CASE <<s[m], s[k + 1]>> \in R
      <4>1. ASSUME NEW j \in 1..(k + 1), <<s[k + 1], s[j]>> \in R PROVE FALSE
        <5>1. j # k + 1
          BY <4>1, <2>2
        <5>2. j \in 1..k /\ <<s[m], s[j]>> \in R
          BY <4>1, <5>1, <3>3, <2>1, <2>2
        <5> QED BY <5>2, <3>2
      <4> QED BY <4>1
    <3>4. CASE <<s[m], s[k + 1]>> \notin R
      BY <3>2, <3>4, <2>1
    <3> QED BY <3>3, <3>4
  <2> QED BY <2>3, <2>4
<1>3. n \in Found /\ n \in 1..n
  <2> HIDE DEF Found
  <2> QED BY <1>1, <1>2, Induction
<1> QED BY <1>3

\* Any finite sequence over a strict order can be put in order.
LEMMA SortedPermutation ==
    ASSUME NEW B, NEW R,
           \A a \in B : <<a, a>> \notin R,
           \A a, b, c \in B : <<a, b>> \in R /\ <<b, c>> \in R => <<a, c>> \in R,
           NEW s \in Seq(B)
    PROVE  \E p \in Bijection(DOMAIN s, DOMAIN s) :
               \A i, j \in DOMAIN s : i < j => <<s[p[j]], s[p[i]]>> \notin R
<1> DEFINE InOrder(t, p, k) == \A i, j \in 1..k : i < j => <<t[p[j]], t[p[i]]>> \notin R
           Sortable == {k \in Nat : \A t \in [1..k -> B] :
                           \E p \in Bijection(1..k, 1..k) : InOrder(t, p, k)}
<1>1. 0 \in Sortable
  <2>1. [i \in 1..0 |-> i] \in Bijection(1..0, 1..0)
    BY DEF Bijection, Injection, Surjection, IsInjective
  <2> QED BY <2>1
<1>2. ASSUME NEW k \in Nat, k \in Sortable PROVE k + 1 \in Sortable
  <2> SUFFICES ASSUME NEW t \in [1..(k + 1) -> B]
               PROVE  \E p \in Bijection(1..(k + 1), 1..(k + 1)) : InOrder(t, p, k + 1)
    OBVIOUS
  <2>1. PICK m \in 1..(k + 1) : \A j \in 1..(k + 1) : <<t[m], t[j]>> \notin R
    <3>1. k + 1 \in Nat /\ k + 1 # 0
      OBVIOUS
    <3> QED BY <3>1, MaximalElement
  <2>2. 1..(k + 1) = 1..k \cup {k + 1} /\ k + 1 \notin 1..k
    OBVIOUS
  <2> DEFINE q == [i \in 1..k |-> IF i = m THEN k + 1 ELSE i]
             u == [i \in 1..k |-> t[q[i]]]
  <2>3. /\ \A i \in 1..k : q[i] \in 1..(k + 1) /\ q[i] # m
        /\ \A i, j \in 1..k : q[i] = q[j] => i = j
        /\ \A x \in 1..(k + 1) : x # m => \E i \in 1..k : q[i] = x
    BY <2>2
  <2>4. q \in [1..k -> 1..(k + 1)]
    BY <2>2
  <2> HIDE DEF q
  <2>5. u \in [1..k -> B]
    BY <2>4
  <2>6. PICK p \in Bijection(1..k, 1..k) : InOrder(u, p, k)
    BY <2>5, <1>2
  <2>7. /\ p \in [1..k -> 1..k]
        /\ \A i, j \in 1..k : p[i] = p[j] => i = j
        /\ \A x \in 1..k : \E i \in 1..k : p[i] = x
    BY <2>6 DEF Bijection, Injection, Surjection, IsInjective
  <2> DEFINE r == [i \in 1..(k + 1) |-> IF i = k + 1 THEN m ELSE q[p[i]]]
  <2>8. r \in [1..(k + 1) -> 1..(k + 1)] /\ r[k + 1] = m /\ \A i \in 1..k : r[i] = q[p[i]]
    BY <2>2, <2>3, <2>7
  <2> HIDE DEF r
  <2>9. \A i, j \in 1..(k + 1) : r[i] = r[j] => i = j
    <3> SUFFICES ASSUME NEW i \in 1..(k + 1), NEW j \in 1..(k + 1), r[i] = r[j]
                 PROVE  i = j
      OBVIOUS
    <3>1. ASSUME NEW x \in 1..k PROVE p[x] \in 1..k /\ r[x] = q[p[x]] /\ r[x] # m
      <4>1. p[x] \in 1..k
        BY <2>7
      <4>2. q[p[x]] # m
        BY <4>1, <2>3
      <4>3. r[x] = q[p[x]]
        BY <2>8
      <4> QED BY <4>1, <4>2, <4>3
    <3>2. CASE i \in 1..k /\ j \in 1..k
      <4>1. q[p[i]] = q[p[j]] /\ p[i] \in 1..k /\ p[j] \in 1..k
        BY <3>1, <3>2
      <4>2. p[i] = p[j]
        BY <4>1, <2>3
      <4> QED BY <4>2, <3>2, <2>7
    <3>3. CASE i = k + 1 \/ j = k + 1
      BY <3>1, <3>3, <2>2, <2>8
    <3> QED BY <3>2, <3>3, <2>2
  <2>10. \A x \in 1..(k + 1) : \E i \in 1..(k + 1) : r[i] = x
    <3> SUFFICES ASSUME NEW x \in 1..(k + 1), x # m
                 PROVE  \E i \in 1..(k + 1) : r[i] = x
      BY <2>2, <2>8
    <3>1. PICK y \in 1..k : q[y] = x
      BY <2>3
    <3>2. PICK i \in 1..k : p[i] = y
      BY <2>7
    <3> QED BY <3>1, <3>2, <2>2, <2>8
  <2>11. r \in Bijection(1..(k + 1), 1..(k + 1))
    BY <2>8, <2>9, <2>10 DEF Bijection, Injection, Surjection, IsInjective
  <2>12. ASSUME NEW i \in 1..(k + 1), NEW j \in 1..(k + 1), i < j
         PROVE  <<t[r[j]], t[r[i]]>> \notin R
    <3>1. CASE j = k + 1
      BY <3>1, <2>1, <2>8
    <3>2. CASE j # k + 1
      <4>1. i \in 1..k /\ j \in 1..k
        BY <3>2, <2>12
      <4>2. t[r[i]] = u[p[i]] /\ t[r[j]] = u[p[j]]
        BY <4>1, <2>7, <2>8
      <4>3. <<u[p[j]], u[p[i]]>> \notin R
        BY <4>1, <2>6, <2>12
      <4> QED BY <4>2, <4>3
    <3> QED BY <3>1, <3>2
  <2> QED BY <2>11, <2>12
<1>3. \A k \in Nat : k \in Sortable
  <2> HIDE DEF Sortable
  <2> QED BY <1>1, <1>2, Induction
<1>4. Len(s) \in Nat /\ DOMAIN s = 1..Len(s) /\ s \in [1..Len(s) -> B]
  BY LenProperties
<1> QED BY <1>3, <1>4

-----------------------------------------------------------------------------
\* The greatest element of a set of positions.
LEMMA MaxPosition ==
    ASSUME NEW k \in Nat, NEW T \in SUBSET (1..k), T # {}
    PROVE  Max(T) \in T /\ \A y \in T : Max(T) >= y
<1> DEFINE U == {k - y : y \in T}
<1>1. \A y \in T : y \in Int /\ y <= k
  OBVIOUS
<1>2. U \subseteq Nat /\ U # {}
  <2>1. \A y \in T : k - y \in Nat
    BY <1>1
  <2>2. \A u \in U : u \in Nat
    BY <2>1
  <2>3. PICK y \in T : TRUE
    OBVIOUS
  <2>4. k - y \in U
    BY <2>3
  <2> QED BY <2>2, <2>4
<1>3. PICK u \in U : \A v \in U : u <= v
  <2> HIDE DEF U
  <2> QED BY <1>2, LeastNatural
<1>4. PICK x \in T : u = k - x
  BY <1>3
<1>5. ASSUME NEW y \in T PROVE x >= y
  <2>1. k - x <= k - y
    BY <1>3, <1>4
  <2> QED BY <2>1, <1>1
<1> QED BY <1>4, <1>5 DEF Max

\* The loop that appends what the result does not hold yet: it keeps every
\* element, and each once.
LEMMA FoldWithoutRepetition ==
    ASSUME NEW S, NEW s \in Seq(S)
    PROVE  LET once == FoldLeft(LAMBDA merged, p : IF Contains(merged, p) THEN merged
                                                   ELSE Append(merged, p), <<>>, s)
           IN  once \in Seq(S) /\ IsInjective(once) /\ ToSet(once) = ToSet(s)
<1> DEFINE n == Len(s)
           Add(merged, p) == IF Contains(merged, p) THEN merged ELSE Append(merged, p)
           Eq(f, k) == f = [T \in SUBSET (1..k) |->
                               IF T = {} THEN <<>> ELSE Add(f[T \ {Max(T)}], s[Max(T)])]
           Defined == {k \in Nat : \E f : Eq(f, k)}
           once == FoldLeft(LAMBDA merged, p : IF Contains(merged, p) THEN merged
                                               ELSE Append(merged, p), <<>>, s)
<1>1. n \in Nat /\ DOMAIN s = 1..n /\ s \in [1..n -> S]
  BY LenProperties
<1> HIDE DEF n
<1>2. \E f : Eq(f, n)
  <2>1. 0 \in Defined
    <3>1. Eq([T \in SUBSET (1..0) |-> <<>>], 0)
      OBVIOUS
    <3> HIDE DEF Eq
    <3> QED BY <3>1
  <2>2. ASSUME NEW k \in Nat, NEW f, Eq(f, k) PROVE \E g : Eq(g, k + 1)
    <3> DEFINE g == [T \in SUBSET (1..(k + 1)) |->
                        IF k + 1 \in T THEN Add(f[T \ {k + 1}], s[k + 1]) ELSE f[T]]
    <3> HIDE DEF Add
    <3>1. \A T \in SUBSET (1..k) :
              f[T] = IF T = {} THEN <<>> ELSE Add(f[T \ {Max(T)}], s[Max(T)])
      BY <2>2
    <3>2. /\ \A T \in SUBSET (1..k) : T \in SUBSET (1..(k + 1)) /\ k + 1 \notin T
          /\ \A T \in SUBSET (1..(k + 1)) : T \ {k + 1} \in SUBSET (1..k)
          /\ \A T \in SUBSET (1..(k + 1)) : k + 1 \notin T => T \in SUBSET (1..k)
      OBVIOUS
    <3>3. \A T \in SUBSET (1..k) : g[T] = f[T]
      BY <3>2
    <3>4. \A T \in SUBSET (1..(k + 1)) : k + 1 \in T => g[T] = Add(f[T \ {k + 1}], s[k + 1])
      OBVIOUS
    <3>5. g = [T \in SUBSET (1..(k + 1)) |-> g[T]]
      OBVIOUS
    <3> HIDE DEF g
    <3>6. ASSUME NEW T \in SUBSET (1..(k + 1))
          PROVE  g[T] = IF T = {} THEN <<>> ELSE Add(g[T \ {Max(T)}], s[Max(T)])
      <4>1. CASE k + 1 \in T
        <5>1. Max(T) \in T /\ Max(T) >= k + 1
          <6>1. T # {} /\ k + 1 \in Nat
            BY <4>1
          <6> QED BY <6>1, <4>1, MaxPosition
        <5>2. Max(T) = k + 1
          <6>1. Max(T) \in 1..(k + 1)
            BY <5>1
          <6> HIDE DEF Max
          <6> QED BY <5>1, <6>1
        <5>3. g[T \ {k + 1}] = f[T \ {k + 1}]
          BY <3>2, <3>3
        <5> QED BY <4>1, <5>2, <5>3, <3>4
      <4>2. CASE k + 1 \notin T
        <5>1. T \in SUBSET (1..k) /\ T \ {Max(T)} \in SUBSET (1..k)
          BY <4>2, <3>2
        <5> QED BY <5>1, <3>1, <3>3
      <4> QED BY <4>1, <4>2
    <3>7. Eq(g, k + 1)
      BY <3>5, <3>6
    <3> HIDE DEF Eq
    <3> QED BY <3>7
  <2>3. ASSUME NEW k \in Nat, k \in Defined PROVE k + 1 \in Defined
    <3> HIDE DEF Eq
    <3> QED BY <2>2, <2>3
  <2> HIDE DEF Eq
  <2>4. n \in Defined
    <3> HIDE DEF Defined
    <3> QED BY <1>1, <2>1, <2>3, Induction
  <2> QED BY <2>4
<1> DEFINE f == CHOOSE f : Eq(f, n)
<1>3. f = [T \in SUBSET (1..n) |-> IF T = {} THEN <<>> ELSE Add(f[T \ {Max(T)}], s[Max(T)])]
  <2>1. Eq(f, n)
    <3> HIDE DEF Eq
    <3> QED BY <1>2
  <2> HIDE DEF f
  <2> QED BY <2>1
<1>4. once = f[1..n]
  BY <1>1 DEF FoldLeft, MapThenFoldSet
<1> HIDE DEF f, Eq, Add, Defined
<1> DEFINE Image(T) == {s[i] : i \in T}
           Good(T) == f[T] \in Seq(S) /\ IsInjective(f[T]) /\ ToSet(f[T]) = Image(T)
           Folded == {k \in Nat : \A T \in SUBSET (1..n) : T \subseteq 1..k => Good(T)}
<1>5. ASSUME NEW merged \in Seq(S), NEW p \in S, IsInjective(merged)
      PROVE  /\ Add(merged, p) \in Seq(S) /\ IsInjective(Add(merged, p))
             /\ ToSet(Add(merged, p)) = ToSet(merged) \cup {p}
  <2>1. Len(merged) \in Nat /\ DOMAIN merged = 1..Len(merged)
    BY LenProperties
  <2>2. Contains(merged, p) <=> p \in ToSet(merged)
    BY <2>1 DEF Contains, ToSet
  <2>3. CASE Contains(merged, p)
    BY <2>2, <2>3, <1>5 DEF Add
  <2>4. CASE ~Contains(merged, p)
    <3>1. Add(merged, p) = Append(merged, p)
      BY <2>4 DEF Add
    <3> DEFINE a == Append(merged, p)
               m == Len(merged)
    <3>2. /\ a \in Seq(S) /\ DOMAIN a = 1..(m + 1)
          /\ \A i \in 1..m : a[i] = merged[i] /\ i \in 1..(m + 1)
          /\ a[m + 1] = p /\ m + 1 \in 1..(m + 1)
          /\ \A i \in 1..(m + 1) : i \in 1..m \/ i = m + 1
      BY <2>1, AppendProperties, LenProperties
    <3> HIDE DEF a, m
    <3>3. DOMAIN merged = 1..m /\ \A i \in 1..m : merged[i] # p
      BY <2>1, <2>2, <2>4 DEF ToSet, m
    <3>4. IsInjective(a)
      BY <3>2, <3>3, <1>5 DEF IsInjective
    <3>5. ToSet(a) = ToSet(merged) \cup {p}
      BY <3>2, <3>3 DEF ToSet
    <3> QED BY <3>1, <3>2, <3>4, <3>5 DEF a
  <2> QED BY <2>3, <2>4
<1>6. 0 \in Folded
  <2> SUFFICES ASSUME NEW T \in SUBSET (1..n), T \subseteq 1..0 PROVE Good(T)
    OBVIOUS
  <2>1. T = {} /\ f[T] = <<>>
    BY <1>3
  <2>2. <<>> \in Seq(S) /\ DOMAIN <<>> = {}
    BY EmptySeq
  <2> QED BY <2>1, <2>2 DEF IsInjective, ToSet
<1>7. ASSUME NEW k \in Nat, k \in Folded PROVE k + 1 \in Folded
  <2> SUFFICES ASSUME NEW T \in SUBSET (1..n), T \subseteq 1..(k + 1) PROVE Good(T)
    <3> HIDE DEF Good
    <3> QED BY DEF Folded
  <2>1. CASE T \subseteq 1..k
    BY <2>1, <1>7
  <2>2. CASE ~(T \subseteq 1..k)
    <3> DEFINE x == Max(T)
               U == T \ {x}
    <3>1. x \in T /\ \A y \in T : x >= y
      <4>1. T # {} /\ n \in Nat
        BY <2>2, <1>1
      <4> QED BY <4>1, MaxPosition
    <3> HIDE DEF x
    <3>2. U \in SUBSET (1..n) /\ U \subseteq 1..k /\ x \in 1..n /\ s[x] \in S
      BY <3>1, <1>1
    <3>3. Good(U)
      BY <3>2, <1>7
    <3>4. f[T] = Add(f[U], s[x])
      BY <3>1, <1>3 DEF x
    <3>5. /\ f[T] \in Seq(S) /\ IsInjective(f[T])
          /\ ToSet(f[T]) = ToSet(f[U]) \cup {s[x]}
      <4> HIDE DEF U
      <4> QED BY <3>2, <3>3, <3>4, <1>5
    <3>6. Image(T) = Image(U) \cup {s[x]}
      BY <3>1
    <3> QED BY <3>3, <3>5, <3>6
  <2> QED BY <2>1, <2>2
<1>8. n \in Folded
  <2> HIDE DEF Folded
  <2> QED BY <1>1, <1>6, <1>7, Induction
<1>9. Good(1..n)
  BY <1>8
<1>10. once \in Seq(S) /\ IsInjective(once) /\ ToSet(once) = ToSet(s)
  <2> HIDE DEF once
  <2> QED BY <1>1, <1>4, <1>9 DEF ToSet
<1> QED BY <1>10
=============================================================================
