---------------------------- MODULE CodegenProofs ----------------------------
(***************************************************************************)
(* Theorems about Codegen, for contracts of any size over any services,    *)
(* roles and names.                                                        *)
(*                                                                         *)
(* The inductive invariant says that the file is what emit makes of the    *)
(* contract. What the properties say is then a matter of what emit does:   *)
(* the lemmas follow the names of the contract through the flattened       *)
(* buckets, the sorted copies and the identifiers. Of two files, they say  *)
(* that every list of the one embeds in the same list of the other when    *)
(* the contract was only appended to.                                      *)
(***************************************************************************)
EXTENDS Codegen, SequenceFacts

Strings == Seq(Bytes)

-----------------------------------------------------------------------------
(***************************************************************************)
(* The order of sort.Strings, and what sorting does.                       *)
(***************************************************************************)
LEMMA StringFacts ==
    ASSUME NEW a \in Strings
    PROVE  Len(a) \in Nat /\ DOMAIN a = 1..Len(a) /\ \A i \in 1..Len(a) : a[i] \in Int
<1>1. \A i \in 1..Len(a) : a[i] \in Bytes
  BY ElementOfSeq DEF Strings
<1>2. \A b \in Bytes : b \in Int
  BY DEF Bytes
<1>3. Len(a) \in Nat /\ DOMAIN a = 1..Len(a)
  BY LenProperties DEF Strings
<1> QED BY <1>1, <1>2, <1>3

LEMMA LessIsIrreflexive ==
    ASSUME NEW a \in Strings
    PROVE  ~Less(a, a)
<1> SUFFICES ASSUME NEW n \in 0..Len(a), n < Len(a), n = Len(a) \/ a[n + 1] < a[n + 1]
             PROVE  FALSE
  BY DEF Less
<1>1. n + 1 \in 1..Len(a)
  BY StringFacts
<1> QED BY <1>1, StringFacts

LEMMA LessIsTransitive ==
    ASSUME NEW a \in Strings, NEW b \in Strings, NEW c \in Strings, Less(a, b), Less(b, c)
    PROVE  Less(a, c)
<1>1. PICK n \in 0..Len(a) : /\ n < Len(b) /\ \A i \in 1..n : a[i] = b[i]
                             /\ n = Len(a) \/ a[n + 1] < b[n + 1]
  BY DEF Less
<1>2. PICK m \in 0..Len(b) : /\ m < Len(c) /\ \A i \in 1..m : b[i] = c[i]
                             /\ m = Len(b) \/ b[m + 1] < c[m + 1]
  BY DEF Less
<1>3. Len(a) \in Nat /\ Len(b) \in Nat /\ Len(c) \in Nat
  BY StringFacts
<1>4. CASE n < m
  <2>1. n < Len(c) /\ n + 1 \in 1..m /\ 1..n \subseteq 1..m
    BY <1>2, <1>3, <1>4
  <2>2. \A i \in 1..n : a[i] = c[i]
    BY <1>1, <1>2, <2>1
  <2>3. n = Len(a) \/ a[n + 1] < c[n + 1]
    BY <1>1, <1>2, <2>1
  <2> QED BY <2>1, <2>2, <2>3 DEF Less
<1>5. CASE m <= n
  <2>1. m # Len(b) /\ m \in 0..Len(a) /\ 1..m \subseteq 1..n
    BY <1>1, <1>2, <1>3, <1>5
  <2>2. \A i \in 1..m : a[i] = c[i]
    BY <1>1, <1>2, <2>1
  <2>3. m + 1 \in 1..Len(b) /\ m + 1 \in 1..Len(c)
    BY <1>2, <1>3, <2>1
  <2>4. b[m + 1] < c[m + 1] /\ b[m + 1] \in Int /\ c[m + 1] \in Int
    BY <1>2, <2>1, <2>3, StringFacts
  <2>5. m = Len(a) \/ a[m + 1] < c[m + 1]
    <3> SUFFICES ASSUME m # Len(a) PROVE a[m + 1] < c[m + 1]
      OBVIOUS
    <3>1. m + 1 \in 1..Len(a)
      BY <2>1, <1>3
    <3>2. a[m + 1] \in Int
      BY <3>1, StringFacts
    <3>3. CASE m = n
      BY <3>2, <3>3, <2>4, <1>1
    <3>4. CASE m # n
      <4>1. m + 1 \in 1..n
        BY <3>4, <1>5
      <4> QED BY <4>1, <1>1, <2>4
    <3> QED BY <3>3, <3>4
  <2> QED BY <2>1, <2>2, <2>5, <1>2 DEF Less
<1> QED BY <1>3, <1>4, <1>5

\* Of two different strings one is less than the other.
LEMMA LessIsTotal ==
    ASSUME NEW a \in Strings, NEW b \in Strings, a # b
    PROVE  Less(a, b) \/ Less(b, a)
<1> DEFINE Differ == {n \in Nat : n < Len(a) /\ n < Len(b) /\ a[n + 1] # b[n + 1]}
<1>1. Len(a) \in Nat /\ Len(b) \in Nat
  BY StringFacts
<1>2. CASE Differ = {}
  <2>1. ASSUME NEW i \in Nat, i # 0, i <= Len(a), i <= Len(b) PROVE a[i] = b[i]
    <3>1. i - 1 \in Nat /\ i - 1 < Len(a) /\ i - 1 < Len(b) /\ (i - 1) + 1 = i
      BY <2>1, <1>1
    <3>2. i - 1 \notin Differ
      BY <1>2
    <3> QED BY <3>1, <3>2
  <2>2. CASE Len(a) < Len(b)
    BY <2>1, <2>2, <1>1 DEF Less
  <2>3. CASE Len(b) < Len(a)
    BY <2>1, <2>3, <1>1 DEF Less
  <2>4. CASE Len(a) = Len(b)
    <3>1. \A i \in 1..Len(a) : a[i] = b[i]
      BY <2>1, <2>4, <1>1
    <3> QED BY <3>1, <2>4, SeqEqual DEF Strings
  <2> QED BY <1>1, <2>2, <2>3, <2>4
<1>3. CASE Differ # {}
  <2>1. PICK n \in Differ : \A m \in Differ : n <= m
    <3>1. Differ \subseteq Nat
      OBVIOUS
    <3> HIDE DEF Differ
    <3> QED BY <1>3, <3>1, LeastNatural
  <2>2. ASSUME NEW i \in 1..n PROVE a[i] = b[i]
    <3>1. i - 1 \in Nat /\ i - 1 < n /\ i - 1 < Len(a) /\ i - 1 < Len(b) /\ (i - 1) + 1 = i
      BY <1>1
    <3>2. i - 1 \notin Differ
      BY <2>1, <3>1
    <3> QED BY <3>1, <3>2
  <2>3. /\ n \in 0..Len(a) /\ n \in 0..Len(b) /\ n < Len(a) /\ n < Len(b)
        /\ n + 1 \in 1..Len(a) /\ n + 1 \in 1..Len(b) /\ a[n + 1] # b[n + 1]
    BY <1>1
  <2>4. a[n + 1] < b[n + 1] \/ b[n + 1] < a[n + 1]
    BY <2>3, StringFacts
  <2> HIDE DEF Differ
  <2> QED BY <2>2, <2>3, <2>4 DEF Less
<1> QED BY <1>2, <1>3

\* Sorting permutes the names, and puts none after one that it is less than.
LEMMA SortedNames ==
    ASSUME NEW names \in Seq(Strings)
    PROVE  /\ DOMAIN Sorted(names) = DOMAIN names /\ Sorted(names) \in Seq(Strings)
           /\ \E p \in Bijection(DOMAIN names, DOMAIN names) :
                  \A i \in DOMAIN names : Sorted(names)[i] = names[p[i]]
           /\ ToSet(Sorted(names)) = ToSet(names)
           /\ \A i, j \in DOMAIN names : i < j => ~Less(Sorted(names)[j], Sorted(names)[i])
<1> DEFINE D == DOMAIN names
           InOrder(p) == \A i, j \in D : i < j => ~Less(names[p[j]], names[p[i]])
           R == {ab \in Strings \X Strings : Less(ab[1], ab[2])}
           order == CHOOSE p \in Bijection(D, D) : InOrder(p)
<1>1. D = 1..Len(names) /\ Len(names) \in Nat /\ \A i \in D : names[i] \in Strings
  BY LenProperties, ElementOfSeq
<1>2. \A a, b \in Strings : <<a, b>> \in R <=> Less(a, b)
  OBVIOUS
<1>3. \E p \in Bijection(D, D) : InOrder(p)
  <2>1. \A a \in Strings : <<a, a>> \notin R
    BY <1>2, LessIsIrreflexive
  <2>2. \A a, b, c \in Strings : <<a, b>> \in R /\ <<b, c>> \in R => <<a, c>> \in R
    BY <1>2, LessIsTransitive
  <2>3. PICK p \in Bijection(D, D) : \A i, j \in D : i < j => <<names[p[j]], names[p[i]]>> \notin R
    <3> HIDE DEF R
    <3> QED BY <2>1, <2>2, SortedPermutation
  <2>4. \A i \in D : names[p[i]] \in Strings
    BY <1>1 DEF Bijection, Injection, Surjection
  <2>5. InOrder(p)
    <3> HIDE DEF R, D
    <3> QED BY <2>3, <2>4, <1>2
  <2> QED BY <2>5
<1>4. order \in Bijection(D, D) /\ InOrder(order)
  <2> HIDE DEF InOrder, D
  <2> QED BY <1>3
<1>5. Sorted(names) = [i \in D |-> names[order[i]]]
  BY DEF Sorted
<1> HIDE DEF order
<1>6. /\ \A i \in D : order[i] \in D
      /\ \A k \in D : \E i \in D : order[i] = k
  BY <1>4 DEF Bijection, Injection, Surjection
<1>7. Sorted(names) \in Seq(Strings)
  <2>1. Sorted(names) \in [1..Len(names) -> Strings]
    BY <1>1, <1>5, <1>6
  <2> QED BY <2>1, <1>1
<1>8. ToSet(Sorted(names)) = ToSet(names)
  <2> HIDE DEF D
  <2>1. DOMAIN Sorted(names) = D /\ \A i \in D : Sorted(names)[i] = names[order[i]]
    BY <1>5
  <2>2. ToSet(Sorted(names)) = {names[order[i]] : i \in D} /\ ToSet(names) = {names[i] : i \in D}
    BY <2>1 DEF ToSet, D
  <2>3. {names[order[i]] : i \in D} \subseteq {names[i] : i \in D}
    BY <1>6
  <2>4. {names[i] : i \in D} \subseteq {names[order[i]] : i \in D}
    <3> SUFFICES ASSUME NEW k \in D PROVE \E i \in D : names[k] = names[order[i]]
      OBVIOUS
    <3>1. PICK i \in D : order[i] = k
      BY <1>6
    <3> QED BY <3>1
  <2> QED BY <2>2, <2>3, <2>4
<1>9. \A i, j \in D : i < j => ~Less(Sorted(names)[j], Sorted(names)[i])
  BY <1>4, <1>5
<1>10. \E p \in Bijection(D, D) : \A i \in D : Sorted(names)[i] = names[p[i]]
  <2> HIDE DEF D
  <2> QED BY <1>4, <1>5
<1> QED BY <1>5, <1>7, <1>8, <1>9, <1>10

-----------------------------------------------------------------------------
(***************************************************************************)
(* Embeddings: what flattening, sorting and renaming make of a list to     *)
(* which something was added.                                              *)
(***************************************************************************)
\* at says where t has the elements of s.
EmbedsAt(at, s, t) ==
    /\ at \in [DOMAIN s -> DOMAIN t]
    /\ \A i \in DOMAIN s : t[at[i]] = s[i]
    /\ \A i, j \in DOMAIN s : i < j => at[i] < at[j]

LEMMA EmbedsByPosition ==
    ASSUME NEW s, NEW t
    PROVE  Embeds(s, t) <=> \E at : EmbedsAt(at, s, t)
  BY DEF Embeds, EmbedsAt

LEMMA PrefixEmbeds ==
    ASSUME NEW S, NEW s \in Seq(S), NEW t \in Seq(S), IsPrefix(s, t)
    PROVE  /\ DOMAIN s \subseteq DOMAIN t /\ \A i \in DOMAIN s : t[i] = s[i]
           /\ Embeds(s, t)
<1>1. /\ Len(s) \in Nat /\ Len(t) \in Nat /\ Len(s) <= Len(t)
      /\ DOMAIN s = 1..Len(s) /\ DOMAIN t = 1..Len(t)
  BY LenProperties DEF IsPrefix
<1>2. ASSUME NEW i \in DOMAIN s PROVE i \in DOMAIN t /\ t[i] = s[i]
  <2>1. SubSeq(s, 1, Len(s)) = SubSeq(t, 1, Len(s))
    BY DEF IsPrefix
  <2>2. /\ SubSeq(s, 1, Len(s)) = [j \in 1..Len(s) |-> s[j]]
        /\ SubSeq(t, 1, Len(s)) = [j \in 1..Len(s) |-> t[j]]
    BY <1>1, SubSeqProperties
  <2> QED BY <1>1, <2>1, <2>2
<1> DEFINE at == [i \in DOMAIN s |-> i]
<1>3. EmbedsAt(at, s, t)
  BY <1>2 DEF EmbedsAt
<1> QED BY <1>2, <1>3, EmbedsByPosition

LEMMA ConcatEmbeds ==
    ASSUME NEW S, NEW s \in Seq(S), NEW t \in Seq(S), NEW u \in Seq(S), NEW v \in Seq(S),
           Embeds(s, t), Embeds(u, v)
    PROVE  Embeds(s \o u, t \o v)
<1>1. PICK a : EmbedsAt(a, s, t)
  BY EmbedsByPosition
<1>2. PICK b : EmbedsAt(b, u, v)
  BY EmbedsByPosition
<1> DEFINE su == s \o u
           tv == t \o v
           at == [i \in DOMAIN su |-> IF i <= Len(s) THEN a[i] ELSE Len(t) + b[i - Len(s)]]
<1>3. /\ Len(s) \in Nat /\ Len(t) \in Nat /\ Len(u) \in Nat /\ Len(v) \in Nat
      /\ DOMAIN s = 1..Len(s) /\ DOMAIN t = 1..Len(t) /\ DOMAIN u = 1..Len(u) /\ DOMAIN v = 1..Len(v)
      /\ DOMAIN su = 1..(Len(s) + Len(u)) /\ DOMAIN tv = 1..(Len(t) + Len(v))
      /\ \A i \in 1..(Len(s) + Len(u)) : su[i] = IF i <= Len(s) THEN s[i] ELSE u[i - Len(s)]
      /\ \A i \in 1..(Len(t) + Len(v)) : tv[i] = IF i <= Len(t) THEN t[i] ELSE v[i - Len(t)]
  BY ConcatProperties, LenProperties
<1> HIDE DEF su, tv
<1>4. \A i \in 1..Len(s) : a[i] \in 1..Len(t) /\ t[a[i]] = s[i]
  BY <1>1, <1>3 DEF EmbedsAt
<1>5. \A i \in 1..Len(u) : b[i] \in 1..Len(v) /\ v[b[i]] = u[i]
  BY <1>2, <1>3 DEF EmbedsAt
<1>6. ASSUME NEW i \in DOMAIN su PROVE at[i] \in DOMAIN tv /\ tv[at[i]] = su[i]
  <2>1. CASE i <= Len(s)
    <3>1. i \in 1..Len(s) /\ at[i] = a[i] /\ su[i] = s[i]
      BY <2>1, <1>3
    <3>2. a[i] \in 1..(Len(t) + Len(v)) /\ a[i] <= Len(t)
      BY <3>1, <1>3, <1>4
    <3> HIDE DEF at
    <3> QED BY <3>1, <3>2, <1>3, <1>4
  <2>2. CASE ~(i <= Len(s))
    <3>1. i - Len(s) \in 1..Len(u) /\ at[i] = Len(t) + b[i - Len(s)] /\ su[i] = u[i - Len(s)]
      BY <2>2, <1>3
    <3> DEFINE j == b[i - Len(s)]
    <3>2. j \in 1..Len(v) /\ v[j] = u[i - Len(s)]
      BY <3>1, <1>5
    <3> HIDE DEF j
    <3>3. Len(t) + j \in 1..(Len(t) + Len(v)) /\ ~(Len(t) + j <= Len(t)) /\ (Len(t) + j) - Len(t) = j
      BY <3>2, <1>3
    <3>4. tv[Len(t) + j] = v[j]
      BY <3>3, <1>3
    <3> HIDE DEF at
    <3> QED BY <3>1, <3>2, <3>3, <3>4, <1>3 DEF j
  <2> QED BY <2>1, <2>2
<1>7. ASSUME NEW i \in DOMAIN su, NEW j \in DOMAIN su, i < j PROVE at[i] < at[j]
  <2>1. CASE j <= Len(s)
    <3>1. i \in DOMAIN s /\ j \in DOMAIN s /\ at[i] = a[i] /\ at[j] = a[j]
      BY <2>1, <1>3, <1>7
    <3> QED BY <3>1, <1>1, <1>7 DEF EmbedsAt
  <2>2. CASE i <= Len(s) /\ ~(j <= Len(s))
    <3>1. i \in 1..Len(s) /\ j - Len(s) \in 1..Len(u)
      BY <2>2, <1>3
    <3>2. at[i] = a[i] /\ at[j] = Len(t) + b[j - Len(s)]
      BY <2>2
    <3>3. a[i] \in 1..Len(t) /\ b[j - Len(s)] \in 1..Len(v)
      BY <3>1, <1>4, <1>5
    <3> QED BY <3>2, <3>3, <1>3
  <2>3. CASE ~(i <= Len(s))
    <3>1. /\ i - Len(s) \in 1..Len(u) /\ j - Len(s) \in 1..Len(u) /\ i - Len(s) < j - Len(s)
          /\ ~(j <= Len(s))
      BY <2>3, <1>3, <1>7
    <3>2. at[i] = Len(t) + b[i - Len(s)] /\ at[j] = Len(t) + b[j - Len(s)]
      BY <2>3, <3>1
    <3>3. b[i - Len(s)] < b[j - Len(s)]
      BY <3>1, <1>2, <1>3 DEF EmbedsAt
    <3>4. b[i - Len(s)] \in 1..Len(v) /\ b[j - Len(s)] \in 1..Len(v)
      BY <3>1, <1>5
    <3> QED BY <3>2, <3>3, <3>4, <1>3
  <2> QED BY <2>1, <2>2, <2>3, <1>3
<1>8. EmbedsAt(at, su, tv)
  BY <1>6, <1>7 DEF EmbedsAt
<1> QED BY <1>8, EmbedsByPosition DEF su, tv

\* The sequences that flattening goes through, from the empty one on.
LEMMA FlattenSteps ==
    ASSUME NEW S, NEW ss \in Seq(Seq(S))
    PROVE  \E f \in [0..Len(ss) -> Seq(S)] :
               /\ f[0] = <<>> /\ f[Len(ss)] = FlattenSeq(ss)
               /\ \A k \in 1..Len(ss) : f[k] = f[k - 1] \o ss[k]
<1>1. Len(ss) \in Nat /\ \A k \in 1..Len(ss) : ss[k] \in Seq(S)
  BY LenProperties, ElementOfSeq
<1>2. CASE Len(ss) = 0
  <2>1. ss = <<>> /\ FlattenSeq(<<>>) = <<>> /\ <<>> \in Seq(S)
    BY <1>2, EmptySeq DEF FlattenSeq
  <2> DEFINE f == [k \in 0..0 |-> <<>>]
  <2>2. f \in [0..Len(ss) -> Seq(S)] /\ f[0] = <<>> /\ 1..Len(ss) = {}
    BY <1>2, <2>1
  <2> HIDE DEF f
  <2> QED BY <1>2, <2>1, <2>2
<1>3. CASE Len(ss) # 0
  <2>1. PICK g \in [1..Len(ss) -> Seq(S)] :
            /\ FlattenSeq(ss) = g[Len(ss)] /\ g[1] = ss[1]
            /\ \A i \in 1..Len(ss) : i # 1 => g[i] = g[i - 1] \o ss[i]
    BY <1>3, FlattenSeqParts
  <2> DEFINE f == [k \in 0..Len(ss) |-> IF k = 0 THEN <<>> ELSE g[k]]
  <2>2. f[0] = <<>> /\ \A k \in 1..Len(ss) : f[k] = g[k]
    BY <1>1
  <2>3. f \in [0..Len(ss) -> Seq(S)]
    <3>1. <<>> \in Seq(S) /\ \A k \in 0..Len(ss) : k # 0 => k \in 1..Len(ss)
      BY <1>1, EmptySeq
    <3> QED BY <3>1
  <2> HIDE DEF f
  <2>4. ASSUME NEW k \in 1..Len(ss) PROVE f[k] = f[k - 1] \o ss[k]
    <3>1. CASE k = 1
      <4>1. f[k - 1] = <<>> /\ f[k] = ss[k]
        BY <3>1, <2>1, <2>2
      <4> QED BY <4>1, <1>1, ConcatEmptySeq
    <3>2. CASE k # 1
      <4>1. k - 1 \in 1..Len(ss)
        BY <3>2, <1>1
      <4> QED BY <3>2, <4>1, <2>1, <2>2
    <3> QED BY <3>1, <3>2
  <2>5. f[Len(ss)] = FlattenSeq(ss)
    BY <1>1, <1>3, <2>1, <2>2
  <2> QED BY <2>2, <2>3, <2>4, <2>5
<1> QED BY <1>2, <1>3

\* Flattening keeps the order if each part goes, in order, into a part.
LEMMA FlattenEmbeds ==
    ASSUME NEW S, NEW ss \in Seq(Seq(S)), NEW tt \in Seq(Seq(S)),
           NEW at \in [DOMAIN ss -> DOMAIN tt],
           \A i, j \in DOMAIN ss : i < j => at[i] < at[j],
           \A i \in DOMAIN ss : Embeds(ss[i], tt[at[i]])
    PROVE  Embeds(FlattenSeq(ss), FlattenSeq(tt))
<1>1. /\ Len(ss) \in Nat /\ Len(tt) \in Nat
      /\ DOMAIN ss = 1..Len(ss) /\ DOMAIN tt = 1..Len(tt)
      /\ \A k \in 1..Len(ss) : ss[k] \in Seq(S) /\ at[k] \in 1..Len(tt)
      /\ \A k \in 1..Len(tt) : tt[k] \in Seq(S)
  BY LenProperties, ElementOfSeq
<1>2. PICK f \in [0..Len(ss) -> Seq(S)] :
          /\ f[0] = <<>> /\ f[Len(ss)] = FlattenSeq(ss)
          /\ \A k \in 1..Len(ss) : f[k] = f[k - 1] \o ss[k]
  BY FlattenSteps
<1>3. PICK g \in [0..Len(tt) -> Seq(S)] :
          /\ g[0] = <<>> /\ g[Len(tt)] = FlattenSeq(tt)
          /\ \A k \in 1..Len(tt) : g[k] = g[k - 1] \o tt[k]
  BY FlattenSteps
<1>4. ASSUME NEW t \in Seq(S) PROVE Embeds(<<>>, t)
  <2>1. IsPrefix(<<>>, t) /\ <<>> \in Seq(S)
    <3>1. Len(<<>>) = 0 /\ <<>> \in Seq(S) /\ Len(t) \in Nat
      BY EmptySeq, LenProperties
    <3>2. SubSeq(<<>>, 1, 0) = <<>> /\ SubSeq(t, 1, 0) = <<>>
      BY SubSeqEmpty
    <3> QED BY <3>1, <3>2 DEF IsPrefix
  <2> QED BY <2>1, PrefixEmbeds
<1> DEFINE last(k) == IF k = 0 THEN 0 ELSE at[k]
           Done == {m \in Nat : m <= Len(tt) =>
                        \A k \in 0..Len(ss) : last(k) <= m => Embeds(f[k], g[m])}
<1>5. 0 \in Done
  <2> SUFFICES ASSUME NEW k \in 0..Len(ss), last(k) <= 0 PROVE Embeds(f[k], g[0])
    OBVIOUS
  <2>1. k = 0
    BY <1>1
  <2> QED BY <2>1, <1>1, <1>2, <1>3, <1>4
<1>6. ASSUME NEW m \in Nat, m \in Done PROVE m + 1 \in Done
  <2> SUFFICES ASSUME m + 1 <= Len(tt), NEW k \in 0..Len(ss), last(k) <= m + 1
               PROVE  Embeds(f[k], g[m + 1])
    OBVIOUS
  <2>1. /\ m \in 0..Len(tt) /\ m <= Len(tt) /\ m + 1 \in 1..Len(tt) /\ (m + 1) - 1 = m
        /\ g[m + 1] = g[m] \o tt[m + 1] /\ g[m] \in Seq(S) /\ tt[m + 1] \in Seq(S)
    <3>1. m \in 0..Len(tt) /\ m + 1 \in 1..Len(tt) /\ (m + 1) - 1 = m
      BY <1>1
    <3>2. g[m + 1] = g[(m + 1) - 1] \o tt[m + 1]
      BY <3>1, <1>3
    <3>3. g[m] \in Seq(S) /\ tt[m + 1] \in Seq(S)
      BY <3>1, <1>1
    <3>4. g[m + 1] = g[m] \o tt[m + 1]
      BY <3>1, <3>2
    <3> QED BY <3>1, <3>3, <3>4, <1>1
  <2>2. CASE last(k) <= m
    <3>1. Embeds(f[k], g[m])
      BY <2>1, <2>2, <1>6
    <3>2. f[k] \in Seq(S) /\ <<>> \in Seq(S) /\ f[k] \o <<>> = f[k]
      BY ConcatEmptySeq, EmptySeq
    <3>3. Embeds(<<>>, tt[m + 1])
      BY <2>1, <1>4
    <3>4. Embeds(f[k] \o <<>>, g[m] \o tt[m + 1])
      BY <2>1, <3>1, <3>2, <3>3, ConcatEmbeds
    <3> QED BY <2>1, <3>2, <3>4
  <2>3. CASE ~(last(k) <= m)
    <3>1. k # 0 /\ k \in 1..Len(ss) /\ k - 1 \in 0..Len(ss) /\ at[k] = m + 1
      BY <2>3, <1>1
    <3>2. last(k - 1) <= m
      <4>1. CASE k - 1 = 0
        BY <4>1
      <4>2. CASE k - 1 # 0
        <5>1. k - 1 \in DOMAIN ss /\ k \in DOMAIN ss /\ k - 1 < k
          BY <4>2, <3>1, <1>1
        <5>2. at[k - 1] < m + 1 /\ at[k - 1] \in 1..Len(tt)
          BY <5>1, <3>1, <1>1
        <5> QED BY <4>2, <5>2, <1>1
      <4> QED BY <4>1, <4>2
    <3>3. Embeds(f[k - 1], g[m])
      BY <2>1, <3>1, <3>2, <1>6
    <3>4. Embeds(ss[k], tt[m + 1]) /\ ss[k] \in Seq(S) /\ f[k - 1] \in Seq(S)
      BY <3>1, <1>1
    <3>5. Embeds(f[k - 1] \o ss[k], g[m] \o tt[m + 1])
      BY <2>1, <3>3, <3>4, ConcatEmbeds
    <3> QED BY <2>1, <3>1, <3>5, <1>2
  <2> QED BY <2>2, <2>3
<1>7. \A m \in Nat : m \in Done
  <2> HIDE DEF Done
  <2> QED BY <1>5, <1>6, Induction
<1>8. last(Len(ss)) <= Len(tt) /\ Len(ss) \in 0..Len(ss)
  <2>1. Len(ss) # 0 => at[Len(ss)] \in 1..Len(tt)
    BY <1>1
  <2> QED BY <2>1, <1>1
<1>9. Embeds(f[Len(ss)], g[Len(tt)])
  BY <1>1, <1>7, <1>8
<1> QED BY <1>2, <1>3, <1>9

\* A list made element by element keeps the order.
LEMMA ImageEmbeds ==
    ASSUME NEW s, NEW t, NEW u, NEW v, Embeds(s, t),
           DOMAIN u = DOMAIN s, DOMAIN v = DOMAIN t,
           \A i \in DOMAIN s, j \in DOMAIN t : s[i] = t[j] => u[i] = v[j]
    PROVE  Embeds(u, v)
<1>1. PICK at : EmbedsAt(at, s, t)
  BY EmbedsByPosition
<1>2. EmbedsAt(at, u, v)
  BY <1>1 DEF EmbedsAt
<1> QED BY <1>2, EmbedsByPosition

\* Two orders of one list with no string after one that it is less than are equal.
LEMMA SortedOrderIsUnique ==
    ASSUME NEW u \in Seq(Strings), NEW p \in Bijection(DOMAIN u, DOMAIN u),
           \A i, j \in DOMAIN u : i < j => ~Less(u[j], u[i]),
           \A i, j \in DOMAIN u : i < j => ~Less(u[p[j]], u[p[i]]),
           NEW i \in DOMAIN u
    PROVE  u[p[i]] = u[i]
<1> DEFINE n == Len(u)
<1>1. n \in Nat /\ DOMAIN u = 1..n /\ \A k \in 1..n : u[k] \in Strings
  BY LenProperties, ElementOfSeq
<1> HIDE DEF n
<1>2. /\ \A k \in 1..n : p[k] \in 1..n
      /\ \A k, l \in 1..n : p[k] = p[l] => k = l
  BY <1>1 DEF Bijection, Injection, Surjection, IsInjective
<1>3. i \in 1..n /\ i \in Int
  BY <1>1
<1>4. ASSUME Less(u[p[i]], u[i]) PROVE FALSE
  <2>1. ASSUME NEW k \in 1..i PROVE p[k] \in 1..(i - 1)
    <3>1. k \in 1..n /\ p[k] \in 1..n
      BY <1>1, <1>2, <1>3
    <3>2. u[p[k]] \in Strings /\ u[p[i]] \in Strings /\ u[i] \in Strings
      BY <1>1, <1>2, <1>3, <3>1
    <3>3. ~Less(u[p[i]], u[p[k]])
      <4>1. CASE k = i
        BY <4>1, <3>2, LessIsIrreflexive
      <4>2. CASE k # i
        <5>1. k < i
          BY <4>2, <1>3
        <5> QED BY <5>1, <3>1, <1>1, <1>3
      <4> QED BY <4>1, <4>2
    <3>4. Less(u[p[k]], u[i])
      BY <3>2, <3>3, <1>4, LessIsTotal, LessIsTransitive
    <3>5. ~(i < p[k]) /\ i # p[k]
      BY <3>1, <3>2, <3>4, <1>1, <1>3, LessIsIrreflexive
    <3> QED BY <3>1, <3>5, <1>1, <1>3
  <2> DEFINE f == [k \in 1..i |-> p[k]]
  <2>2. f \in [1..i -> 1..(i - 1)]
    BY <2>1
  <2>3. /\ IsFiniteSet(1..i) /\ IsFiniteSet(1..(i - 1))
        /\ Cardinality(1..(i - 1)) < Cardinality(1..i)
    <3>1. i - 1 \in Int /\ 1 \in Int /\ 1 <= i
      BY <1>1, <1>3
    <3>2. IsFiniteSet(1..i) /\ Cardinality(1..i) = i
      BY <3>1, <1>3, FS_Interval
    <3>3. /\ IsFiniteSet(1..(i - 1))
          /\ Cardinality(1..(i - 1)) = IF 1 > i - 1 THEN 0 ELSE (i - 1) - 1 + 1
      BY <3>1, <1>3, FS_Interval
    <3> QED BY <3>1, <3>2, <3>3, <1>3
  <2>4. \E k, l \in 1..i : k # l /\ f[k] = f[l]
    <3> HIDE DEF f
    <3> QED BY <2>2, <2>3, FS_PigeonHole
  <2>5. \A k \in 1..i : k \in 1..n
    BY <1>1, <1>3
  <2> QED BY <2>4, <2>5, <1>2
<1>5. ASSUME Less(u[i], u[p[i]]) PROVE FALSE
  <2>1. ASSUME NEW k \in i..n PROVE p[k] \in (i + 1)..n
    <3>1. k \in 1..n /\ p[k] \in 1..n
      BY <1>1, <1>2, <1>3
    <3>2. u[p[k]] \in Strings /\ u[p[i]] \in Strings /\ u[i] \in Strings
      BY <1>1, <1>2, <1>3, <3>1
    <3>3. ~Less(u[p[k]], u[p[i]])
      <4>1. CASE k = i
        BY <4>1, <3>2, LessIsIrreflexive
      <4>2. CASE k # i
        <5>1. i < k
          BY <4>2, <1>1, <1>3
        <5> QED BY <5>1, <3>1, <1>1, <1>3
      <4> QED BY <4>1, <4>2
    <3>4. Less(u[i], u[p[k]])
      BY <3>2, <3>3, <1>5, LessIsTotal, LessIsTransitive
    <3>5. ~(p[k] < i) /\ i # p[k]
      BY <3>1, <3>2, <3>4, <1>1, <1>3, LessIsIrreflexive
    <3> QED BY <3>1, <3>5, <1>1, <1>3
  <2> DEFINE f == [k \in i..n |-> p[k]]
  <2>2. f \in [i..n -> (i + 1)..n]
    BY <2>1
  <2>3. /\ IsFiniteSet(i..n) /\ IsFiniteSet((i + 1)..n)
        /\ Cardinality((i + 1)..n) < Cardinality(i..n)
    <3>1. i + 1 \in Int /\ n \in Int /\ i <= n
      BY <1>1, <1>3
    <3>2. IsFiniteSet(i..n) /\ Cardinality(i..n) = n - i + 1
      BY <3>1, <1>3, FS_Interval
    <3>3. /\ IsFiniteSet((i + 1)..n)
          /\ Cardinality((i + 1)..n) = IF i + 1 > n THEN 0 ELSE n - (i + 1) + 1
      BY <3>1, <1>3, FS_Interval
    <3> QED BY <3>1, <3>2, <3>3, <1>3
  <2>4. \E k, l \in i..n : k # l /\ f[k] = f[l]
    <3> HIDE DEF f
    <3> QED BY <2>2, <2>3, FS_PigeonHole
  <2>5. \A k \in i..n : k \in 1..n
    BY <1>1, <1>3
  <2> QED BY <2>4, <2>5, <1>2
<1>6. u[p[i]] \in Strings /\ u[i] \in Strings
  BY <1>1, <1>2, <1>3
<1> QED BY <1>4, <1>5, <1>6, LessIsTotal

\* Sorting keeps what sorting any longer list makes of it: the sorted names go to
\* their copies in the longer list, in the order of the copies.
LEMMA SortedEmbeds ==
    ASSUME NEW s \in Seq(Strings), NEW t \in Seq(Strings), Embeds(s, t)
    PROVE  Embeds(Sorted(s), Sorted(t))
<1> DEFINE D == DOMAIN s
           E == DOMAIN t
           us == Sorted(s)
           ut == Sorted(t)
<1>1. PICK at : EmbedsAt(at, s, t)
  BY EmbedsByPosition
<1>2. /\ DOMAIN us = D /\ us \in Seq(Strings)
      /\ \A i, j \in D : i < j => ~Less(us[j], us[i])
  BY SortedNames
<1>3. DOMAIN ut = E /\ \A i, j \in E : i < j => ~Less(ut[j], ut[i])
  BY SortedNames
<1>4. PICK p \in Bijection(D, D) : \A i \in D : us[i] = s[p[i]]
  BY SortedNames
<1>5. PICK q \in Bijection(E, E) : \A i \in E : ut[i] = t[q[i]]
  BY SortedNames
<1>6. D = 1..Len(s) /\ E = 1..Len(t) /\ Len(s) \in Nat /\ Len(t) \in Nat
  BY LenProperties
<1> HIDE DEF us, ut
<1> DEFINE g == [i \in D |-> CHOOSE j \in E : q[j] = at[p[i]]]
<1>7. ASSUME NEW i \in D PROVE g[i] \in E /\ q[g[i]] = at[p[i]] /\ p[i] \in D
  <2>1. p[i] \in D /\ at[p[i]] \in E
    BY <1>1, <1>4 DEF EmbedsAt, Bijection, Injection, Surjection
  <2>2. \E j \in E : q[j] = at[p[i]]
    BY <1>5, <2>1 DEF Bijection, Injection, Surjection
  <2> HIDE DEF E, D
  <2> QED BY <2>1, <2>2
<1> HIDE DEF g
<1>8. ASSUME NEW i \in D PROVE ut[g[i]] = us[i]
  <2>1. ut[g[i]] = t[at[p[i]]]
    BY <1>5, <1>7
  <2>2. t[at[p[i]]] = s[p[i]]
    BY <1>1, <1>7 DEF EmbedsAt
  <2> QED BY <2>1, <2>2, <1>4
<1>9. ASSUME NEW i \in D, NEW j \in D, g[i] = g[j] PROVE i = j
  <2>1. at[p[i]] = at[p[j]] /\ p[i] \in D /\ p[j] \in D
    BY <1>7, <1>9
  <2>2. at[p[i]] \in Nat /\ at[p[j]] \in Nat
    BY <1>1, <1>6, <2>1 DEF EmbedsAt
  <2>3. ~(p[i] < p[j]) /\ ~(p[j] < p[i])
    BY <1>1, <1>6, <2>1, <2>2 DEF EmbedsAt
  <2>4. p[i] = p[j]
    BY <2>1, <2>3, <1>6
  <2> QED BY <2>4, <1>4 DEF Bijection, Injection, IsInjective
<1>10. PICK r \in Bijection(D, D) : \A i, j \in D : i < j => ~(g[r[j]] < g[r[i]])
  <2> DEFINE R == {ab \in Nat \X Nat : ab[1] < ab[2]}
  <2>1. \A a, b \in Nat : <<a, b>> \in R <=> a < b
    OBVIOUS
  <2> HIDE DEF R
  <2>2. g \in Seq(Nat) /\ DOMAIN g = D
    <3>1. g = [i \in D |-> g[i]]
      BY DEF g
    <3>2. \A i \in D : g[i] \in Nat
      BY <1>6, <1>7
    <3>3. g \in [1..Len(s) -> Nat] /\ DOMAIN g = D
      BY <3>1, <3>2, <1>6
    <3> QED BY <3>3, <1>6
  <2>3. /\ \A a \in Nat : <<a, a>> \notin R
        /\ \A a, b, c \in Nat : <<a, b>> \in R /\ <<b, c>> \in R => <<a, c>> \in R
    BY <2>1
  <2>4. PICK r \in Bijection(D, D) : \A i, j \in D : i < j => <<g[r[j]], g[r[i]]>> \notin R
    BY <2>2, <2>3, SortedPermutation
  <2>5. \A i \in D : g[r[i]] \in Nat
    BY <1>6, <1>7 DEF Bijection, Injection
  <2> HIDE DEF D
  <2> QED BY <2>1, <2>4, <2>5
<1> DEFINE f == [i \in D |-> g[r[i]]]
<1>11. \A i \in D : r[i] \in D /\ f[i] = g[r[i]] /\ f[i] \in E
  BY <1>7, <1>10 DEF Bijection, Injection
<1> HIDE DEF f
<1>12. ASSUME NEW i \in D, NEW j \in D, i < j PROVE f[i] < f[j]
  <2>1. f[i] \in Nat /\ f[j] \in Nat /\ ~(f[j] < f[i])
    BY <1>6, <1>10, <1>11, <1>12
  <2>2. f[i] # f[j]
    <3>1. r[i] # r[j]
      <4>1. i # j
        BY <1>6, <1>12
      <4> QED BY <4>1, <1>10 DEF Bijection, Injection, IsInjective
    <3> QED BY <3>1, <1>9, <1>11
  <2> QED BY <2>1, <2>2
<1>13. ASSUME NEW i \in D PROVE ut[f[i]] = us[i]
  <2>1. \A k \in D : us[r[k]] = ut[f[k]]
    BY <1>8, <1>11
  <2>2. \A k, l \in D : k < l => ~Less(us[r[l]], us[r[k]])
    BY <2>1, <1>3, <1>11, <1>12
  <2>3. us[r[i]] = us[i]
    BY <1>2, <1>10, <2>2, SortedOrderIsUnique
  <2> QED BY <2>1, <2>3
<1>14. EmbedsAt(f, us, ut)
  <2>1. f \in [D -> E]
    BY <1>11 DEF f
  <2> QED BY <2>1, <1>2, <1>3, <1>12, <1>13 DEF EmbedsAt
<1> QED BY <1>14, EmbedsByPosition DEF us, ut

-----------------------------------------------------------------------------
(***************************************************************************)
(* What emit makes of a contract.                                          *)
(***************************************************************************)
DeclaredIn(c) == UNION {ToSet(c.permissions[s]) : s \in ToSet(c.services)}

LEMMA NamesAreStrings == Names \subseteq Strings
  BY ContractStrings DEF Names, Strings

\* An identifier is a string without ":".
LEMMA IdentFacts ==
    ASSUME NEW p \in Strings
    PROVE  permConstName(p) \in Strings /\ Colon \notin ToSet(permConstName(p))
<1> DEFINE part(i) == IF p[i] = Colon THEN <<>>
                      ELSE IF i = 1 \/ p[i - 1] = Colon THEN <<Upper(p[i])>> ELSE <<p[i]>>
           parts == [i \in DOMAIN p |-> part(i)]
           Plain == Bytes \ {Colon}
<1>1. ASSUME NEW i \in DOMAIN p PROVE part(i) \in Seq(Plain)
  <2>1. p[i] \in 0..255
    BY StringFacts, ElementOfSeq DEF Strings, Bytes
  <2>2. p[i] # Colon => p[i] \in Plain /\ Upper(p[i]) \in Plain
    BY <2>1 DEF Upper, Bytes, Colon
  <2>3. <<>> \in Seq(Plain) /\ \A b \in Plain : <<b>> \in Seq(Plain)
    OBVIOUS
  <2> QED BY <2>2, <2>3
<1> HIDE DEF part
<1>2. parts \in Seq(Seq(Plain))
  <2>1. DOMAIN p = 1..Len(p) /\ Len(p) \in Nat
    BY StringFacts
  <2>2. parts \in [1..Len(p) -> Seq(Plain)]
    BY <1>1, <2>1
  <2> QED BY <2>1, <2>2
<1>3. FlattenSeq(parts) \in Seq(Plain)
  <2> HIDE DEF parts, Plain
  <2> QED BY <1>2, FlattenSeqContents
<1>4. permConstName(p) = FlattenSeq(parts)
  BY DEF permConstName, part
<1>5. permConstName(p) \in Seq(Bytes)
  BY <1>3, <1>4, SeqMonotonic
<1>6. \A i \in DOMAIN permConstName(p) : permConstName(p)[i] \in Plain
  BY <1>3, <1>4, LenProperties, ElementOfSeq
<1> QED BY <1>5, <1>6 DEF Strings, ToSet

\* A bucket holds the names of the declared permissions with its scope.
LEMMA NamesWithFacts ==
    ASSUME NEW entries \in Seq(Entries), NEW scope
    PROVE  /\ NamesWith(entries, scope) \in Seq(Names)
           /\ ToSet(NamesWith(entries, scope)) =
                  {e.name : e \in {x \in ToSet(entries) : x.scope = scope}}
<1> DEFINE part(i) == IF entries[i].scope = scope THEN <<entries[i].name>> ELSE <<>>
           parts == [i \in DOMAIN entries |-> part(i)]
<1>1. DOMAIN entries = 1..Len(entries) /\ Len(entries) \in Nat
      /\ \A i \in DOMAIN entries : entries[i] \in Entries
  BY LenProperties, ElementOfSeq
<1>2. ASSUME NEW i \in DOMAIN entries
      PROVE  /\ part(i) \in Seq(Names)
             /\ ToSet(part(i)) = IF entries[i].scope = scope THEN {entries[i].name} ELSE {}
  <2>1. entries[i].name \in Names
    BY <1>1 DEF Names
  <2>2. CASE entries[i].scope = scope
    BY <2>1, <2>2 DEF ToSet
  <2>3. CASE entries[i].scope # scope
    BY <2>3 DEF ToSet
  <2> QED BY <2>2, <2>3
<1> HIDE DEF part
<1>3. parts \in Seq(Seq(Names))
  <2>1. parts \in [1..Len(entries) -> Seq(Names)]
    BY <1>1, <1>2
  <2> QED BY <1>1, <2>1
<1>4. NamesWith(entries, scope) = FlattenSeq(parts)
  BY DEF NamesWith, part
<1>5. DOMAIN parts = DOMAIN entries /\ \A i \in DOMAIN entries : parts[i] = part(i)
  OBVIOUS
<1> HIDE DEF parts
<1>6. /\ FlattenSeq(parts) \in Seq(Names)
      /\ ToSet(FlattenSeq(parts)) = UNION {ToSet(parts[i]) : i \in DOMAIN parts}
  BY <1>3, FlattenSeqContents
<1>7. UNION {ToSet(parts[i]) : i \in DOMAIN parts} =
          {e.name : e \in {x \in ToSet(entries) : x.scope = scope}}
  <2>1. ASSUME NEW n, n \in UNION {ToSet(parts[i]) : i \in DOMAIN parts}
        PROVE  n \in {e.name : e \in {x \in ToSet(entries) : x.scope = scope}}
    <3>1. PICK i \in DOMAIN entries : n \in ToSet(part(i))
      BY <2>1, <1>5
    <3>2. entries[i].scope = scope /\ n = entries[i].name
      BY <3>1, <1>2
    <3> QED BY <3>2 DEF ToSet
  <2>2. ASSUME NEW i \in DOMAIN entries, entries[i].scope = scope
        PROVE  entries[i].name \in UNION {ToSet(parts[j]) : j \in DOMAIN parts}
    <3>1. entries[i].name \in ToSet(part(i))
      BY <2>2, <1>2
    <3> QED BY <3>1, <1>5
  <2>3. \A e \in ToSet(entries) : \E i \in DOMAIN entries : e = entries[i]
    BY DEF ToSet
  <2> QED BY <2>1, <2>2, <2>3
<1> QED BY <1>4, <1>6, <1>7

\* emit walks over the permissions of the declared services and no others.
LEMMA DeclaredEntriesFacts ==
    ASSUME NEW c \in Contracts
    PROVE  DeclaredEntries(c) \in Seq(Entries) /\ ToSet(DeclaredEntries(c)) = DeclaredIn(c)
<1> DEFINE parts == [i \in DOMAIN c.services |-> c.permissions[c.services[i]]]
<1>1. c.services \in Seq(Services) /\ c.permissions \in [Services -> Seq(Entries)]
  BY DEF Contracts
<1>2. /\ DOMAIN c.services = 1..Len(c.services) /\ Len(c.services) \in Nat
      /\ \A i \in DOMAIN c.services : c.services[i] \in Services
  BY <1>1, LenProperties, ElementOfSeq
<1>3. parts \in Seq(Seq(Entries))
  <2>1. parts \in [1..Len(c.services) -> Seq(Entries)]
    BY <1>1, <1>2
  <2> QED BY <1>2, <2>1
<1>4. DeclaredEntries(c) = FlattenSeq(parts)
  BY DEF DeclaredEntries
<1>5. DOMAIN parts = DOMAIN c.services
      /\ \A i \in DOMAIN c.services : parts[i] = c.permissions[c.services[i]]
  OBVIOUS
<1> HIDE DEF parts
<1>6. /\ FlattenSeq(parts) \in Seq(Entries)
      /\ ToSet(FlattenSeq(parts)) = UNION {ToSet(parts[i]) : i \in DOMAIN parts}
  BY <1>3, FlattenSeqContents
<1>7. {ToSet(parts[i]) : i \in DOMAIN parts} = {ToSet(c.permissions[s]) : s \in ToSet(c.services)}
  <2>1. {ToSet(parts[i]) : i \in DOMAIN parts} =
            {ToSet(c.permissions[c.services[i]]) : i \in DOMAIN c.services}
    BY <1>5
  <2>2. ToSet(c.services) = {c.services[i] : i \in DOMAIN c.services}
    BY DEF ToSet
  <2> HIDE DEF ToSet
  <2> QED BY <2>1, <2>2
<1> QED BY <1>4, <1>6, <1>7 DEF DeclaredIn

\* The constants are the declared names, in order.
LEMMA AllPermsFacts ==
    ASSUME NEW c \in Contracts
    PROVE  /\ allPerms(c) \in Seq(Strings)
           /\ ToSet(allPerms(c)) = {e.name : e \in DeclaredIn(c)}
           /\ \A i, j \in DOMAIN allPerms(c) : i < j => ~Less(allPerms(c)[j], allPerms(c)[i])
<1> DEFINE all == DeclaredEntries(c)
           names == NamesOf(all)
<1>1. all \in Seq(Entries) /\ ToSet(all) = DeclaredIn(c)
  BY DeclaredEntriesFacts
<1> HIDE DEF all
<1>2. DOMAIN all = 1..Len(all) /\ Len(all) \in Nat /\ \A i \in DOMAIN all : all[i] \in Entries
  BY <1>1, LenProperties, ElementOfSeq
<1>3. DOMAIN names = DOMAIN all /\ \A i \in DOMAIN all : names[i] = all[i].name
  BY DEF NamesOf
<1>4. names \in Seq(Strings)
  <2>1. \A i \in DOMAIN all : names[i] \in Strings
    BY <1>2, <1>3, NamesAreStrings DEF Names
  <2>2. names \in [1..Len(all) -> Strings]
    BY <2>1, <1>2, <1>3 DEF NamesOf
  <2> QED BY <2>2, <1>2
<1>5. ToSet(names) = {e.name : e \in DeclaredIn(c)}
  <2>1. ToSet(names) = {all[i].name : i \in DOMAIN all} /\ ToSet(all) = {all[i] : i \in DOMAIN all}
    BY <1>3 DEF ToSet
  <2> HIDE DEF names
  <2> QED BY <2>1, <1>1
<1>6. allPerms(c) = Sorted(names)
  BY DEF allPerms, all
<1> HIDE DEF names
<1> QED BY <1>4, <1>5, <1>6, SortedNames

\* The role's sorted copy lists what the role lists.
LEMMA SortedRolePermsFacts ==
    ASSUME NEW c \in Contracts, NEW r \in RoleNames
    PROVE  /\ SortedRolePerms(c, r) \in Seq(Strings)
           /\ ToSet(SortedRolePerms(c, r)) = ToSet(c.rolePerms[r])
<1>1. c.rolePerms[r] \in Seq(Names)
  BY DEF Contracts
<1>2. c.rolePerms[r] \in Seq(Strings)
  BY <1>1, NamesAreStrings, SeqMonotonic
<1> QED BY <1>2, SortedNames DEF SortedRolePerms

\* A list of identifiers stands for the names it was made from.
LEMMA IdentsFacts ==
    ASSUME NEW names \in Seq(Strings)
    PROVE  /\ Idents(names) \in Seq(Strings)
           /\ ToSet(Idents(names)) = {permConstName(p) : p \in ToSet(names)}
<1>1. DOMAIN names = 1..Len(names) /\ Len(names) \in Nat
      /\ \A i \in DOMAIN names : names[i] \in Strings
  BY LenProperties, ElementOfSeq
<1>2. DOMAIN Idents(names) = DOMAIN names
      /\ \A i \in DOMAIN names : Idents(names)[i] = permConstName(names[i])
  BY DEF Idents
<1>3. \A i \in DOMAIN names : permConstName(names[i]) \in Strings
  BY <1>1, IdentFacts
<1>4. Idents(names) \in [1..Len(names) -> Strings]
  BY <1>1, <1>3 DEF Idents
<1>5. ToSet(Idents(names)) = {permConstName(names[i]) : i \in DOMAIN names}
  BY <1>2 DEF ToSet
<1>6. ToSet(names) = {names[i] : i \in DOMAIN names}
  BY DEF ToSet
<1> QED BY <1>1, <1>4, <1>5, <1>6

\* The declarations of the generated file, as sets of names.
LEMMA DeclarationsFacts ==
    ASSUME NEW c \in Contracts, NEW day \in Days
    PROVE  LET f == Declarations(c, day)
           IN  /\ ToSet(f.permConsts) = {[ident |-> permConstName(p), value |-> p] :
                                             p \in {e.name : e \in DeclaredIn(c)}}
               /\ DOMAIN f.tuples = DOMAIN Scopes /\ f.tuples \in Seq(Seq(Strings))
               /\ \A i \in DOMAIN Scopes : ToSet(f.tuples[i]) =
                      {permConstName(p) :
                           p \in {e.name : e \in {x \in DeclaredIn(c) : x.scope = Scopes[i]}}}
               /\ DOMAIN f.roles = DOMAIN c.roles
               /\ \A i \in DOMAIN c.roles :
                      /\ c.roles[i] \in RoleNames /\ f.roles[i].value = c.roles[i]
                      /\ ToSet(f.roles[i].perms) =
                             {permConstName(p) : p \in ToSet(c.rolePerms[c.roles[i]])}
<1> DEFINE f == Declarations(c, day)
           perms == allPerms(c)
           const(p) == [ident |-> permConstName(p), value |-> p]
<1>1. ToSet(f.permConsts) = {const(p) : p \in {e.name : e \in DeclaredIn(c)}}
  <2>1. f.permConsts = [i \in DOMAIN perms |-> const(perms[i])]
    BY DEF Declarations
  <2>2. ToSet(perms) = {e.name : e \in DeclaredIn(c)} /\ ToSet(perms) = {perms[i] : i \in DOMAIN perms}
    BY AllPermsFacts DEF ToSet
  <2> HIDE DEF perms, const, f
  <2>3. ToSet(f.permConsts) = {const(perms[i]) : i \in DOMAIN perms}
    BY <2>1 DEF ToSet
  <2> QED BY <2>2, <2>3
<1>2. DOMAIN Scopes = 1..4
  BY DEF Scopes
<1>3. f.tuples = [i \in DOMAIN Scopes |-> Idents(Bucket(c, Scopes[i]))]
  BY DEF Declarations
<1>4. ASSUME NEW i \in DOMAIN Scopes
      PROVE  /\ Idents(Bucket(c, Scopes[i])) \in Seq(Strings)
             /\ ToSet(Idents(Bucket(c, Scopes[i]))) = {permConstName(p) :
                    p \in {e.name : e \in {x \in DeclaredIn(c) : x.scope = Scopes[i]}}}
  <2> DEFINE names == Bucket(c, Scopes[i])
  <2>1. /\ names \in Seq(Names)
        /\ ToSet(names) = {e.name : e \in {x \in DeclaredIn(c) : x.scope = Scopes[i]}}
    BY DeclaredEntriesFacts, NamesWithFacts DEF Bucket
  <2> HIDE DEF names
  <2>2. names \in Seq(Strings)
    BY <2>1, NamesAreStrings, SeqMonotonic
  <2>3. Idents(names) \in Seq(Strings) /\ ToSet(Idents(names)) = {permConstName(p) : p \in ToSet(names)}
    BY <2>2, IdentsFacts
  <2> QED BY <2>1, <2>3 DEF names
<1>5. /\ DOMAIN f.tuples = DOMAIN Scopes /\ f.tuples \in Seq(Seq(Strings))
      /\ \A i \in DOMAIN Scopes : ToSet(f.tuples[i]) =
             {permConstName(p) :
                  p \in {e.name : e \in {x \in DeclaredIn(c) : x.scope = Scopes[i]}}}
  <2>1. DOMAIN f.tuples = DOMAIN Scopes
        /\ \A i \in DOMAIN Scopes : f.tuples[i] = Idents(Bucket(c, Scopes[i]))
    BY <1>3
  <2>2. f.tuples \in [1..4 -> Seq(Strings)]
    BY <1>2, <1>3, <1>4
  <2> HIDE DEF f
  <2>3. f.tuples \in Seq(Seq(Strings))
    <3>1. ASSUME NEW T, NEW n \in Nat, NEW g \in [1..n -> T] PROVE g \in Seq(T)
      OBVIOUS
    <3>2. 4 \in Nat
      OBVIOUS
    <3> QED BY <3>1, <3>2, <2>2
  <2> QED BY <2>1, <2>3, <1>4
<1>6. /\ DOMAIN f.roles = DOMAIN c.roles
      /\ \A i \in DOMAIN c.roles :
             /\ f.roles[i].value = c.roles[i]
             /\ f.roles[i].perms = Idents(SortedRolePerms(c, c.roles[i]))
  BY DEF Declarations
<1>7. \A i \in DOMAIN c.roles : c.roles[i] \in RoleNames
  BY LenProperties, ElementOfSeq DEF Contracts
<1>8. ASSUME NEW i \in DOMAIN c.roles
      PROVE  ToSet(f.roles[i].perms) = {permConstName(p) : p \in ToSet(c.rolePerms[c.roles[i]])}
  <2> HIDE DEF f
  <2> DEFINE names == SortedRolePerms(c, c.roles[i])
  <2>1. names \in Seq(Strings) /\ ToSet(names) = ToSet(c.rolePerms[c.roles[i]])
    BY <1>7, SortedRolePermsFacts
  <2> HIDE DEF names
  <2>2. ToSet(Idents(names)) = {permConstName(p) : p \in ToSet(names)}
    BY <2>1, IdentsFacts
  <2> QED BY <2>1, <2>2, <1>6 DEF names
<1> HIDE DEF f
<1>9. /\ ToSet(f.permConsts) = {[ident |-> permConstName(p), value |-> p] :
                                    p \in {e.name : e \in DeclaredIn(c)}}
  BY <1>1
<1> QED BY <1>5, <1>6, <1>7, <1>8, <1>9 DEF f

-----------------------------------------------------------------------------
(***************************************************************************)
(* The inductive invariant.                                                *)
(***************************************************************************)
IInv ==
    /\ contract \in Contracts
    /\ mapOrder \in SetToSeqs(Services)
    /\ today \in Days
    /\ file = emit(contract, today)

LEMMA ReverseOfSeq ==
    ASSUME NEW S, NEW s \in Seq(S)
    PROVE  Reverse(s) \in Seq(S)
<1>1. Len(s) \in Nat /\ \A i \in 1..Len(s) : s[i] \in S
  BY LenProperties, ElementOfSeq
<1>2. \A i \in 1..Len(s) : (Len(s) - i) + 1 \in 1..Len(s)
  BY <1>1
<1>3. Reverse(s) \in [1..Len(s) -> S]
  BY <1>1, <1>2 DEF Reverse
<1> QED BY <1>1, <1>3

\* An edit leads to a contract, and to what emit makes of it.
LEMMA EditKeepsIInv ==
    ASSUME IInv, NEW c \in Contracts, Edit(c)
    PROVE  IInv'
<1>1. /\ contract' = c /\ mapOrder' = mapOrder /\ today' = today
      /\ file' = emit(contract', today')
  BY DEF Edit, Generate
<1> QED BY <1>1 DEF IInv

LEMMA StepKeepsIInv == IInv /\ [Next]_vars => IInv'
<1> SUFFICES ASSUME IInv, [Next]_vars PROVE IInv'
    OBVIOUS
<1> DEFINE con == contract
<1>1. /\ con \in Contracts
      /\ con.services \in Seq(Services) /\ con.roles \in Seq(RoleNames)
      /\ con.permissions \in [Services -> Seq(Entries)]
      /\ con.rolePerms \in [RoleNames -> Seq(Names)]
  BY DEF IInv, Contracts
<1>2. ASSUME NEW s \in Services, DeclareService(s) PROVE IInv'
  <2> DEFINE c == [con EXCEPT !.services = Append(@, s)]
  <2>1. Append(con.services, s) \in Seq(Services)
    BY <1>1, AppendProperties
  <2>2. c \in Contracts
    BY <1>1, <2>1 DEF Contracts
  <2>3. Edit(c)
    BY <1>2 DEF DeclareService
  <2> HIDE DEF c
  <2> QED BY <2>2, <2>3, EditKeepsIInv
<1>3. ASSUME NEW s \in Services, NEW e \in Entries, AddPermission(s, e) PROVE IInv'
  <2> DEFINE c == [con EXCEPT !.permissions[s] = Append(@, e)]
  <2>1. Append(con.permissions[s], e) \in Seq(Entries)
    BY <1>1, AppendProperties
  <2>2. c \in Contracts
    BY <1>1, <2>1 DEF Contracts
  <2>3. Edit(c)
    BY <1>3 DEF AddPermission, Grow
  <2> HIDE DEF c
  <2> QED BY <2>2, <2>3, EditKeepsIInv
<1>4. ASSUME NEW r \in RoleNames, AddRole(r) PROVE IInv'
  <2> DEFINE c == [con EXCEPT !.roles = Append(@, r)]
  <2>1. Append(con.roles, r) \in Seq(RoleNames)
    BY <1>1, AppendProperties
  <2>2. c \in Contracts
    BY <1>1, <2>1 DEF Contracts
  <2>3. Edit(c)
    BY <1>4 DEF AddRole
  <2> HIDE DEF c
  <2> QED BY <2>2, <2>3, EditKeepsIInv
<1>5. ASSUME NEW r \in RoleNames, NEW p \in Names, Grant(r, p) PROVE IInv'
  <2> DEFINE c == [con EXCEPT !.rolePerms[r] = Append(@, p)]
  <2>1. Append(con.rolePerms[r], p) \in Seq(Names)
    BY <1>1, AppendProperties
  <2>2. c \in Contracts
    BY <1>1, <2>1 DEF Contracts
  <2>3. Edit(c)
    BY <1>5 DEF Grant, Grow
  <2> HIDE DEF c
  <2> QED BY <2>2, <2>3, EditKeepsIInv
<1>6. CASE Reorder
  <2> DEFINE permissions == [s \in Services |-> Reverse(con.permissions[s])]
             rolePerms == [r \in RoleNames |-> Reverse(con.rolePerms[r])]
             c == [con EXCEPT !.services = Reverse(@), !.roles = Reverse(@),
                       !.permissions = permissions, !.rolePerms = rolePerms]
  <2>1. Reverse(con.services) \in Seq(Services) /\ Reverse(con.roles) \in Seq(RoleNames)
    BY <1>1, ReverseOfSeq
  <2>2. /\ permissions \in [Services -> Seq(Entries)]
        /\ rolePerms \in [RoleNames -> Seq(Names)]
    BY <1>1, ReverseOfSeq
  <2>3. Edit(c)
    BY <1>6 DEF Reorder
  <2> HIDE DEF permissions, rolePerms
  <2>4. c \in Contracts
    BY <1>1, <2>1, <2>2 DEF Contracts
  <2> HIDE DEF c
  <2> QED BY <2>3, <2>4, EditKeepsIInv
<1>7. CASE Regenerate
  BY <1>7 DEF Regenerate, Generate, IInv
<1>8. CASE UNCHANGED vars
  BY <1>8 DEF vars, IInv
<1> QED BY <1>2, <1>3, <1>4, <1>5, <1>6, <1>7, <1>8 DEF Next

LEMMA InvariantHolds == Spec => []IInv
<1>1. Init => IInv
  <2> SUFFICES ASSUME Init PROVE IInv
    OBVIOUS
  <2>1. /\ <<>> \in Seq(Services) /\ <<>> \in Seq(RoleNames)
        /\ [s \in Services |-> <<>>] \in [Services -> Seq(Entries)]
        /\ [r \in RoleNames |-> <<>>] \in [RoleNames -> Seq(Names)]
    BY EmptySeq
  <2>2. contract \in Contracts
    <3> DEFINE noPermissions == [s \in Services |-> <<>>]
               noRolePerms == [r \in RoleNames |-> <<>>]
    <3>1. /\ noPermissions \in [Services -> Seq(Entries)]
          /\ noRolePerms \in [RoleNames -> Seq(Names)]
      BY <2>1
    <3>2. contract \in [version : BOOLEAN, services : {<<>>}, roles : {<<>>},
                        permissions : {noPermissions}, rolePerms : {noRolePerms}]
      BY DEF Init
    <3> HIDE DEF noPermissions, noRolePerms
    <3> QED BY <2>1, <3>1, <3>2 DEF Contracts
  <2> QED BY <2>2 DEF Init, IInv
<1> QED BY <1>1, StepKeepsIInv, PTL DEF Spec

-----------------------------------------------------------------------------
(***************************************************************************)
(* The file and the contract.                                              *)
(***************************************************************************)
LEMMA FileIsDeclarations ==
    ASSUME IInv, file # Error
    PROVE  /\ file = Declarations(contract, today)
           /\ contract \in Contracts /\ contract.roles # <<>> /\ today \in Days
  BY DEF IInv, emit

LEMMA DeclaredNamesFacts ==
    ASSUME IInv
    PROVE  /\ DeclaredSet = DeclaredIn(contract) /\ DeclaredSet \subseteq Entries
           /\ DeclaredNames \subseteq Names
<1>1. DeclaredSet = DeclaredIn(contract)
  BY DEF DeclaredSet, DeclaredIn
<1>2. DeclaredSet \subseteq Entries
  <2>1. ToSet(DeclaredEntries(contract)) = DeclaredSet /\ DeclaredEntries(contract) \in Seq(Entries)
    BY <1>1, DeclaredEntriesFacts DEF IInv
  <2> QED BY <2>1, LenProperties, ElementOfSeq DEF ToSet
<1> QED BY <1>1, <1>2 DEF DeclaredNames, Names

\* The tuples of the file have the identifiers of the declared names, by scope.
LEMMA TupleIdents ==
    ASSUME IInv, file # Error
    PROVE  /\ file.tuples \in Seq(Seq(Strings)) /\ DOMAIN file.tuples = DOMAIN Scopes
           /\ \A i \in DOMAIN Scopes : ToSet(file.tuples[i]) =
                  {permConstName(p) :
                       p \in {e.name : e \in {x \in DeclaredSet : x.scope = Scopes[i]}}}
<1> DEFINE f == Declarations(contract, today)
<1>1. file = f /\ contract \in Contracts /\ today \in Days
  BY FileIsDeclarations
<1>2. /\ DOMAIN f.tuples = DOMAIN Scopes /\ f.tuples \in Seq(Seq(Strings))
      /\ \A i \in DOMAIN Scopes : ToSet(f.tuples[i]) =
             {permConstName(p) :
                  p \in {e.name : e \in {x \in DeclaredIn(contract) : x.scope = Scopes[i]}}}
  BY <1>1, DeclarationsFacts
<1> HIDE DEF f
<1> QED BY <1>1, <1>2, DeclaredNamesFacts

\* The file has a row for each role, with the identifiers of what the role lists.
LEMMA RoleRows ==
    ASSUME IInv, file # Error
    PROVE  /\ DOMAIN file.roles = DOMAIN contract.roles
           /\ \A i \in DOMAIN contract.roles :
                  /\ contract.roles[i] \in RoleNames /\ file.roles[i].value = contract.roles[i]
                  /\ ToSet(file.roles[i].perms) =
                         {permConstName(p) : p \in ToSet(contract.rolePerms[contract.roles[i]])}
<1> DEFINE f == Declarations(contract, today)
<1>1. file = f /\ contract \in Contracts /\ today \in Days
  BY FileIsDeclarations
<1>2. /\ DOMAIN f.roles = DOMAIN contract.roles
      /\ \A i \in DOMAIN contract.roles :
             /\ contract.roles[i] \in RoleNames /\ f.roles[i].value = contract.roles[i]
             /\ ToSet(f.roles[i].perms) =
                    {permConstName(p) : p \in ToSet(contract.rolePerms[contract.roles[i]])}
  BY <1>1, DeclarationsFacts
<1> HIDE DEF f
<1> QED BY <1>1, <1>2

\* The constants are the declared names with their identifiers.
LEMMA PermConstsFacts ==
    ASSUME IInv, file # Error
    PROVE  /\ ToSet(file.permConsts) =
                  {[ident |-> permConstName(p), value |-> p] : p \in DeclaredNames}
           /\ ToSet(IdentsOf(file.permConsts)) = {permConstName(p) : p \in DeclaredNames}
<1>1. ToSet(file.permConsts) = {[ident |-> permConstName(p), value |-> p] : p \in DeclaredNames}
  BY FileIsDeclarations, DeclarationsFacts, DeclaredNamesFacts DEF DeclaredNames
<1>2. ToSet(IdentsOf(file.permConsts)) = {d.ident : d \in ToSet(file.permConsts)}
  <2> DEFINE consts == file.permConsts
  <2>1. DOMAIN IdentsOf(consts) = DOMAIN consts
        /\ \A i \in DOMAIN consts : IdentsOf(consts)[i] = consts[i].ident
    BY DEF IdentsOf
  <2>2. /\ ToSet(IdentsOf(consts)) = {consts[i].ident : i \in DOMAIN consts}
        /\ ToSet(consts) = {consts[i] : i \in DOMAIN consts}
    BY <2>1 DEF ToSet
  <2> HIDE DEF consts
  <2>3. {d.ident : d \in {consts[i] : i \in DOMAIN consts}} = {consts[i].ident : i \in DOMAIN consts}
    OBVIOUS
  <2> QED BY <2>2, <2>3 DEF consts
<1> DEFINE const(p) == [ident |-> permConstName(p), value |-> p]
<1>3. \A p : const(p).ident = permConstName(p)
  OBVIOUS
<1>4. ToSet(file.permConsts) = {const(p) : p \in DeclaredNames}
  BY <1>1
<1>5. {d.ident : d \in {const(p) : p \in DeclaredNames}} = {permConstName(p) : p \in DeclaredNames}
  <2> HIDE DEF const
  <2> QED BY <1>3
<1> QED BY <1>1, <1>2, <1>4, <1>5

\* The contract keeps its shape whatever is edited, and no identifier holds a ":".
THEOREM TypeCorrect == Spec => []TypeOK
<1>1. IInv => TypeOK
  <2> SUFFICES ASSUME IInv, file # Error, NEW ident \in IdentsIn(file)
               PROVE  ~Contains(ident, Colon)
    BY DEF IInv, TypeOK
  <2>1. \E p \in Strings : ident = permConstName(p)
    <3>1. \A e \in DeclaredSet : e.name \in Strings
      BY DeclaredNamesFacts, NamesAreStrings DEF Names
    <3>2. CASE ident \in ToSet(IdentsOf(file.permConsts))
      <4>1. PICK p \in DeclaredNames : ident = permConstName(p)
        BY <3>2, PermConstsFacts
      <4> QED BY <4>1, <3>1 DEF DeclaredNames
    <3>3. ASSUME NEW i \in DOMAIN Scopes, ident \in ToSet(file.tuples[i])
          PROVE  \E p \in Strings : ident = permConstName(p)
      <4>1. PICK p \in {e.name : e \in {x \in DeclaredSet : x.scope = Scopes[i]}} :
                ident = permConstName(p)
        BY <3>3, TupleIdents
      <4> QED BY <4>1, <3>1
    <3> QED BY <3>2, <3>3 DEF IdentsIn
  <2>2. ident \in Seq(Bytes) /\ Colon \notin ToSet(ident)
    BY <2>1, IdentFacts DEF Strings
  <2> QED BY <2>2, LenProperties DEF Contains, ToSet
<1> QED BY <1>1, InvariantHolds, PTL

\* Two files of two contracts list the constants that both have in one order, that
\* of sort.Strings, whatever was edited in between.
THEOREM DiffsAreStable == Spec => DiffStable
<1>1. ASSUME IInv, IInv', file # Error, file' # Error,
             NEW i \in DOMAIN file.permConsts, NEW j \in DOMAIN file.permConsts,
             NEW k \in DOMAIN file'.permConsts, NEW l \in DOMAIN file'.permConsts,
             i < j, file.permConsts[i] # file.permConsts[j],
             file'.permConsts[k] = file.permConsts[i],
             file'.permConsts[l] = file.permConsts[j]
      PROVE  k < l
  <2> DEFINE old == allPerms(contract)
             new == allPerms(contract')
  <2>1. /\ file = Declarations(contract, today) /\ contract \in Contracts
        /\ file' = Declarations(contract', today') /\ contract' \in Contracts
    BY <1>1 DEF IInv, emit
  <2>2. /\ DOMAIN file.permConsts = DOMAIN old /\ DOMAIN file'.permConsts = DOMAIN new
        /\ file.permConsts[i] = [ident |-> permConstName(old[i]), value |-> old[i]]
        /\ file.permConsts[j] = [ident |-> permConstName(old[j]), value |-> old[j]]
        /\ file'.permConsts[k] = [ident |-> permConstName(new[k]), value |-> new[k]]
        /\ file'.permConsts[l] = [ident |-> permConstName(new[l]), value |-> new[l]]
    BY <2>1, <1>1 DEF Declarations
  <2>3. new[k] = old[i] /\ new[l] = old[j] /\ old[i] # old[j]
    BY <2>2, <1>1
  <2>4. /\ old \in Seq(Strings) /\ new \in Seq(Strings)
        /\ \A a, b \in DOMAIN old : a < b => ~Less(old[b], old[a])
        /\ \A a, b \in DOMAIN new : a < b => ~Less(new[b], new[a])
    BY <2>1, AllPermsFacts
  <2> HIDE DEF old, new
  <2>5. /\ i \in DOMAIN old /\ j \in DOMAIN old /\ k \in DOMAIN new /\ l \in DOMAIN new
    BY <2>2, <1>1
  <2>6. old[i] \in Strings /\ old[j] \in Strings
    BY <2>4, <2>5, LenProperties, ElementOfSeq
  <2>7. Less(old[i], old[j])
    BY <2>3, <2>4, <2>5, <2>6, <1>1, LessIsTotal
  <2>8. ~(l < k) /\ l # k
    BY <2>3, <2>4, <2>5, <2>7
  <2>9. k \in Nat /\ l \in Nat
    BY <2>4, <2>5, LenProperties
  <2> QED BY <2>8, <2>9
<1>2. IInv /\ IInv' =>
          (file # Error /\ file' # Error =>
              \A i, j \in DOMAIN file.permConsts, k, l \in DOMAIN file'.permConsts :
                  /\ i < j /\ file.permConsts[i] # file.permConsts[j]
                  /\ file'.permConsts[k] = file.permConsts[i]
                  /\ file'.permConsts[l] = file.permConsts[j]
                  => k < l)
  BY <1>1
<1> QED BY <1>2, InvariantHolds, PTL DEF Spec, DiffStable

-----------------------------------------------------------------------------
(***************************************************************************)
(* Lines that are only added.                                              *)
(***************************************************************************)
\* What is appended to a contract comes between the permissions it had.
LEMMA DeclaredEntriesEmbed ==
    ASSUME NEW c \in Contracts, NEW d \in Contracts, Extends(c, d)
    PROVE  Embeds(DeclaredEntries(c), DeclaredEntries(d))
<1> DEFINE ss == [i \in DOMAIN c.services |-> c.permissions[c.services[i]]]
           tt == [i \in DOMAIN d.services |-> d.permissions[d.services[i]]]
           at == [i \in DOMAIN ss |-> i]
<1>1. /\ c.services \in Seq(Services) /\ c.permissions \in [Services -> Seq(Entries)]
      /\ d.services \in Seq(Services) /\ d.permissions \in [Services -> Seq(Entries)]
  BY DEF Contracts
<1>2. /\ DOMAIN c.services = 1..Len(c.services) /\ Len(c.services) \in Nat
      /\ DOMAIN d.services = 1..Len(d.services) /\ Len(d.services) \in Nat
      /\ \A i \in DOMAIN c.services : c.services[i] \in Services
      /\ \A i \in DOMAIN d.services : d.services[i] \in Services
  BY <1>1, LenProperties, ElementOfSeq
<1>3. /\ DOMAIN c.services \subseteq DOMAIN d.services
      /\ \A i \in DOMAIN c.services : d.services[i] = c.services[i]
  BY <1>1, PrefixEmbeds DEF Extends
<1>4. ss \in Seq(Seq(Entries))
  <2>1. ss \in [1..Len(c.services) -> Seq(Entries)]
    BY <1>1, <1>2
  <2> QED BY <1>2, <2>1
<1>5. tt \in Seq(Seq(Entries))
  <2>1. tt \in [1..Len(d.services) -> Seq(Entries)]
    BY <1>1, <1>2
  <2> QED BY <1>2, <2>1
<1>6. DOMAIN ss = DOMAIN c.services /\ DOMAIN tt = DOMAIN d.services
  OBVIOUS
<1>7. ASSUME NEW i \in DOMAIN ss PROVE Embeds(ss[i], tt[at[i]])
  <2>1. /\ i \in DOMAIN c.services /\ i \in DOMAIN d.services /\ c.services[i] \in Services
        /\ d.services[i] = c.services[i]
    BY <1>2, <1>3, <1>6
  <2>2. /\ ss[i] = c.permissions[c.services[i]] /\ tt[i] = d.permissions[c.services[i]]
        /\ ss[i] \in Seq(Entries) /\ tt[i] \in Seq(Entries)
    BY <2>1, <1>1
  <2>3. IsPrefix(ss[i], tt[i])
    BY <2>1, <2>2 DEF Extends
  <2> HIDE DEF ss, tt
  <2> QED BY <2>2, <2>3, PrefixEmbeds
<1>8. at \in [DOMAIN ss -> DOMAIN tt] /\ \A i, j \in DOMAIN ss : i < j => at[i] < at[j]
  BY <1>3, <1>6
<1>9. Embeds(FlattenSeq(ss), FlattenSeq(tt))
  <2> HIDE DEF ss, tt, at
  <2> QED BY <1>4, <1>5, <1>7, <1>8, FlattenEmbeds
<1> QED BY <1>9 DEF DeclaredEntries

\* The names with a scope keep their order.
LEMMA NamesWithEmbed ==
    ASSUME NEW s \in Seq(Entries), NEW t \in Seq(Entries), Embeds(s, t), NEW scope
    PROVE  Embeds(NamesWith(s, scope), NamesWith(t, scope))
<1> DEFINE part(e) == IF e.scope = scope THEN <<e.name>> ELSE <<>>
           ss == [i \in DOMAIN s |-> part(s[i])]
           tt == [i \in DOMAIN t |-> part(t[i])]
<1>1. PICK at : EmbedsAt(at, s, t)
  BY EmbedsByPosition
<1>2. /\ DOMAIN s = 1..Len(s) /\ Len(s) \in Nat /\ \A i \in DOMAIN s : s[i] \in Entries
      /\ DOMAIN t = 1..Len(t) /\ Len(t) \in Nat /\ \A i \in DOMAIN t : t[i] \in Entries
  BY LenProperties, ElementOfSeq
<1>3. ASSUME NEW e \in Entries PROVE part(e) \in Seq(Names)
  <2>1. e.name \in Names
    BY DEF Names
  <2>2. CASE e.scope = scope
    BY <2>1, <2>2
  <2>3. CASE e.scope # scope
    BY <2>3
  <2> QED BY <2>2, <2>3
<1>4. NamesWith(s, scope) = FlattenSeq(ss) /\ NamesWith(t, scope) = FlattenSeq(tt)
  BY DEF NamesWith
<1> HIDE DEF part
<1>5. ss \in Seq(Seq(Names)) /\ tt \in Seq(Seq(Names))
  <2>1. ss \in [1..Len(s) -> Seq(Names)] /\ tt \in [1..Len(t) -> Seq(Names)]
    BY <1>2, <1>3
  <2> QED BY <1>2, <2>1
<1>6. /\ at \in [DOMAIN ss -> DOMAIN tt] /\ \A i, j \in DOMAIN ss : i < j => at[i] < at[j]
      /\ \A i \in DOMAIN ss : ss[i] = tt[at[i]] /\ ss[i] \in Seq(Names)
  BY <1>1, <1>2, <1>3 DEF EmbedsAt
<1> HIDE DEF ss, tt
<1>7. ASSUME NEW i \in DOMAIN ss PROVE Embeds(ss[i], tt[at[i]])
  <2>1. IsPrefix(ss[i], ss[i])
    BY <1>6, LenProperties DEF IsPrefix
  <2> QED BY <2>1, <1>6, PrefixEmbeds
<1>8. at \in [DOMAIN ss -> DOMAIN tt] /\ \A i, j \in DOMAIN ss : i < j => at[i] < at[j]
  BY <1>6
<1>9. Embeds(FlattenSeq(ss), FlattenSeq(tt))
  BY <1>5, <1>7, <1>8, FlattenEmbeds
<1> QED BY <1>4, <1>9

LEMMA IdentsEmbed ==
    ASSUME NEW s, NEW t, Embeds(s, t)
    PROVE  Embeds(Idents(s), Idents(t))
<1>1. /\ DOMAIN Idents(s) = DOMAIN s /\ \A i \in DOMAIN s : Idents(s)[i] = permConstName(s[i])
      /\ DOMAIN Idents(t) = DOMAIN t /\ \A i \in DOMAIN t : Idents(t)[i] = permConstName(t[i])
  BY DEF Idents
<1> QED BY <1>1, ImageEmbeds

LEMMA AllPermsEmbed ==
    ASSUME NEW c \in Contracts, NEW d \in Contracts, Extends(c, d)
    PROVE  Embeds(allPerms(c), allPerms(d))
<1>1. ASSUME NEW x \in Contracts PROVE NamesOf(DeclaredEntries(x)) \in Seq(Strings)
  <2> DEFINE all == DeclaredEntries(x)
  <2>1. all \in Seq(Entries)
    BY DeclaredEntriesFacts
  <2> HIDE DEF all
  <2>2. DOMAIN all = 1..Len(all) /\ Len(all) \in Nat /\ \A i \in DOMAIN all : all[i] \in Entries
    BY <2>1, LenProperties, ElementOfSeq
  <2>3. \A i \in DOMAIN all : all[i].name \in Strings
    BY <2>2, NamesAreStrings DEF Names
  <2>4. NamesOf(all) \in [1..Len(all) -> Strings]
    BY <2>2, <2>3 DEF NamesOf
  <2> QED BY <2>2, <2>4 DEF all
<1> DEFINE s == DeclaredEntries(c)
           t == DeclaredEntries(d)
<1>2. Embeds(s, t)
  BY DeclaredEntriesEmbed
<1> HIDE DEF s, t
<1>3. Embeds(NamesOf(s), NamesOf(t))
  <2>1. /\ DOMAIN NamesOf(s) = DOMAIN s /\ \A i \in DOMAIN s : NamesOf(s)[i] = s[i].name
        /\ DOMAIN NamesOf(t) = DOMAIN t /\ \A i \in DOMAIN t : NamesOf(t)[i] = t[i].name
    BY DEF NamesOf
  <2> QED BY <1>2, <2>1, ImageEmbeds
<1> QED BY <1>1, <1>3, SortedEmbeds DEF allPerms, s, t

\* The parts of two files of which the contract of the second extends that of the
\* first.
LEMMA DeclarationsEmbed ==
    ASSUME NEW c \in Contracts, NEW d \in Contracts, Extends(c, d),
           NEW day \in Days, NEW later \in Days
    PROVE  LET f == Declarations(c, day)
               g == Declarations(d, later)
           IN  /\ Embeds(f.permConsts, g.permConsts)
               /\ \A i \in DOMAIN Scopes : Embeds(f.tuples[i], g.tuples[i])
               /\ \A i \in DOMAIN f.roles :
                      /\ g.roles[i].ident = f.roles[i].ident
                      /\ g.roles[i].value = f.roles[i].value
                      /\ Embeds(f.roles[i].perms, g.roles[i].perms)
<1> DEFINE f == Declarations(c, day)
           g == Declarations(d, later)
<1>1. Embeds(f.permConsts, g.permConsts)
  <2> DEFINE old == allPerms(c)
             new == allPerms(d)
             const(p) == [ident |-> permConstName(p), value |-> p]
  <2>1. /\ f.permConsts = [i \in DOMAIN old |-> const(old[i])]
        /\ g.permConsts = [i \in DOMAIN new |-> const(new[i])]
    BY DEF Declarations
  <2>2. Embeds(old, new)
    BY AllPermsEmbed
  <2> DEFINE u == f.permConsts
             v == g.permConsts
  <2> HIDE DEF old, new, const
  <2>3. /\ DOMAIN u = DOMAIN old /\ \A i \in DOMAIN old : u[i] = const(old[i])
        /\ DOMAIN v = DOMAIN new /\ \A i \in DOMAIN new : v[i] = const(new[i])
    BY <2>1
  <2> HIDE DEF u, v
  <2>4. Embeds(u, v)
    BY <2>2, <2>3, ImageEmbeds
  <2> QED BY <2>4 DEF u, v
<1>2. ASSUME NEW i \in DOMAIN Scopes PROVE Embeds(f.tuples[i], g.tuples[i])
  <2>1. /\ f.tuples[i] = Idents(Bucket(c, Scopes[i])) /\ g.tuples[i] = Idents(Bucket(d, Scopes[i]))
    BY DEF Declarations
  <2>2. Embeds(Bucket(c, Scopes[i]), Bucket(d, Scopes[i]))
    BY DeclaredEntriesFacts, DeclaredEntriesEmbed, NamesWithEmbed DEF Bucket
  <2> QED BY <2>1, <2>2, IdentsEmbed
<1>3. ASSUME NEW i \in DOMAIN f.roles
      PROVE  /\ g.roles[i].ident = f.roles[i].ident /\ g.roles[i].value = f.roles[i].value
             /\ Embeds(f.roles[i].perms, g.roles[i].perms)
  <2>1. i \in DOMAIN c.roles
    BY <1>3 DEF Declarations
  <2>2. i \in DOMAIN d.roles /\ d.roles[i] = c.roles[i] /\ c.roles[i] \in RoleNames
    <3>1. c.roles \in Seq(RoleNames) /\ d.roles \in Seq(RoleNames) /\ IsPrefix(c.roles, d.roles)
      BY DEF Contracts, Extends
    <3> QED BY <2>1, <3>1, PrefixEmbeds, LenProperties, ElementOfSeq
  <2> DEFINE r == c.roles[i]
             s == c.rolePerms[r]
             t == d.rolePerms[r]
  <2>3. /\ f.roles[i] = [ident |-> pascalizeRole(r), value |-> r, perms |-> Idents(Sorted(s))]
        /\ g.roles[i] = [ident |-> pascalizeRole(r), value |-> r, perms |-> Idents(Sorted(t))]
    BY <2>1, <2>2 DEF Declarations, SortedRolePerms
  <2>4. s \in Seq(Strings) /\ t \in Seq(Strings) /\ IsPrefix(s, t)
    <3>1. s \in Seq(Names) /\ t \in Seq(Names)
      BY <2>2 DEF Contracts
    <3> QED BY <3>1, <2>2, NamesAreStrings, SeqMonotonic DEF Extends
  <2> HIDE DEF f, g, r, s, t
  <2>5. Embeds(Idents(Sorted(s)), Idents(Sorted(t)))
    BY <2>4, PrefixEmbeds, SortedEmbeds, IdentsEmbed
  <2> QED BY <2>3, <2>5
<1> QED BY <1>1, <1>2, <1>3

\* What is appended to a contract of any size only adds lines to the file, and a
\* run on an unchanged contract changes none.
THEOREM AppendingAddsLines == Spec => AppendsOnlyAddLines
<1>1. ASSUME IInv, IInv', file # Error, file' # Error, Extends(contract, contract')
      PROVE  /\ Embeds(file.permConsts, file'.permConsts)
             /\ \A i \in DOMAIN Scopes : Embeds(file.tuples[i], file'.tuples[i])
             /\ \A i \in DOMAIN file.roles :
                    /\ file'.roles[i].ident = file.roles[i].ident
                    /\ file'.roles[i].value = file.roles[i].value
                    /\ Embeds(file.roles[i].perms, file'.roles[i].perms)
  <2> DEFINE f == Declarations(contract, today)
             g == Declarations(contract', today')
  <2>1. /\ file = f /\ contract \in Contracts /\ today \in Days
        /\ file' = g /\ contract' \in Contracts /\ today' \in Days
    BY <1>1 DEF IInv, emit
  <2>2. /\ Embeds(f.permConsts, g.permConsts)
        /\ \A i \in DOMAIN Scopes : Embeds(f.tuples[i], g.tuples[i])
        /\ \A i \in DOMAIN f.roles :
               /\ g.roles[i].ident = f.roles[i].ident
               /\ g.roles[i].value = f.roles[i].value
               /\ Embeds(f.roles[i].perms, g.roles[i].perms)
    BY <1>1, <2>1, DeclarationsEmbed
  <2> HIDE DEF f, g
  <2> QED BY <2>1, <2>2
<1>2. IInv /\ IInv' =>
          (file # Error /\ file' # Error /\ Extends(contract, contract') =>
               /\ Embeds(file.permConsts, file'.permConsts)
               /\ \A i \in DOMAIN Scopes : Embeds(file.tuples[i], file'.tuples[i])
               /\ \A i \in DOMAIN file.roles :
                      /\ file'.roles[i].ident = file.roles[i].ident
                      /\ file'.roles[i].value = file.roles[i].value
                      /\ Embeds(file.roles[i].perms, file'.roles[i].perms))
  BY <1>1
<1> QED BY <1>2, InvariantHolds, PTL DEF Spec, AppendsOnlyAddLines

-----------------------------------------------------------------------------
(***************************************************************************)
(* The tables of a file that compiles.                                     *)
(***************************************************************************)
\* The names that are declared or listed by a role, of which DistinctIdents says
\* that no two have one identifier.
Used == {p \in Names : p \in DeclaredNames \/ \E r \in RoleNames : Lists(r, p)}

\* The identifiers of names in use stand for those of them that are declared.
LEMMA ValuesFacts ==
    ASSUME IInv, file # Error, DistinctIdents, NEW Q \in SUBSET Used
    PROVE  Values(file, {permConstName(q) : q \in Q}) = Q \cap DeclaredNames
<1> DEFINE const(p) == [ident |-> permConstName(p), value |-> p]
           idents == {permConstName(q) : q \in Q}
<1>1. ToSet(file.permConsts) = {const(p) : p \in DeclaredNames}
  BY PermConstsFacts
<1>2. \A p : const(p).ident = permConstName(p) /\ const(p).value = p
  OBVIOUS
<1> HIDE DEF const
<1>3. Values(file, idents) = {p \in DeclaredNames : permConstName(p) \in idents}
  <2>1. ASSUME NEW v, v \in Values(file, idents)
        PROVE  v \in DeclaredNames /\ permConstName(v) \in idents
    <3>1. PICK d \in ToSet(file.permConsts) : d.ident \in idents /\ v = d.value
      BY <2>1 DEF Values
    <3> QED BY <3>1, <1>1, <1>2
  <2>2. ASSUME NEW p \in DeclaredNames, permConstName(p) \in idents
        PROVE  p \in Values(file, idents)
    <3>1. const(p) \in ToSet(file.permConsts) /\ const(p).ident \in idents /\ const(p).value = p
      BY <2>2, <1>1, <1>2
    <3> QED BY <3>1 DEF Values
  <2> QED BY <2>1, <2>2
<1>4. DeclaredNames \subseteq Used
  BY DeclaredNamesFacts DEF Used
<1>5. \A p, q \in Used : permConstName(p) = permConstName(q) => p = q
  BY DEF DistinctIdents, Used
<1>6. \A p \in DeclaredNames : permConstName(p) \in idents <=> p \in Q
  BY <1>4, <1>5
<1> HIDE DEF idents
<1>7. Values(file, idents) = Q \cap DeclaredNames
  BY <1>3, <1>6
<1> QED BY <1>7 DEF idents

LEMMA ListsFacts ==
    ASSUME IInv, NEW r \in RoleNames
    PROVE  /\ ToSet(contract.rolePerms[r]) \in SUBSET Used
           /\ \A p : Lists(r, p) <=> p \in ToSet(contract.rolePerms[r])
<1>1. contract.rolePerms[r] \in Seq(Names)
  BY DEF IInv, Contracts
<1>2. \A p : Lists(r, p) <=> p \in ToSet(contract.rolePerms[r])
  BY <1>1, LenProperties DEF Lists, Contains, ToSet
<1>3. ToSet(contract.rolePerms[r]) \subseteq Names
  BY <1>1, LenProperties, ElementOfSeq DEF ToSet
<1> QED BY <1>2, <1>3 DEF Used

\* A tuple stands for the declared permissions with its scope.
LEMMA TupleFacts ==
    ASSUME IInv, Compiles(file), DistinctIdents, NEW i \in DOMAIN Scopes
    PROVE  Tuple(file, i) = {e.name : e \in {x \in DeclaredSet : x.scope = Scopes[i]}}
<1> DEFINE Q == {e.name : e \in {x \in DeclaredSet : x.scope = Scopes[i]}}
<1>1. file # Error
  BY DEF Compiles
<1>2. Q \subseteq DeclaredNames /\ Q \in SUBSET Used
  <2>1. Q \subseteq DeclaredNames
    BY DEF DeclaredNames
  <2> QED BY <2>1, DeclaredNamesFacts DEF Used
<1>3. ToSet(file.tuples[i]) = {permConstName(p) : p \in Q}
  BY <1>1, TupleIdents
<1> HIDE DEF Q
<1>4. Tuple(file, i) = Q
  BY <1>1, <1>2, <1>3, ValuesFacts DEF Tuple
<1> QED BY <1>4 DEF Q

\* No permission has two scopes: PERM_SCOPE would have its key twice.
LEMMA TuplesAreDisjoint ==
    ASSUME IInv, Compiles(file), DistinctIdents,
           NEW i \in DOMAIN Scopes, NEW j \in DOMAIN Scopes, i # j
    PROVE  Tuple(file, i) \cap Tuple(file, j) = {}
<1>1. /\ file.tuples \in Seq(Seq(Strings)) /\ DOMAIN file.tuples = DOMAIN Scopes
      /\ \A k \in DOMAIN Scopes : ToSet(file.tuples[k]) =
             {permConstName(p) :
                  p \in {e.name : e \in {x \in DeclaredSet : x.scope = Scopes[k]}}}
  BY TupleIdents DEF Compiles
<1>2. ToSet(file.tuples[i]) \cap ToSet(file.tuples[j]) = {}
  BY <1>1, FlattenSeqContents DEF Compiles
<1>3. \A k \in DOMAIN Scopes : \A p \in Tuple(file, k) : permConstName(p) \in ToSet(file.tuples[k])
  BY <1>1, TupleFacts
<1> QED BY <1>2, <1>3

\* What a role lists is declared, as its identifiers are.
LEMMA ListedIsDeclared ==
    ASSUME IInv, Compiles(file), DistinctIdents, NEW r \in ToSet(contract.roles)
    PROVE  r \in RoleNames /\ ToSet(contract.rolePerms[r]) \subseteq DeclaredNames
<1>1. file # Error
  BY DEF Compiles
<1>2. PICK i \in DOMAIN contract.roles : r = contract.roles[i]
  BY DEF ToSet
<1>3. /\ r \in RoleNames /\ i \in DOMAIN file.roles
      /\ ToSet(file.roles[i].perms) = {permConstName(p) : p \in ToSet(contract.rolePerms[r])}
  BY <1>1, <1>2, RoleRows
<1>4. ToSet(file.roles[i].perms) \subseteq {permConstName(p) : p \in DeclaredNames}
  BY <1>1, <1>3, PermConstsFacts DEF Compiles
<1>5. \A p, q \in Used : permConstName(p) = permConstName(q) => p = q
  BY DEF DistinctIdents, Used
<1>6. DeclaredNames \subseteq Used /\ ToSet(contract.rolePerms[r]) \subseteq Used
  BY <1>3, DeclaredNamesFacts, ListsFacts DEF Used
<1>7. ASSUME NEW q \in ToSet(contract.rolePerms[r]) PROVE q \in DeclaredNames
  <2>1. PICK p \in DeclaredNames : permConstName(q) = permConstName(p)
    BY <1>3, <1>4
  <2> QED BY <2>1, <1>5, <1>6
<1> QED BY <1>3, <1>7

\* No grant of a permission that no declared service has gets past the compiler.
THEOREM NoGrantIsDropped == Spec => []GrantsAreDeclared
<1>1. IInv => GrantsAreDeclared
  BY ListedIsDeclared, ListsFacts DEF GrantsAreDeclared
<1> QED BY <1>1, InvariantHolds, PTL

LEMMA ScopesFacts ==
    /\ DOMAIN Scopes = {1, 2, 3, 4}
    /\ Scopes[1] = "self" /\ Scopes[2] = "platform"
    /\ Scopes[3] = "project" /\ Scopes[4] = "platform/project"
    /\ \A i \in DOMAIN Scopes : Scopes[i] # ""
    /\ \A i, j \in DOMAIN Scopes : Scopes[i] = Scopes[j] => i = j
<1>1. /\ DOMAIN Scopes = 1..4 /\ Scopes[1] = "self" /\ Scopes[2] = "platform"
      /\ Scopes[3] = "project" /\ Scopes[4] = "platform/project"
  BY DEF Scopes
<1>2. DOMAIN Scopes = {1, 2, 3, 4}
  BY <1>1
<1>3. \A i \in {1, 2, 3, 4} : Scopes[i] # ""
  BY <1>1
<1>4. \A i, j \in {1, 2, 3, 4} : Scopes[i] = Scopes[j] => i = j
  BY <1>1
<1> QED BY <1>1, <1>2, <1>3, <1>4

\* The scope that the emitted table gives to a permission.
LEMMA ScopeFacts ==
    ASSUME IInv, Compiles(file), DistinctIdents, NEW p
    PROVE  /\ \A i \in DOMAIN Scopes : p \in Tuple(file, i) =>
                  Table(file)!IsValidPermission(p) /\ Table(file)!ScopeOf(p) = Scopes[i]
           /\ (\A i \in DOMAIN Scopes : p \notin Tuple(file, i)) =>
                  ~Table(file)!IsValidPermission(p) /\ Table(file)!ScopeOf(p) = ""
<1>1. ASSUME NEW i \in DOMAIN Scopes, p \in Tuple(file, i)
      PROVE  Table(file)!IsValidPermission(p) /\ Table(file)!ScopeOf(p) = Scopes[i]
  <2>1. \A j \in DOMAIN Scopes : p \in Tuple(file, j) => j = i
    BY <1>1, TuplesAreDisjoint
  <2>2. (CHOOSE j \in DOMAIN Scopes : p \in Tuple(file, j)) = i
    BY <1>1, <2>1
  <2>3. p \in UNION {Tuple(file, j) : j \in DOMAIN Scopes}
    BY <1>1
  <2> QED BY <2>2, <2>3 DEF Table!IsValidPermission, Table!ScopeOf
<1>2. ASSUME \A i \in DOMAIN Scopes : p \notin Tuple(file, i)
      PROVE  ~Table(file)!IsValidPermission(p) /\ Table(file)!ScopeOf(p) = ""
  <2>1. p \notin UNION {Tuple(file, j) : j \in DOMAIN Scopes}
    BY <1>2
  <2> QED BY <2>1 DEF Table!IsValidPermission, Table!ScopeOf
<1> QED BY <1>1, <1>2

\* The permissions that the emitted table gives to a role.
LEMMA RoleFacts ==
    ASSUME IInv, Compiles(file), DistinctIdents, NEW r \in ToSet(contract.roles), NEW p
    PROVE  Table(file)!RoleHasPermission(r, p) <=> Lists(r, p)
<1>1. file # Error
  BY DEF Compiles
<1> DEFINE Q == ToSet(contract.rolePerms[r])
           rows == {j \in DOMAIN file.roles : file.roles[j].value = r}
           idents == {permConstName(q) : q \in Q}
<1>2. /\ DOMAIN file.roles = DOMAIN contract.roles
      /\ \A i \in DOMAIN contract.roles :
             /\ file.roles[i].value = contract.roles[i]
             /\ ToSet(file.roles[i].perms) =
                    {permConstName(q) : q \in ToSet(contract.rolePerms[contract.roles[i]])}
  BY <1>1, RoleRows
<1>3. PICK i \in DOMAIN contract.roles : r = contract.roles[i]
  BY DEF ToSet
<1>4. i \in rows /\ \A j \in rows : ToSet(file.roles[j].perms) = idents
  BY <1>2, <1>3
<1>5. UNION {ToSet(file.roles[j].perms) : j \in rows} = idents
  <2> HIDE DEF rows, idents
  <2> QED BY <1>4
<1>6. r \in RoleNames /\ Q \subseteq DeclaredNames /\ Q \in SUBSET Used
  BY ListedIsDeclared, ListsFacts
<1>7. Values(file, idents) = Q
  <2> HIDE DEF Q
  <2> QED BY <1>1, <1>6, ValuesFacts
<1>8. r \in {file.roles[j].value : j \in DOMAIN file.roles}
  BY <1>2, <1>3
<1>9. Table(file)!RoleHasPermission(r, p) <=>
          p \in Values(file, UNION {ToSet(file.roles[j].perms) : j \in rows})
  BY <1>8 DEF Table!RoleHasPermission, Table!ResolvePermissions
<1> HIDE DEF rows, idents
<1> QED BY <1>5, <1>6, <1>7, <1>9, ListsFacts

\* A file that compiles answers as the contract says.
THEOREM TablesAreFaithful == Spec => []TablesMatchContract
<1>1. IInv => TablesMatchContract
  <2> SUFFICES ASSUME IInv, Compiles(file), DistinctIdents, NEW p \in Names
               PROVE  /\ \A scope \in ToSet(Scopes) :
                             Table(file)!ScopeOf(p) = scope <=>
                                 [name |-> p, scope |-> scope] \in DeclaredSet
                      /\ \A r \in ToSet(contract.roles) :
                             Table(file)!RoleHasPermission(r, p) <=> Lists(r, p)
                      /\ Table(file)!IsTenantGrantable(p) <=>
                             \A e \in DeclaredSet : e.name = p => e.scope \notin {"self", "platform"}
    BY DEF TablesMatchContract
  <2> DEFINE In(i) == p \in Tuple(file, i)
  <2>1. ASSUME NEW i \in DOMAIN Scopes
        PROVE  In(i) <=> \E e \in DeclaredSet : e.name = p /\ e.scope = Scopes[i]
    BY TupleFacts
  <2>2. ASSUME NEW scope, NEW e \in DeclaredSet, e.name = p, e.scope = scope
        PROVE  [name |-> p, scope |-> scope] \in DeclaredSet
    <3>1. e \in [name : Seq(Bytes), scope : STRING]
      BY DeclaredNamesFacts, ContractStrings
    <3>2. e = [name |-> p, scope |-> scope]
      BY <3>1, <2>2
    <3> QED BY <3>2
  <2>3. \A i \in DOMAIN Scopes : In(i) <=> [name |-> p, scope |-> Scopes[i]] \in DeclaredSet
    <3> HIDE DEF In
    <3> QED BY <2>1, <2>2
  <2>4. /\ \A i \in DOMAIN Scopes : In(i) =>
               Table(file)!IsValidPermission(p) /\ Table(file)!ScopeOf(p) = Scopes[i]
        /\ (\A i \in DOMAIN Scopes : ~In(i)) =>
               ~Table(file)!IsValidPermission(p) /\ Table(file)!ScopeOf(p) = ""
    BY ScopeFacts
  <2> DEFINE scopeOf == Table(file)!ScopeOf(p)
             valid == Table(file)!IsValidPermission(p)
  <2>5. Table(file)!IsTenantGrantable(p) <=>
            ~valid \/ scopeOf \in {"project", "platform/project"}
    BY DEF Table!IsTenantGrantable
  <2> HIDE DEF In, scopeOf, valid
  <2>6. ASSUME NEW i \in DOMAIN Scopes PROVE scopeOf = Scopes[i] <=> In(i)
    <3>1. Scopes[i] # "" /\ \A j \in DOMAIN Scopes : Scopes[j] = Scopes[i] => j = i
      BY ScopesFacts
    <3>2. CASE \E j \in DOMAIN Scopes : In(j)
      BY <3>1, <3>2, <2>4 DEF scopeOf
    <3>3. CASE \A j \in DOMAIN Scopes : ~In(j)
      BY <3>1, <3>3, <2>4 DEF scopeOf
    <3> QED BY <3>2, <3>3
  <2>7. ToSet(Scopes) = {Scopes[i] : i \in DOMAIN Scopes}
    BY DEF ToSet
  <2>8. \A scope \in ToSet(Scopes) :
            scopeOf = scope <=> [name |-> p, scope |-> scope] \in DeclaredSet
    BY <2>3, <2>6, <2>7
  <2>9. (~valid \/ scopeOf \in {"project", "platform/project"}) <=> ~In(1) /\ ~In(2)
    <3>1. /\ scopeOf = "self" <=> In(1)
          /\ scopeOf = "platform" <=> In(2)
          /\ scopeOf = "project" <=> In(3)
          /\ scopeOf = "platform/project" <=> In(4)
      BY ScopesFacts, <2>6
    <3>2. ~valid <=> ~In(1) /\ ~In(2) /\ ~In(3) /\ ~In(4)
      <4>1. ~valid <=> \A i \in DOMAIN Scopes : ~In(i)
        BY <2>4 DEF valid
      <4> QED BY <4>1, ScopesFacts
    <3> QED BY <3>1, <3>2
  <2>10. ~In(1) /\ ~In(2) <=>
             \A e \in DeclaredSet : e.name = p => e.scope \notin {"self", "platform"}
    <3>1. In(1) <=> \E e \in DeclaredSet : e.name = p /\ e.scope = "self"
      BY ScopesFacts, <2>1
    <3>2. In(2) <=> \E e \in DeclaredSet : e.name = p /\ e.scope = "platform"
      BY ScopesFacts, <2>1
    <3> QED BY <3>1, <3>2
  <2> QED BY <2>5, <2>8, <2>9, <2>10, RoleFacts DEF scopeOf
<1> QED BY <1>1, InvariantHolds, PTL

\* A file has a role, so that "every role lists it" is never true of a permission
\* that none lists.
THEOREM UniversalNeedsAGrant == Spec => []UniversalIsGranted
<1>1. IInv => UniversalIsGranted
  <2> SUFFICES ASSUME IInv, Compiles(file), DistinctIdents, NEW p \in Names,
                      Table(file)!IsUniversalPerm(p),
                      [name |-> p, scope |-> "self"] \notin DeclaredSet
               PROVE  \E r \in ToSet(contract.roles) : Lists(r, p)
    BY DEF UniversalIsGranted
  <2>1. contract.roles # <<>> /\ contract.roles \in Seq(RoleNames)
    BY FileIsDeclarations DEF Compiles, Contracts
  <2>2. 1 \in DOMAIN contract.roles
    BY <2>1, EmptySeq, LenProperties
  <2> DEFINE r == contract.roles[1]
  <2>3. r \in ToSet(contract.roles)
    BY <2>2 DEF ToSet
  <2>4. r \in {file.roles[i].value : i \in DOMAIN file.roles}
    BY <2>2, RoleRows DEF Compiles
  <2>5. ~Table(file)!IsSelfScope(p)
    <3>2. p \notin Tuple(file, 1)
      <4>1. SUFFICES ASSUME NEW e \in DeclaredSet, e.name = p, e.scope = "self" PROVE FALSE
        <5>1. 1 \in DOMAIN Scopes /\ Scopes[1] = "self"
          BY ScopesFacts
        <5>2. Tuple(file, 1) = {e.name : e \in {x \in DeclaredSet : x.scope = Scopes[1]}}
          BY <5>1, TupleFacts
        <5> QED BY <5>1, <5>2
      <4>2. e \in [name : Seq(Bytes), scope : STRING]
        BY DeclaredNamesFacts, ContractStrings
      <4>3. e = [name |-> p, scope |-> "self"]
        BY <4>1, <4>2
      <4> QED BY <4>3
    <3>3. Table(file)!ScopeOf(p) # "self"
      BY <3>2, ScopesFacts, ScopeFacts
    <3> QED BY <3>3 DEF Table!IsSelfScope
  <2>6. Table(file)!RoleHasPermission(r, p)
    BY <2>4, <2>5 DEF Table!IsUniversalPerm
  <2> QED BY <2>3, <2>6, RoleFacts
<1> QED BY <1>1, InvariantHolds, PTL
=============================================================================
