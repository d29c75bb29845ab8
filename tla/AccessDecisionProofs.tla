------------------------- MODULE AccessDecisionProofs -------------------------
(***************************************************************************)
(* Theorems about AccessDecision, for lists of any bounded length and every*)
(* answer of Helios.                                                       *)
(*                                                                         *)
(* None of the properties is inductive, as none says what is cached. The   *)
(* strengthening does: the cache holds nothing or the normalised answer,   *)
(* so that an operation decides the same whether it fetched or not, and    *)
(* what an operation returned is what it would return now.                 *)
(***************************************************************************)
EXTENDS AccessDecision, SequenceFacts

\* What Helios's answer makes of the list, and of the question.
Resolution ==
    IF FetchUserPermissions = Error THEN Error ELSE Normalise(FetchUserPermissions)

Decision == IF IsUniversalPerm(perm) THEN "allowed" ELSE Verdict(Resolution)

Explanation ==
    IF IsUniversalPerm(perm) THEN foldSelfPermissions(<<>>) ELSE View(Resolution)

IInv ==
    /\ answer \in Answers
    /\ cached # Nil => cached = Resolution /\ Resolution # Error
    /\ has \in {Nil, Decision}
    /\ explained \in {Nil, Decision}
    /\ view \in {Nil, View(Resolution)}
    /\ shown \in {Nil, Explanation}

\* An empty list is a list.
LEMMA EmptyList == <<>> \in Lists
<1>1. 0 \in 0..MaxListed
  BY SpecialValuesDiffer
<1>2. <<>> \in [1..0 -> Permissions]
  OBVIOUS
<1> QED BY <1>1, <1>2 DEF Lists, BoundedSeq, SeqOf

\* A resolution is an error or a list.
LEMMA ResolutionTypes ==
    ASSUME answer \in Answers
    PROVE  Resolution \in Lists \cup {Error} /\ Resolution # Nil
<1>1. FetchUserPermissions \in [status : Statuses, perms : Lists \cup {Nil}] \cup {Error}
  BY DEF FetchUserPermissions, Answers, Statuses
<1>2. ASSUME NEW res \in [status : Statuses, perms : Lists \cup {Nil}]
      PROVE  Normalise(res) \in Lists
  BY EmptyList DEF Normalise
<1> QED BY <1>1, <1>2, SpecialValuesDiffer DEF Resolution

\* The list an operation gets is the resolution, cached or fetched.
LEMMA ListIsResolution ==
    ASSUME IInv
    PROVE  FetchAndCache = Resolution
  BY DEF IInv, FetchAndCache, Resolution

\* What an operation leaves in the cache is the resolution.
LEMMA PopulateKeepsCache ==
    ASSUME IInv, Populate \/ UNCHANGED cached, UNCHANGED <<answer, perm>>
    PROVE  /\ Resolution' = Resolution /\ Decision' = Decision
           /\ View(Resolution)' = View(Resolution) /\ Explanation' = Explanation
           /\ cached' # Nil => cached' = Resolution /\ Resolution # Error
<1>1. Resolution' = Resolution
  BY DEF Resolution, FetchUserPermissions, Normalise
<1>2. Decision' = Decision
  <2>1. IsUniversalPerm(perm)' = IsUniversalPerm(perm)
    BY DEF IsUniversalPerm, IsSelfScope, ScopeOf, IsValidPermission, RoleHasPermission
  <2>2. Verdict(Resolution)' = Verdict(Resolution)
    BY <1>1 DEF Verdict, Contains
  <2> QED BY <2>1, <2>2 DEF Decision
<1>3. View(Resolution)' = View(Resolution) /\ Explanation' = Explanation
  <2>1. View(Resolution)' = View(Resolution)
    BY <1>1 DEF View
  <2>2. IsUniversalPerm(perm)' = IsUniversalPerm(perm)
    BY DEF IsUniversalPerm, IsSelfScope, ScopeOf, IsValidPermission, RoleHasPermission
  <2> QED BY <2>1, <2>2 DEF Explanation
<1>4. cached' # Nil => cached' = Resolution /\ Resolution # Error
  BY ListIsResolution DEF IInv, Populate
<1> QED BY <1>1, <1>2, <1>3, <1>4

LEMMA StepKeepsIInv == IInv /\ [Next]_vars => IInv'
<1> SUFFICES ASSUME IInv, [Next]_vars PROVE IInv'
    OBVIOUS
<1>1. CASE CallerHasPermission
  <2>1. has' = Decision /\ UNCHANGED <<answer, perm, explained, view, shown>>
    BY <1>1, ListIsResolution DEF CallerHasPermission, Decision
  <2>2. Populate \/ UNCHANGED cached
    BY <1>1 DEF CallerHasPermission
  <2> QED BY <2>1, <2>2, PopulateKeepsCache DEF IInv
<1>2. CASE GetUserPermissions
  <2>1. view' = View(Resolution) /\ Populate /\ UNCHANGED <<answer, perm, has, explained, shown>>
    BY <1>2, ListIsResolution DEF GetUserPermissions
  <2> QED BY <2>1, PopulateKeepsCache DEF IInv
<1>3. CASE Explain
  <2>1. /\ explained' = Decision /\ shown' = Explanation
        /\ UNCHANGED <<answer, perm, has, view>>
    BY <1>3, ListIsResolution DEF Explain, Decision, Explanation
  <2>2. Populate \/ UNCHANGED cached
    BY <1>3 DEF Explain
  <2> QED BY <2>1, <2>2, PopulateKeepsCache DEF IInv
<1>4. CASE UNCHANGED vars
  <2>1. UNCHANGED <<answer, perm, cached, has, explained, view, shown>>
    BY <1>4 DEF vars
  <2> QED BY <2>1, PopulateKeepsCache DEF IInv
<1> QED BY <1>1, <1>2, <1>3, <1>4 DEF Next

LEMMA InvariantHolds == Spec => []IInv
<1>1. Init => IInv
  BY DEF Init, IInv
<1> QED BY <1>1, StepKeepsIInv, PTL DEF Spec

\* Whatever was called before and whatever is cached, an access that is allowed
\* is universal by contract or listed by Helios for an active member.
THEOREM GrantsComeFromHelios == Spec => []GrantedOnlyByHelios
<1>1. IInv => GrantedOnlyByHelios
  <2> SUFFICES ASSUME IInv, has = "allowed", ~IsUniversalPerm(perm)
               PROVE  /\ answer.code = "2xx" /\ answer.body = "parses"
                      /\ answer.status = "active"
                      /\ answer.perms # Nil /\ Contains(answer.perms, perm)
    BY DEF GrantedOnlyByHelios
  <2>1. Verdict(Resolution) = "allowed"
    BY SpecialValuesDiffer DEF IInv, Decision
  <2>2. Resolution # Error /\ Contains(Resolution, perm)
    BY <2>1, SpecialValuesDiffer DEF Verdict
  <2>3. Resolution # <<>>
    BY <2>2 DEF Contains
  <2>4. FetchUserPermissions # Error /\ Normalise(FetchUserPermissions) # <<>>
        /\ Resolution = Normalise(FetchUserPermissions)
    BY <2>2, <2>3 DEF Resolution
  <2>5. /\ FetchUserPermissions.status = "active" /\ FetchUserPermissions.perms # Nil
        /\ Resolution = FetchUserPermissions.perms
    BY <2>4 DEF Normalise
  <2>6. FetchUserPermissions = [status |-> answer.status, perms |-> answer.perms]
        /\ answer.code = "2xx" /\ answer.body = "parses"
    BY <2>4, <2>5 DEF FetchUserPermissions
  <2> QED BY <2>2, <2>5, <2>6
<1> QED BY <1>1, InvariantHolds, PTL

\* CallerHasPermission and Explain never contradict each other.
THEOREM VerdictsAgree == Spec => []OperationsAgree
<1>1. IInv => OperationsAgree
  BY DEF IInv, OperationsAgree
<1> QED BY <1>1, InvariantHolds, PTL

\* An error of Helios is not cached and is nobody's verdict.
THEOREM ErrorsStayErrors == Spec => []ErrorsAreNotVerdicts
<1>1. IInv => ErrorsAreNotVerdicts
  BY DEF IInv, ErrorsAreNotVerdicts, Resolution, Decision, Verdict
<1> QED BY <1>1, InvariantHolds, PTL

\* foldSelfPermissions (permission_client.go:274-290) lists the self permissions
\* and those it is given, each once, whatever order and repetitions Helios sends.
THEOREM FoldedList ==
    ASSUME NEW perms \in Lists
    PROVE  /\ foldSelfPermissions(perms) \in Seq(Permissions)
           /\ IsInjective(foldSelfPermissions(perms))
           /\ ToSet(foldSelfPermissions(perms)) = ToSet(SELF_PERMISSIONS) \cup ToSet(perms)
<1>1. perms \in Seq(Permissions)
  <2>1. PICK m \in 0..MaxListed : perms \in [1..m -> Permissions]
    BY DEF Lists, BoundedSeq, SeqOf
  <2>2. m \in Nat
    BY <2>1, SpecialValuesDiffer
  <2> QED BY <2>1, <2>2
<1>2. SELF_PERMISSIONS \in Seq(Permissions)
  BY DEF SELF_PERMISSIONS, Permissions, PERM_SCOPE
<1>3. /\ SELF_PERMISSIONS \o perms \in Seq(Permissions)
      /\ ToSet(SELF_PERMISSIONS \o perms) = ToSet(SELF_PERMISSIONS) \cup ToSet(perms)
  BY <1>1, <1>2, ConcatProperties, ConcatContents
<1> QED BY <1>3, FoldWithoutRepetition DEF foldSelfPermissions

\* What was shown is the fold of a list: of the resolution, or of the empty list
\* for a universal permission.
LEMMA ShownLists ==
    ASSUME IInv, NEW list \in {view, shown} \ {Nil, Error}
    PROVE  \E perms \in Lists :
               /\ list = foldSelfPermissions(perms)
               /\ perms = Resolution \/ IsUniversalPerm(perm)
<1>1. Resolution \in Lists \cup {Error} /\ Resolution # Nil
  BY ResolutionTypes DEF IInv
<1>2. CASE list = View(Resolution)
  BY <1>1, <1>2 DEF View
<1>3. CASE list # View(Resolution)
  <2>1. list = foldSelfPermissions(<<>>) /\ IsUniversalPerm(perm)
    BY <1>3 DEF IInv, Explanation
  <2> QED BY <2>1, EmptyList
<1> QED BY <1>2, <1>3

\* What is cached is a list, and the results are verdicts, errors and lists of
\* permissions.
THEOREM TypeCorrect == Spec => []TypeOK
<1>1. IInv => TypeOK
  <2> SUFFICES ASSUME IInv PROVE TypeOK
    OBVIOUS
  <2>1. Resolution \in Lists \cup {Error} /\ Resolution # Nil
    BY ResolutionTypes DEF IInv
  <2>2. cached \in Lists \cup {Nil}
    BY <2>1 DEF IInv
  <2>3. Decision \in {"allowed", "denied", Error}
    BY DEF Decision, Verdict
  <2>4. has \in {"allowed", "denied", Error, Nil} /\ explained \in {"allowed", "denied", Error, Nil}
    BY <2>3 DEF IInv
  <2>5. ASSUME NEW list \in {view, shown}, list \notin {Nil, Error}
        PROVE  \A i \in DOMAIN list : list[i] \in Permissions
    <3>1. PICK perms \in Lists : list = foldSelfPermissions(perms)
      BY <2>5, ShownLists
    <3>2. list \in Seq(Permissions)
      BY <3>1, FoldedList
    <3> QED BY <3>2, LenProperties, ElementOfSeq
  <2> QED BY <2>2, <2>4, <2>5 DEF TypeOK
<1> QED BY <1>1, InvariantHolds, PTL

\* What an operation lists is allowed, and listed once: the self permissions that
\* foldSelfPermissions adds are universal, the others are those of the resolution.
THEOREM ListsAreTrue == Spec => []ListedIsAllowed
<1>1. IInv => ListedIsAllowed
  <2> SUFFICES ASSUME IInv, NEW list \in {view, shown} \ {Nil, Error}
               PROVE  /\ IsInjective(list)
                      /\ has # Nil /\ Contains(list, perm) => has = "allowed"
    BY DEF ListedIsAllowed
  <2>1. PICK perms \in Lists : /\ list = foldSelfPermissions(perms)
                               /\ perms = Resolution \/ IsUniversalPerm(perm)
    BY ShownLists
  <2>2. /\ list \in Seq(Permissions) /\ IsInjective(list)
        /\ ToSet(list) = ToSet(SELF_PERMISSIONS) \cup ToSet(perms)
    BY <2>1, FoldedList
  <2>3. ASSUME has # Nil, Contains(list, perm), ~IsUniversalPerm(perm)
        PROVE  has = "allowed"
    <3>1. perm \in ToSet(list)
      BY <2>2, <2>3, LenProperties DEF Contains, ToSet
    <3>2. perm \notin ToSet(SELF_PERMISSIONS)
      <4>1. perm # EditProfile
        BY <2>3 DEF IsUniversalPerm, IsSelfScope, ScopeOf, IsValidPermission, PERM_SCOPE
      <4> QED BY <4>1 DEF SELF_PERMISSIONS, ToSet
    <3>3. perm \in ToSet(Resolution) /\ Resolution \in Lists
      BY <2>1, <2>2, <2>3, <3>1, <3>2
    <3>4. Contains(Resolution, perm) /\ Resolution # Error
      BY <3>3, SpecialValuesDiffer DEF Lists, BoundedSeq, SeqOf, ToSet, Contains
    <3> QED BY <2>3, <3>4 DEF IInv, Decision, Verdict
  <2>4. ASSUME has # Nil, IsUniversalPerm(perm) PROVE has = "allowed"
    BY <2>4 DEF IInv, Decision
  <2> QED BY <2>2, <2>3, <2>4
<1> QED BY <1>1, InvariantHolds, PTL
=============================================================================
