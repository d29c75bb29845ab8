--------------------------- MODULE AccessDecision ---------------------------
(***************************************************************************)
(* How one answer of Helios becomes the verdict of the client's three      *)
(* operations: FetchUserPermissions classifies the HTTP response,          *)
(* fetchAndPopulate normalises the resolution and caches it, and           *)
(* CallerHasPermission, GetUserPermissions and Explain decide from the     *)
(* permission list. The operations are called once each, in any order, for *)
(* one user, tenant and permission while Helios's answer stays the same;   *)
(* answers that change meanwhile are PermissionClient's subject.           *)
(***************************************************************************)
EXTENDS RolePermissions, SequencesExt

CONSTANTS Nil,        \* Go's nil slice, "not called yet" for a result
          Error,      \* an error result
          MaxListed   \* bound on the length of the list Helios sends

VARIABLES answer,     \* what Helios's endpoint answers
          perm,       \* the permission the caller asks about
          cached,     \* the cached list of the user and tenant, Nil on a miss
          has,        \* CallerHasPermission's result
          view,       \* GetUserPermissions's result
          explained,  \* Explain's verdict or error
          shown       \* the permissions that Explain returned with it

vars == <<answer, perm, cached, has, view, explained, shown>>

\* Statuses of a membership resolution; "" is a body without the field.
Statuses == {"active", "inactive", "not_a_member", ""}

Lists == BoundedSeq(Permissions, MaxListed)

\* The special values are no lists, no resolutions and no verdicts.
ASSUME SpecialValuesDiffer ==
    /\ Nil # Error /\ MaxListed \in Nat
    /\ {Nil, Error} \cap (Lists \cup {"allowed", "denied"}) = {}
    /\ Error \notin [status : Statuses, perms : Lists \cup {Nil}]

\* A body that parses may list permissions under any status, or none at all.
Answers ==
    [code : {"2xx"}, body : {"parses"}, status : Statuses, perms : Lists \cup {Nil}]
        \cup [code : {"2xx"}, body : {"unreadable", "unparsable"}, status : {""}, perms : {Nil}]
        \cup [code : {"404", "other", "none"}, body : {"unreadable"}, status : {""}, perms : {Nil}]

Init ==
    /\ answer \in Answers
    /\ perm \in Permissions
    /\ cached = Nil
    /\ has = Nil
    /\ view = Nil
    /\ explained = Nil
    /\ shown = Nil

\* FetchUserPermissions: 404 is an answer, anything else that is not a 2xx with
\* a body that parses is an error.
FetchUserPermissions ==
    IF answer.code = "404" THEN [status |-> "not_a_member", perms |-> Nil]
    ELSE IF answer.code = "2xx" /\ answer.body = "parses"
    THEN [status |-> answer.status, perms |-> answer.perms]
    ELSE Error

\* Mutant: the list counts whatever the status says.
NormaliseAnyStatus(res) == IF res.perms = Nil THEN <<>> ELSE res.perms

\* The list of a resolution: that of an active member, else an empty one.
Normalise(res) ==
    IF res.status = "active" /\ res.perms # Nil THEN res.perms ELSE <<>>

\* Mutant: an error is remembered as an empty list.
CacheEmptyOnError ==
    IF cached # Nil THEN cached
    ELSE IF FetchUserPermissions = Error THEN <<>>
    ELSE Normalise(FetchUserPermissions)

\* fetchAndCache: the cached list, else the fetched one or the error.
FetchAndCache ==
    IF cached # Nil THEN cached
    ELSE IF FetchUserPermissions = Error THEN Error
    ELSE Normalise(FetchUserPermissions)

\* Mutant: what fetchAndCache returned is remembered, errors too.
PopulateAlways == cached' = FetchAndCache

\* The list that was returned is the list that is cached.
Populate == cached' = IF FetchAndCache = Error THEN cached ELSE FetchAndCache

\* Mutant: the self permissions are put in front of the list as it is.
ConcatSelfPermissions(perms) == SELF_PERMISSIONS \o perms

\* Each permission once, the self permissions first.
foldSelfPermissions(perms) ==
    FoldLeft(LAMBDA merged, p : IF Contains(merged, p) THEN merged ELSE Append(merged, p),
             <<>>, SELF_PERMISSIONS \o perms)

\* The verdict on a list, and what is listed with it.
Verdict(perms) ==
    IF perms = Error THEN Error ELSE IF Contains(perms, perm) THEN "allowed" ELSE "denied"

View(perms) == IF perms = Error THEN Error ELSE foldSelfPermissions(perms)

CallerHasPermission ==
    /\ has = Nil
    /\ IF IsUniversalPerm(perm)
       THEN has' = "allowed" /\ UNCHANGED cached
       ELSE has' = Verdict(FetchAndCache) /\ Populate
    /\ UNCHANGED <<answer, perm, view, explained, shown>>

GetUserPermissions ==
    /\ view = Nil
    /\ view' = View(FetchAndCache)
    /\ Populate
    /\ UNCHANGED <<answer, perm, has, explained, shown>>

\* Mutant: Explain decides without the universal short-circuit.
ExplainByList ==
    /\ explained = Nil
    /\ explained' = Verdict(FetchAndCache)
    /\ shown' = View(FetchAndCache)
    /\ Populate
    /\ UNCHANGED <<answer, perm, has, view>>

\* A universal permission is explained with the self permissions alone.
Explain ==
    /\ explained = Nil
    /\ IF IsUniversalPerm(perm)
       THEN explained' = "allowed" /\ shown' = foldSelfPermissions(<<>>) /\ UNCHANGED cached
       ELSE explained' = Verdict(FetchAndCache) /\ shown' = View(FetchAndCache) /\ Populate
    /\ UNCHANGED <<answer, perm, has, view>>

Next == CallerHasPermission \/ GetUserPermissions \/ Explain

Spec == Init /\ [][Next]_vars
-----------------------------------------------------------------------------
(***************************************************************************)
(* Properties.                                                             *)
(***************************************************************************)
TypeOK ==
    /\ cached \in Lists \cup {Nil}
    /\ has \in {"allowed", "denied", Error, Nil}
    /\ explained \in {"allowed", "denied", Error, Nil}
    /\ \A list \in {view, shown} :
           list \in {Nil, Error} \/ \A i \in DOMAIN list : list[i] \in Permissions

\* Access that no contract grants to everyone comes from Helios, for an active
\* member, whichever operation was called first and whether the verdict came
\* from the cache (client.go:169-201, permission_client.go:186-225).
GrantedOnlyByHelios ==
    has = "allowed" /\ ~IsUniversalPerm(perm) =>
        /\ answer.code = "2xx" /\ answer.body = "parses" /\ answer.status = "active"
        /\ answer.perms # Nil /\ Contains(answer.perms, perm)

\* The operations decide alike, errors included, although one may have been
\* answered by Helios and the other by the cache or by the contract.
OperationsAgree ==
    has # Nil /\ explained # Nil => has = explained

\* What GetUserPermissions or Explain lists, CallerHasPermission allows, and each
\* permission is listed once.
ListedIsAllowed ==
    \A list \in {view, shown} \ {Nil, Error} :
        /\ IsInjective(list)
        /\ has # Nil /\ Contains(list, perm) => has = "allowed"

\* Only an answer of Helios is remembered: an unreachable Helios is an error to
\* every caller, never a verdict that outlives it.
ErrorsAreNotVerdicts ==
    /\ FetchUserPermissions = Error => cached = Nil
    /\ FetchUserPermissions = Error /\ ~IsUniversalPerm(perm) => has \in {Nil, Error}
=============================================================================
