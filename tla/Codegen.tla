-------------------------------- MODULE Codegen --------------------------------
(***************************************************************************)
(* The code generator (cmd/codegen/main.go): emit turns the permission     *)
(* contract into a Go file. The contract is edited in its own repository   *)
(* and the generator is run again after each edit; the Go compiler, CI and *)
(* the importing services see only what emit wrote.                        *)
(*                                                                         *)
(* A name is the sequence of its bytes, as emit cuts it at ":" and changes *)
(* the case of letters. The file is what a compiler makes of it: constants,*)
(* tables and keys that refer to the constants by identifier.              *)
(***************************************************************************)
EXTENDS Naturals, SequencesExt

CONSTANTS Services,   \* services of the platform
          RoleNames,  \* role names as byte sequences
          Entries,    \* permissions with a scope that an edit may add
          Days,       \* dates of the runs of the generator
          MaxSize,    \* bound on the permissions and grants of a contract
          Error

Bytes == 0..255

\* The contract's names are strings of Go, its scopes any strings.
ASSUME ContractStrings ==
    RoleNames \subseteq Seq(Bytes) /\ Entries \subseteq [name : Seq(Bytes), scope : STRING]

Scopes == <<"self", "platform", "project", "platform/project">>

VARIABLES
    contract,  \* the parsed permissions.json
    mapOrder,  \* the order in which Go iterates over a map with these keys
    today,     \* the date
    file       \* the file generated from the contract, or Error

vars == <<contract, mapOrder, today, file>>

Names == {e.name : e \in Entries}

\* The fields of the contract that emit reads.
Contracts ==
    [version : BOOLEAN, services : Seq(Services), roles : Seq(RoleNames),
     permissions : [Services -> Seq(Entries)], rolePerms : [RoleNames -> Seq(Names)]]

-----------------------------------------------------------------------------
(***************************************************************************)
(* Names and identifiers.                                                  *)
(***************************************************************************)
Colon == 58

Upper(b) == IF b \in 97..122 THEN b - 32 ELSE b
Lower(b) == IF b \in 65..90 THEN b + 32 ELSE b

\* OWNER becomes Owner.
pascalizeRole(r) == [i \in DOMAIN r |-> IF i = 1 THEN Upper(r[i]) ELSE Lower(r[i])]

\* Mutant: the name is not cut into segments.
WholeNameIdent(p) == [i \in DOMAIN p |-> IF i = 1 THEN Upper(p[i]) ELSE p[i]]

\* a:b becomes AB: the first byte of every segment in upper case, the rest as
\* it is, the segments joined.
permConstName(p) ==
    FlattenSeq([i \in DOMAIN p |->
        IF p[i] = Colon THEN <<>>
        ELSE IF i = 1 \/ p[i - 1] = Colon THEN <<Upper(p[i])>> ELSE <<p[i]>>])

\* The order of sort.Strings.
Less(a, b) ==
    \E n \in 0..Len(a) :
        /\ n < Len(b) /\ \A i \in 1..n : a[i] = b[i]
        /\ n = Len(a) \/ a[n + 1] < b[n + 1]

\* The names in an order in which none is less than one before it.
Sorted(names) ==
    LET order == CHOOSE p \in Bijection(DOMAIN names, DOMAIN names) :
            \A i, j \in DOMAIN names : i < j => ~Less(names[p[j]], names[p[i]])
    IN  [i \in DOMAIN names |-> names[order[i]]]
-----------------------------------------------------------------------------
(***************************************************************************)
(* emit.                                                                   *)
(***************************************************************************)
NamesOf(entries) == [i \in DOMAIN entries |-> entries[i].name]

\* Mutant: the services are taken from the map of permissions.
AnyServiceEntries(c) == FlattenSeq([i \in DOMAIN mapOrder |-> c.permissions[mapOrder[i]]])

\* The permissions of the declared services, in the declared order. Those of
\* any other service are not looked at.
DeclaredEntries(c) == FlattenSeq([i \in DOMAIN c.services |-> c.permissions[c.services[i]]])

\* The names of the entries with a scope.
NamesWith(entries, scope) ==
    FlattenSeq([i \in DOMAIN entries |->
        IF entries[i].scope = scope THEN <<entries[i].name>> ELSE <<>>])

\* Mutant: the switch has no case of its own for dual-scope permissions.
TwoTrackBucket(c, scope) ==
    LET all == DeclaredEntries(c)
    IN  NamesWith([i \in DOMAIN all |->
            [all[i] EXCEPT !.scope = IF @ = "platform/project" THEN "project" ELSE @]], scope)

\* selfPerms, platformPerms, projectPerms, dualPerms. No bucket takes a scope
\* that is not one of the four.
Bucket(c, scope) == NamesWith(DeclaredEntries(c), scope)

\* Mutant: the const block is in the contract's order.
UnsortedPerms(c) == NamesOf(DeclaredEntries(c))

\* Mutant: a constant for every name that occurs anywhere in the contract.
PermsOfRolesToo(c) ==
    Sorted(SetToSeq(ToSet(NamesOf(DeclaredEntries(c)))
                        \cup UNION {ToSet(c.rolePerms[r]) : r \in ToSet(c.roles)}))

allPerms(c) == Sorted(NamesOf(DeclaredEntries(c)))

Idents(names) == [i \in DOMAIN names |-> permConstName(names[i])]

SortedRolePerms(c, r) == Sorted(c.rolePerms[r])

\* The generated text: the date in its header, the Permission constants with their
\* values, the tuple of each scope, which PERM_SCOPE repeats key by key, and for
\* each role its constant, also listed in Roles and IsValidRole, and its
\* ROLE_PERMISSIONS.
Declarations(c, day) ==
    [date |-> day,
     permConsts |-> LET perms == allPerms(c)
                    IN  [i \in DOMAIN perms |->
                            [ident |-> permConstName(perms[i]), value |-> perms[i]]],
     tuples |-> [i \in DOMAIN Scopes |-> Idents(Bucket(c, Scopes[i]))],
     roles |-> [i \in DOMAIN c.roles |-> [
         ident |-> pascalizeRole(c.roles[i]), value |-> c.roles[i],
         perms |-> Idents(SortedRolePerms(c, c.roles[i]))]]]

\* Mutant: the contract is taken as it is.
EmitUnchecked(c, day) == Declarations(c, day)

emit(c, day) == IF ~c.version \/ c.roles = <<>> THEN Error ELSE Declarations(c, day)
-----------------------------------------------------------------------------
(***************************************************************************)
(* What the Go compiler makes of a generated file.                         *)
(***************************************************************************)
IdentsOf(decls) == [i \in DOMAIN decls |-> decls[i].ident]

\* No constant is declared twice, no key of PERM_SCOPE is, and every identifier
\* used is declared.
Compiles(f) ==
    /\ f # Error
    /\ IsInjective(IdentsOf(f.permConsts)) /\ IsInjective(IdentsOf(f.roles))
    /\ IsInjective(FlattenSeq(f.tuples))
    /\ \A i \in DOMAIN f.roles :
           ToSet(f.roles[i].perms) \subseteq ToSet(IdentsOf(f.permConsts))

\* The values behind a set of identifiers.
Values(f, idents) == {d.value : d \in {e \in ToSet(f.permConsts) : e.ident \in idents}}

Tuple(f, i) == Values(f, ToSet(f.tuples[i]))

\* The tables at run time, and the emitted functions over them.
Table(f) == INSTANCE PermissionTables WITH
    Roles <- {f.roles[i].value : i \in DOMAIN f.roles},
    PERM_SCOPE <- [p \in UNION {Tuple(f, i) : i \in DOMAIN Scopes} |->
                      Scopes[CHOOSE i \in DOMAIN Scopes : p \in Tuple(f, i)]],
    ROLE_PERMISSIONS <- [r \in {f.roles[i].value : i \in DOMAIN f.roles} |->
        Values(f, UNION {ToSet(f.roles[i].perms) :
                             i \in {j \in DOMAIN f.roles : f.roles[j].value = r}})]
-----------------------------------------------------------------------------
(***************************************************************************)
(* Edits of the contract, and a run of the generator on an unchanged one,  *)
(* which may be on another day.                                            *)
(***************************************************************************)
\* An empty contract field of the JSON is an empty list.
Init ==
    /\ contract \in [version : BOOLEAN, services : {<<>>},
                     roles : {<<>>}, permissions : {[s \in Services |-> <<>>]},
                     rolePerms : {[r \in RoleNames |-> <<>>]}]
    /\ mapOrder \in SetToSeqs(Services)
    /\ today \in Days
    /\ file = emit(contract, today)

\* Every change is followed by a run of the generator.
Generate == file' = emit(contract', today')

Size ==
    Len(FlattenSeq([i \in DOMAIN mapOrder |-> contract.permissions[mapOrder[i]]]))
        + Len(FlattenSeq([i \in DOMAIN contract.roles |->
                              contract.rolePerms[contract.roles[i]]]))

\* Without a version emit looks at nothing else: no edit is followed there.
Edit(c) == contract.version /\ contract' = c /\ UNCHANGED <<mapOrder, today>> /\ Generate
Grow(c) == Size < MaxSize /\ Edit(c)

\* A name listed twice gives a constant declared twice; once is enough here.
DeclareService(s) ==
    /\ ~Contains(contract.services, s)
    /\ Edit([contract EXCEPT !.services = Append(@, s)])

AddRole(r) ==
    /\ ~Contains(contract.roles, r)
    /\ Edit([contract EXCEPT !.roles = Append(@, r)])

AddPermission(s, e) == Grow([contract EXCEPT !.permissions[s] = Append(@, e)])

\* A permission that no service declares may be listed, too.
Grant(r, p) ==
    /\ Contains(contract.roles, r)
    /\ Grow([contract EXCEPT !.rolePerms[r] = Append(@, p)])

\* The same contract, written in another order.
Reorder ==
    Edit([contract EXCEPT !.services = Reverse(@), !.roles = Reverse(@),
              !.permissions = [s \in Services |-> Reverse(@[s])],
              !.rolePerms = [r \in RoleNames |-> Reverse(@[r])]])

\* Every run of the generator iterates over its maps in an order of its own.
Regenerate ==
    /\ mapOrder' \in SetToSeqs(Services) /\ today' \in Days
    /\ UNCHANGED contract /\ Generate

Next ==
    \/ \E s \in Services : DeclareService(s) \/ \E e \in Entries : AddPermission(s, e)
    \/ \E r \in RoleNames : AddRole(r) \/ \E p \in Names : Grant(r, p)
    \/ Reorder \/ Regenerate

Spec == Init /\ [][Next]_vars
-----------------------------------------------------------------------------
(***************************************************************************)
(* Properties.                                                             *)
(***************************************************************************)
\* The identifiers that a generated file declares and uses.
IdentsIn(f) == ToSet(IdentsOf(f.permConsts)) \cup UNION {ToSet(f.tuples[i]) : i \in DOMAIN Scopes}

\* The contract keeps its shape, and no identifier of the file has the ":" of the
\* name (main.go:359-365).
TypeOK ==
    /\ contract \in Contracts
    /\ mapOrder \in SetToSeqs(Services)
    /\ today \in Days
    /\ file # Error => \A ident \in IdentsIn(file) : ~Contains(ident, Colon)

\* What the contract says, read without emit.
DeclaredSet == UNION {ToSet(contract.permissions[s]) : s \in ToSet(contract.services)}

Lists(r, p) == Contains(contract.rolePerms[r], p)

DeclaredNames == {e.name : e \in DeclaredSet}

\* No two names in use have one identifier. A collision of two declared names
\* does not compile, but a role that lists an undeclared "a:b" gets the declared
\* "aB".
DistinctIdents ==
    LET used == {p \in Names : p \in DeclaredNames \/ \E r \in RoleNames : Lists(r, p)}
    IN  \A p, q \in used : permConstName(p) = permConstName(q) => p = q

\* If the generated file compiles, the functions it exports answer as the
\* contract says: no scope, grant or tuple entry is lost or changed on the way
\* through buckets, sorted copies and identifiers (main.go:79-98, 269-279). A
\* permission whose scope is not one of the four is tenant-grantable, like one
\* that the contract does not have.
TablesMatchContract ==
    Compiles(file) /\ DistinctIdents => \A p \in Names :
        /\ \A scope \in ToSet(Scopes) :
               Table(file)!ScopeOf(p) = scope <=> [name |-> p, scope |-> scope] \in DeclaredSet
        /\ \A r \in ToSet(contract.roles) :
               Table(file)!RoleHasPermission(r, p) <=> Lists(r, p)
        /\ Table(file)!IsTenantGrantable(p) <=>
               \A e \in DeclaredSet : e.name = p => e.scope \notin {"self", "platform"}

\* A role that lists a permission no declared service has makes the file fail to
\* compile, a permission of a service that services[] misses included: the grant
\* is never dropped in silence (main.go:82 and 128-129).
GrantsAreDeclared ==
    Compiles(file) /\ DistinctIdents =>
        \A r \in ToSet(contract.roles), p \in Names : Lists(r, p) => p \in DeclaredNames

\* A permission is universal only if its scope says so or some role lists it: a
\* contract without roles, where "every role" is true of anything, gives no
\* file (main.go:72-74 and 323-333).
UniversalIsGranted ==
    Compiles(file) /\ DistinctIdents => \A p \in Names :
        Table(file)!IsUniversalPerm(p) =>
            \/ [name |-> p, scope |-> "self"] \in DeclaredSet
            \/ \E r \in ToSet(contract.roles) : Lists(r, p)

\* Nothing was removed or moved on the way from contract c to d.
Extends(c, d) ==
    /\ IsPrefix(c.services, d.services) /\ IsPrefix(c.roles, d.roles)
    /\ \A s \in Services : IsPrefix(c.permissions[s], d.permissions[s])
    /\ \A r \in RoleNames : IsPrefix(c.rolePerms[r], d.rolePerms[r])

\* t has the elements of s in the order of s, and possibly others between them.
Embeds(s, t) ==
    \E at \in [DOMAIN s -> DOMAIN t] : \A i, j \in DOMAIN s :
        t[at[i]] = s[i] /\ (i < j => at[i] < at[j])

\* A contract that only grew, or did not change, gives a file that only grew:
\* apart from the date, each line of the old file is in the new one, in the same
\* order. So a run on an unchanged contract moves nothing, whatever order Go's
\* maps have then (main.go:76-78), and what is appended to any list of the
\* contract shows up as added lines only (main.go:98, 271-272).
AppendsOnlyAddLines ==
    [][file # Error /\ file' # Error /\ Extends(contract, contract') =>
           /\ Embeds(file.permConsts, file'.permConsts)
           /\ \A i \in DOMAIN Scopes : Embeds(file.tuples[i], file'.tuples[i])
           /\ \A i \in DOMAIN file.roles :
                  /\ file'.roles[i].ident = file.roles[i].ident
                  /\ file'.roles[i].value = file.roles[i].value
                  /\ Embeds(file.roles[i].perms, file'.roles[i].perms)]_vars

\* An edit of the contract, a reordering included, never moves the constants
\* that stay, so that a diff shows only what changed (main.go:98): any two that
\* are in the file before and after have the same order in both.
DiffStable ==
    [][file # Error /\ file' # Error =>
           \A i, j \in DOMAIN file.permConsts, k, l \in DOMAIN file'.permConsts :
               /\ i < j /\ file.permConsts[i] # file.permConsts[j]
               /\ file'.permConsts[k] = file.permConsts[i]
               /\ file'.permConsts[l] = file.permConsts[j]
               => k < l]_vars
=============================================================================
