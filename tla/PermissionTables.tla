--------------------------- MODULE PermissionTables ---------------------------
(***************************************************************************)
(* The helper functions that the code generator emits after the tables     *)
(* (role_permissions.go:311-355 and 465-513), over any tables: those that  *)
(* are committed (RolePermissions) and those that emit writes for some     *)
(* other contract (Codegen).                                               *)
(***************************************************************************)
CONSTANTS Roles,            \* the roles of the contract
          PERM_SCOPE,       \* permission to scope
          ROLE_PERMISSIONS  \* role to the permissions it lists

IsValidPermission(p) == p \in DOMAIN PERM_SCOPE

\* Go's map lookup yields the empty scope for a permission it does not hold.
ScopeOf(p) == IF IsValidPermission(p) THEN PERM_SCOPE[p] ELSE ""

IsSelfScope(p) == ScopeOf(p) = "self"

IsPlatformGrantable(p) == ScopeOf(p) \in {"platform", "platform/project"}

\* A permission without a scope counts as defined by a tenant.
IsTenantGrantable(p) ==
    ~IsValidPermission(p) \/ ScopeOf(p) \in {"project", "platform/project"}

IsValidRole(r) == r \in Roles

\* A role the contract does not know has no permissions.
ResolvePermissions(r) ==
    IF r \in DOMAIN ROLE_PERMISSIONS THEN ROLE_PERMISSIONS[r] ELSE {}

RoleHasPermission(r, p) == p \in ResolvePermissions(r)

\* Granted to every authenticated caller: self scope, or listed for every role.
IsUniversalPerm(p) == IsSelfScope(p) \/ \A r \in Roles : RoleHasPermission(r, p)
=============================================================================
