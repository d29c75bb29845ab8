--------------------------- MODULE RolePermissions ---------------------------
(***************************************************************************)
(* The committed contract tables (role_permissions.go).                    *)
(*                                                                         *)
(* The tables tell 72 permissions apart only by scope and by the roles that*)
(* list them, which gives seven classes. Each is modelled by one member;   *)
(* the number of permissions in the class is given beside it. The eighth   *)
(* permission is one the contract does not know.                           *)
(***************************************************************************)
EXTENDS Integers

\* Roles, in the contract's order.
Owner == "OWNER"
Admin == "ADMIN"
Editor == "EDITOR"
Viewer == "VIEWER"

Roles == {Owner, Admin, Editor, Viewer}

EditProfile   == "mercury:user:write:self"   \* 12: self scope
ViewProject   == "athens:project:view"       \*  5: every role
UpdateProject == "athens:project:update"     \* 26: OWNER and ADMIN
DeleteProject == "athens:project:delete"     \*  7: OWNER only
CreateBlog    == "muse:blog:create"          \*  2: all but VIEWER
ReadPosts     == "muse:posts:read"           \* 19: project scope, no role
ReadAuthor    == "muse:author:read"          \*  1: both scopes, every role
TenantDefined == "acme:invoice:approve"      \* not in the contract

PERM_SCOPE ==
    [p \in {EditProfile, ViewProject, UpdateProject, DeleteProject, CreateBlog,
            ReadPosts, ReadAuthor} |->
        IF p = EditProfile THEN "self"
        ELSE IF p = ReadPosts THEN "project"
        ELSE IF p = ReadAuthor THEN "platform/project"
        ELSE "platform"]

Permissions == DOMAIN PERM_SCOPE \cup {TenantDefined}

SELF_PERMISSIONS == <<EditProfile>>

ROLE_PERMISSIONS ==
    [r \in Roles |->
        CASE r = Owner  -> {ViewProject, UpdateProject, DeleteProject, CreateBlog, ReadAuthor}
          [] r = Admin  -> {ViewProject, UpdateProject, CreateBlog, ReadAuthor}
          [] r = Editor -> {ViewProject, CreateBlog, ReadAuthor}
          [] r = Viewer -> {ViewProject, ReadAuthor}]

\* IsValidPermission, IsUniversalPerm and the other lookups, over these tables.
INSTANCE PermissionTables
=============================================================================
