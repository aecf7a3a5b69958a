------------------------------- MODULE Teams --------------------------------
(***************************************************************************)
(* The roles of a merchant's team and what they permit:                    *)
(* src/src/services/RBACService.ts, src/src/controllers/TeamController.ts  *)
(* and src/src/middlewares/permissionMiddleware.ts, for one merchant.  The *)
(* controller's methods are taken as bound to their controller.            *)
(***************************************************************************)
EXTENDS Handlers

CONSTANTS
    Staff,        \* users
    RoleIds,      \* bound: the ids of roles
    Permissions,  \* permissions other than to manage the team
    Rosters,      \* the tables before the calls: roles, members and what roles grant
    MaxCustom,    \* custom roles of a merchant (3)
    DefaultRoles, \* the default roles in their order: [name, permits], the permits in a sequence
    RoleBodies    \* bound: bodies of updates, the columns that a body names and their values

VARIABLES
    roles,       \* table roles
    members,     \* table user_roles: pairs of user and role
    grants,      \* table role_permissions: pairs of role and permission
    catalog,     \* table permissions
    deleted,     \* history: roles whose deletion was answered
    contested,   \* history: roles that were being assigned, or saved, while being deleted
    recast,      \* history: roles to which the body of an update gave a name or made default or not
    doubled,     \* history: whether two creations overlapped
    unfinished   \* history: default roles not made to the end, or changed since

teamVars == <<roles, members, grants, catalog, deleted, contested, recast, doubled, unfinished>>
teamTables == <<roles, members, grants, catalog, deleted, recast, unfinished>>

\* The names that are not those of a default role are one, None.
RoleNames == {DefaultRoles[n].name : n \in DOMAIN DefaultRoles} \cup {None}
Role == [name: RoleNames, isDefault: BOOLEAN, isActive: BOOLEAN]
NewRole(name, isDefault) == [name |-> name, isDefault |-> isDefault, isActive |-> TRUE]
UsingSteps == {"findUserRole", "saveUserRole", "findRole", "saveRoleRow"}
DeletingSteps == {"countUserRoles", "saveInactive"}
TeamSteps == UsingSteps \cup DeletingSteps \cup
    {"countRoles", "saveRole", "getRole", "findActiveRole", "findRolePermission",
     "saveRolePermission", "removeRolePermission", "removeUserRole"}
    \cup {"findMissing", "savePermission", "findDefault", "saveDefault", "findGranted", "grant"}

\* What a default role permits if it was made to the end, and what any of them does.
Permits(n) == {DefaultRoles[n].permits[i] : i \in DOMAIN DefaultRoles[n].permits}
Permitted == UNION {Permits(n) : n \in DOMAIN DefaultRoles}

\* The names of the default roles differ; a body names columns and gives them values they can
\* hold; the tables before the calls were left by calls that
\* neither overlapped nor were cut off.
ASSUME TeamAssumption ==
    /\ IsFiniteSet(RoleIds)
    /\ MaxCustom \in Nat
    /\ None \notin Role
    /\ Len(DefaultRoles) \in Nat \ {0} /\ DOMAIN DefaultRoles = 1 .. Len(DefaultRoles)
    /\ \A n \in DOMAIN DefaultRoles : DefaultRoles[n].permits \in Seq(Permitted)
    /\ \A n, k \in DOMAIN DefaultRoles : DefaultRoles[n].name = DefaultRoles[k].name => n = k
    /\ \A b \in RoleBodies : /\ DOMAIN b \subseteq DOMAIN NewRole(None, FALSE)
                             /\ Assigned(NewRole(None, FALSE), b) \in Role
    /\ \A roster \in Rosters :
          LET row(r) == roster.roles[r]
              standard == {r \in RoleIds : row(r) # None /\ row(r).isDefault} IN
          /\ roster.roles \in [RoleIds -> Role \cup {None}]
          /\ roster.members \subseteq Staff \X RoleIds
          /\ roster.catalog \subseteq Permissions \cup {"manage"}
          /\ roster.grants \subseteq RoleIds \X roster.catalog
          /\ Cardinality({r \in RoleIds : row(r) # None} \ standard) <= MaxCustom
          /\ \A r \in standard : \A o \in standard : row(o).name = row(r).name => o = r
          /\ \A r \in standard : \A n \in DOMAIN DefaultRoles :
                DefaultRoles[n].name = row(r).name => {r} \X Permits(n) \subseteq roster.grants

TeamTypeOK ==
    /\ roles \in [RoleIds -> Role \cup {None}]
    /\ members \subseteq Staff \X RoleIds
    /\ grants \subseteq RoleIds \X catalog
    /\ catalog \subseteq Permissions \cup {"manage"}

TeamStart(roster) ==
    /\ roles = roster.roles
    /\ members = roster.members
    /\ grants = roster.grants
    /\ catalog = roster.catalog
    /\ unfinished = {}
    /\ deleted = {}
    /\ contested = {}
    /\ recast = {}
    /\ doubled = FALSE

TeamInit == \E roster \in Rosters : TeamStart(roster)
TeamIdle == TeamStart([roles |-> [r \in RoleIds |-> None], members |-> {}, grants |-> {}, catalog |-> {}])

Created == {r \in RoleIds : roles[r] # None}
FreshIds == IF Created = RoleIds THEN {} ELSE {CHOOSE r \in RoleIds : r \notin Created}
Custom == {r \in Created : ~roles[r].isDefault}
IsActive(r) == r \in Created /\ roles[r].isActive

------------------------------------------------------------------------------
\* hasPermission, which every route asks first: one of the user's roles grants it, the role
\* being active or not.
HasPermission(u, p) == \E r \in RoleIds : <<u, r>> \in members /\ <<r, p>> \in grants
Manager == \E u \in Staff : HasPermission(u, "manage")

\* createRole: no more than MaxCustom roles, those deleted included.
PostRole(q) ==
    /\ Manager
    /\ \E name \in RoleNames : Receive(q, "teams", "countRoles", [name |-> name])

CountRoles(q) ==
    LET room == Cardinality(Custom) < MaxCustom IN
    /\ At(q, "countRoles")
    /\ \/ room /\ Goto(q, "saveRole", mem[q])
       \/ ~room /\ Answer(q)

CreateRole(q) ==
    /\ At(q, "saveRole")
    /\ \E r \in FreshIds : roles' = [roles EXCEPT ![r] = NewRole(mem[q].name, FALSE)]
    /\ Answer(q)
    /\ UNCHANGED <<members, grants, catalog, deleted, recast, unfinished>>

\* Every other operation begins with getRoleById: the role is active, and the merchant's.
Ask(q, m) == Manager /\ Receive(q, "teams", "getRole", m)

PutRole(q) ==
    /\ \E r \in Created, b \in RoleBodies : Ask(q, [role |-> r, then |-> "findRole", body |-> b])
DeleteRoleById(q) ==
    /\ \E r \in Created : Ask(q, [role |-> r, then |-> "findActiveRole"])
PostUserRole(q) ==
    /\ \E r \in Created, u \in Staff : Ask(q, [role |-> r, then |-> "findUserRole", user |-> u, add |-> TRUE])
DeleteUserRole(q) ==
    /\ \E r \in Created, u \in Staff : Ask(q, [role |-> r, then |-> "findUserRole", user |-> u, add |-> FALSE])
PostPermission(q) ==
    /\ \E r \in Created, p \in Permissions :
          Ask(q, [role |-> r, then |-> "findRolePermission", permission |-> p, add |-> TRUE])
DeletePermission(q) ==
    /\ \E r \in Created, p \in Permissions :
          Ask(q, [role |-> r, then |-> "findRolePermission", permission |-> p, add |-> FALSE])

GetRoleById(q) ==
    LET active == IsActive(mem[q].role) IN
    /\ At(q, "getRole")
    /\ \/ active /\ Goto(q, mem[q].then, mem[q])
       \/ ~active /\ Answer(q)

------------------------------------------------------------------------------
\* updateRole assigns the body, which nothing filters, to the row it read, and saves the row.
FindRole(q) ==
    LET r == mem[q].role IN
    /\ At(q, "findRole")
    /\ Goto(q, "saveRoleRow",
            [role |-> r, row |-> Assigned(roles[r], mem[q].body), said |-> DOMAIN mem[q].body])

UpdateRole(q) ==
    /\ At(q, "saveRoleRow")
    /\ roles' = [roles EXCEPT ![mem[q].role] = mem[q].row]
    /\ recast' = recast \cup (IF mem[q].said \cap {"name", "isDefault"} # {} THEN {mem[q].role} ELSE {})
    /\ Answer(q)
    /\ UNCHANGED <<members, grants, catalog, deleted, unfinished>>

\* deleteRole: a custom role that is active and that no user has; the row that was read is
\* saved, inactive.
FindActiveRole(q) ==
    LET r == mem[q].role
        custom == IsActive(r) /\ ~roles[r].isDefault IN
    /\ At(q, "findActiveRole")
    /\ \/ custom /\ Goto(q, "countUserRoles", [role |-> r, row |-> [roles[r] EXCEPT !.isActive = FALSE]])
       \/ ~custom /\ Answer(q)

\* Variant for testing the properties: the users of the role are not counted.
CountUserRolesNot(q) ==
    /\ At(q, "countUserRoles")
    /\ Goto(q, "saveInactive", mem[q])

CountUserRoles(q) ==
    LET used == \E u \in Staff : <<u, mem[q].role>> \in members IN
    /\ At(q, "countUserRoles")
    /\ \/ ~used /\ Goto(q, "saveInactive", mem[q])
       \/ used /\ Answer(q)

DeleteRole(q) ==
    /\ At(q, "saveInactive")
    /\ roles' = [roles EXCEPT ![mem[q].role] = mem[q].row]
    /\ deleted' = deleted \cup {mem[q].role}
    /\ Answer(q)
    /\ UNCHANGED <<members, grants, catalog, recast, unfinished>>

------------------------------------------------------------------------------
\* assignRoleToUser and removeUserRole, assignPermissionToRole and removePermissionFromRole:
\* the row is looked for, then inserted or removed.  A unique index refuses a second row.
FindUserRole(q) ==
    LET found == <<mem[q].user, mem[q].role>> \in members IN
    /\ At(q, "findUserRole")
    /\ \/ ~found /\ mem[q].add /\ Goto(q, "saveUserRole", mem[q])
       \/ found /\ ~mem[q].add /\ Goto(q, "removeUserRole", mem[q])
       \/ found = mem[q].add /\ Answer(q)

\* Variant for testing the properties: the user and the role are swapped.
AssignUserToRole(q) ==
    /\ At(q, "saveUserRole")
    /\ members' = members \cup {<<mem[q].role, mem[q].user>>}
    /\ Answer(q)
    /\ UNCHANGED <<roles, grants, catalog, deleted, recast, unfinished>>

AssignRoleToUser(q) ==
    /\ At(q, "saveUserRole")
    /\ members' = members \cup {<<mem[q].user, mem[q].role>>}
    /\ Answer(q)
    /\ UNCHANGED <<roles, grants, catalog, deleted, recast, unfinished>>

RemoveUserRole(q) ==
    /\ At(q, "removeUserRole")
    /\ members' = members \ {<<mem[q].user, mem[q].role>>}
    /\ Answer(q)
    /\ UNCHANGED <<roles, grants, catalog, deleted, recast, unfinished>>

FindRolePermission(q) ==
    LET found == <<mem[q].role, mem[q].permission>> \in grants IN
    /\ At(q, "findRolePermission")
    /\ \/ ~found /\ mem[q].add /\ Goto(q, "saveRolePermission", mem[q])
       \/ found /\ ~mem[q].add /\ Goto(q, "removeRolePermission", mem[q])
       \/ found = mem[q].add /\ Answer(q)

AssignPermissionToRole(q) ==
    /\ At(q, "saveRolePermission")
    /\ mem[q].permission \in catalog
    /\ grants' = grants \cup {<<mem[q].role, mem[q].permission>>}
    /\ Answer(q)
    /\ UNCHANGED <<roles, members, catalog, deleted, recast, unfinished>>

\* There is no such permission, and the foreign key refuses the row.
AssignPermissionFails(q) ==
    /\ At(q, "saveRolePermission")
    /\ mem[q].permission \notin catalog
    /\ Answer(q)

RemovePermissionFromRole(q) ==
    /\ At(q, "removeRolePermission")
    /\ grants' = grants \ {<<mem[q].role, mem[q].permission>>}
    /\ unfinished' = unfinished \cup {mem[q].role}
    /\ Answer(q)
    /\ UNCHANGED <<roles, members, catalog, deleted, recast>>

------------------------------------------------------------------------------
\* initializeDefaultPermissions: those that are not found are inserted, one by one.
InitializeDefaultPermissions(q) ==
    /\ Receive(q, "defaults", "findMissing", [left |-> Permissions \cup {"manage"}])

FindMissing(q) ==
    LET p == CHOOSE x \in mem[q].left : TRUE
        rest == mem[q].left \ {p} IN
    /\ At(q, "findMissing")
    /\ \/ mem[q].left = {} /\ Answer(q)
       \/ mem[q].left # {} /\ p \in catalog /\ Goto(q, "findMissing", [left |-> rest])
       \/ mem[q].left # {} /\ p \notin catalog /\ Goto(q, "savePermission", [add |-> p, left |-> rest])

\* The unique index refuses a permission another request inserted, and the rest is not tried.
SavePermission(q) ==
    LET p == mem[q].add IN
    /\ At(q, "savePermission")
    /\ catalog' = catalog \cup {p}
    /\ IF p \in catalog THEN Answer(q) ELSE Goto(q, "findMissing", [left |-> mem[q].left])
    /\ UNCHANGED <<roles, members, grants, deleted, recast, unfinished>>

\* initializeDefaultRoles: each default role that is not found is created, and each of its
\* permissions looked up and granted.
InitializeDefaultRoles(q) ==
    /\ Receive(q, "defaults", "findDefault", [n |-> 1])

NextDefault(q) ==
    IF mem[q].n = Len(DefaultRoles) THEN Answer(q) ELSE Goto(q, "findDefault", [n |-> mem[q].n + 1])

FindDefault(q) ==
    LET name == DefaultRoles[mem[q].n].name
        found == \E r \in Created : roles[r].isDefault /\ roles[r].name = name IN
    /\ At(q, "findDefault")
    /\ \/ found /\ NextDefault(q)
       \/ ~found /\ Goto(q, "saveDefault", mem[q])

SaveDefault(q) ==
    LET n == mem[q].n IN
    /\ At(q, "saveDefault")
    /\ \E r \in FreshIds :
          /\ roles' = [roles EXCEPT ![r] = NewRole(DefaultRoles[n].name, TRUE)]
          /\ Goto(q, "findGranted", [n |-> n, role |-> r, left |-> DefaultRoles[n].permits])
    /\ UNCHANGED <<members, grants, catalog, deleted, recast, unfinished>>

\* A permission that is not found is left out.
FindGranted(q) ==
    LET left == mem[q].left IN
    /\ At(q, "findGranted")
    /\ \/ left = <<>> /\ NextDefault(q) /\ UNCHANGED unfinished
       \/ /\ left # <<>> /\ Head(left) \notin catalog
          /\ unfinished' = unfinished \cup {mem[q].role}
          /\ Goto(q, "findGranted", [mem[q] EXCEPT !.left = Tail(left)])
       \/ /\ left # <<>> /\ Head(left) \in catalog
          /\ Goto(q, "grant", mem[q])
          /\ UNCHANGED unfinished
    /\ UNCHANGED <<roles, members, grants, catalog, deleted, recast>>

\* assignPermissionToRole refuses a permission the role has been given already, and the
\* rest of the roles is not tried.
Grant(q) ==
    LET r == mem[q].role
        p == Head(mem[q].left) IN
    /\ At(q, "grant")
    /\ grants' = grants \cup {<<r, p>>}
    /\ IF <<r, p>> \in grants
       THEN unfinished' = unfinished \cup {r} /\ Answer(q)
       ELSE UNCHANGED unfinished /\ Goto(q, "findGranted", [mem[q] EXCEPT !.left = Tail(@)])
    /\ UNCHANGED <<roles, members, catalog, deleted, recast>>

------------------------------------------------------------------------------
\* A role is contested when a request is past its check that the role is active and another
\* is about to count its users or to deactivate it.
TeamHistory ==
    /\ contested' = contested \cup {mem'[q].role : q \in {p \in Requests :
          /\ pc'[p] \in UsingSteps
          /\ \E r \in Requests : pc'[r] \in DeletingSteps /\ mem'[r].role = mem'[p].role}}
    /\ doubled' = (doubled \/ Overlapping({"saveRole", "saveDefault"})')

TeamReads(q) ==
    /\ \/ PostRole(q) \/ CountRoles(q)
       \/ PutRole(q) \/ DeleteRoleById(q) \/ PostUserRole(q) \/ DeleteUserRole(q)
       \/ PostPermission(q) \/ DeletePermission(q) \/ GetRoleById(q)
       \/ FindRole(q) \/ FindActiveRole(q) \/ CountUserRoles(q)
       \/ FindUserRole(q) \/ FindRolePermission(q) \/ AssignPermissionFails(q)
       \/ InitializeDefaultPermissions(q) \/ FindMissing(q)
       \/ InitializeDefaultRoles(q) \/ FindDefault(q)
    /\ UNCHANGED teamTables

TeamNext ==
    /\ \E q \in Requests :
          \/ TeamReads(q)
          \/ CreateRole(q) \/ UpdateRole(q) \/ DeleteRole(q)
          \/ AssignRoleToUser(q) \/ RemoveUserRole(q)
          \/ AssignPermissionToRole(q) \/ RemovePermissionFromRole(q)
          \/ SavePermission(q) \/ SaveDefault(q) \/ FindGranted(q) \/ Grant(q)
    /\ TeamHistory

TeamInterrupted(q) ==
    /\ pc[q] \in TeamSteps
    /\ Interrupted(q)
    /\ unfinished' = unfinished \cup (IF pc[q] \in {"findGranted", "grant"} THEN {mem[q].role} ELSE {})
    /\ UNCHANGED <<roles, members, grants, catalog, deleted, contested, recast, doubled>>

------------------------------------------------------------------------------
\* A role that was deleted stays deleted and permits nobody anything: no user has it,
\* whatever was assigned, removed and updated before and since, unless a request that had
\* found the role active was still to save while the deletion was counting or saving
\* (RBACService.ts lines 117 to 154, 234 to 270).
DeletedRoleIsGone ==
    \A r \in deleted \ contested :
       /\ ~roles[r].isActive
       /\ \A u \in Staff : <<u, r>> \notin members

\* A merchant has at most MaxCustom custom roles, those it deleted included, unless two were
\* created at once; a role that the body of an update named or made default or not is not
\* counted, for an update is asked nothing of either (RBACService.ts lines 47 to 54, 89 to 99).
FewCustomRoles == doubled \/ Cardinality(Custom \ recast) <= MaxCustom

\* But for the roles that an update recast, there is one default role of a name, unless two
\* requests were about to make roles, and what it is for it permits, as soon as it has been
\* made, unless a permission was not in the table yet, was taken from it, or was given to it
\* before the initialisation came to it: nothing repairs such a role, which is found the next
\* time (RBACService.ts lines 401 to 484).
DefaultRolesAreWhole ==
    LET standard == {r \in Created \ recast : roles[r].isDefault} IN
    \A r \in standard :
       /\ doubled \/ \A o \in standard : roles[o].name = roles[r].name => o = r
       /\ \/ r \in unfinished
          \/ \E q \in Requests : pc[q] \in {"findGranted", "grant"} /\ mem[q].role = r
          \/ \A n \in DOMAIN DefaultRoles :
                DefaultRoles[n].name = roles[r].name => {r} \X Permits(n) \subseteq grants

\* What a merchant can count on of its roles.
RolesKeepTheirRules == DeletedRoleIsGone /\ FewCustomRoles /\ DefaultRolesAreWhole
==============================================================================
