-------------------------------- MODULE Rbac --------------------------------
(***************************************************************************)
(* Accounts and their roles: registration, the bootstrap-admin command,    *)
(* role assignment by an administrator and the query of one's own roles    *)
(* and permissions, running concurrently on the users, roles, user_roles   *)
(* and role_permissions tables.                                            *)
(*                                                                         *)
(* A DELETE of a user's roles locks the rows it removes, or the gap if     *)
(* there are none; a gap can be locked by several transactions, and an     *)
(* INSERT into it waits for the others (InnoDB rolls one back when they    *)
(* wait for each other).  There are no foreign keys: user_roles may speak  *)
(* of an id that is not in users.                                          *)
(***************************************************************************)
EXTENDS Naturals, FiniteSets

CONSTANTS
    Name,    \* user names
    Req,     \* concurrent requests and commands
    None,    \* absent
    MaxId    \* bound on the ids given out by AUTO_INCREMENT

ASSUME RbacAssumption == None \notin Name \cup Req /\ MaxId \in Nat

VARIABLES
    accounts,  \* users table: the name of each id, None if there is no row
    nextId,    \* AUTO_INCREMENT of users; a rollback does not give an id back
    roles,     \* user_roles joined with roles: the role codes of each id
    roleLock,  \* lock on the admin row of roles
    locks,     \* the transactions holding a lock on an id's user_roles
    req,       \* the requests
    granted,   \* history: accounts whose roles were set by an administrator or
               \* by bootstrap-admin
    bootstraps,\* history: bootstraps that succeeded
    vacantAt   \* history: the value of bootstraps when the system was last
               \* without an administrator

tables  == <<accounts, nextId, roles>>
history == <<granted, bootstraps, vacantAt>>
vars    == <<tables, roleLock, locks, req, history>>

Id   == 1..MaxId
Role == {"user", "admin"}   \* seeded by migration 00004

\* role_permissions, which only migrations write: the permissions on one's own
\* profile and password, and the administrators'.
Permission == {"self", "admin"}
RolePermissions == [user |-> {"self"}, admin |-> {"self", "admin"}]
PermissionsOf(codes) == UNION {RolePermissions[c] : c \in codes}

\* A request's locals: the name to register, or the id whose roles to replace or
\* to list; the wanted roles; the rows its DELETE or its query found; the
\* permissions listed.  seen is a history variable: the roles the user of a query
\* has had since it began.
Request == [pc : {"idle", "register", "boot_count", "boot_commit", "assign_delete",
                  "assign_insert", "list_permissions", "listed"},
            name : Name \cup {None}, target : Id \cup {0},
            want : SUBSET Role, found : SUBSET Role,
            perms : SUBSET Permission, seen : SUBSET SUBSET Role]

Idle == [pc |-> "idle", name |-> None, target |-> 0, want |-> {}, found |-> {},
         perms |-> {}, seen |-> {}]

\* Type correctness; in particular user_roles holds only roles of the roles table,
\* although no foreign key says so (ReplaceUserRolesByCodes looks them up first).
TypeOK ==
    /\ accounts \in [Id -> Name \cup {None}]
    /\ nextId \in 1..(MaxId + 1)
    /\ roles \in [Id -> SUBSET Role]
    /\ roleLock \in Req \cup {None}
    /\ locks \in [Id -> SUBSET Req]
    /\ req \in [Req -> Request]
    /\ granted \in SUBSET Id
    /\ bootstraps \in Nat
    /\ vacantAt \in 0..bootstraps

Taken(n) == \E u \in Id : accounts[u] = n

Administrators(table) == {u \in Id : "admin" \in table[u]}

\* AssignRoleToUserByCode: FirstOrCreate of the row.
AssignRoleToUserByCode(table, u, code) == [table EXCEPT ![u] = @ \cup {code}]

\* An INSERT of a role waits for the locks of others; one found in place does not.
MayInsert(r, u, codes) == codes \subseteq roles[u] \/ locks[u] \subseteq {r}

End(r) == req' = [req EXCEPT ![r] = Idle]

ReleaseLocks(r) ==
    /\ roleLock' = IF roleLock = r THEN None ELSE roleLock
    /\ locks' = [u \in Id |-> locks[u] \ {r}]

-----------------------------------------------------------------------------
(* UserService.Register *)

\* The name is looked up before the transaction.
RegisterBegin(r, n) ==
    /\ req[r].pc = "idle"
    /\ req' = [req EXCEPT ![r] = IF Taken(n) THEN Idle
                                 ELSE [Idle EXCEPT !.pc = "register", !.name = n]]
    /\ UNCHANGED <<tables, roleLock, locks, history>>

\* CreateUser and AssignRoleToUserByCode in one transaction; the unique index on
\* the name turns away whoever comes second.
RegisterCommit(r) ==
    LET u == nextId IN
    /\ req[r].pc = "register"
    /\ nextId <= MaxId
    /\ nextId' = nextId + 1
    /\ IF Taken(req[r].name)
       THEN UNCHANGED <<accounts, roles>>
       ELSE /\ MayInsert(r, u, {"user"})
            /\ accounts' = [accounts EXCEPT ![u] = req[r].name]
            /\ roles' = AssignRoleToUserByCode(roles, u, "user")
    /\ End(r)
    /\ UNCHANGED <<roleLock, locks, history>>

-----------------------------------------------------------------------------
(* UserService.BootstrapAdmin *)

BootstrapReadRole(r, n) ==
    /\ req[r].pc = "idle"
    /\ roleLock = None
    /\ req' = [req EXCEPT ![r] = [Idle EXCEPT !.pc = "boot_count", !.name = n]]
    /\ UNCHANGED <<tables, roleLock, locks, history>>

\* SELECT the admin role FOR UPDATE: bootstraps run one after the other.
BootstrapLock(r, n) ==
    /\ req[r].pc = "idle"
    /\ roleLock = None
    /\ roleLock' = r
    /\ req' = [req EXCEPT ![r] = [Idle EXCEPT !.pc = "boot_count", !.name = n]]
    /\ UNCHANGED <<tables, locks, history>>

\* Count the administrators and look up the name, without locks.
BootstrapCount(r) ==
    /\ req[r].pc = "boot_count"
    /\ IF Administrators(roles) # {} \/ Taken(req[r].name)
       THEN End(r) /\ ReleaseLocks(r)
       ELSE /\ req' = [req EXCEPT ![r].pc = "boot_commit"]
            /\ UNCHANGED <<roleLock, locks>>
    /\ UNCHANGED <<tables, history>>

\* Create the user, assign both roles and commit.
BootstrapCommit(r) ==
    LET u == nextId IN
    /\ req[r].pc = "boot_commit"
    /\ nextId <= MaxId
    /\ nextId' = nextId + 1
    /\ IF Taken(req[r].name)
       THEN UNCHANGED <<accounts, roles, granted, bootstraps>>
       ELSE /\ MayInsert(r, u, {"user", "admin"})
            /\ accounts' = [accounts EXCEPT ![u] = req[r].name]
            /\ roles' = AssignRoleToUserByCode(
                            AssignRoleToUserByCode(roles, u, "user"), u, "admin")
            /\ granted' = granted \cup {u}
            /\ bootstraps' = bootstraps + 1
    /\ End(r)
    /\ ReleaseLocks(r)
    /\ UNCHANGED vacantAt

-----------------------------------------------------------------------------
(* PUT /admin/users/:id/roles: RequirePermission, AssignUserRolesHandler,  *)
(* AssignRolesToUser, ReplaceUserRolesByCodes.                             *)

\* UserHasPermission for admin:user_roles:update.
HasPermission(actor) == "admin" \in PermissionsOf(roles[actor])

AssignBeginUnknownRole(r, actor, u, codes) ==
    /\ req[r].pc = "idle"
    /\ accounts[actor] # None
    /\ req' = [req EXCEPT ![r] =
                 IF HasPermission(actor) /\ codes # {}
                 THEN [Idle EXCEPT !.pc = "assign_delete", !.target = u,
                                   !.want = codes]
                 ELSE Idle]
    /\ UNCHANGED <<tables, roleLock, locks, history>>

\* The permission of an authenticated actor is checked before the transaction; an
\* empty list and an unknown role are refused before anything is deleted.  That
\* the target exists is not checked.
AssignBegin(r, actor, u, codes) ==
    /\ req[r].pc = "idle"
    /\ accounts[actor] # None
    /\ req' = [req EXCEPT ![r] =
                 IF HasPermission(actor) /\ codes # {} /\ codes \subseteq Role
                 THEN [Idle EXCEPT !.pc = "assign_delete", !.target = u,
                                   !.want = codes]
                 ELSE Idle]
    /\ UNCHANGED <<tables, roleLock, locks, history>>

AssignReadRows(r) ==
    LET u == req[r].target IN
    /\ req[r].pc = "assign_delete"
    /\ req' = [req EXCEPT ![r].pc = "assign_insert", ![r].found = roles[u]]
    /\ UNCHANGED <<tables, roleLock, locks, history>>

AssignDeleteAtOnce(r) ==
    LET u == req[r].target IN
    /\ req[r].pc = "assign_delete"
    /\ roles[u] # {} => locks[u] = {}
    /\ roles' = [roles EXCEPT ![u] = {}]
    /\ req' = [req EXCEPT ![r].pc = "assign_insert", ![r].found = roles[u]]
    /\ UNCHANGED <<accounts, nextId, roleLock, locks, history>>

\* DELETE the user's rows, which locks them, or the gap if there are none.
AssignDelete(r) ==
    LET u == req[r].target IN
    /\ req[r].pc = "assign_delete"
    /\ roles[u] # {} => locks[u] = {}
    /\ locks' = [locks EXCEPT ![u] = @ \cup {r}]
    /\ req' = [req EXCEPT ![r].pc = "assign_insert", ![r].found = roles[u]]
    /\ UNCHANGED <<tables, roleLock, history>>

\* INSERT the wanted rows and commit.
AssignCommit(r) ==
    LET u == req[r].target IN
    /\ req[r].pc = "assign_insert"
    /\ locks[u] \subseteq {r}
    /\ roles' = [roles EXCEPT ![u] = (@ \ req[r].found) \cup req[r].want]
    /\ granted' = IF accounts[u] = None THEN granted ELSE granted \cup {u}
    /\ vacantAt' = IF Administrators(roles') = {} THEN bootstraps ELSE vacantAt
    /\ req' = [q \in Req |->
                 IF q = r THEN Idle
                 ELSE IF req[q].pc = "list_permissions" /\ req[q].target = u
                 THEN [req[q] EXCEPT !.seen = @ \cup {req[r].want}]
                 ELSE req[q]]
    /\ ReleaseLocks(r)
    /\ UNCHANGED <<accounts, nextId, bootstraps>>

-----------------------------------------------------------------------------
(* GET /users/me/authorization: GetMyAuthorizationHandler and              *)
(* GetUserAuthorization, two reads outside any transaction.                *)

ListUserRoleCodes(r, u) ==
    /\ req[r].pc = "idle"
    /\ accounts[u] # None
    /\ req' = [req EXCEPT ![r] = [Idle EXCEPT !.pc = "list_permissions", !.target = u,
                                             !.found = roles[u], !.seen = {roles[u]}]]
    /\ UNCHANGED <<tables, roleLock, locks, history>>

ListPermissionsOfEveryone(r) ==
    /\ req[r].pc = "list_permissions"
    /\ req' = [req EXCEPT ![r].pc = "listed",
                          ![r].perms = UNION {PermissionsOf(roles[u]) : u \in Id}]
    /\ UNCHANGED <<tables, roleLock, locks, history>>

ListUserPermissionCodes(r) ==
    /\ req[r].pc = "list_permissions"
    /\ req' = [req EXCEPT ![r].pc = "listed",
                          ![r].perms = PermissionsOf(roles[req[r].target])]
    /\ UNCHANGED <<tables, roleLock, locks, history>>

-----------------------------------------------------------------------------

\* An error, a timeout or a deadlock victim: the transaction rolls back.  A query
\* that has its answer ends here too.
Fail(r) ==
    /\ req[r].pc # "idle"
    /\ End(r)
    /\ ReleaseLocks(r)
    /\ UNCHANGED <<tables, history>>

Init ==
    /\ accounts = [u \in Id |-> None]
    /\ nextId = 1
    /\ roles = [u \in Id |-> {}]
    /\ roleLock = None
    /\ locks = [u \in Id |-> {}]
    /\ req = [r \in Req |-> Idle]
    /\ granted = {}
    /\ bootstraps = 0
    /\ vacantAt = 0

Next ==
    \E r \in Req :
        \/ \E n \in Name : RegisterBegin(r, n) \/ BootstrapLock(r, n)
        \/ RegisterCommit(r)
        \/ BootstrapCount(r) \/ BootstrapCommit(r)
        \/ \E actor, u \in Id, codes \in SUBSET (Role \cup {"unknown"}) :
              AssignBegin(r, actor, u, codes)
        \/ AssignDelete(r) \/ AssignCommit(r)
        \/ \E u \in Id : ListUserRoleCodes(r, u)
        \/ ListUserPermissionCodes(r)
        \/ Fail(r)

Spec == Init /\ [][Next]_vars

-----------------------------------------------------------------------------

\* Of bootstraps that race, one succeeds: at most one does for each time the system
\* was without an administrator.  (A bootstrap may still succeed beside an
\* administrator: one made, after it counted none, by an assignment under way whose
\* actor has been demoted since.)
OneBootstrapPerVacancy == bootstraps <= vacantAt + 1

\* The administrator is initialised once and for all: BootstrapAdmin succeeds at
\* most once.
BootstrapOnce == bootstraps <= 1

\* Whatever replacements and registrations race or fail half-way, an account is
\* never without a role.
AccountsKeepRoles ==
    \A u \in Id : accounts[u] # None => roles[u] # {}

\* A replacement of roles leaves exactly the roles it asked for, never a mixture
\* with those of a concurrent replacement or registration.
RolesAsRequested ==
    [][\A r \in Req : AssignCommit(r) =>
          roles'[req[r].target] = req[r].want]_vars

\* The answer of GetUserAuthorization lists roles, and the permissions of roles,
\* that the user had while the query ran: its two reads may see different
\* replacements (the lists need not match), but never half of one, an account
\* without roles, or a permission the user did not have.
AuthorizationWasTrue ==
    \A r \in Req : req[r].pc = "listed" =>
        /\ req[r].found \in req[r].seen /\ req[r].found # {}
        /\ \E codes \in req[r].seen : req[r].perms = PermissionsOf(codes)

\* A user who only registered has the user role and no other.
RegisteredIsPlainUser ==
    \A u \in Id \ granted : accounts[u] # None => roles[u] = {"user"}

=============================================================================
