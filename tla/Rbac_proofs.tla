----------------------------- MODULE Rbac_proofs ----------------------------
(* Machine-checked proofs about accounts and roles, for any number of names,  *)
(* accounts and concurrent requests and commands.                             *)
EXTENDS Rbac, TLAPS

\* An id is given out once, in ascending order.
IdsOK == \A u \in Id : accounts[u] # None => u < nextId

\* A bootstrap since the system was last without an administrator has one to show.
BootstrapsOK == bootstraps > vacantAt => Administrators(roles) # {}

\* What a request under way relies on: it has a name to register; a bootstrap holds
\* the role's row and has seen the system without an administrator since the last
\* one; an assignment knows what it wants, and once it has deleted holds the rows,
\* which are still those it found; a query has roles the user has had since it began.
LocalOK(r) ==
    LET m == req[r] IN
    /\ m.pc \in {"register", "boot_count", "boot_commit"} => m.name \in Name
    /\ m.pc \in {"boot_count", "boot_commit"} => roleLock = r
    /\ m.pc = "boot_commit" => bootstraps = vacantAt
    /\ m.pc \in {"assign_delete", "assign_insert"} => m.target \in Id /\ m.want # {}
    /\ m.pc = "assign_insert" => r \in locks[m.target] /\ m.found = roles[m.target]
    /\ m.pc \in {"list_permissions", "listed"} => m.found \in m.seen /\ m.found # {}
    /\ m.pc = "list_permissions" => /\ m.target \in Id /\ accounts[m.target] # None
                                    /\ roles[m.target] \in m.seen
    /\ m.pc = "listed" => \E codes \in m.seen : m.perms = PermissionsOf(codes)

LocalsOK == \A r \in Req : LocalOK(r)

IInv ==
    /\ TypeOK /\ IdsOK /\ LocalsOK /\ BootstrapsOK
    /\ OneBootstrapPerVacancy /\ AccountsKeepRoles

-----------------------------------------------------------------------------

\* Roles grant permissions of the permissions table only.
LEMMA PermissionsType == \A codes \in SUBSET Role : PermissionsOf(codes) \in SUBSET Permission
BY DEF PermissionsOf, RolePermissions, Role, Permission

\* The idle request is a request.
LEMMA IdleType == Idle \in Request /\ Idle.pc = "idle"
BY DEF Idle, Request

\* Empty tables, nobody under way.
LEMMA InitInv == Init => IInv
<1> SUFFICES ASSUME Init PROVE IInv
  OBVIOUS
<1>1. TypeOK
  BY IdleType, RbacAssumption DEF Init, TypeOK, Id
<1>2. LocalsOK
  BY IdleType DEF Init, LocalsOK, LocalOK
<1> QED
  BY <1>1, <1>2 DEF Init, IInv, IdsOK, BootstrapsOK, OneBootstrapPerVacancy,
                    AccountsKeepRoles

\* A step of request r that leaves the tables alone, gives the request m, and takes
\* or releases locks of r only.
LEMMA RequestStep ==
    ASSUME IInv, NEW r \in Req, NEW m \in Request,
           req' = [req EXCEPT ![r] = m],
           UNCHANGED <<accounts, nextId, roles, history>>,
           roleLock' \in Req \cup {None},
           roleLock' = roleLock \/ roleLock \in {r, None},
           locks' \in [Id -> SUBSET Req],
           \A u \in Id : \A q \in Req : q # r => (q \in locks'[u]) = (q \in locks[u]),
           LocalOK(r)'
    PROVE  IInv'
<1>1. /\ req' \in [Req -> Request]
      /\ \A q \in Req : q # r => req'[q] = req[q]
  BY DEF IInv, TypeOK
<1>2. TypeOK'
  BY <1>1 DEF IInv, TypeOK, history
<1>3. ASSUME NEW q \in Req PROVE LocalOK(q)'
  <2>1. CASE q = r
    BY <2>1
  <2>2. CASE q # r
    <3>1. LocalOK(q) /\ req'[q] = req[q]
      BY <1>1, <2>2 DEF IInv, LocalsOK
    <3>2. roleLock = q => roleLock' = q
      BY <2>2, RbacAssumption
    <3> QED
      BY <2>2, <3>1, <3>2 DEF LocalOK, history
  <2> QED
    BY <2>1, <2>2
<1> QED
  BY <1>2, <1>3 DEF IInv, LocalsOK, IdsOK, BootstrapsOK, OneBootstrapPerVacancy,
                    AccountsKeepRoles, Administrators, history

\* Beginning a request that reads before its transaction, or only reads.
LEMMA QuietStep ==
    ASSUME IInv, NEW r \in Req, NEW m \in Request,
           req' = [req EXCEPT ![r] = m],
           UNCHANGED <<accounts, nextId, roles, roleLock, locks, history>>,
           LocalOK(r)'
    PROVE  IInv'
<1>1. roleLock' \in Req \cup {None} /\ locks' \in [Id -> SUBSET Req]
  BY DEF IInv, TypeOK
<1> QED
  BY <1>1, RequestStep

\* A request that ends without having changed anything releases its locks.
LEMMA EndStep ==
    ASSUME IInv, NEW r \in Req, End(r), ReleaseLocks(r),
           UNCHANGED <<accounts, nextId, roles, history>>
    PROVE  IInv'
<1>1. /\ req' = [req EXCEPT ![r] = Idle]
      /\ roleLock' = IF roleLock = r THEN None ELSE roleLock
      /\ locks' = [u \in Id |-> locks[u] \ {r}]
  BY DEF End, ReleaseLocks
<1>2. /\ roleLock' \in Req \cup {None} /\ locks' \in [Id -> SUBSET Req]
      /\ roleLock' = roleLock \/ roleLock \in {r, None}
      /\ \A u \in Id : \A q \in Req : q # r => (q \in locks'[u]) = (q \in locks[u])
  BY <1>1 DEF IInv, TypeOK
<1>3. LocalOK(r)'
  <2>1. req'[r] = Idle
    BY <1>1 DEF IInv, TypeOK
  <2> QED
    BY <2>1, IdleType DEF LocalOK
<1> QED
  BY <1>1, <1>2, <1>3, IdleType, RequestStep

-----------------------------------------------------------------------------
(* Registration. *)

\* The name is looked up; nothing is relied on later.
LEMMA RegisterBeginInv ==
    ASSUME IInv, NEW r \in Req, NEW n \in Name, RegisterBegin(r, n)
    PROVE  IInv'
<1> DEFINE m == IF Taken(n) THEN Idle ELSE [Idle EXCEPT !.pc = "register", !.name = n]
<1>1. /\ m \in Request /\ m.pc \in {"idle", "register"}
      /\ m.pc = "register" => m.name \in Name
  BY DEF Idle, Request
<1>2. /\ req' = [req EXCEPT ![r] = m]
      /\ UNCHANGED <<accounts, nextId, roles, roleLock, locks, history>>
  BY DEF RegisterBegin, tables
<1> HIDE DEF m
<1>3. LocalOK(r)'
  <2>1. req'[r] = m
    BY <1>2 DEF IInv, TypeOK
  <2> QED
    BY <1>1, <2>1 DEF LocalOK
<1> QED
  BY <1>1, <1>2, <1>3, QuietStep

\* A new account, the next id, gets roles codes beside those it may have already:
\* an assignment that has deleted its rows keeps everybody else from inserting,
\* and no query is about an account that does not exist.
LEMMA NewAccount ==
    ASSUME IInv, NEW r \in Req, NEW n \in Name, NEW codes \in SUBSET Role,
           req[r].pc \notin {"assign_delete", "assign_insert", "list_permissions"},
           codes # {}, nextId <= MaxId, MayInsert(r, nextId, codes),
           nextId' = nextId + 1,
           accounts' = [accounts EXCEPT ![nextId] = n],
           roles' = [roles EXCEPT ![nextId] = @ \cup codes]
    PROVE  /\ nextId \in Id /\ nextId' \in 1..(MaxId + 1)
           /\ accounts' \in [Id -> Name \cup {None}] /\ roles' \in [Id -> SUBSET Role]
           /\ IdsOK' /\ AccountsKeepRoles'
           /\ \A u \in Id : roles[u] \subseteq roles'[u]
           /\ \A q \in Req : q # r /\ req[q].pc = "assign_insert" =>
                 roles'[req[q].target] = roles[req[q].target]
           /\ \A q \in Req : req[q].pc = "list_permissions" =>
                 /\ roles'[req[q].target] = roles[req[q].target]
                 /\ accounts'[req[q].target] = accounts[req[q].target]
<1>1. /\ accounts \in [Id -> Name \cup {None}] /\ roles \in [Id -> SUBSET Role]
      /\ nextId \in Nat /\ MaxId \in Nat
  BY RbacAssumption DEF IInv, TypeOK
<1>2. nextId \in Id /\ nextId' \in 1..(MaxId + 1)
  BY <1>1 DEF IInv, TypeOK, Id
<1>3. accounts' \in [Id -> Name \cup {None}] /\ roles' \in [Id -> SUBSET Role]
  BY <1>1
<1>4. IdsOK'
  BY <1>1 DEF IInv, IdsOK, Id
<1>5. AccountsKeepRoles'
  BY <1>1 DEF IInv, AccountsKeepRoles
<1>6. \A u \in Id : roles[u] \subseteq roles'[u]
  BY <1>1
<1>7. ASSUME NEW q \in Req, q # r, req[q].pc = "assign_insert"
      PROVE  roles'[req[q].target] = roles[req[q].target]
  <2>1. q \in locks[req[q].target] /\ req[q].target \in Id
    BY <1>7 DEF IInv, LocalsOK, LocalOK
  <2>2. CASE req[q].target = nextId
    <3>1. codes \subseteq roles[nextId]
      BY <1>7, <2>1, <2>2 DEF MayInsert
    <3> QED
      BY <1>1, <2>2, <3>1
  <2>3. CASE req[q].target # nextId
    BY <1>1, <2>1, <2>3
  <2> QED
    BY <2>2, <2>3
<1>8. ASSUME NEW q \in Req, req[q].pc = "list_permissions"
      PROVE  /\ roles'[req[q].target] = roles[req[q].target]
             /\ accounts'[req[q].target] = accounts[req[q].target]
  <2>1. req[q].target \in Id /\ accounts[req[q].target] # None
    BY <1>8 DEF IInv, LocalsOK, LocalOK
  <2>2. req[q].target # nextId
    BY <1>1, <2>1 DEF IInv, IdsOK
  <2> QED
    BY <1>1, <2>1, <2>2
<1> QED
  BY <1>2, <1>3, <1>4, <1>5, <1>6, <1>7, <1>8

\* User and role in one transaction; a name that is taken by now is turned away.
LEMMA RegisterCommitInv ==
    ASSUME IInv, NEW r \in Req, RegisterCommit(r)
    PROVE  IInv'
<1>1. /\ req[r].pc = "register" /\ nextId <= MaxId /\ nextId' = nextId + 1
      /\ req' = [req EXCEPT ![r] = Idle]
      /\ UNCHANGED <<roleLock, locks, granted, bootstraps, vacantAt>>
  BY DEF RegisterCommit, End, history
<1>2. /\ req' \in [Req -> Request] /\ req'[r] = Idle
      /\ \A q \in Req : q # r => req'[q] = req[q]
  BY <1>1, IdleType DEF IInv, TypeOK
<1>3. LocalOK(r)'
  BY <1>2, IdleType DEF LocalOK
<1>4. nextId' \in 1..(MaxId + 1)
  BY <1>1, RbacAssumption DEF IInv, TypeOK
<1>5. CASE UNCHANGED <<accounts, roles>>
  <2>1. TypeOK'
    BY <1>1, <1>2, <1>4, <1>5 DEF IInv, TypeOK
  <2>2. IdsOK'
    BY <1>1, <1>5, RbacAssumption DEF IInv, IdsOK, TypeOK, Id
  <2>3. LocalsOK'
    BY <1>1, <1>2, <1>3, <1>5 DEF IInv, LocalsOK, LocalOK
  <2> QED
    BY <1>1, <1>5, <2>1, <2>2, <2>3
       DEF IInv, BootstrapsOK, OneBootstrapPerVacancy, AccountsKeepRoles, Administrators
<1>6. CASE ~UNCHANGED <<accounts, roles>>
  <2>1. /\ MayInsert(r, nextId, {"user"})
        /\ accounts' = [accounts EXCEPT ![nextId] = req[r].name]
        /\ roles' = [roles EXCEPT ![nextId] = @ \cup {"user"}]
    BY <1>6 DEF RegisterCommit, AssignRoleToUserByCode
  <2>2. req[r].name \in Name /\ {"user"} \in SUBSET Role
    BY <1>1 DEF IInv, LocalsOK, LocalOK, Role
  <2>3. /\ accounts' \in [Id -> Name \cup {None}] /\ roles' \in [Id -> SUBSET Role]
        /\ IdsOK' /\ AccountsKeepRoles'
        /\ \A u \in Id : roles[u] \subseteq roles'[u]
        /\ \A q \in Req : q # r /\ req[q].pc = "assign_insert" =>
              roles'[req[q].target] = roles[req[q].target]
        /\ \A q \in Req : req[q].pc = "list_permissions" =>
              /\ roles'[req[q].target] = roles[req[q].target]
              /\ accounts'[req[q].target] = accounts[req[q].target]
    BY <1>1, <2>1, <2>2, NewAccount
  <2>4. TypeOK'
    BY <1>1, <1>2, <1>4, <2>3 DEF IInv, TypeOK
  <2>5. ASSUME NEW q \in Req, q # r PROVE LocalOK(q)'
    <3>1. LocalOK(q) /\ req'[q] = req[q]
      BY <1>2, <2>5 DEF IInv, LocalsOK
    <3> QED
      BY <1>1, <2>3, <2>5, <3>1 DEF LocalOK
  <2>6. BootstrapsOK'
    BY <1>1, <2>3 DEF IInv, BootstrapsOK, Administrators
  <2> QED
    BY <1>1, <1>3, <2>3, <2>4, <2>5, <2>6 DEF IInv, LocalsOK, OneBootstrapPerVacancy
<1> QED
  BY <1>5, <1>6

-----------------------------------------------------------------------------
(* The bootstrap-admin command. *)

\* SELECT ... FOR UPDATE of the role's row, free until now.
LEMMA BootstrapLockInv ==
    ASSUME IInv, NEW r \in Req, NEW n \in Name, BootstrapLock(r, n)
    PROVE  IInv'
<1> DEFINE m == [Idle EXCEPT !.pc = "boot_count", !.name = n]
<1>1. m \in Request /\ m.pc = "boot_count" /\ m.name = n
  BY DEF Idle, Request
<1>2. /\ req' = [req EXCEPT ![r] = m] /\ roleLock = None /\ roleLock' = r
      /\ UNCHANGED <<accounts, nextId, roles, locks, history>>
  BY DEF BootstrapLock, tables
<1> HIDE DEF m
<1>3. LocalOK(r)'
  <2>1. req'[r] = m
    BY <1>2 DEF IInv, TypeOK
  <2> QED
    BY <1>1, <1>2, <2>1 DEF LocalOK
<1>4. locks' \in [Id -> SUBSET Req]
  BY <1>2 DEF IInv, TypeOK
<1> QED
  BY <1>1, <1>2, <1>3, <1>4, RequestStep

\* Nobody is an administrator, so no bootstrap has succeeded since that is so, and
\* as long as this one holds the row none will.
LEMMA BootstrapCountInv ==
    ASSUME IInv, NEW r \in Req, BootstrapCount(r)
    PROVE  IInv'
<1>1. req[r].pc = "boot_count" /\ UNCHANGED <<accounts, nextId, roles, history>>
  BY DEF BootstrapCount, tables
<1>2. CASE End(r) /\ ReleaseLocks(r)
  BY <1>1, <1>2, EndStep
<1>3. CASE ~(End(r) /\ ReleaseLocks(r))
  <2> DEFINE m == [req[r] EXCEPT !.pc = "boot_commit"]
  <2>1. /\ Administrators(roles) = {} /\ UNCHANGED <<roleLock, locks>>
        /\ req' = [req EXCEPT ![r].pc = "boot_commit"]
    BY <1>3 DEF BootstrapCount
  <2>2. req[r] \in Request /\ req \in [Req -> Request]
    BY DEF IInv, TypeOK
  <2>3. m \in Request /\ m.pc = "boot_commit" /\ m.name = req[r].name
        /\ req' = [req EXCEPT ![r] = m] /\ req'[r] = m
    BY <2>1, <2>2 DEF Request
  <2>4. bootstraps = vacantAt
    BY <2>1 DEF IInv, BootstrapsOK, TypeOK
  <2>5. LocalOK(r)
    BY DEF IInv, LocalsOK
  <2> HIDE DEF m
  <2>6. LocalOK(r)'
    BY <1>1, <2>1, <2>3, <2>4, <2>5 DEF LocalOK, history
  <2> QED
    BY <1>1, <2>1, <2>3, <2>6, QuietStep
<1> QED
  BY <1>2, <1>3

\* The administrator is created, by the first bootstrap since there was none: the
\* row of the role was held from the count to the commit.
LEMMA BootstrapCommitInv ==
    ASSUME IInv, NEW r \in Req, BootstrapCommit(r)
    PROVE  IInv'
<1>1. /\ req[r].pc = "boot_commit" /\ nextId <= MaxId /\ nextId' = nextId + 1
      /\ req' = [req EXCEPT ![r] = Idle]
      /\ roleLock' = IF roleLock = r THEN None ELSE roleLock
      /\ locks' = [u \in Id |-> locks[u] \ {r}]
      /\ UNCHANGED vacantAt
  BY DEF BootstrapCommit, End, ReleaseLocks
<1>2. /\ req' \in [Req -> Request] /\ req'[r] = Idle
      /\ \A q \in Req : q # r => req'[q] = req[q]
  BY <1>1, IdleType DEF IInv, TypeOK
<1>3. /\ roleLock' \in Req \cup {None} /\ locks' \in [Id -> SUBSET Req]
      /\ \A u \in Id : \A q \in Req : q # r => (q \in locks'[u]) = (q \in locks[u])
  BY <1>1 DEF IInv, TypeOK
<1>4. LocalOK(r)'
  BY <1>2, IdleType DEF LocalOK
<1>5. /\ roleLock = r /\ bootstraps = vacantAt /\ req[r].name \in Name
      /\ nextId' \in 1..(MaxId + 1)
  BY <1>1, RbacAssumption DEF IInv, LocalsOK, LocalOK, TypeOK
<1>6. \A q \in Req : q # r => req[q].pc \notin {"boot_count", "boot_commit"}
  BY <1>5 DEF IInv, LocalsOK, LocalOK
<1>7. CASE UNCHANGED <<accounts, roles, granted, bootstraps>>
  <2>1. TypeOK'
    BY <1>1, <1>2, <1>3, <1>5, <1>7 DEF IInv, TypeOK
  <2>2. IdsOK'
    BY <1>1, <1>7, RbacAssumption DEF IInv, IdsOK, TypeOK, Id
  <2>3. ASSUME NEW q \in Req, q # r PROVE LocalOK(q)'
    <3>1. LocalOK(q) /\ req'[q] = req[q]
      BY <1>2, <2>3 DEF IInv, LocalsOK
    <3> QED
      BY <1>1, <1>3, <1>6, <1>7, <2>3, <3>1 DEF LocalOK
  <2> QED
    BY <1>1, <1>4, <1>7, <2>1, <2>2, <2>3
       DEF IInv, LocalsOK, BootstrapsOK, OneBootstrapPerVacancy, AccountsKeepRoles,
           Administrators
<1>8. CASE ~UNCHANGED <<accounts, roles, granted, bootstraps>>
  <2> DEFINE codes == {"user", "admin"}
  <2>1. /\ MayInsert(r, nextId, codes)
        /\ accounts' = [accounts EXCEPT ![nextId] = req[r].name]
        /\ roles' = AssignRoleToUserByCode(
                        AssignRoleToUserByCode(roles, nextId, "user"), nextId, "admin")
        /\ granted' = granted \cup {nextId} /\ bootstraps' = bootstraps + 1
    BY <1>8 DEF BootstrapCommit
  <2>2. nextId \in Id /\ roles \in [Id -> SUBSET Role] /\ codes \in SUBSET Role
    BY <1>1, RbacAssumption DEF IInv, TypeOK, Id, Role
  <2>3. roles' = [roles EXCEPT ![nextId] = @ \cup codes]
    BY <2>1, <2>2 DEF AssignRoleToUserByCode
  <2>4. /\ accounts' \in [Id -> Name \cup {None}] /\ roles' \in [Id -> SUBSET Role]
        /\ IdsOK' /\ AccountsKeepRoles'
        /\ \A q \in Req : q # r /\ req[q].pc = "assign_insert" =>
              roles'[req[q].target] = roles[req[q].target]
        /\ \A q \in Req : req[q].pc = "list_permissions" =>
              /\ roles'[req[q].target] = roles[req[q].target]
              /\ accounts'[req[q].target] = accounts[req[q].target]
    BY <1>1, <1>5, <2>1, <2>2, <2>3, NewAccount
  <2>5. /\ granted' \in SUBSET Id /\ bootstraps' = vacantAt' + 1
        /\ bootstraps' \in Nat /\ vacantAt' \in 0..bootstraps'
    BY <1>1, <1>5, <2>1, <2>2 DEF IInv, TypeOK
  <2>6. TypeOK'
    BY <1>2, <1>3, <1>5, <2>4, <2>5 DEF TypeOK
  <2>7. ASSUME NEW q \in Req, q # r PROVE LocalOK(q)'
    <3>1. LocalOK(q) /\ req'[q] = req[q]
      BY <1>2, <2>7 DEF IInv, LocalsOK
    <3>2. req[q].pc = "assign_insert" => req[q].target \in Id
      BY <3>1 DEF LocalOK
    <3> QED
      BY <1>3, <1>6, <2>4, <2>7, <3>1, <3>2 DEF LocalOK
  <2>8. BootstrapsOK'
    BY <2>2, <2>3 DEF BootstrapsOK, Administrators
  <2>9. OneBootstrapPerVacancy'
    <3>1. vacantAt \in Nat /\ vacantAt' = vacantAt /\ bootstraps' = vacantAt + 1
      BY <1>1, <1>5, <2>1 DEF IInv, TypeOK
    <3> QED
      BY <3>1 DEF OneBootstrapPerVacancy
  <2> QED
    BY <1>4, <2>4, <2>6, <2>7, <2>8, <2>9 DEF IInv, LocalsOK
<1> QED
  BY <1>7, <1>8

-----------------------------------------------------------------------------
(* Replacement of a user's roles. *)

\* The permission and the role codes are checked before the transaction.
LEMMA AssignBeginInv ==
    ASSUME IInv, NEW r \in Req, NEW actor \in Id, NEW u \in Id, NEW codes,
           AssignBegin(r, actor, u, codes)
    PROVE  IInv'
<1> DEFINE m == [Idle EXCEPT !.pc = "assign_delete", !.target = u, !.want = codes]
<1>1. UNCHANGED <<accounts, nextId, roles, roleLock, locks, history>>
  BY DEF AssignBegin, tables
<1>2. CASE req' = [req EXCEPT ![r] = Idle]
  <2>1. req'[r] = Idle
    BY <1>2 DEF IInv, TypeOK
  <2>2. LocalOK(r)'
    BY <2>1, IdleType DEF LocalOK
  <2> QED
    BY <1>1, <1>2, <2>2, IdleType, QuietStep
<1>3. CASE req' # [req EXCEPT ![r] = Idle]
  <2>1. req' = [req EXCEPT ![r] = m] /\ codes # {} /\ codes \in SUBSET Role
    BY <1>3 DEF AssignBegin
  <2>2. m \in Request /\ m.pc = "assign_delete" /\ m.target = u /\ m.want = codes
    BY <2>1 DEF Idle, Request
  <2>3. req'[r] = m
    BY <2>1 DEF IInv, TypeOK
  <2> HIDE DEF m
  <2>4. LocalOK(r)'
    BY <2>1, <2>2, <2>3 DEF LocalOK
  <2> QED
    BY <1>1, <2>1, <2>2, <2>4, QuietStep
<1> QED
  BY <1>2, <1>3

\* DELETE finds the user's roles and locks their rows or the gap.
LEMMA AssignDeleteInv ==
    ASSUME IInv, NEW r \in Req, AssignDelete(r)
    PROVE  IInv'
<1> DEFINE u == req[r].target
           m == [req[r] EXCEPT !.pc = "assign_insert", !.found = roles[u]]
<1>1. /\ req[r].pc = "assign_delete" /\ locks' = [locks EXCEPT ![u] = @ \cup {r}]
      /\ UNCHANGED <<accounts, nextId, roles, roleLock, history>>
      /\ req' = [req EXCEPT ![r].pc = "assign_insert", ![r].found = roles[u]]
  BY DEF AssignDelete, tables
<1>2. req[r] \in Request /\ req \in [Req -> Request] /\ locks \in [Id -> SUBSET Req]
      /\ roles \in [Id -> SUBSET Role] /\ roleLock \in Req \cup {None}
  BY DEF IInv, TypeOK
<1>3. u \in Id /\ req[r].want # {}
  BY <1>1 DEF IInv, LocalsOK, LocalOK
<1>4. /\ m \in Request /\ m.pc = "assign_insert" /\ m.target = u
      /\ m.want = req[r].want /\ m.found = roles[u]
      /\ req' = [req EXCEPT ![r] = m] /\ req'[r] = m
  <2>1. roles[u] \in SUBSET Role
    BY <1>2, <1>3
  <2>2. /\ m \in Request /\ m.pc = "assign_insert" /\ m.target = u
        /\ m.want = req[r].want /\ m.found = roles[u]
    BY <1>2, <2>1 DEF Request
  <2>3. req' = [req EXCEPT ![r] = m]
    BY <1>1, <1>2
  <2> QED
    BY <1>2, <2>2, <2>3
<1>5. /\ locks' \in [Id -> SUBSET Req] /\ r \in locks'[u]
      /\ \A w \in Id : \A q \in Req : q # r => (q \in locks'[w]) = (q \in locks[w])
  BY <1>1, <1>2, <1>3
<1> HIDE DEF m
<1>6. LocalOK(r)'
  BY <1>1, <1>3, <1>4, <1>5 DEF LocalOK
<1> QED
  BY <1>1, <1>2, <1>4, <1>5, <1>6, RequestStep

\* The rows found are still the user's only ones when the wanted ones replace them.
LEMMA AssignReplaces ==
    ASSUME IInv, NEW r \in Req, AssignCommit(r)
    PROVE  /\ req[r].target \in Id /\ req[r].want # {} /\ req[r].want \in SUBSET Role
           /\ roles' = [roles EXCEPT ![req[r].target] = req[r].want]
<1>1. /\ req[r].pc = "assign_insert"
      /\ roles' = [roles EXCEPT ![req[r].target] = (@ \ req[r].found) \cup req[r].want]
  BY DEF AssignCommit
<1>2. /\ req[r].target \in Id /\ req[r].want # {}
      /\ req[r].found = roles[req[r].target]
  BY <1>1 DEF IInv, LocalsOK, LocalOK
<1>3. req[r] \in Request /\ roles \in [Id -> SUBSET Role]
  BY DEF IInv, TypeOK
<1> QED
  BY <1>1, <1>2, <1>3 DEF Request

\* INSERT and commit: nobody else holds the rows, and queries of the user record
\* what its roles are now.
LEMMA AssignCommitInv ==
    ASSUME IInv, NEW r \in Req, AssignCommit(r)
    PROVE  IInv'
<1> DEFINE u == req[r].target
           w == req[r].want
<1>1. /\ u \in Id /\ w # {} /\ w \in SUBSET Role /\ roles' = [roles EXCEPT ![u] = w]
  BY AssignReplaces
<1>2. /\ req[r].pc = "assign_insert" /\ locks[u] \subseteq {r}
      /\ granted' = IF accounts[u] = None THEN granted ELSE granted \cup {u}
      /\ vacantAt' = IF Administrators(roles') = {} THEN bootstraps ELSE vacantAt
      /\ req' = [q \in Req |->
                   IF q = r THEN Idle
                   ELSE IF req[q].pc = "list_permissions" /\ req[q].target = u
                   THEN [req[q] EXCEPT !.seen = @ \cup {w}]
                   ELSE req[q]]
      /\ roleLock' = IF roleLock = r THEN None ELSE roleLock
      /\ locks' = [x \in Id |-> locks[x] \ {r}]
      /\ UNCHANGED <<accounts, nextId, bootstraps>>
  BY DEF AssignCommit, ReleaseLocks
<1>3. /\ req \in [Req -> Request] /\ roles \in [Id -> SUBSET Role]
      /\ locks \in [Id -> SUBSET Req] /\ roleLock \in Req \cup {None}
      /\ granted \in SUBSET Id /\ bootstraps \in Nat /\ vacantAt \in 0..bootstraps
  BY DEF IInv, TypeOK
<1>4. ASSUME NEW q \in Req
      PROVE  /\ req'[q] \in Request
             /\ q = r => req'[q] = Idle
             /\ q # r => /\ req'[q].pc = req[q].pc /\ req'[q].name = req[q].name
                         /\ req'[q].target = req[q].target
                         /\ req'[q].want = req[q].want /\ req'[q].found = req[q].found
                         /\ req'[q].perms = req[q].perms
                         /\ req[q].seen \subseteq req'[q].seen
                         /\ req[q].pc = "list_permissions" /\ req[q].target = u =>
                               w \in req'[q].seen
  <2>1. req[q] \in Request
    BY <1>3
  <2>2. CASE q = r
    BY <1>2, <2>2, IdleType
  <2>3. CASE q # r /\ req[q].pc = "list_permissions" /\ req[q].target = u
    <3>1. req'[q] = [req[q] EXCEPT !.seen = @ \cup {w}]
      BY <1>2, <2>3
    <3> QED
      BY <1>1, <2>1, <2>3, <3>1 DEF Request
  <2>4. CASE q # r /\ ~(req[q].pc = "list_permissions" /\ req[q].target = u)
    <3>1. req'[q] = req[q]
      BY <1>2, <2>4
    <3> QED
      BY <2>1, <2>4, <3>1
  <2> QED
    BY <2>2, <2>3, <2>4
<1>5. req' \in [Req -> Request]
  BY <1>2, <1>4
<1>6. TypeOK'
  BY <1>1, <1>2, <1>3, <1>5 DEF IInv, TypeOK
<1>7. IdsOK' /\ AccountsKeepRoles'
  BY <1>1, <1>2, <1>3 DEF IInv, IdsOK, AccountsKeepRoles
<1>8. BootstrapsOK' /\ OneBootstrapPerVacancy'
  BY <1>2, <1>3 DEF IInv, BootstrapsOK, OneBootstrapPerVacancy
<1>9. ASSUME NEW q \in Req PROVE LocalOK(q)'
  <2>1. CASE q = r
    BY <1>4, <2>1, IdleType DEF LocalOK
  <2>2. CASE q # r
    <3>1. LocalOK(q)
      BY DEF IInv, LocalsOK
    <3>2. req[q].pc = "assign_insert" =>
            /\ req[q].target \in Id /\ q \in locks[req[q].target]
            /\ req[q].target # u /\ roles'[req[q].target] = roles[req[q].target]
            /\ q \in locks'[req[q].target]
      BY <1>1, <1>2, <1>3, <2>2, <3>1 DEF LocalOK
    <3>3. req[q].pc = "list_permissions" => roles'[req[q].target] \in req'[q].seen
      BY <1>1, <1>3, <1>4, <2>2, <3>1 DEF LocalOK
    <3>4. bootstraps = vacantAt => bootstraps' = vacantAt'
      BY <1>2
    <3>5. roleLock = q => roleLock' = q
      BY <1>2, <2>2
    <3>6. (\E codes \in req[q].seen : req[q].perms = PermissionsOf(codes)) =>
             \E codes \in req'[q].seen : req'[q].perms = PermissionsOf(codes)
      BY <1>4, <2>2
    <3> QED
      BY <1>2, <1>4, <2>2, <3>1, <3>2, <3>3, <3>4, <3>5, <3>6 DEF LocalOK
  <2> QED
    BY <2>1, <2>2
<1> QED
  BY <1>6, <1>7, <1>8, <1>9 DEF IInv, LocalsOK

-----------------------------------------------------------------------------
(* The query of one's own roles and permissions. *)

\* The roles are read; an account always has some.
LEMMA ListRolesInv ==
    ASSUME IInv, NEW r \in Req, NEW u \in Id, ListUserRoleCodes(r, u)
    PROVE  IInv'
<1> DEFINE m == [Idle EXCEPT !.pc = "list_permissions", !.target = u,
                             !.found = roles[u], !.seen = {roles[u]}]
<1>1. /\ accounts[u] # None /\ req' = [req EXCEPT ![r] = m]
      /\ UNCHANGED <<accounts, nextId, roles, roleLock, locks, history>>
  BY DEF ListUserRoleCodes, tables
<1>2. roles[u] \in SUBSET Role /\ roles[u] # {} /\ req \in [Req -> Request]
  BY <1>1 DEF IInv, TypeOK, AccountsKeepRoles
<1>3. /\ m \in Request /\ m.pc = "list_permissions" /\ m.target = u
      /\ m.found = roles[u] /\ roles[u] \in m.seen
  BY <1>2 DEF Idle, Request
<1> HIDE DEF m
<1>4. LocalOK(r)'
  BY <1>1, <1>2, <1>3 DEF LocalOK
<1> QED
  BY <1>1, <1>3, <1>4, QuietStep

\* The permissions are read, by the roles the user has at this moment.
LEMMA ListPermissionsInv ==
    ASSUME IInv, NEW r \in Req, ListUserPermissionCodes(r)
    PROVE  IInv'
<1> DEFINE u == req[r].target
           m == [req[r] EXCEPT !.pc = "listed", !.perms = PermissionsOf(roles[u])]
<1>1. /\ req[r].pc = "list_permissions"
      /\ req' = [req EXCEPT ![r].pc = "listed", ![r].perms = PermissionsOf(roles[u])]
      /\ UNCHANGED <<accounts, nextId, roles, roleLock, locks, history>>
  BY DEF ListUserPermissionCodes, tables
<1>2. /\ u \in Id /\ req[r].found \in req[r].seen /\ req[r].found # {}
      /\ roles[u] \in req[r].seen
  BY <1>1 DEF IInv, LocalsOK, LocalOK
<1>3. req[r] \in Request /\ req \in [Req -> Request] /\ roles[u] \in SUBSET Role
  BY <1>2 DEF IInv, TypeOK
<1>4. PermissionsOf(roles[u]) \in SUBSET Permission
  BY <1>3, PermissionsType
<1>5. /\ m \in Request /\ m.pc = "listed" /\ m.perms = PermissionsOf(roles[u])
      /\ m.found = req[r].found /\ m.seen = req[r].seen
      /\ req' = [req EXCEPT ![r] = m] /\ req'[r] = m
  BY <1>1, <1>3, <1>4 DEF Request
<1> HIDE DEF m
<1>6. LocalOK(r)'
  BY <1>2, <1>5 DEF LocalOK
<1> QED
  BY <1>1, <1>5, <1>6, QuietStep

\* A rollback, or the end of a query.
LEMMA FailInv ==
    ASSUME IInv, NEW r \in Req, Fail(r)
    PROVE  IInv'
BY EndStep DEF Fail, tables

-----------------------------------------------------------------------------

\* Every step preserves the invariant.
LEMMA Inductive == IInv /\ [Next]_vars => IInv'
<1> SUFFICES ASSUME IInv, [Next]_vars PROVE IInv'
  OBVIOUS
<1>1. CASE UNCHANGED vars
  BY <1>1 DEF vars, tables, history, IInv, TypeOK, IdsOK, LocalsOK, LocalOK,
              BootstrapsOK, OneBootstrapPerVacancy, AccountsKeepRoles, Administrators
<1>2. ASSUME NEW r \in Req, NEW n \in Name, RegisterBegin(r, n) \/ BootstrapLock(r, n)
      PROVE  IInv'
  BY <1>2, RegisterBeginInv, BootstrapLockInv
<1>3. ASSUME NEW r \in Req, NEW actor \in Id, NEW u \in Id, NEW codes,
             AssignBegin(r, actor, u, codes)
      PROVE  IInv'
  BY <1>3, AssignBeginInv
<1>4. ASSUME NEW r \in Req, NEW u \in Id, ListUserRoleCodes(r, u) PROVE IInv'
  BY <1>4, ListRolesInv
<1>5. ASSUME NEW r \in Req,
             \/ RegisterCommit(r) \/ BootstrapCount(r) \/ BootstrapCommit(r)
             \/ AssignDelete(r) \/ AssignCommit(r)
             \/ ListUserPermissionCodes(r) \/ Fail(r)
      PROVE  IInv'
  BY <1>5, RegisterCommitInv, BootstrapCountInv, BootstrapCommitInv, AssignDeleteInv,
     AssignCommitInv, ListPermissionsInv, FailInv
<1> QED
  BY <1>1, <1>2, <1>3, <1>4, <1>5 DEF Next

\* The invariant holds in every reachable state.
THEOREM Invariance == Spec => []IInv
BY InitInv, Inductive, PTL DEF Spec

\* Type correctness; in particular user_roles never names a role that the roles
\* table does not have, although no foreign key says so.
THEOREM TypeCorrect == Spec => []TypeOK
<1>1. IInv => TypeOK
  BY DEF IInv
<1> QED
  BY Invariance, <1>1, PTL

\* Of bootstrap-admin commands that race, one wins: locking the role's row before
\* counting the administrators is enough.
THEOREM BootstrapCorrect == Spec => []OneBootstrapPerVacancy
<1>1. IInv => OneBootstrapPerVacancy
  BY DEF IInv
<1> QED
  BY Invariance, <1>1, PTL

\* Whatever races or fails half-way, no account is ever without a role.
THEOREM RolesKept == Spec => []AccountsKeepRoles
<1>1. IInv => AccountsKeepRoles
  BY DEF IInv
<1> QED
  BY Invariance, <1>1, PTL

\* The two reads of GetUserAuthorization list roles, and permissions of roles, the
\* user had while it ran.
THEOREM AuthorizationCorrect == Spec => []AuthorizationWasTrue
<1>1. IInv => AuthorizationWasTrue
  BY DEF IInv, LocalsOK, LocalOK, AuthorizationWasTrue
<1> QED
  BY Invariance, <1>1, PTL

\* ReplaceUserRolesByCodes leaves exactly the roles it was asked for, whatever
\* else is under way.
THEOREM ReplacementCorrect == Spec => RolesAsRequested
<1>1. IInv /\ [Next]_vars =>
        [\A r \in Req : AssignCommit(r) => roles'[req[r].target] = req[r].want]_vars
  <2>1. ASSUME IInv, NEW r \in Req, AssignCommit(r)
        PROVE  roles'[req[r].target] = req[r].want
    BY <2>1, AssignReplaces DEF IInv, TypeOK
  <2> QED
    BY <2>1
<1> QED
  BY Invariance, <1>1, PTL DEF Spec, RolesAsRequested

=============================================================================
