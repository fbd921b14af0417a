-------------------------- MODULE AdminProvisioning --------------------------
(***************************************************************************)
(* The one administrator of LegacyStore: provisioning when a backend       *)
(* process starts (cmd/legacystore-backend/main.go, EnsureAdmin in         *)
(* backend/internal/account/store_security.go) and the role operations of  *)
(* the admin API (store_admin.go), against the trigger of migration        *)
(* 000001 that is to keep the role single.                                 *)
(*                                                                         *)
(* Several processes may start and serve on one database.  The trigger's   *)
(* EXISTS sees committed rows only, so the INSERT of a role is two steps:  *)
(* the trigger lets it through, and its transaction commits.  What keeps   *)
(* two such transactions apart is elsewhere: an advisory lock between      *)
(* processes, and the rule that only an administrator changes roles.       *)
(***************************************************************************)
EXTENDS FiniteSets

CONSTANTS
    Users,      \* rows of users
    Emails,     \* normalised addresses
    Servers,    \* backend processes
    Requests,   \* concurrent requests to the admin API
    None

ASSUME ProvisioningAssumption ==
    /\ None \notin Users \cup Emails \cup Servers

VARIABLES
    email,      \* users.email, None while the row does not exist
    active,     \* users with status = 'active'
    admins,     \* committed user_roles rows of the role admin
    lock,       \* the process that holds the advisory lock
    server,     \* backend processes
    req         \* admin requests in flight

vars == <<email, active, admins, lock, server, req>>

-----------------------------------------------------------------------------
\* config is ADMIN_EMAIL, None when it is not set; inserted is the account
\* whose role row the transaction has inserted.
Server == [state : {"down", "started", "locked", "inserted", "ensured", "serving"},
           config : Emails \cup {None}, inserted : Users \cup {None}]

Request == [op : {"idle", "add", "remove", "update", "insert"},
            actor : Users \cup {None}, target : Users \cup {None}]

Down == [state |-> "down", config |-> None, inserted |-> None]
Idle == [op |-> "idle", actor |-> None, target |-> None]

Exists(u) == email[u] # None
Taken(e) == \E u \in Users : email[u] = e

\* Types, the unique index on addresses and the foreign key of user_roles.
TypeOK ==
    /\ email \in [Users -> Emails \cup {None}]
    /\ \A u, v \in Users : email[u] = email[v] /\ Exists(u) => u = v
    /\ active \subseteq Users /\ \A u \in active : Exists(u)
    /\ admins \subseteq Users /\ \A u \in admins : Exists(u)
    /\ lock \in Servers \cup {None}
    /\ server \in [Servers -> Server]
    /\ req \in [Requests -> Request]

\* A row or an address that an open provisioning transaction has locked.
Reserved(u, e) ==
    \E p \in Servers : /\ server[p].state = "inserted"
                       /\ server[p].inserted = u \/ server[p].config = e
Serving == \E p \in Servers : server[p].state = "serving"

\* The trigger user_roles_single_admin lets the row of u through.
SingleAdminTrigger(u) == admins \subseteq {u}

-----------------------------------------------------------------------------
\* A database with any accounts, of which one may be the administrator.
Init ==
    /\ email \in [Users -> Emails \cup {None}]
    /\ \A u, v \in Users : email[u] = email[v] /\ Exists(u) => u = v
    /\ active = {u \in Users : Exists(u)}
    /\ \/ admins = {}
       \/ \E u \in active : admins = {u}
    /\ lock = None
    /\ server = [p \in Servers |-> Down]
    /\ req = [r \in Requests |-> Idle]

Register(u, e) ==
    /\ Serving
    /\ ~Exists(u) /\ ~Taken(e) /\ ~Reserved(u, e)
    /\ email' = [email EXCEPT ![u] = e]
    /\ active' = active \cup {u}
    /\ UNCHANGED <<admins, lock, server, req>>

ChangeEmail(u, e) ==
    /\ Serving
    /\ u \in active /\ ~Taken(e) /\ ~Reserved(u, e)
    /\ email' = [email EXCEPT ![u] = e]
    /\ UNCHANGED <<active, admins, lock, server, req>>

-----------------------------------------------------------------------------
(* main: EnsureAdmin if the environment names an administrator, HasAdmin,  *)
(* and only then the listener.                                             *)
Start(p, e) ==
    /\ server[p].state = "down"
    /\ server' = [server EXCEPT ![p] =
                    [state |-> IF e = None THEN "ensured" ELSE "started",
                     config |-> e, inserted |-> None]]
    /\ UNCHANGED <<email, active, admins, lock, req>>

Enter(p, state, u) ==
    server' = [server EXCEPT ![p] = [state |-> state, config |-> server[p].config,
                                     inserted |-> u]]

\* Mutant of LockAndLook: without pg_advisory_xact_lock.
LookUnlocked(p) ==
    /\ server[p].state = "started"
    /\ IF admins = {} THEN Enter(p, "locked", None)
       ELSE /\ \E u \in admins : email[u] = server[p].config
            /\ Enter(p, "ensured", None)
    /\ UNCHANGED <<email, active, admins, lock, req>>

\* pg_advisory_xact_lock, and the SELECT of an existing administrator.  One
\* at the configured address is left as it is; one at another address is an
\* error (Exit).
LockAndLook(p) ==
    /\ server[p].state = "started"
    /\ lock = None
    /\ IF admins = {} THEN lock' = p /\ Enter(p, "locked", None)
       ELSE /\ \E u \in admins : email[u] = server[p].config
            /\ Enter(p, "ensured", None)
            /\ UNCHANGED lock
    /\ UNCHANGED <<email, active, admins, req>>

\* The account at the address is created, or given the configured password;
\* its role row passes the trigger.
InsertAdmin(p) ==
    /\ server[p].state = "locked"
    /\ \E u \in Users, e \in {server[p].config} :
         /\ \/ email[u] = e
            \/ ~Exists(u) /\ ~Taken(e)
         /\ ~Reserved(u, e)
         /\ SingleAdminTrigger(u)
         /\ Enter(p, "inserted", u)
    /\ UNCHANGED <<email, active, admins, lock, req>>

\* COMMIT makes the account and the role visible and frees the lock.
CommitAdmin(p) ==
    /\ server[p].state = "inserted"
    /\ \E u \in {server[p].inserted} :
         /\ email' = [email EXCEPT ![u] = server[p].config]
         /\ active' = active \cup {u}
         /\ admins' = admins \cup {u}
    /\ lock' = IF lock = p THEN None ELSE lock
    /\ Enter(p, "ensured", None)
    /\ UNCHANGED req

\* Mutant of HasAdmin: nothing asks whether there is an administrator.
AssumeAdmin(p) ==
    /\ server[p].state = "ensured"
    /\ Enter(p, "serving", None)
    /\ UNCHANGED <<email, active, admins, lock, req>>

\* HasAdmin, and the process begins to listen.
HasAdmin(p) ==
    /\ server[p].state = "ensured"
    /\ admins # {}
    /\ Enter(p, "serving", None)
    /\ UNCHANGED <<email, active, admins, lock, req>>

\* log.Fatal or a crash: the transaction is rolled back.
Exit(p) ==
    /\ server[p].state # "down"
    /\ server' = [server EXCEPT ![p] = Down]
    /\ lock' = IF lock = p THEN None ELSE lock
    /\ UNCHANGED <<email, active, admins, req>>

-----------------------------------------------------------------------------
\* requireAdmin(admin): the actor's status and roles as of now.
Authenticate(r) ==
    /\ Serving
    /\ req[r].op = "idle"
    /\ \E a \in admins \cap active, op \in {"add", "remove", "update"}, u \in Users :
         /\ Exists(u)
         /\ req' = [req EXCEPT ![r] = [op |-> op, actor |-> a, target |-> u]]
    /\ UNCHANGED <<email, active, admins, lock, server>>

\* AddRole of admin: the trigger of its INSERT, ...
AddRole(r) ==
    /\ req[r].op = "add"
    /\ SingleAdminTrigger(req[r].target)
    /\ req' = [req EXCEPT ![r] = [op |-> "insert", actor |-> req[r].actor,
                                  target |-> req[r].target]]
    /\ UNCHANGED <<email, active, admins, lock, server>>

\* ... and the commit of the statement.
AddRoleCommit(r) ==
    /\ req[r].op = "insert"
    /\ admins' = admins \cup {req[r].target}
    /\ req' = [req EXCEPT ![r] = Idle]
    /\ UNCHANGED <<email, active, lock, server>>

\* Mutant of RemoveRole: an administrator may resign.
RemoveAnyRole(r) ==
    /\ req[r].op = "remove"
    /\ admins' = admins \ {req[r].target}
    /\ req' = [req EXCEPT ![r] = Idle]
    /\ UNCHANGED <<email, active, lock, server>>

\* RemoveRole of admin: of anybody but oneself.
RemoveRole(r) ==
    /\ req[r].op = "remove"
    /\ req[r].actor # req[r].target
    /\ admins' = admins \ {req[r].target}
    /\ req' = [req EXCEPT ![r] = Idle]
    /\ UNCHANGED <<email, active, lock, server>>

\* AdminUpdateUser: any account may be enabled or disabled, one's own too.
AdminUpdateUser(r) ==
    /\ req[r].op = "update"
    /\ \/ active' = active \cup {req[r].target}
       \/ active' = active \ {req[r].target}
    /\ req' = [req EXCEPT ![r] = Idle]
    /\ UNCHANGED <<email, admins, lock, server>>

Fail(r) ==
    /\ req[r].op # "idle"
    /\ req' = [req EXCEPT ![r] = Idle]
    /\ UNCHANGED <<email, active, admins, lock, server>>

-----------------------------------------------------------------------------
Next ==
    \/ \E u \in Users, e \in Emails : Register(u, e) \/ ChangeEmail(u, e)
    \/ \E p \in Servers : \/ \E e \in Emails \cup {None} : Start(p, e)
                          \/ LockAndLook(p) \/ InsertAdmin(p) \/ CommitAdmin(p)
                          \/ HasAdmin(p) \/ Exit(p)
    \/ \E r \in Requests : \/ Authenticate(r)
                           \/ AddRole(r) \/ AddRoleCommit(r)
                           \/ RemoveRole(r) \/ AdminUpdateUser(r)
                           \/ Fail(r)

Spec == Init /\ [][Next]_vars

-----------------------------------------------------------------------------
\* Only one account may hold the admin role (.env.example), also when several
\* processes provision it while administrators hand out roles.
SingleAdmin == \A u, v \in admins : u = v

\* Nobody loses the admin role: whatever the administrator does with roles,
\* there is no moment at which the role could go to another account.
AdminStays == [][admins \subseteq admins']_vars

\* A backend that serves has an administrator, however long it has been
\* running and whichever processes come and go.
ServingHasAdmin ==
    \A p \in Servers : server[p].state = "serving" => admins # {}
=============================================================================
