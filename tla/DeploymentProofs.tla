--------------------------- MODULE DeploymentProofs ---------------------------
(***************************************************************************)
(* There is one administrator and it never changes; the schema grows in    *)
(* order and complete, whatever runs of the script overlap or are stopped; *)
(* and an installation is, seen from the accounts, nothing but             *)
(* AdminProvisioning: proofs about AdminProvisioning and Deployment for    *)
(* any number of migrations, runs, processes, users and requests.          *)
(***************************************************************************)
EXTENDS Deployment, TLAPS

\* A request in flight was authorised by the administrator, who still is one,
\* and is about an account that exists; a role row that passed the trigger is
\* that administrator's own.
RequestOK(r) ==
    /\ req[r].op # "idle" => /\ req[r].actor \in admins
                             /\ req[r].target \in Users
                             /\ Exists(req[r].target)
    /\ req[r].op = "insert" => req[r].target \in admins

\* A process that found no administrator holds the advisory lock, there still
\* is none, and the account it is to promote is still its own.
ServerOK(p) ==
    /\ server[p].state \in {"locked", "inserted"} => lock = p /\ admins = {}
    /\ server[p].state \in {"started", "locked", "inserted"} =>
         server[p].config \in Emails
    /\ server[p].state = "inserted" =>
         /\ server[p].inserted \in Users
         /\ \/ email[server[p].inserted] = server[p].config
            \/ ~Exists(server[p].inserted) /\ ~Taken(server[p].config)

RequestInv == \A r \in Requests : RequestOK(r)
ServerInv == \A p \in Servers : ServerOK(p)

IInv == TypeOK /\ RequestInv /\ ServerInv /\ SingleAdmin /\ ServingHasAdmin

-----------------------------------------------------------------------------

\* Empty tables and stopped processes satisfy the inductive invariant.
LEMMA InvInit == Init => IInv
  <1> SUFFICES ASSUME Init PROVE IInv
    OBVIOUS
  <1>1. TypeOK
    BY DEF Init, TypeOK, Down, Idle, Server, Request, Exists
  <1>2. RequestInv /\ ServerInv /\ SingleAdmin /\ ServingHasAdmin
    BY DEF Init, RequestInv, RequestOK, ServerInv, ServerOK, SingleAdmin, ServingHasAdmin, Down, Idle
  <1> QED BY <1>1, <1>2 DEF IInv

\* What every action does to the administrators.
LEMMA AdminsKept ==
  ASSUME IInv, [Next]_vars
  PROVE  \/ admins' = admins
         \/ /\ admins = {}
            /\ \E p \in Servers : CommitAdmin(p) /\ admins' = {server[p].inserted}
  <1>1. ASSUME NEW p \in Servers, CommitAdmin(p)
        PROVE  admins = {} /\ admins' = {server[p].inserted}
    BY <1>1 DEF IInv, ServerInv, ServerOK, CommitAdmin
  <1>2. ASSUME NEW r \in Requests, AddRoleCommit(r) PROVE admins' = admins
    BY <1>2 DEF IInv, RequestInv, RequestOK, AddRoleCommit
  <1>3. ASSUME NEW r \in Requests, RemoveRole(r) PROVE admins' = admins
    BY <1>3 DEF IInv, RequestInv, RequestOK, SingleAdmin, RemoveRole
  <1> QED BY <1>1, <1>2, <1>3
          DEF Next, vars, Register, ChangeEmail, Start, LockAndLook, InsertAdmin,
              HasAdmin, Exit, Authenticate, AddRole, AdminUpdateUser, Fail

\* Every statement keeps the shape of the tables, one step per action.
LEMMA TypeStep == IInv /\ [Next]_vars => TypeOK'
  <1> SUFFICES ASSUME IInv, [Next]_vars PROVE TypeOK'
    OBVIOUS
  <1> USE ProvisioningAssumption DEF IInv, TypeOK
  <1>1. ASSUME NEW u \in Users, NEW e \in Emails,
               Register(u, e) \/ ChangeEmail(u, e)
        PROVE  TypeOK'
    BY <1>1 DEF Register, ChangeEmail, Exists, Taken
  <1>2. ASSUME NEW p \in Servers, CommitAdmin(p) PROVE TypeOK'
    <2> DEFINE u == server[p].inserted
               e == server[p].config
    <2>1. /\ u \in Users /\ e \in Emails
          /\ email[u] = e \/ (~Exists(u) /\ ~Taken(e))
      BY <1>2 DEF ServerInv, ServerOK, CommitAdmin
    <2>2. /\ email' = [email EXCEPT ![u] = e]
          /\ active' = active \cup {u} /\ admins' = admins \cup {u}
          /\ req' = req
          /\ lock' \in Servers \cup {None}
      BY <1>2 DEF CommitAdmin
    <2>3. server' \in [Servers -> Server]
      BY <1>2 DEF CommitAdmin, Enter, Server
    <2>4. \A v, w \in Users : email'[v] = email'[w] /\ email'[v] # None => v = w
      BY <2>1, <2>2 DEF Exists, Taken
    <2>5. \A v \in active' \cup admins' : email'[v] # None
      BY <2>1, <2>2 DEF Exists
    <2> QED BY <2>1, <2>2, <2>3, <2>4, <2>5 DEF Exists
  <1>3. ASSUME NEW p \in Servers,
               \/ \E e \in Emails \cup {None} : Start(p, e)
               \/ LockAndLook(p) \/ InsertAdmin(p) \/ HasAdmin(p) \/ Exit(p)
        PROVE  TypeOK'
    <2>1. /\ UNCHANGED <<email, active, admins, req>>
          /\ server' \in [Servers -> Server]
          /\ lock' \in Servers \cup {None}
      BY <1>3 DEF Start, LockAndLook, InsertAdmin, HasAdmin, Exit, Enter, Down,
                  Server
    <2> QED BY <2>1 DEF Exists
  <1>4. ASSUME NEW r \in Requests,
               \/ Authenticate(r) \/ AddRole(r) \/ AddRoleCommit(r)
               \/ RemoveRole(r) \/ AdminUpdateUser(r) \/ Fail(r)
        PROVE  TypeOK'
    <2>1. /\ UNCHANGED <<email, lock, server>>
          /\ req' \in [Requests -> Request]
      BY <1>4 DEF Authenticate, AddRole, AddRoleCommit, RemoveRole,
                  AdminUpdateUser, Fail, Request, Idle
    <2>2. admins' = admins
      BY <1>4, AdminsKept DEF Authenticate, AddRole, AddRoleCommit, RemoveRole,
                  AdminUpdateUser, Fail, CommitAdmin, Enter, RequestInv, SingleAdmin
    <2>3. active' \subseteq Users /\ \A u \in active' : Exists(u)
      BY <1>4 DEF Authenticate, AddRole, AddRoleCommit, RemoveRole,
                  AdminUpdateUser, Fail, RequestInv, RequestOK
    <2> QED BY <2>1, <2>2, <2>3 DEF Exists
  <1>5. CASE UNCHANGED vars
    BY <1>5 DEF vars, Exists
  <1> QED BY <1>1, <1>2, <1>3, <1>4, <1>5 DEF Next

\* An account is never removed, so a request's target stays an account.
LEMMA EmailKept ==
  ASSUME TypeOK, ServerInv, [Next]_vars
  PROVE  \A u \in Users : Exists(u) => Exists(u)'
  <1>1. ASSUME NEW p \in Servers, CommitAdmin(p)
        PROVE  \A u \in Users : Exists(u) => Exists(u)'
    BY <1>1, ProvisioningAssumption DEF CommitAdmin, Exists, TypeOK, ServerInv, ServerOK
  <1> QED BY <1>1, ProvisioningAssumption
          DEF Next, vars, Register, ChangeEmail, Start, LockAndLook, InsertAdmin,
              HasAdmin, Exit, Authenticate, AddRole, AddRoleCommit, RemoveRole,
              AdminUpdateUser, Fail, Exists, TypeOK

\* A role request under way was let in by an administrator of its time.
LEMMA RequestStep == IInv /\ [Next]_vars => RequestInv'
  <1> SUFFICES ASSUME IInv, [Next]_vars, NEW r \in Requests PROVE RequestOK(r)'
    BY DEF RequestInv
  <1>1. \A u \in Users : Exists(u) => Exists(u)'
    BY EmailKept DEF IInv
  <1>2. admins \subseteq admins'
    BY AdminsKept
  <1>3. RequestOK(r)
    BY DEF IInv, RequestInv
  <1>4. CASE req' = req
    BY <1>1, <1>2, <1>3, <1>4 DEF RequestOK
  <1>5. ASSUME NEW q \in Requests,
               \/ Authenticate(q) \/ AddRole(q) \/ AddRoleCommit(q)
               \/ RemoveRole(q) \/ AdminUpdateUser(q) \/ Fail(q)
        PROVE  RequestOK(r)'
    <2>1. req \in [Requests -> Request] /\ email' = email
      BY <1>5 DEF IInv, TypeOK, Authenticate, AddRole, AddRoleCommit, RemoveRole,
                  AdminUpdateUser, Fail
    <2>2. CASE Authenticate(q)
      BY <1>3, <2>1, <2>2 DEF Authenticate, RequestOK, Exists
    <2>3. CASE AddRole(q)
      <3>1. RequestOK(q)
        BY DEF IInv, RequestInv
      <3> QED BY <1>3, <2>1, <2>3, <3>1
              DEF AddRole, SingleAdminTrigger, RequestOK, Exists
    <2>4. CASE AddRoleCommit(q) \/ RemoveRole(q) \/ AdminUpdateUser(q) \/ Fail(q)
      <3>1. req' = [req EXCEPT ![q] = Idle]
        BY <2>4 DEF AddRoleCommit, RemoveRole, AdminUpdateUser, Fail
      <3> QED BY <1>2, <1>3, <2>1, <3>1 DEF RequestOK, Idle, Exists
    <2> QED BY <1>5, <2>2, <2>3, <2>4
  <1> QED BY <1>4, <1>5
          DEF Next, vars, Register, ChangeEmail, Start, LockAndLook, InsertAdmin,
              CommitAdmin, HasAdmin, Exit

\* A process that serves has seen an administrator, who is still one.
LEMMA ServerStep == IInv /\ [Next]_vars => ServerInv'
  <1> SUFFICES ASSUME IInv, [Next]_vars, NEW p \in Servers PROVE ServerOK(p)'
    BY DEF ServerInv
  <1>1. ServerOK(p) /\ server \in [Servers -> Server]
    BY DEF IInv, ServerInv, TypeOK
  <1>2. email \in [Users -> Emails \cup {None}]
    BY DEF IInv, TypeOK
  <1>3. ASSUME NEW u \in Users, NEW e \in Emails,
               Register(u, e) \/ ChangeEmail(u, e)
        PROVE  ServerOK(p)'
    BY <1>1, <1>2, <1>3
       DEF Register, ChangeEmail, ServerOK, Reserved, Exists, Taken
  <1>4. ASSUME NEW q \in Servers, CommitAdmin(q)
        PROVE  ServerOK(p)'
    <2>1. server[q].state = "inserted" /\ lock = q
      BY <1>4 DEF CommitAdmin, IInv, ServerInv, ServerOK
    <2>2. p # q => server[p].state \notin {"locked", "inserted"}
      BY <1>1, <2>1 DEF ServerOK
    <2> QED BY <1>1, <1>4, <2>2 DEF CommitAdmin, Enter, ServerOK
  <1>5. ASSUME NEW q \in Servers,
               \/ \E e \in Emails \cup {None} : Start(q, e)
               \/ LockAndLook(q) \/ InsertAdmin(q) \/ HasAdmin(q) \/ Exit(q)
        PROVE  ServerOK(p)'
    <2>1. UNCHANGED <<email, admins>>
      BY <1>5 DEF Start, LockAndLook, InsertAdmin, HasAdmin, Exit
    <2>2. CASE p # q
      <3>1. server'[p] = server[p]
        BY <1>1, <1>5, <2>2 DEF Start, LockAndLook, InsertAdmin, HasAdmin, Exit,
                                Enter
      <3>2. lock = p => lock' = p
        BY <1>5, <2>2, ProvisioningAssumption
           DEF Start, LockAndLook, InsertAdmin, HasAdmin, Exit
      <3> QED BY <1>1, <2>1, <3>1, <3>2 DEF ServerOK, Exists, Taken
    <2>3. CASE p = q
      BY <1>1, <1>5, <2>1, <2>3
         DEF Start, LockAndLook, InsertAdmin, HasAdmin, Exit, Enter, Down,
             ServerOK, Exists, Taken
    <2> QED BY <2>2, <2>3
  <1>6. ASSUME NEW r \in Requests,
               \/ Authenticate(r) \/ AddRole(r) \/ AddRoleCommit(r)
               \/ RemoveRole(r) \/ AdminUpdateUser(r) \/ Fail(r)
        PROVE  ServerOK(p)'
    <2>1. UNCHANGED <<email, lock, server>>
      BY <1>6 DEF Authenticate, AddRole, AddRoleCommit, RemoveRole,
                  AdminUpdateUser, Fail
    <2>2. admins' = admins
      BY <1>6, AdminsKept DEF Authenticate, AddRole, AddRoleCommit, RemoveRole,
                  AdminUpdateUser, Fail, CommitAdmin, IInv, RequestInv,
                  RequestOK, SingleAdmin
    <2> QED BY <1>1, <2>1, <2>2 DEF ServerOK, Exists, Taken
  <1>7. CASE UNCHANGED vars
    BY <1>1, <1>7 DEF vars, ServerOK, Exists, Taken
  <1> QED BY <1>3, <1>4, <1>5, <1>6, <1>7 DEF Next

\* Every step keeps the inductive invariant, part by part.
LEMMA InvStep == IInv /\ [Next]_vars => IInv'
  <1> SUFFICES ASSUME IInv, [Next]_vars PROVE IInv'
    OBVIOUS
  <1>1. SingleAdmin'
    BY AdminsKept DEF IInv, SingleAdmin
  <1>2. ServingHasAdmin'
    <2> SUFFICES ASSUME NEW p \in Servers, server'[p].state = "serving"
                 PROVE  admins' # {}
      BY DEF ServingHasAdmin
    <2>1. admins # {} => admins' # {}
      BY AdminsKept
    <2>2. CASE server[p].state = "serving"
      BY <2>1, <2>2 DEF IInv, ServingHasAdmin
    <2>3. CASE server[p].state # "serving"
      <3>1. HasAdmin(p)
        BY <2>3 DEF IInv, TypeOK, Next, vars, Register, ChangeEmail, Start,
                    LockAndLook, InsertAdmin, CommitAdmin, HasAdmin, Exit, Enter,
                    Down, Authenticate, AddRole, AddRoleCommit, RemoveRole,
                    AdminUpdateUser, Fail
      <3> QED BY <3>1 DEF HasAdmin
    <2> QED BY <2>2, <2>3
  <1> QED BY <1>1, <1>2, TypeStep, RequestStep, ServerStep DEF IInv

\* The inductive invariant holds of every reachable state.
LEMMA Invariant == Spec => []IInv
  <1> QED BY InvInit, InvStep, PTL DEF Spec

-----------------------------------------------------------------------------
\* Every variable keeps its type, addresses stay unique and role rows belong to
\* accounts that exist.
THEOREM TypeCorrect == Spec => []TypeOK
  <1>1. IInv => TypeOK
    BY DEF IInv
  <1> QED BY <1>1, Invariant, PTL

\* The role has at most one holder, whatever processes start and whatever
\* requests are in flight.
THEOREM OnlyOneAdmin == Spec => []SingleAdmin
  <1>1. IInv => SingleAdmin
    BY DEF IInv
  <1> QED BY <1>1, Invariant, PTL

\* A process that listens has an administrator to answer to.
THEOREM NeverWithoutAdmin == Spec => []ServingHasAdmin
  <1>1. IInv => ServingHasAdmin
    BY DEF IInv
  <1> QED BY <1>1, Invariant, PTL

\* The role, once given, is never taken away.
THEOREM AdminForever == Spec => AdminStays
  <1>1. IInv /\ [Next]_vars => [admins \subseteq admins']_vars
    BY AdminsKept
  <1> QED BY <1>1, Invariant, PTL DEF Spec, AdminStays

-----------------------------------------------------------------------------
\* A run that works on a file has everything before it behind it; without
\* stops and overlaps the statement at hand can succeed.
ScriptOK(s) ==
    /\ Running(s) => \A w \in Versions : w < script[s].at => w \in recorded
    /\ script[s].step = "record" => script[s].at \in applied
    /\ script[s].step = "done" => recorded = Versions
    /\ quiet /\ script[s].step = "apply" => script[s].at \notin applied
    /\ quiet /\ script[s].step = "record" => script[s].at \notin recorded

Alone ==
    quiet => /\ lost = {}
             /\ \A s, t \in Scripts : Running(s) /\ Running(t) => s = t

CountOK(v) ==
    /\ v \notin applied => times[v] = 0
    /\ quiet => times[v] <= 1

\* recorded has no gap, and the one applied migration it may lack is next.
InOrder ==
    /\ recorded \subseteq applied
    /\ \A v \in applied, w \in Versions : w < v => w \in recorded

\* Somebody is about to record v, or a run was stopped before it did.
Accounted(v) ==
    v \in lost \/ \E s \in Scripts : script[s].step = "record" /\ script[s].at = v

SchemaInv ==
    /\ MigrationsTypeOK
    /\ InOrder
    /\ \A s \in Scripts : ScriptOK(s)
    /\ \A v \in applied \ recorded : Accounted(v)
    /\ Alone
    /\ \A v \in Versions : CountOK(v)
    /\ upgraded # {} => recorded = Versions

-----------------------------------------------------------------------------
\* An installation starts with a schema without gaps.
LEMMA SchemaInit == DeploymentInit => SchemaInv
  <1> SUFFICES ASSUME DeploymentInit PROVE SchemaInv
    OBVIOUS
  <1> USE MigrationsAssumption
  <1>1. PICK n \in 0..Last : applied = 1..n /\ recorded = 1..n
    BY DEF DeploymentInit, MigrationsInit
  <1>2. MigrationsTypeOK
    BY <1>1 DEF DeploymentInit, MigrationsInit, MigrationsTypeOK, Versions, Script,
                NoScript
  <1>3. InOrder
    BY <1>1 DEF InOrder, Versions
  <1>4. \A s \in Scripts : script[s].step = "idle"
    BY DEF DeploymentInit, MigrationsInit, NoScript
  <1>5. \A s \in Scripts : ScriptOK(s)
    BY <1>4 DEF ScriptOK, Running
  <1>6. Alone
    BY <1>4 DEF DeploymentInit, MigrationsInit, Alone, Running
  <1>7. \A v \in Versions : CountOK(v)
    BY DEF DeploymentInit, MigrationsInit, CountOK
  <1>8. upgraded = {} /\ applied \ recorded = {}
    BY <1>1 DEF DeploymentInit
  <1> QED BY <1>2, <1>3, <1>5, <1>6, <1>7, <1>8 DEF SchemaInv

\* Where the next file is, there is one, and everything before it is recorded
\* if the present one is.
LEMMA NextFileGoes ==
  ASSUME MigrationsTypeOK, NEW s \in Scripts, NextFile(s)
  PROVE  /\ script' \in [Scripts -> Script]
         /\ \A t \in Scripts \ {s} : script'[t] = script[t]
         /\ \/ /\ script[s].at = Last
               /\ script'[s].step = "done"
            \/ /\ script'[s].step = "check"
               /\ script'[s].at = script[s].at + 1
  <1> USE MigrationsAssumption DEF MigrationsTypeOK, Versions, Script, NextFile, Go
  <1>1. script[s].at \in 1..Last
    OBVIOUS
  <1>2. CASE script[s].at = Last
    <2>1. script' = [script EXCEPT ![s] = [step |-> "done", at |-> Last]]
      BY <1>2
    <2>2. Last \in 1..Last
      OBVIOUS
    <2> QED BY <1>2, <2>1, <2>2
  <1>3. CASE script[s].at # Last
    <2>1. script' = [script EXCEPT ![s] = [step |-> "check", at |-> script[s].at + 1]]
      BY <1>3
    <2>2. script[s].at + 1 \in 1..Last
      BY <1>1, <1>3
    <2> QED BY <2>1, <2>2
  <1> QED BY <1>2, <1>3

\* One run goes to a file all before which are recorded; nothing else changes.
LEMMA RunBegins ==
  ASSUME SchemaInv, NEW s \in Scripts, Begin(s), UNCHANGED upgraded
  PROVE  SchemaInv'
  <1> USE MigrationsAssumption DEF Begin, Go
  <1>1. MigrationsTypeOK'
    BY DEF SchemaInv, MigrationsTypeOK, Script, Versions
  <1>2. InOrder'
    BY DEF SchemaInv, InOrder
  <1>3. \A t \in Scripts : script'[t] = IF t = s THEN [step |-> "check", at |-> 1]
                                        ELSE script[t]
    BY DEF SchemaInv, MigrationsTypeOK
  <1>4. ASSUME NEW t \in Scripts PROVE ScriptOK(t)'
    <2>1. CASE t = s
      BY <1>3, <2>1 DEF ScriptOK, Running, Versions
    <2>2. CASE t # s
      <3>1. quiet' => quiet
        OBVIOUS
      <3> QED BY <1>3, <2>2, <3>1 DEF SchemaInv, ScriptOK, Running
    <2> QED BY <2>1, <2>2
  <1>5. ASSUME NEW v \in applied' \ recorded' PROVE Accounted(v)'
    BY <1>3 DEF SchemaInv, Accounted, Running
  <1>6. Alone'
    <2> SUFFICES ASSUME quiet' PROVE /\ lost' = {}
                                     /\ \A t, w \in Scripts : Running(t)' /\ Running(w)' => t = w
      BY DEF Alone
    <2>1. quiet /\ \A t \in Scripts : ~Running(t)
      OBVIOUS
    <2>2. \A t \in Scripts : Running(t)' => t = s
      BY <1>3, <2>1 DEF Running
    <2> QED BY <2>1, <2>2 DEF SchemaInv, Alone
  <1>7. ASSUME NEW v \in Versions PROVE CountOK(v)'
    BY DEF SchemaInv, CountOK
  <1> QED BY <1>1, <1>2, <1>4, <1>5, <1>6, <1>7 DEF SchemaInv

\* The next file is fit to be checked once the present one is recorded.
LEMMA NextFileOK ==
  ASSUME SchemaInv, NEW s \in Scripts, NextFile(s), Running(s),
         recorded' \subseteq Versions, recorded \subseteq recorded',
         script[s].at \in recorded'
  PROVE  ScriptOK(s)'
  <1> USE MigrationsAssumption DEF Versions
  <1>1. MigrationsTypeOK /\ ScriptOK(s) /\ script[s].at \in 1..Last
    BY DEF SchemaInv, MigrationsTypeOK, Script
  <1>2. \A w \in 1..Last : w <= script[s].at => w \in recorded'
    BY <1>1 DEF ScriptOK
  <1>3. CASE script[s].at = Last /\ script'[s].step = "done"
    <2>1. \A w \in 1..Last : w <= Last
      OBVIOUS
    <2>2. 1..Last \subseteq recorded'
      BY <1>2, <1>3, <2>1
    <2>3. recorded' = 1..Last
      BY <2>2
    <2> QED BY <1>3, <2>3 DEF ScriptOK, Running
  <1>4. CASE script'[s].step = "check" /\ script'[s].at = script[s].at + 1
    BY <1>1, <1>2, <1>4 DEF ScriptOK, Running
  <1> QED BY <1>1, <1>3, <1>4, NextFileGoes

\* Alone stays when one run goes on.
LEMMA AloneStays ==
  ASSUME Alone, NEW s \in Scripts, Running(s),
         \A t \in Scripts \ {s} : script'[t] = script[t],
         quiet' = quiet, lost' = lost
  PROVE  Alone'
  <1>1. \A t \in Scripts : Running(t)' => Running(t)
    BY DEF Running
  <1> QED BY <1>1 DEF Alone

\* A recorded file is passed over, another is applied next.
LEMMA RunChecks ==
  ASSUME SchemaInv, NEW s \in Scripts, Check(s), UNCHANGED upgraded
  PROVE  SchemaInv'
  <1> USE MigrationsAssumption DEF Check
  <1>1. MigrationsTypeOK /\ Running(s) /\ script[s].at \in Versions
    BY DEF SchemaInv, MigrationsTypeOK, Running, Script
  <1>2. \/ script[s].at \in recorded /\ NextFile(s)
        \/ script[s].at \notin recorded /\ Go(s, "apply", script[s].at)
    OBVIOUS
  <1>3. /\ script' \in [Scripts -> Script]
        /\ \A t \in Scripts \ {s} : script'[t] = script[t]
    <2>1. CASE NextFile(s)
      BY <1>1, <2>1, NextFileGoes
    <2>2. CASE Go(s, "apply", script[s].at)
      BY <1>1, <2>2 DEF Go, MigrationsTypeOK, Script
    <2> QED BY <1>2, <2>1, <2>2
  <1>4. MigrationsTypeOK'
    BY <1>1, <1>3 DEF MigrationsTypeOK
  <1>5. ASSUME NEW t \in Scripts PROVE ScriptOK(t)'
    <2>1. CASE t # s
      BY <1>3, <2>1 DEF SchemaInv, ScriptOK, Running
    <2>2. CASE t = s /\ script[s].at \in recorded
      BY <1>1, <1>2, <2>2, NextFileOK DEF MigrationsTypeOK
    <2>3. CASE t = s /\ script[s].at \notin recorded
      <3>1. script'[s] = [step |-> "apply", at |-> script[s].at]
        BY <1>1, <1>2, <2>3 DEF Go, MigrationsTypeOK
      <3>2. ASSUME quiet, script[s].at \in applied PROVE FALSE
        <4>1. PICK u \in Scripts : script[u].step = "record"
          BY <2>3, <3>2 DEF SchemaInv, Accounted, Alone
        <4>2. u = s
          BY <1>1, <3>2, <4>1 DEF SchemaInv, Alone, Running
        <4> QED BY <4>1, <4>2
      <3> QED BY <1>1, <2>3, <3>1, <3>2 DEF SchemaInv, ScriptOK, Running
    <2> QED BY <2>1, <2>2, <2>3
  <1>6. ASSUME NEW v \in applied' \ recorded' PROVE Accounted(v)'
    BY <1>3 DEF SchemaInv, Accounted
  <1>7. Alone'
    BY <1>1, <1>3, AloneStays DEF SchemaInv
  <1> QED BY <1>4, <1>5, <1>6, <1>7 DEF SchemaInv, InOrder, CountOK

\* A file is applied only after all before it, and its run accounts for it.
LEMMA RunApplies ==
  ASSUME SchemaInv, NEW s \in Scripts, Apply(s), UNCHANGED upgraded
  PROVE  SchemaInv'
  <1> USE MigrationsAssumption
  <1>1. PICK v \in {script[s].at} :
           /\ v \in applied => v \in Repeatable
           /\ applied' = applied \cup {v}
           /\ times' = [times EXCEPT ![v] = @ + 1]
           /\ Go(s, "record", v)
    BY DEF Apply
  <1>2. /\ MigrationsTypeOK /\ Running(s) /\ v \in Versions /\ v = script[s].at
        /\ script[s].step = "apply" /\ ScriptOK(s)
        /\ UNCHANGED <<recorded, lost, quiet>>
    BY DEF Apply, SchemaInv, MigrationsTypeOK, Running, Script
  <1>3. \A t \in Scripts : script'[t] = IF t = s THEN [step |-> "record", at |-> v]
                                        ELSE script[t]
    BY <1>1, <1>2 DEF Go, MigrationsTypeOK
  <1>4. MigrationsTypeOK'
    BY <1>1, <1>2 DEF Go, MigrationsTypeOK, Script
  <1>5. InOrder'
    <2>1. \A w \in Versions : w < v => w \in recorded
      BY <1>2 DEF ScriptOK
    <2> QED BY <1>1, <1>2, <2>1 DEF SchemaInv, InOrder
  <1>6. ASSUME NEW t \in Scripts PROVE ScriptOK(t)'
    <2>1. CASE t # s
      <3>1. ~(quiet /\ Running(t))
        BY <1>2, <2>1 DEF SchemaInv, Alone
      <3> QED BY <1>1, <1>2, <1>3, <2>1, <3>1 DEF SchemaInv, ScriptOK, Running
    <2>2. CASE t = s
      <3>1. ASSUME quiet PROVE v \notin recorded
        BY <1>2, <3>1 DEF SchemaInv, ScriptOK, InOrder
      <3> QED BY <1>1, <1>2, <1>3, <2>2, <3>1 DEF ScriptOK, Running
    <2> QED BY <2>1, <2>2
  <1>7. ASSUME NEW w \in applied' \ recorded' PROVE Accounted(w)'
    <2>1. CASE w = v
      BY <1>3, <2>1 DEF Accounted
    <2>2. CASE w # v
      BY <1>1, <1>2, <1>3, <2>2 DEF SchemaInv, Accounted
    <2> QED BY <2>1, <2>2
  <1>8. Alone'
    BY <1>2, <1>3, AloneStays DEF SchemaInv
  <1>9. ASSUME NEW w \in Versions PROVE CountOK(w)'
    <2>1. quiet => v \notin applied
      BY <1>2 DEF ScriptOK
    <2>2. CountOK(w) /\ CountOK(v) /\ times \in [Versions -> Nat]
      BY <1>2 DEF SchemaInv, MigrationsTypeOK
    <2>3. times'[w] = IF w = v THEN times[w] + 1 ELSE times[w]
      BY <1>1, <1>2, <2>2
    <2> QED BY <1>1, <1>2, <2>1, <2>2, <2>3 DEF CountOK
  <1> QED BY <1>2, <1>4, <1>5, <1>6, <1>7, <1>8, <1>9 DEF SchemaInv

\* A file that is recorded was the one applied file that was not.
LEMMA RunRecords ==
  ASSUME SchemaInv, NEW s \in Scripts, Record(s), UNCHANGED upgraded
  PROVE  SchemaInv'
  <1> USE MigrationsAssumption
  <1> DEFINE v == script[s].at
  <1>1. /\ MigrationsTypeOK /\ Running(s) /\ v \in Versions /\ ScriptOK(s)
        /\ script[s].step = "record" /\ v \notin recorded /\ v \in applied
        /\ recorded' = recorded \cup {v} /\ NextFile(s)
        /\ UNCHANGED <<applied, times, lost, quiet>>
    BY DEF Record, SchemaInv, MigrationsTypeOK, Running, Script, ScriptOK
  <1>2. /\ script' \in [Scripts -> Script]
        /\ \A t \in Scripts \ {s} : script'[t] = script[t]
    BY <1>1, NextFileGoes
  <1>3. MigrationsTypeOK'
    BY <1>1, <1>2 DEF MigrationsTypeOK
  <1>4. \A w \in Versions : w < v => w \in recorded
    BY <1>1 DEF ScriptOK
  <1>5. \A w \in applied : w <= v
    <2> SUFFICES ASSUME NEW w \in applied, v < w PROVE FALSE
      BY <1>1 DEF MigrationsTypeOK, Versions
    <2> QED BY <1>1 DEF SchemaInv, InOrder
  <1>6. InOrder'
    <2> SUFFICES ASSUME NEW u \in applied, NEW w \in Versions, w < u
                 PROVE  w \in recorded'
      BY <1>1 DEF SchemaInv, InOrder
    <2> QED BY <1>1 DEF SchemaInv, InOrder
  <1>7. ASSUME NEW t \in Scripts PROVE ScriptOK(t)'
    <2>1. CASE t = s
      BY <1>1, <2>1, NextFileOK DEF MigrationsTypeOK
    <2>2. CASE t # s
      <3>1. ~(quiet /\ Running(t))
        BY <1>1, <2>2 DEF SchemaInv, Alone
      <3>2. script'[t] = script[t] /\ ScriptOK(t)
        BY <1>2, <2>2 DEF SchemaInv
      <3>3. recorded = Versions => recorded' = Versions
        BY <1>1
      <3> QED BY <1>1, <3>1, <3>2, <3>3 DEF ScriptOK, Running
    <2> QED BY <2>1, <2>2
  <1>8. ASSUME NEW w \in applied' \ recorded' PROVE Accounted(w)'
    <2>1. w \in applied \ recorded /\ w # v
      BY <1>1
    <2>2. Accounted(w)
      BY <2>1 DEF SchemaInv
    <2> QED BY <1>1, <1>2, <2>1, <2>2 DEF Accounted
  <1>9. Alone'
    BY <1>1, <1>2, AloneStays DEF SchemaInv
  <1>10. upgraded' # {} => recorded' = Versions
    BY <1>1 DEF SchemaInv
  <1> QED BY <1>1, <1>3, <1>6, <1>7, <1>8, <1>9, <1>10 DEF SchemaInv, CountOK

\* A run that ends without having recorded its file: it could not succeed, or
\* was stopped, which is remembered; or the process it was to start is there.
LEMMA RunEnds ==
  ASSUME SchemaInv, NEW s \in Scripts,
         script' = [script EXCEPT ![s] = NoScript],
         \/ Hopeless(s) /\ UNCHANGED <<lost, quiet>>
         \/ script[s].step = "done" /\ UNCHANGED <<lost, quiet>>
         \/ /\ Running(s)
            /\ lost' = IF script[s].step = "record" THEN lost \cup {script[s].at} ELSE lost
            /\ quiet' = FALSE,
         UNCHANGED <<applied, recorded, times>>,
         upgraded' # {} => recorded = Versions
  PROVE  SchemaInv'
  <1> USE MigrationsAssumption
  <1>1. MigrationsTypeOK /\ script[s].at \in Versions
    BY DEF SchemaInv, MigrationsTypeOK, Script
  <1>2. \A t \in Scripts : script'[t] = IF t = s THEN [step |-> "idle", at |-> 1]
                                        ELSE script[t]
    BY <1>1 DEF MigrationsTypeOK, NoScript
  <1>3. quiet' => quiet /\ lost' = lost
    OBVIOUS
  <1>4. MigrationsTypeOK'
    <2>1. script' \in [Scripts -> Script]
      BY <1>1 DEF MigrationsTypeOK, NoScript, Script, Versions
    <2>2. lost' \subseteq Versions
      BY <1>1 DEF MigrationsTypeOK
    <2>3. quiet' \in BOOLEAN
      BY <1>1 DEF MigrationsTypeOK
    <2> QED BY <1>1, <2>1, <2>2, <2>3 DEF MigrationsTypeOK
  <1>5. ASSUME NEW t \in Scripts PROVE ScriptOK(t)'
    BY <1>2, <1>3 DEF SchemaInv, ScriptOK, Running
  <1>6. ASSUME NEW v \in applied' \ recorded' PROVE Accounted(v)'
    <2>1. v \in applied \ recorded /\ Accounted(v)
      BY DEF SchemaInv
    <2>2. CASE v \in lost
      BY <2>2 DEF Accounted
    <2>3. CASE v \notin lost
      <3>1. PICK t \in Scripts : script[t].step = "record" /\ script[t].at = v
        BY <2>1, <2>3 DEF Accounted
      <3>2. CASE t # s
        BY <1>2, <3>1, <3>2 DEF Accounted
      <3>3. CASE t = s
        <4>1. v \in lost'
          BY <2>1, <3>1, <3>3 DEF Hopeless
        <4> QED BY <4>1 DEF Accounted
      <3> QED BY <3>2, <3>3
    <2> QED BY <2>2, <2>3
  <1>7. Alone'
    <2>1. \A t \in Scripts : Running(t)' => Running(t)
      BY <1>2 DEF Running
    <2> QED BY <1>3, <2>1 DEF SchemaInv, Alone
  <1>8. ASSUME NEW v \in Versions PROVE CountOK(v)'
    BY <1>3 DEF SchemaInv, CountOK
  <1> QED BY <1>4, <1>5, <1>6, <1>7, <1>8 DEF SchemaInv, InOrder

\* Steps of the processes and of their users leave the schema alone.
LEMMA SchemaKept ==
  ASSUME SchemaInv, UNCHANGED migrationVars, upgraded' # {} => recorded = Versions
  PROVE  SchemaInv'
  <1>1. UNCHANGED <<applied, recorded, script, times, lost, quiet>>
    BY DEF migrationVars
  <1> QED BY <1>1 DEF SchemaInv, MigrationsTypeOK, InOrder, ScriptOK, Running, Accounted,
                     Alone, CountOK

\* Every step of an installation keeps the inductive invariant.
LEMMA SchemaStep == SchemaInv /\ [DeploymentNext]_deploymentVars => SchemaInv'
  <1> SUFFICES ASSUME SchemaInv, [DeploymentNext]_deploymentVars PROVE SchemaInv'
    OBVIOUS
  <1>1. ASSUME NEW p \in Servers, NEW e \in Emails \cup {None}, ComposeUp(p, e)
        PROVE  SchemaInv'
    BY <1>1, SchemaKept DEF ComposeUp, SchemaInv
  <1>2. ASSUME NEW p \in Servers, NEW e \in Emails \cup {None}, NEW s \in Scripts,
               DevUp(s, p, e)
        PROVE  SchemaInv'
    <2>1. script[s].step = "done" /\ recorded = Versions
      BY <1>2 DEF DevUp, SchemaInv, ScriptOK
    <2> QED BY <1>2, <2>1, RunEnds DEF DevUp
  <1>3. ASSUME NEW p \in Servers, Provision(p) \/ GoDown(p) PROVE SchemaInv'
    <2>1. UNCHANGED migrationVars /\ upgraded' \subseteq upgraded
      BY <1>3 DEF Provision, GoDown
    <2> QED BY <2>1, SchemaKept DEF SchemaInv
  <1>4. ASSUME NEW s \in Scripts, Migrate(s) PROVE SchemaInv'
    <2>1. Begin(s) \/ ScriptStep(s) \/ Stop(s)
      BY <1>4 DEF Migrate
    <2>2. UNCHANGED upgraded
      BY <1>4 DEF Migrate
    <2>3. CASE Begin(s)
      BY <2>2, <2>3, RunBegins
    <2>4. CASE ScriptStep(s)
      <3>1. CASE Break(s)
        BY <2>2, <3>1, RunEnds DEF Break, SchemaInv
      <3> QED BY <2>2, <2>4, <3>1, RunChecks, RunApplies, RunRecords DEF ScriptStep
    <2>5. CASE Stop(s)
      BY <2>2, <2>5, RunEnds DEF Stop, SchemaInv
    <2> QED BY <2>1, <2>3, <2>4, <2>5
  <1>5. CASE Serve
    BY <1>5, SchemaKept DEF Serve, SchemaInv
  <1>6. CASE UNCHANGED deploymentVars
    BY <1>6, SchemaKept DEF deploymentVars, SchemaInv
  <1> QED BY <1>1, <1>2, <1>3, <1>4, <1>5, <1>6 DEF DeploymentNext

\* The inductive invariant holds of every reachable state.
LEMMA SchemaInvariant == DeploymentSpec => []SchemaInv
  <1> QED BY SchemaInit, SchemaStep, PTL DEF DeploymentSpec

-----------------------------------------------------------------------------
\* Every variable of the script and the schema keeps its type.
THEOREM SchemaTypes == DeploymentSpec => []MigrationsTypeOK
  <1>1. SchemaInv => MigrationsTypeOK
    BY DEF SchemaInv
  <1> QED BY <1>1, SchemaInvariant, PTL

\* Whatever runs overlap or are stopped, migrations are applied in order without
\* a gap, and at most one of them is not recorded.
THEOREM SchemaInOrder == DeploymentSpec => []AppliedInOrder
  <1>1. SchemaInv => AppliedInOrder
    <2> SUFFICES ASSUME SchemaInv PROVE AppliedInOrder
      OBVIOUS
    <2> USE MigrationsAssumption
    <2>1. InOrder /\ applied \subseteq Versions /\ recorded \subseteq Versions
      BY DEF SchemaInv, MigrationsTypeOK
    <2>2. \A v \in applied : \A w \in 1..v : w \in applied
      BY <2>1 DEF InOrder, Versions
    <2>3. ASSUME NEW v \in applied \ recorded PROVE recorded = 1..(v - 1)
      <3>1. v \in 1..Last
        BY <2>1 DEF Versions
      <3>2. ASSUME NEW w \in recorded PROVE w \in 1..(v - 1)
        <4>1. w \in 1..Last /\ w \in applied /\ w # v
          BY <2>1 DEF InOrder, Versions
        <4>2. ~(v < w)
          BY <2>1, <3>1, <4>1 DEF InOrder, Versions
        <4> QED BY <3>1, <4>1, <4>2
      <3>3. ASSUME NEW w \in 1..(v - 1) PROVE w \in recorded
        <4>1. w \in 1..Last /\ w < v
          BY <3>1
        <4> QED BY <2>1, <4>1 DEF InOrder, Versions
      <3> QED BY <3>2, <3>3
    <2> QED BY <2>1, <2>2, <2>3 DEF AppliedInOrder, InOrder
  <1> QED BY <1>1, SchemaInvariant, PTL

\* A later run is locked out only after a run was stopped between applying and
\* recording a migration.
THEOREM OnlyStopsLockOut == DeploymentSpec => []LockedOutOnlyByStop
  <1>1. SchemaInv => LockedOutOnlyByStop
    <2> SUFFICES ASSUME SchemaInv, NEW v \in applied \ recorded, v \notin lost
                 PROVE  \E s \in Scripts : script[s] = [step |-> "record", at |-> v]
      BY DEF LockedOutOnlyByStop
    <2>1. PICK s \in Scripts : script[s].step = "record" /\ script[s].at = v
      BY DEF SchemaInv, Accounted
    <2>2. script[s] \in Script
      BY DEF SchemaInv, MigrationsTypeOK
    <2> QED BY <2>1, <2>2 DEF Script
  <1> QED BY <1>1, SchemaInvariant, PTL

\* Without stops and overlaps everything is applied once and nothing fails.
THEOREM QuietRuns == DeploymentSpec => []QuietRunsSucceed
  <1>1. SchemaInv => QuietRunsSucceed
    BY DEF SchemaInv, QuietRunsSucceed, CountOK, ScriptOK, Hopeless
  <1> QED BY <1>1, SchemaInvariant, PTL

\* A run that comes to its end leaves the whole schema.
THEOREM RunsComplete == DeploymentSpec => []DoneMeansComplete
  <1>1. SchemaInv => DoneMeansComplete
    BY DEF SchemaInv, DoneMeansComplete, ScriptOK
  <1> QED BY <1>1, SchemaInvariant, PTL

\* A process that dev_up.sh has started finds all tables.
THEOREM UpgradedComplete == DeploymentSpec => []UpgradedFindAllTables
  <1>1. SchemaInv => UpgradedFindAllTables
    BY DEF SchemaInv, UpgradedFindAllTables
  <1> QED BY <1>1, SchemaInvariant, PTL

\* Seen from the accounts an installation does what AdminProvisioning allows,
\* whatever is migrated meanwhile: its theorems hold of every installation.
THEOREM DeploymentProvisions == DeploymentSpec => Spec
  <1>1. DeploymentInit => Init
    BY DEF DeploymentInit
  <1>2. [DeploymentNext]_deploymentVars => [Next]_vars
    <2> SUFFICES ASSUME DeploymentNext \/ UNCHANGED deploymentVars
                 PROVE  Next \/ UNCHANGED vars
      OBVIOUS
    <2>1. ASSUME NEW p \in Servers, NEW e \in Emails \cup {None}, Start(p, e)
          PROVE  Next
      BY <2>1 DEF Next
    <2>2. ASSUME NEW p \in Servers, Provision(p) \/ GoDown(p) PROVE Next
      BY <2>2 DEF Provision, GoDown, Next
    <2>3. CASE Serve
      BY <2>3 DEF Serve, Next
    <2>4. ASSUME NEW s \in Scripts, Migrate(s) PROVE UNCHANGED vars
      BY <2>4 DEF Migrate
    <2>5. CASE UNCHANGED deploymentVars
      BY <2>5 DEF deploymentVars
    <2> QED BY <2>1, <2>2, <2>3, <2>4, <2>5 DEF DeploymentNext, ComposeUp, DevUp
  <1> QED BY <1>1, <1>2, PTL DEF DeploymentSpec, Spec

\* One administrator, in every installation.
COROLLARY InstallationHasOneAdmin == DeploymentSpec => []SingleAdmin
  <1> QED BY DeploymentProvisions, OnlyOneAdmin, PTL

\* A process of an installation serves with an administrator only, and who is
\* administrator of an installation stays so.
COROLLARY InstallationKeepsAdmin == DeploymentSpec => []ServingHasAdmin /\ AdminStays
  <1> QED BY DeploymentProvisions, NeverWithoutAdmin, AdminForever, PTL
===============================================================================
