------------------------------ MODULE Deployment ------------------------------
(***************************************************************************)
(* An installation: the schema that migrate.sh builds (Migrations) and the *)
(* processes that provision the administrator on it and serve              *)
(* (AdminProvisioning).  scripts/dev_up.sh runs the first and then starts  *)
(* the second; docker compose up alone starts a process at any time, on    *)
(* any schema, also on none.                                               *)
(***************************************************************************)
EXTENDS AdminProvisioning, Migrations

VARIABLE
    upgraded    \* history: processes that dev_up.sh has started

deploymentVars == <<vars, migrationVars, upgraded>>

-----------------------------------------------------------------------------
\* Users and roles are tables of migration 000001.
Tables == 1 \in applied

DeploymentInit ==
    /\ Init
    /\ MigrationsInit
    /\ ~Tables => \A u \in Users : ~Exists(u)
    /\ upgraded = {}

\* docker compose up, without migrations.
ComposeUp(p, e) ==
    /\ Start(p, e)
    /\ UNCHANGED <<migrationVars, upgraded>>

\* Mutant of DevUp: the backend is started beside the script.
DevUpAtOnce(s, p, e) ==
    /\ Running(s)
    /\ Start(p, e)
    /\ script' = [script EXCEPT ![s] = NoScript]
    /\ upgraded' = upgraded \cup {p}
    /\ UNCHANGED <<applied, recorded, times, lost, quiet>>

\* dev_up.sh: the script has ended without an error, the backend comes next.
DevUp(s, p, e) ==
    /\ script[s].step = "done"
    /\ Start(p, e)
    /\ script' = [script EXCEPT ![s] = NoScript]
    /\ upgraded' = upgraded \cup {p}
    /\ UNCHANGED <<applied, recorded, times, lost, quiet>>

\* EnsureAdmin and HasAdmin: without their tables an error, and Down.
Provision(p) ==
    /\ Tables
    /\ LockAndLook(p) \/ InsertAdmin(p) \/ CommitAdmin(p) \/ HasAdmin(p)
    /\ UNCHANGED <<migrationVars, upgraded>>

GoDown(p) ==
    /\ Exit(p)
    /\ upgraded' = upgraded \ {p}
    /\ UNCHANGED migrationVars

Serve ==
    /\ \/ \E u \in Users, e \in Emails : Register(u, e) \/ ChangeEmail(u, e)
       \/ \E r \in Requests : \/ Authenticate(r) \/ AddRole(r) \/ AddRoleCommit(r)
                              \/ RemoveRole(r) \/ AdminUpdateUser(r) \/ Fail(r)
    /\ UNCHANGED <<migrationVars, upgraded>>

Migrate(s) ==
    /\ Begin(s) \/ ScriptStep(s) \/ Stop(s)
    /\ UNCHANGED <<vars, upgraded>>

DeploymentNext ==
    \/ \E p \in Servers, e \in Emails \cup {None} :
         \/ ComposeUp(p, e)
         \/ \E s \in Scripts : DevUp(s, p, e)
    \/ \E p \in Servers : Provision(p) \/ GoDown(p)
    \/ \E s \in Scripts : Migrate(s)
    \/ Serve

DeploymentSpec == DeploymentInit /\ [][DeploymentNext]_deploymentVars

-----------------------------------------------------------------------------
\* A process that dev_up.sh has brought up runs on the whole schema, however
\* many runs were stopped, overlapped or locked out before.
UpgradedFindAllTables ==
    \A p \in upgraded : server[p].state # "down" => recorded = Versions
===============================================================================
