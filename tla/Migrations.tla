------------------------------ MODULE Migrations ------------------------------
(***************************************************************************)
(* scripts/migrate.sh, which applies the files of backend/migrations in    *)
(* order.  For each file it asks schema_migrations (Check), runs the file, *)
(* one transaction of its own (Apply), and records it by a second          *)
(* statement (Record).  set -eu ends the script at the first statement     *)
(* that fails; it may also be stopped between any two.  Nothing keeps two  *)
(* runs apart.                                                             *)
(***************************************************************************)
EXTENDS Naturals, FiniteSets

CONSTANTS
    Last,       \* the number of migrations
    Repeatable, \* those that can be applied again: IF NOT EXISTS, ON CONFLICT
    Scripts,    \* runs of migrate.sh that may overlap
    MaxTimes    \* bound: how often one migration is applied

Versions == 1..Last

ASSUME MigrationsAssumption ==
    /\ Last \in Nat \ {0} /\ MaxTimes \in Nat
    /\ Repeatable \subseteq Versions

VARIABLES
    applied,    \* migrations whose transaction has committed
    recorded,   \* rows of schema_migrations
    script,     \* the runs of the script
    times,      \* history: how often each migration was applied
    lost,       \* history: applied by a run that was stopped before Record
    quiet       \* history: no run was stopped so far, or met another one

migrationVars == <<applied, recorded, script, times, lost, quiet>>

-----------------------------------------------------------------------------
Script == [step : {"idle", "check", "apply", "record", "done"}, at : Versions]
NoScript == [step |-> "idle", at |-> 1]

MigrationsTypeOK ==
    /\ applied \subseteq Versions /\ recorded \subseteq Versions
    /\ script \in [Scripts -> Script]
    /\ times \in [Versions -> Nat]
    /\ lost \subseteq Versions
    /\ quiet \in BOOLEAN

Running(s) == script[s].step \in {"check", "apply", "record"}

\* An empty database, or one that an earlier release has brought up to date.
MigrationsInit ==
    /\ \E n \in 0..Last : applied = 1..n /\ recorded = 1..n
    /\ script = [s \in Scripts |-> NoScript]
    /\ times = [v \in Versions |-> IF v \in applied THEN 1 ELSE 0]
    /\ lost = {}
    /\ quiet = TRUE

-----------------------------------------------------------------------------
Go(s, step, v) == script' = [script EXCEPT ![s] = [step |-> step, at |-> v]]

\* The next file of the loop, or the end of the script.
NextFile(s) ==
    IF script[s].at = Last THEN Go(s, "done", Last)
    ELSE Go(s, "check", script[s].at + 1)

\* PostgreSQL answers and schema_migrations is there.
Begin(s) ==
    /\ ~Running(s)
    /\ Go(s, "check", 1)
    /\ quiet' = (quiet /\ \A other \in Scripts : ~Running(other))
    /\ UNCHANGED <<applied, recorded, times, lost>>

\* Mutant of Check: the answer of the SELECT is not looked at.
CheckNothing(s) ==
    /\ script[s].step = "check"
    /\ Go(s, "apply", script[s].at)
    /\ UNCHANGED <<applied, recorded, times, lost, quiet>>

\* SELECT 1 FROM schema_migrations: skip what is recorded.
Check(s) ==
    /\ script[s].step = "check"
    /\ IF script[s].at \in recorded THEN NextFile(s)
       ELSE Go(s, "apply", script[s].at)
    /\ UNCHANGED <<applied, recorded, times, lost, quiet>>

\* psql < file: commits, unless it has been applied and cannot be again.
Apply(s) ==
    /\ script[s].step = "apply"
    /\ \E v \in {script[s].at} :
         /\ v \in applied => v \in Repeatable
         /\ times[v] < MaxTimes
         /\ applied' = applied \cup {v}
         /\ times' = [times EXCEPT ![v] = @ + 1]
         /\ Go(s, "record", v)
    /\ UNCHANGED <<recorded, lost, quiet>>

\* Mutant of Record: an INSERT that fails is taken for one that succeeds.
RecordMaybe(s) ==
    /\ script[s].step = "record"
    /\ script[s].at \notin recorded
    /\ recorded' \in {recorded, recorded \cup {script[s].at}}
    /\ NextFile(s)
    /\ UNCHANGED <<applied, times, lost, quiet>>

\* INSERT INTO schema_migrations, whose key admits each version once.
Record(s) ==
    /\ script[s].step = "record"
    /\ script[s].at \notin recorded
    /\ recorded' = recorded \cup {script[s].at}
    /\ NextFile(s)
    /\ UNCHANGED <<applied, times, lost, quiet>>

\* The statement at hand cannot succeed.
Hopeless(s) ==
    \/ script[s].step = "apply" /\ script[s].at \in applied \ Repeatable
    \/ script[s].step = "record" /\ script[s].at \in recorded

\* Mutant of Break: without set -e the loop goes on.
BreakAndGoOn(s) ==
    /\ Hopeless(s)
    /\ NextFile(s)
    /\ UNCHANGED <<applied, recorded, times, lost, quiet>>

\* It fails, and set -e ends the script.
Break(s) ==
    /\ Hopeless(s)
    /\ script' = [script EXCEPT ![s] = NoScript]
    /\ UNCHANGED <<applied, recorded, times, lost, quiet>>

\* Interrupted, or the database or Docker is gone.
Stop(s) ==
    /\ Running(s)
    /\ script' = [script EXCEPT ![s] = NoScript]
    /\ lost' = IF script[s].step = "record" THEN lost \cup {script[s].at} ELSE lost
    /\ quiet' = FALSE
    /\ UNCHANGED <<applied, recorded, times>>

ScriptStep(s) == Check(s) \/ Apply(s) \/ Record(s) \/ Break(s)

MigrationsNext == \E s \in Scripts : Begin(s) \/ ScriptStep(s) \/ Stop(s)

-----------------------------------------------------------------------------
\* Whatever runs overlap or are stopped, migrations are applied in order
\* without a gap, and at most one is applied that is not recorded.
AppliedInOrder ==
    /\ \A v \in applied : \A w \in 1..v : w \in applied
    /\ recorded \subseteq applied
    /\ \A v \in applied \ recorded : recorded = 1..(v - 1)

\* A migration that was applied, is not recorded and cannot be applied again
\* locks out every later run.  That takes a run stopped between the two
\* statements; until then, somebody is about to record it.
LockedOutOnlyByStop ==
    \A v \in applied \ recorded :
        v \in lost \/ \E s \in Scripts : script[s] = [step |-> "record", at |-> v]

\* Runs that are neither stopped nor overlapped apply everything once, and no
\* statement of theirs fails (README: all migrations not yet applied).
QuietRunsSucceed ==
    quiet => /\ \A v \in Versions : times[v] <= 1
             /\ \A s \in Scripts : ~Hopeless(s)

\* A run that comes to its end leaves the whole schema.
DoneMeansComplete ==
    \A s \in Scripts : script[s].step = "done" => recorded = Versions
===============================================================================
