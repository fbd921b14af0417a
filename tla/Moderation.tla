------------------------------ MODULE Moderation ------------------------------
(***************************************************************************)
(* How applications and artifacts reach the public catalog of LegacyStore: *)
(* creation, the moderation queue, staged uploads and their commit         *)
(* (backend/internal/account/store_admin.go, store_catalog_admin.go,       *)
(* store_contribution.go, store_upload.go), as concurrent requests.        *)
(*                                                                         *)
(* A request authenticates first: requireAdmin reads the user's roles once *)
(* and the handler works with what it read.  Roles may change meanwhile.   *)
(* Every operation is one transaction; Moderate and CommitStagedUpload are *)
(* cut where another request can come in between.  Fail is every way of    *)
(* ending without an effect: not found, forbidden, a constraint, a         *)
(* deadlock victim, a crash; the Rollback gives the locks back.            *)
(*                                                                         *)
(* Moderators and administrators are one here (staff): the operations      *)
(* differ only in DELETE of an application.  Every user is an uploader.    *)
(***************************************************************************)
EXTENDS Naturals, FiniteSets

CONSTANTS
    Users,      \* accounts with an uploader role
    Apps,       \* rows of apps
    Artifacts,  \* rows of artifacts
    Stages,     \* rows of staged_uploads
    Names,      \* version strings
    Requests,   \* concurrent HTTP requests
    None

ASSUME ModerationAssumption ==
    /\ None \notin Users \cup Apps \cup Artifacts \cup Stages \cup Requests
    /\ Apps \cap Artifacts = {}

VARIABLES
    entity,     \* rows of apps and artifacts
    queue,      \* the moderation_queue row of each: its status
    versions,   \* rows of app_versions
    stages,     \* rows of staged_uploads and the FOR UPDATE lock on each
    staff,      \* the users with role moder or admin
    req         \* requests in flight

vars == <<entity, queue, versions, stages, staff, req>>
rows == <<entity, queue, versions, stages, staff>>

-----------------------------------------------------------------------------
Entities == Apps \cup Artifacts
Statuses == {"pending", "approved", "rejected"}
StaffOps == {"artifact", "upload", "version", "moderate", "edit", "delete"}
Ops == StaffOps \cup {"app", "stage", "commit"}

\* staff and edited are history: whether the request that last set the status
\* came from staff, and whether it set the status directly rather than through
\* the queue.
EntityRow == [status : Statuses \cup {"absent", "deleted"},
              version : (Apps \X Names) \cup {None},
              stage : Stages \cup {None}, staff : BOOLEAN, edited : BOOLEAN]

StageRow == [status : {"absent", "staged", "committed", "deleted"},
             app : Apps \cup {None}, owner : Users \cup {None},
             expired : BOOLEAN, lock : Requests \cup {None}]

Request == [op : Ops \cup {"idle"}, user : Users \cup {None}, staff : BOOLEAN,
            step : {"auth", "locked", "read"},
            target : Entities \cup Stages \cup {None},
            version : (Apps \X Names) \cup {None}, seen : BOOLEAN]

Idle == [op |-> "idle", user |-> None, staff |-> FALSE, step |-> "auth",
         target |-> None, version |-> None, seen |-> FALSE]

TypeOK ==
    /\ entity \in [Entities -> EntityRow]
    /\ queue \in [Entities -> Statuses \cup {"none"}]
    /\ versions \subseteq Apps \X Names
    /\ stages \in [Stages -> StageRow]
    /\ staff \subseteq Users
    /\ req \in [Requests -> Request]

Exists(e) == entity[e].status \in Statuses
Public(e) == entity[e].status = "approved"

\* Mutant of Entry: every submission is published.
EntryUnchecked(r) == "approved"

\* The status a creator's roles give: moderators publish at once.
Entry(r) == IF req[r].staff THEN "approved" ELSE "pending"

\* A staged upload that has expired or been locked since.
Held(s, expired, lock) == [status |-> stages[s].status, app |-> stages[s].app,
                           owner |-> stages[s].owner, expired |-> expired, lock |-> lock]

\* A staged upload nobody can commit any more.
DoneStage(status, app) == [status |-> status, app |-> app, owner |-> None,
                           expired |-> FALSE, lock |-> None]

\* INSERT of the row and of its queue entry, in one transaction.
Submit(e, status, version, stage, r) ==
    /\ entity[e].status = "absent"
    /\ entity' = [entity EXCEPT ![e] =
                    [status |-> status, version |-> version, stage |-> stage,
                     staff |-> req[r].staff, edited |-> FALSE]]
    /\ queue' = [queue EXCEPT ![e] = status]

\* The status and who gave it; what the row is of stays.
Decide(e, status, edited, r) ==
    entity' = [entity EXCEPT ![e] =
                 [status |-> status, version |-> entity[e].version,
                  stage |-> entity[e].stage, staff |-> req[r].staff,
                  edited |-> edited]]

\* The request has read what it goes on with.
Go(r, step, target, version, seen) ==
    req' = [req EXCEPT ![r] =
              [op |-> req[r].op, user |-> req[r].user, staff |-> req[r].staff,
               step |-> step, target |-> target, version |-> version, seen |-> seen]]

End(r) == req' = [req EXCEPT ![r] = Idle]

-----------------------------------------------------------------------------
Init ==
    /\ entity = [e \in Entities |->
                   [status |-> "absent", version |-> None, stage |-> None,
                    staff |-> FALSE, edited |-> FALSE]]
    /\ queue = [e \in Entities |-> "none"]
    /\ versions = {}
    /\ stages = [s \in Stages |-> [status |-> "absent", app |-> None,
                                   owner |-> None, expired |-> FALSE,
                                   lock |-> None]]
    /\ staff \in SUBSET Users
    /\ req = [r \in Requests |-> Idle]

\* Mutant of Authenticate: the handler asks for no role.
AuthenticateAnyone(r) ==
    /\ req[r].op = "idle"
    /\ \E u \in Users, op \in Ops :
         req' = [req EXCEPT ![r] =
                    [op |-> op, user |-> IF op \in {"stage", "commit"} THEN u ELSE None,
                     staff |-> u \in staff, step |-> "auth", target |-> None,
                     version |-> None, seen |-> FALSE]]
    /\ UNCHANGED rows

\* requireAdmin: who asks, what for, and with which roles as of now.  Who asks
\* matters to the operations on staged uploads only.
Authenticate(r) ==
    /\ req[r].op = "idle"
    /\ \E u \in Users, op \in Ops :
         /\ op \in StaffOps => u \in staff
         /\ req' = [req EXCEPT ![r] =
                       [op |-> op, user |-> IF op \in {"stage", "commit"} THEN u ELSE None,
                        staff |-> u \in staff, step |-> "auth", target |-> None,
                        version |-> None, seen |-> FALSE]]
    /\ UNCHANGED rows

\* AddRole and RemoveRole by the administrator.
ChangeRoles(u) ==
    /\ staff' = IF u \in staff THEN staff \ {u} ELSE staff \cup {u}
    /\ UNCHANGED <<entity, queue, versions, stages, req>>

-----------------------------------------------------------------------------
CreateAdminApp(r) ==
    /\ req[r].op = "app"
    /\ \E a \in Apps : Submit(a, Entry(r), None, None, r)
    /\ End(r)
    /\ UNCHANGED <<versions, stages, staff>>

CreateAdminVersion(r) ==
    /\ req[r].op = "version"
    /\ \E a \in Apps, n \in Names :
         /\ Exists(a)
         /\ <<a, n>> \notin versions
         /\ versions' = versions \cup {<<a, n>>}
    /\ End(r)
    /\ UNCHANGED <<entity, queue, stages, staff>>

\* A record of a file kept elsewhere; only staff reaches the handler.
CreateAdminArtifact(r) ==
    /\ req[r].op = "artifact"
    /\ \E e \in Artifacts, v \in versions :
         Submit(e, Entry(r), v, None, r)
    /\ End(r)
    /\ UNCHANGED <<versions, stages, staff>>

\* A file sent along: pending, whoever sends it.
CreateUploadedArtifact(r) ==
    /\ req[r].op = "upload"
    /\ \E e \in Artifacts, v \in versions :
         Submit(e, "pending", v, None, r)
    /\ End(r)
    /\ UNCHANGED <<versions, stages, staff>>

CreateStagedUpload(r) ==
    /\ req[r].op = "stage"
    /\ \E s \in Stages, a \in Apps :
         /\ stages[s].status = "absent"
         /\ Exists(a)
         /\ stages' = [stages EXCEPT ![s] =
                         [status |-> "staged", app |-> a, owner |-> req[r].user,
                          expired |-> FALSE, lock |-> None]]
    /\ End(r)
    /\ UNCHANGED <<entity, queue, versions, staff>>

ExpireStage(s) ==
    /\ stages[s].status = "staged"
    /\ ~stages[s].expired
    /\ stages' = [stages EXCEPT ![s] = Held(s, TRUE, stages[s].lock)]
    /\ UNCHANGED <<entity, queue, versions, staff, req>>

-----------------------------------------------------------------------------
\* Mutant of LockStage: without FOR UPDATE.
ReadStage(r) ==
    /\ req[r].op = "commit" /\ req[r].step = "auth"
    /\ \E s \in Stages, n \in Names :
         /\ stages[s].status = "staged"
         /\ ~stages[s].expired
         /\ stages[s].owner = req[r].user \/ req[r].staff
         /\ Go(r, "locked", s, <<stages[s].app, n>>, FALSE)
    /\ UNCHANGED rows

\* CommitStagedUpload: lock the staged row, if it is still to be committed and
\* the caller owns it or is staff, ...
LockStage(r) ==
    /\ req[r].op = "commit" /\ req[r].step = "auth"
    /\ \E s \in Stages, n \in Names :
         /\ stages[s].status = "staged"
         /\ ~stages[s].expired
         /\ stages[s].lock = None
         /\ stages[s].owner = req[r].user \/ req[r].staff
         /\ stages' = [stages EXCEPT ![s] = Held(s, FALSE, r)]
         /\ Go(r, "locked", s, <<stages[s].app, n>>, FALSE)
    /\ UNCHANGED <<entity, queue, versions, staff>>

\* ... start the statement that inserts or finds the version, whose snapshot
\* holds the versions committed by now, ...
FindVersion(r) ==
    /\ req[r].op = "commit" /\ req[r].step = "locked"
    /\ Go(r, "read", req[r].target, req[r].version, req[r].version \in versions)
    /\ UNCHANGED rows

\* ... and insert the artifact.  A version committed after the snapshot is a
\* conflict that inserts nothing and a SELECT that finds nothing: a Fail.
CommitStagedUpload(r) ==
    /\ req[r].op = "commit" /\ req[r].step = "read"
    /\ req[r].seen <=> req[r].version \in versions
    /\ versions' = versions \cup {req[r].version}
    /\ \E e \in Artifacts :
         Submit(e, Entry(r), req[r].version, req[r].target, r)
    /\ stages' = [stages EXCEPT ![req[r].target] =
                                   DoneStage("committed", req[r].version[1])]
    /\ End(r)
    /\ UNCHANGED staff

-----------------------------------------------------------------------------
\* Moderate: find the pending row, without a lock, ...
SelectPending(r) ==
    /\ req[r].op = "moderate" /\ req[r].step = "auth"
    /\ \E e \in Entities :
         /\ queue[e] = "pending"
         /\ Go(r, "read", e, None, FALSE)
    /\ UNCHANGED rows

\* Mutant of Moderate: the queue is updated, the artifact is not.
ModerateQueueOnly(r) ==
    /\ req[r].op = "moderate" /\ req[r].step = "read"
    /\ \E decision \in {"approved", "rejected"} :
         queue' = [queue EXCEPT ![req[r].target] = decision]
    /\ End(r)
    /\ UNCHANGED <<entity, versions, stages, staff>>

\* ... then set the decision on it and on the entity, whatever they are now.
\* The entity may have been deleted: its UPDATE then finds nothing.
Moderate(r) ==
    /\ req[r].op = "moderate" /\ req[r].step = "read"
    /\ \E decision \in {"approved", "rejected"}, e \in {req[r].target} :
         /\ queue' = [queue EXCEPT ![e] = decision]
         /\ IF Exists(e) THEN Decide(e, decision, FALSE, r) ELSE UNCHANGED entity
    /\ End(r)
    /\ UNCHANGED <<versions, stages, staff>>

\* UpdateAdminApp and UpdateAdminArtifact may set moderation_status directly;
\* the queue row keeps what it says.
UpdateStatus(r) ==
    /\ req[r].op = "edit"
    /\ \E e \in Entities, status \in Statuses :
         /\ Exists(e)
         /\ Decide(e, status, TRUE, r)
    /\ End(r)
    /\ UNCHANGED <<queue, versions, stages, staff>>

\* ON DELETE CASCADE: the artifacts of a version, everything of an application.
\* Of a deleted row only the staged upload it came from is remembered.
Remove(gone) ==
    entity' = [e \in Entities |->
                 IF e \in gone /\ Exists(e)
                 THEN [status |-> "deleted", version |-> None,
                       stage |-> entity[e].stage, staff |-> FALSE, edited |-> FALSE]
                 ELSE entity[e]]

\* Mutant of ArtifactsOf: artifacts do not follow their version.
ArtifactsOfNone(vs) == {}

ArtifactsOf(vs) == {e \in Artifacts : entity[e].version \in vs}

DeleteAdminArtifact(r) ==
    /\ req[r].op = "delete"
    /\ \E e \in Artifacts : Exists(e) /\ Remove({e})
    /\ End(r)
    /\ UNCHANGED <<queue, versions, stages, staff>>

DeleteAdminVersion(r) ==
    /\ req[r].op = "delete"
    /\ \E v \in versions : /\ Remove(ArtifactsOf({v}))
                           /\ versions' = versions \ {v}
    /\ End(r)
    /\ UNCHANGED <<queue, stages, staff>>

\* The staged rows go too: a commit that has one locked comes first.
DeleteAdminApp(r) ==
    /\ req[r].op = "delete"
    /\ \E a \in Apps :
         /\ Exists(a)
         /\ \A s \in Stages : stages[s].app = a => stages[s].lock = None
         /\ Remove({a} \cup ArtifactsOf({a} \X Names))
         /\ versions' = versions \ ({a} \X Names)
         /\ stages' = [s \in Stages |->
                         IF stages[s].app = a
                         THEN DoneStage("deleted", None)
                         ELSE stages[s]]
    /\ End(r)
    /\ UNCHANGED <<queue, staff>>

Fail(r) ==
    /\ req[r].op # "idle"
    /\ stages' = [s \in Stages |-> IF stages[s].lock = r
                                   THEN Held(s, stages[s].expired, None)
                                   ELSE stages[s]]
    /\ End(r)
    /\ UNCHANGED <<entity, queue, versions, staff>>

-----------------------------------------------------------------------------
Step(r) ==
    \/ CreateAdminApp(r) \/ CreateAdminVersion(r)
    \/ CreateAdminArtifact(r) \/ CreateUploadedArtifact(r)
    \/ CreateStagedUpload(r)
    \/ LockStage(r) \/ FindVersion(r) \/ CommitStagedUpload(r)
    \/ SelectPending(r) \/ Moderate(r)
    \/ UpdateStatus(r)
    \/ DeleteAdminArtifact(r) \/ DeleteAdminVersion(r) \/ DeleteAdminApp(r)

Next ==
    \/ \E r \in Requests : Authenticate(r) \/ Step(r) \/ Fail(r)
    \/ \E u \in Users : ChangeRoles(u)
    \/ \E s \in Stages : ExpireStage(s)

Spec == Init /\ [][Next]_vars

-----------------------------------------------------------------------------
(* Safety.                                                                 *)

\* What the public sees was let out by a moderator: whichever path led to the
\* approval, the request that gave it had a moderator's roles when it began.
PublishedByStaff == \A e \in Entities : Public(e) => entity[e].staff

\* The queue and the entity tell the same decision, also when two moderators
\* decide at the same time, unless the status was edited past the queue.
QueueAgrees ==
    \A e \in Entities :
        Exists(e) /\ ~entity[e].edited => queue[e] = entity[e].status

\* A staged upload becomes at most one artifact, and is committed exactly when
\* it has become one, however many requests commit it at the same time.
StageCommitsOnce ==
    \A s \in Stages :
        LET made == {e \in Artifacts : entity[e].stage = s}
        IN  /\ Cardinality(made) <= 1
            /\ stages[s].status = "committed" => made # {}
            /\ stages[s].status = "staged" => made = {}

\* No artifact outlives its version, no version and no staged upload its
\* application: foreign keys hold through deletes that cascade while a commit
\* is under way.
NoOrphan ==
    /\ \A e \in Artifacts : Exists(e) => entity[e].version \in versions
    /\ \A v \in versions : Exists(v[1])
    /\ \A s \in Stages :
         stages[s].status \in {"staged", "committed"} => Exists(stages[s].app)

-----------------------------------------------------------------------------
(* What Moderation promises (PublicCatalog).                               *)

\* The refinement mapping: rows that are there, that are approved, which
\* the public sees, and that were deleted; and the application an artifact's
\* version belongs to.
Kept == {e \in Entities : Exists(e)}
Shown == {e \in Entities : Public(e)}
Deleted == {e \in Entities : entity[e].status = "deleted"}
HomeOf == [e \in Artifacts |-> IF Exists(e) THEN entity[e].version[1] ELSE None]

\* Requests that passed requireAdmin as a moderator and have not ended.
Trusted == {r \in Requests : req[r].staff}

Catalog == INSTANCE PublicCatalog WITH
    Clients <- Requests, kept <- Kept, shown <- Shown, gone <- Deleted,
    home <- HomeOf, moderators <- staff, trusted <- Trusted

\* Queue, staged uploads, versions and requests that overlap together implement
\* PublicCatalog: whatever is shown was shown by one who was let in as staff, in
\* its one transaction; a staged upload that is committed while its application
\* is deleted never leaves an artifact behind, and a decision about a row that is
\* gone brings nothing back.
KeepsCatalogPromise == Catalog!Spec
=============================================================================
