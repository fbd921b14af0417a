--------------------------- MODULE ModerationProofs ---------------------------
(***************************************************************************)
(* What is public was let out by staff, the queue and the rows agree, a    *)
(* staged upload becomes one artifact and nothing outlives what it belongs *)
(* to: proofs about Moderation for any number of users, applications,      *)
(* artifacts, staged uploads, version names and requests.                  *)
(***************************************************************************)
EXTENDS Moderation, FiniteSetTheorems, TLAPS

\* What a row of an application or an artifact keeps.
EntityOK(e) ==
    /\ entity[e].status = "absent" => entity[e].stage = None
    /\ Public(e) => entity[e].staff
    /\ Exists(e) /\ ~entity[e].edited => queue[e] = entity[e].status
    /\ e \in Artifacts /\ Exists(e) => entity[e].version \in versions
    /\ e \in Artifacts /\ entity[e].stage # None =>
         stages[entity[e].stage].status \in {"committed", "deleted"}

\* No two artifacts come from one staged upload.
MadeOnce ==
    \A e, f \in Artifacts :
        entity[e].stage # None /\ entity[e].stage = entity[f].stage => e = f

StageOK(s) ==
    /\ stages[s].status = "committed" => \E e \in Artifacts : entity[e].stage = s
    /\ stages[s].status \in {"staged", "committed"} =>
         stages[s].app \in Apps /\ Exists(stages[s].app)

\* Whoever is to change the status was staff, and whoever commits a staged
\* upload has its row locked: nobody else takes it, and it is not deleted.
RequestOK(r) ==
    /\ req[r].op \in StaffOps => req[r].staff
    /\ req[r].op = "commit" /\ req[r].step # "auth" =>
         /\ req[r].target \in Stages
         /\ stages[req[r].target].lock = r
         /\ stages[req[r].target].status = "staged"
         /\ req[r].version \in Apps \X Names
         /\ req[r].version[1] = stages[req[r].target].app
    /\ req[r].op = "moderate" /\ req[r].step # "auth" => req[r].target \in Entities

IInv ==
    /\ TypeOK
    /\ \A e \in Entities : EntityOK(e)
    /\ MadeOnce
    /\ \A s \in Stages : StageOK(s)
    /\ \A v \in versions : Exists(v[1])
    /\ \A r \in Requests : RequestOK(r)

-----------------------------------------------------------------------------
\* The empty catalog satisfies the inductive invariant.
LEMMA InvInit == Init => IInv
  <1> SUFFICES ASSUME Init PROVE IInv
    OBVIOUS
  <1>1. TypeOK
    BY DEF Init, TypeOK, EntityRow, StageRow, Request, Idle, Statuses, Ops
  <1>2. \A e \in Entities : EntityOK(e)
    BY DEF Init, EntityOK, Public, Exists, Statuses
  <1>3. MadeOnce
    BY DEF Init, MadeOnce, Entities
  <1>4. \A s \in Stages : StageOK(s)
    BY DEF Init, StageOK
  <1>5. \A r \in Requests : RequestOK(r)
    BY DEF Init, RequestOK, Idle, StaffOps
  <1> QED BY <1>1, <1>2, <1>3, <1>4, <1>5 DEF Init, IInv

\* A new row is of its type, and only it and its queue entry change.
LEMMA SubmitEffect ==
  ASSUME TypeOK, NEW e \in Entities, NEW status \in Statuses,
         NEW version \in (Apps \X Names) \cup {None}, NEW stage \in Stages \cup {None},
         NEW r \in Requests, Submit(e, status, version, stage, r)
  PROVE  /\ entity' \in [Entities -> EntityRow]
         /\ queue' \in [Entities -> Statuses \cup {"none"}]
         /\ entity[e].status = "absent"
         /\ entity'[e].status = status /\ entity'[e].version = version
         /\ entity'[e].stage = stage /\ entity'[e].staff = req[r].staff
         /\ queue'[e] = status
         /\ \A x \in Entities \ {e} : entity'[x] = entity[x] /\ queue'[x] = queue[x]
  <1> DEFINE row == [status |-> status, version |-> version, stage |-> stage,
                     staff |-> req[r].staff, edited |-> FALSE]
  <1>1. entity' = [entity EXCEPT ![e] = row] /\ queue' = [queue EXCEPT ![e] = status]
    BY DEF Submit
  <1>2. req[r].staff \in BOOLEAN
    BY DEF TypeOK, Request
  <1>3. row \in EntityRow
    BY <1>2 DEF EntityRow
  <1> HIDE DEF row
  <1>4. /\ entity' \in [Entities -> EntityRow] /\ entity'[e] = row
        /\ \A x \in Entities \ {e} : entity'[x] = entity[x]
    BY <1>1, <1>3 DEF TypeOK
  <1> QED BY <1>1, <1>4 DEF TypeOK, Submit, row

\* A decision changes the status of one row.
LEMMA DecideEffect ==
  ASSUME TypeOK, NEW e \in Entities, NEW status \in Statuses, NEW edited \in BOOLEAN,
         NEW r \in Requests, Decide(e, status, edited, r)
  PROVE  /\ entity' \in [Entities -> EntityRow]
         /\ entity'[e].status = status /\ entity'[e].version = entity[e].version
         /\ entity'[e].stage = entity[e].stage /\ entity'[e].staff = req[r].staff
         /\ entity'[e].edited = edited
         /\ \A x \in Entities \ {e} : entity'[x] = entity[x]
  <1> DEFINE row == [status |-> status, version |-> entity[e].version,
                     stage |-> entity[e].stage, staff |-> req[r].staff,
                     edited |-> edited]
  <1>1. entity' = [entity EXCEPT ![e] = row]
    BY DEF Decide
  <1>2. req[r].staff \in BOOLEAN
    BY DEF TypeOK, Request
  <1>3. row \in EntityRow
    BY <1>2 DEF EntityRow, TypeOK
  <1> HIDE DEF row
  <1>4. /\ entity' \in [Entities -> EntityRow] /\ entity'[e] = row
        /\ \A x \in Entities \ {e} : entity'[x] = entity[x]
    BY <1>1, <1>3 DEF TypeOK
  <1> QED BY <1>4 DEF row

\* Deleted rows keep the staged upload they came from; the others stay.
LEMMA RemoveEffect ==
  ASSUME TypeOK, NEW gone \in SUBSET Entities, Remove(gone)
  PROVE  /\ entity' \in [Entities -> EntityRow]
         /\ \A x \in Entities :
              IF x \in gone /\ Exists(x)
              THEN entity'[x].status = "deleted" /\ entity'[x].stage = entity[x].stage
              ELSE entity'[x] = entity[x]
  <1>1. ASSUME NEW x \in Entities
        PROVE  /\ entity'[x] \in EntityRow
               /\ IF x \in gone /\ Exists(x)
                  THEN entity'[x].status = "deleted" /\ entity'[x].stage = entity[x].stage
                  ELSE entity'[x] = entity[x]
    BY DEF TypeOK, Remove, EntityRow
  <1>2. entity' = [x \in Entities |-> entity'[x]]
    BY DEF Remove
  <1> QED BY <1>1, <1>2

\* Of the requests only one changes: it ends or goes on.
LEMMA EndEffect ==
  ASSUME TypeOK, NEW r \in Requests, End(r)
  PROVE  /\ req' \in [Requests -> Request]
         /\ req'[r].op = "idle"
         /\ \A q \in Requests \ {r} : req'[q] = req[q]
  <1>1. Idle \in Request
    BY DEF Idle, Request, Ops
  <1> QED BY <1>1 DEF TypeOK, End, Idle

LEMMA GoEffect ==
  ASSUME TypeOK, NEW r \in Requests, NEW step \in {"locked", "read"},
         NEW target \in Entities \cup Stages \cup {None},
         NEW version \in (Apps \X Names) \cup {None}, NEW seen \in BOOLEAN,
         Go(r, step, target, version, seen)
  PROVE  /\ req' \in [Requests -> Request]
         /\ req'[r].op = req[r].op /\ req'[r].staff = req[r].staff
         /\ req'[r].step = step /\ req'[r].target = target
         /\ req'[r].version = version
         /\ \A q \in Requests \ {r} : req'[q] = req[q]
  <1> DEFINE row == [op |-> req[r].op, user |-> req[r].user, staff |-> req[r].staff,
                     step |-> step, target |-> target, version |-> version,
                     seen |-> seen]
  <1>1. row \in Request
    BY DEF TypeOK, Request
  <1>2. req' = [req EXCEPT ![r] = row]
    BY DEF Go
  <1> HIDE DEF row
  <1>3. /\ req' \in [Requests -> Request] /\ req'[r] = row
        /\ \A q \in Requests \ {r} : req'[q] = req[q]
    BY <1>1, <1>2 DEF TypeOK
  <1> QED BY <1>3 DEF row

\* What other requests have locked.
LocksKept(r) ==
    \A s \in Stages : stages[s].lock \notin {None, r} =>
        /\ stages'[s].lock = stages[s].lock
        /\ stages'[s].status = stages[s].status
        /\ stages'[s].app = stages[s].app

\* A request that ends takes nothing from the others.
LEMMA OthersKept ==
  ASSUME IInv, NEW r \in Requests, LocksKept(r),
         \A q \in Requests \ {r} : req'[q] = req[q]
  PROVE  \A q \in Requests \ {r} : RequestOK(q)'
  <1> SUFFICES ASSUME NEW q \in Requests \ {r} PROVE RequestOK(q)'
    OBVIOUS
  <1>1. RequestOK(q) /\ req'[q] = req[q]
    BY DEF IInv
  <1>2. q # None
    BY ModerationAssumption
  <1>3. CASE req[q].op = "commit" /\ req[q].step # "auth"
    BY <1>1, <1>2, <1>3 DEF RequestOK, LocksKept
  <1>4. CASE ~(req[q].op = "commit" /\ req[q].step # "auth")
    BY <1>1, <1>4 DEF RequestOK
  <1> QED BY <1>3, <1>4

LEMMA EndKeeps ==
  ASSUME IInv, NEW r \in Requests, End(r), LocksKept(r)
  PROVE  req' \in [Requests -> Request] /\ \A q \in Requests : RequestOK(q)'
  <1>1. /\ req' \in [Requests -> Request] /\ req'[r].op = "idle"
        /\ \A q \in Requests \ {r} : req'[q] = req[q]
    BY EndEffect DEF IInv
  <1>2. RequestOK(r)'
    BY <1>1 DEF RequestOK, StaffOps
  <1> QED BY <1>1, <1>2, OthersKept

LEMMA SameLocks ==
  ASSUME NEW r \in Requests, UNCHANGED stages
  PROVE  LocksKept(r)
  BY DEF LocksKept

\* A new row keeps the invariant if staff sent what is published at once, its
\* version is there and its staged upload is committed with it.
LEMMA SubmitKeeps ==
  ASSUME IInv, NEW e \in Entities, NEW status \in Statuses,
         NEW version \in (Apps \X Names) \cup {None}, NEW stage \in Stages \cup {None},
         NEW r \in Requests, Submit(e, status, version, stage, r),
         status = "approved" => req[r].staff,
         versions \subseteq versions', e \in Artifacts => version \in versions',
         \A s \in Stages : s # stage => stages'[s] = stages[s],
         stage # None => /\ e \in Artifacts
                         /\ stages[stage].status = "staged"
                         /\ stages'[stage].status = "committed"
                         /\ stages'[stage].app = stages[stage].app
  PROVE  /\ entity' \in [Entities -> EntityRow]
         /\ queue' \in [Entities -> Statuses \cup {"none"}]
         /\ \A x \in Entities : EntityOK(x)' /\ (Exists(x) => Exists(x)')
         /\ MadeOnce'
         /\ \A s \in Stages : StageOK(s)'
  <1>1. /\ entity' \in [Entities -> EntityRow]
        /\ queue' \in [Entities -> Statuses \cup {"none"}]
        /\ entity[e].status = "absent"
        /\ entity'[e].status = status /\ entity'[e].version = version
        /\ entity'[e].stage = stage /\ entity'[e].staff = req[r].staff
        /\ queue'[e] = status
        /\ \A x \in Entities \ {e} : entity'[x] = entity[x] /\ queue'[x] = queue[x]
    BY SubmitEffect DEF IInv
  <1>2. \A x \in Artifacts : entity[x].stage \in Stages \cup {None}
    BY DEF IInv, TypeOK, EntityRow, Entities
  <1>3. \A x \in Artifacts : entity[x].stage = stage => stage = None
    BY DEF IInv, EntityOK, Entities
  <1>4. ASSUME NEW x \in Entities PROVE EntityOK(x)' /\ (Exists(x) => Exists(x)')
    <2>1. CASE x = e
      <3>1. status # "absent"
        BY DEF Statuses
      <3> QED BY <1>1, <2>1, <3>1 DEF EntityOK, Exists, Public, Statuses
    <2>2. CASE x # e
      <3>1. EntityOK(x) /\ entity'[x] = entity[x] /\ queue'[x] = queue[x]
        BY <1>1, <2>2 DEF IInv
      <3>2. ASSUME x \in Artifacts, entity[x].stage # None
            PROVE  stages'[entity[x].stage] = stages[entity[x].stage]
        BY <1>2, <1>3, <3>2
      <3> QED BY <3>1, <3>2 DEF EntityOK, Exists, Public
    <2> QED BY <2>1, <2>2
  <1>5. MadeOnce'
    <2> SUFFICES ASSUME NEW x \in Artifacts, NEW y \in Artifacts,
                        entity'[x].stage # None, entity'[x].stage = entity'[y].stage
                 PROVE  x = y
      BY DEF MadeOnce
    <2>1. CASE x = e \/ y = e
      BY <1>1, <1>3, <2>1 DEF Entities
    <2>2. CASE x # e /\ y # e
      BY <1>1, <2>2 DEF IInv, MadeOnce, Entities
    <2> QED BY <2>1, <2>2
  <1>6. ASSUME NEW s \in Stages PROVE StageOK(s)'
    <2>1. StageOK(s)
      BY DEF IInv
    <2>2. s # None
      BY ModerationAssumption
    <2>3. ASSUME stages'[s].status \in {"staged", "committed"}
          PROVE  (stages[s].app \in Apps /\ Exists(stages[s].app))'
      <3>1. stages[s].status \in {"staged", "committed"} /\ stages'[s].app = stages[s].app
        BY <2>2, <2>3
      <3>2. stages[s].app \in Apps /\ Exists(stages[s].app)
        BY <2>1, <3>1 DEF StageOK
      <3>3. PICK a \in Apps : a = stages[s].app
        BY <3>2
      <3>4. Exists(a)'
        BY <1>4, <3>2, <3>3 DEF Entities
      <3> QED BY <3>1, <3>2, <3>3, <3>4 DEF Exists
    <2>4. CASE s = stage
      <3>1. e \in Artifacts /\ entity'[e].stage = s
        BY <1>1, <2>2, <2>4
      <3> QED BY <2>3, <3>1 DEF StageOK
    <2>5. CASE s # stage
      <3>1. ASSUME stages[s].status = "committed"
            PROVE  \E x \in Artifacts : entity'[x].stage = s
        <4>1. PICK x \in Artifacts : entity[x].stage = s
          BY <2>1, <3>1 DEF StageOK
        <4>2. x # e
          <5>1. entity[e].stage = None
            BY <1>1 DEF IInv, EntityOK
          <5> QED BY <2>2, <4>1, <5>1
        <4> QED BY <1>1, <4>1, <4>2 DEF Entities
      <3> QED BY <2>3, <2>5, <3>1 DEF StageOK
    <2> QED BY <2>4, <2>5
  <1> QED BY <1>1, <1>4, <1>5, <1>6

\* A decision of staff keeps the invariant if the queue follows it or the row
\* was edited past the queue.
LEMMA DecideKeeps ==
  ASSUME IInv, NEW e \in Entities, NEW status \in Statuses, NEW edited \in BOOLEAN,
         NEW r \in Requests, Exists(e), Decide(e, status, edited, r),
         req[r].staff, ~edited => queue'[e] = status,
         \A x \in Entities \ {e} : queue'[x] = queue[x],
         UNCHANGED <<versions, stages>>
  PROVE  /\ entity' \in [Entities -> EntityRow]
         /\ \A x \in Entities : EntityOK(x)' /\ (Exists(x) => Exists(x)')
         /\ MadeOnce'
         /\ \A s \in Stages : StageOK(s)'
  <1>1. /\ entity' \in [Entities -> EntityRow]
        /\ entity'[e].status = status /\ entity'[e].version = entity[e].version
        /\ entity'[e].stage = entity[e].stage /\ entity'[e].staff = req[r].staff
        /\ entity'[e].edited = edited
        /\ \A x \in Entities \ {e} : entity'[x] = entity[x]
    BY DecideEffect DEF IInv
  <1>2. ASSUME NEW x \in Entities PROVE EntityOK(x)' /\ (Exists(x) => Exists(x)')
    <2>1. EntityOK(x)
      BY DEF IInv
    <2>2. CASE x = e
      BY <1>1, <2>1, <2>2 DEF EntityOK, Exists, Public, Statuses
    <2>3. CASE x # e
      BY <1>1, <2>1, <2>3 DEF EntityOK, Exists, Public
    <2> QED BY <2>2, <2>3
  <1>3. \A x \in Entities : entity'[x].stage = entity[x].stage
    BY <1>1
  <1>4. MadeOnce'
    BY <1>3 DEF IInv, MadeOnce, Entities
  <1>5. ASSUME NEW s \in Stages PROVE StageOK(s)'
    <2>1. StageOK(s)
      BY DEF IInv
    <2> QED BY <1>2, <1>3, <2>1 DEF StageOK, Entities
  <1> QED BY <1>1, <1>2, <1>4, <1>5

\* A deletion keeps the invariant if everything that belongs to what is deleted
\* goes with it.
LEMMA RemoveKeeps ==
  ASSUME IInv, NEW gone \in SUBSET Entities, Remove(gone), UNCHANGED queue,
         \A x \in Artifacts \ gone : Exists(x) => entity[x].version \in versions',
         \A s \in Stages : \/ stages'[s] = stages[s] /\ stages[s].app \notin gone
                           \/ stages'[s].status = "deleted"
                           \/ stages'[s] = stages[s] /\ gone \cap Apps = {}
  PROVE  /\ entity' \in [Entities -> EntityRow]
         /\ \A x \in Entities : EntityOK(x)' /\ (Exists(x) /\ x \notin gone => Exists(x)')
         /\ MadeOnce'
         /\ \A s \in Stages : StageOK(s)'
  <1>1. /\ entity' \in [Entities -> EntityRow]
        /\ \A x \in Entities :
             IF x \in gone /\ Exists(x)
             THEN entity'[x].status = "deleted" /\ entity'[x].stage = entity[x].stage
             ELSE entity'[x] = entity[x]
    BY RemoveEffect DEF IInv
  <1>2. \A x \in Entities : entity'[x].stage = entity[x].stage
    BY <1>1
  <1>3. \A s \in Stages : stages'[s] = stages[s] \/ stages'[s].status = "deleted"
    OBVIOUS
  <1>4. ASSUME NEW x \in Entities
        PROVE  EntityOK(x)' /\ (Exists(x) /\ x \notin gone => Exists(x)')
    <2>1. EntityOK(x) /\ entity[x].stage \in Stages \cup {None}
      BY DEF IInv, TypeOK, EntityRow
    <2>2. ASSUME x \in Artifacts, entity'[x].stage # None
          PROVE  stages'[entity'[x].stage].status \in {"committed", "deleted"}
      <3>1. PICK s \in Stages : entity[x].stage = s /\ entity'[x].stage = s
        BY <1>2, <2>1, <2>2
      <3>2. stages[s].status \in {"committed", "deleted"}
        BY <1>2, <2>1, <2>2, <3>1 DEF EntityOK
      <3> QED BY <1>3, <3>1, <3>2
    <2>3. CASE x \in gone /\ Exists(x)
      BY <1>1, <2>2, <2>3 DEF EntityOK, Exists, Public, Statuses
    <2>4. CASE ~(x \in gone /\ Exists(x))
      BY <1>1, <2>1, <2>2, <2>4 DEF EntityOK, Exists, Public
    <2> QED BY <2>3, <2>4
  <1>5. MadeOnce'
    BY <1>2 DEF IInv, MadeOnce, Entities
  <1>6. ASSUME NEW s \in Stages PROVE StageOK(s)'
    <2>1. StageOK(s)
      BY DEF IInv
    <2>2. CASE stages'[s].status = "deleted"
      BY <2>2 DEF StageOK
    <2>3. CASE stages'[s] = stages[s] /\ (stages[s].app \notin gone \/ gone \cap Apps = {})
      <3>1. ASSUME stages[s].status = "committed"
            PROVE  \E x \in Artifacts : entity'[x].stage = s
        BY <1>2, <2>1, <3>1 DEF StageOK, Entities
      <3>2. ASSUME stages[s].status \in {"staged", "committed"}
            PROVE  stages[s].app \in Apps /\ entity'[stages[s].app].status \in Statuses
        <4>1. PICK a \in Apps : a = stages[s].app /\ Exists(a) /\ a \notin gone
          BY <2>1, <2>3, <3>2 DEF StageOK
        <4> QED BY <1>4, <4>1 DEF Entities, Exists
      <3> QED BY <2>3, <3>1, <3>2 DEF StageOK, Exists
    <2> QED BY <2>2, <2>3
  <1> QED BY <1>1, <1>4, <1>5, <1>6

-----------------------------------------------------------------------------
\* Who asks becomes known: what the invariant says of a request that has just
\* authenticated is what requireAdmin has read.
LEMMA Authenticated ==
  ASSUME IInv, NEW r \in Requests, Authenticate(r)
  PROVE  IInv'
  <1>1. PICK u \in Users, op \in Ops :
           /\ op \in StaffOps => u \in staff
           /\ req' = [req EXCEPT ![r] =
                       [op |-> op, user |-> IF op \in {"stage", "commit"} THEN u ELSE None,
                        staff |-> u \in staff, step |-> "auth", target |-> None,
                        version |-> None, seen |-> FALSE]]
    BY DEF Authenticate
  <1> DEFINE row == [op |-> op, user |-> IF op \in {"stage", "commit"} THEN u ELSE None,
                     staff |-> u \in staff, step |-> "auth", target |-> None,
                     version |-> None, seen |-> FALSE]
  <1>2. row \in Request
    <2>1. (u \in staff) \in BOOLEAN
      OBVIOUS
    <2>2. (IF op \in {"stage", "commit"} THEN u ELSE None) \in Users \cup {None}
      OBVIOUS
    <2> QED BY <2>1, <2>2 DEF Request
  <1>3. row.op = op /\ row.staff = (u \in staff) /\ row.step = "auth"
    OBVIOUS
  <1> HIDE DEF row
  <1>4. /\ req' \in [Requests -> Request] /\ req'[r] = row
        /\ \A q \in Requests \ {r} : req'[q] = req[q]
    BY <1>1, <1>2 DEF IInv, TypeOK, row
  <1>5. UNCHANGED <<entity, queue, versions, stages, staff>>
    BY DEF Authenticate, rows
  <1>6. RequestOK(r)'
    BY <1>1, <1>3, <1>4 DEF RequestOK
  <1>7. \A q \in Requests : RequestOK(q)'
    BY <1>4, <1>5, <1>6, SameLocks, OthersKept
  <1>8. TypeOK'
    BY <1>4, <1>5 DEF IInv, TypeOK
  <1> QED BY <1>5, <1>7, <1>8
          DEF IInv, EntityOK, Exists, Public, MadeOnce, StageOK

\* Locks and expiry of staged uploads matter to requests only.
LEMMA LockKeeps ==
  ASSUME IInv, UNCHANGED <<entity, queue, versions>>,
         \A s \in Stages : stages'[s].status = stages[s].status /\ stages'[s].app = stages[s].app
  PROVE  /\ \A e \in Entities : EntityOK(e)'
         /\ MadeOnce'
         /\ \A s \in Stages : StageOK(s)'
         /\ \A v \in versions' : Exists(v[1])'
  <1>1. ASSUME NEW e \in Entities PROVE EntityOK(e)'
    <2>1. EntityOK(e) /\ entity[e].stage \in Stages \cup {None}
      BY DEF IInv, TypeOK, EntityRow
    <2>2. entity[e].stage # None =>
            stages'[entity[e].stage].status = stages[entity[e].stage].status
      BY <2>1
    <2> QED BY <2>1, <2>2 DEF EntityOK, Exists, Public
  <1> QED BY <1>1 DEF IInv, MadeOnce, StageOK, Exists

\* Steps of requests that leave the catalog alone.
LEMMA LockStageKeeps ==
  ASSUME IInv, NEW r \in Requests, LockStage(r)
  PROVE  IInv'
  <1>1. PICK s \in Stages, n \in Names :
           /\ stages[s].status = "staged"
           /\ stages[s].lock = None
           /\ stages' = [stages EXCEPT ![s] = Held(s, FALSE, r)]
           /\ Go(r, "locked", s, <<stages[s].app, n>>, FALSE)
    BY DEF LockStage
  <1>2. UNCHANGED <<entity, queue, versions, staff>> /\ req[r].op = "commit"
    BY DEF LockStage
  <1>3. /\ Held(s, FALSE, r) \in StageRow
        /\ Held(s, FALSE, r).status = "staged" /\ Held(s, FALSE, r).lock = r
        /\ Held(s, FALSE, r).app = stages[s].app
    BY <1>1 DEF Held, StageRow, IInv, TypeOK
  <1>4. /\ stages' \in [Stages -> StageRow] /\ stages'[s] = Held(s, FALSE, r)
        /\ \A t \in Stages \ {s} : stages'[t] = stages[t]
    BY <1>1, <1>3 DEF IInv, TypeOK
  <1>5. stages[s].app \in Apps
    BY <1>1 DEF IInv, StageOK
  <1>6. /\ req' \in [Requests -> Request]
        /\ req'[r].op = "commit" /\ req'[r].step = "locked" /\ req'[r].target = s
        /\ req'[r].version = <<stages[s].app, n>>
        /\ \A q \in Requests \ {r} : req'[q] = req[q]
    <2> DEFINE v == <<stages[s].app, n>>
    <2>1. v \in (Apps \X Names) \cup {None}
      BY <1>5
    <2>2. s \in Entities \cup Stages \cup {None} /\ TypeOK
      BY DEF IInv
    <2>3. Go(r, "locked", s, v, FALSE)
      BY <1>1
    <2> HIDE DEF v
    <2>4. /\ req' \in [Requests -> Request]
          /\ req'[r].op = req[r].op /\ req'[r].step = "locked" /\ req'[r].target = s
          /\ req'[r].version = v
          /\ \A q \in Requests \ {r} : req'[q] = req[q]
      BY <2>1, <2>2, <2>3, GoEffect
    <2> QED BY <1>2, <2>4 DEF v
  <1>7. LocksKept(r)
    BY <1>1, <1>4 DEF LocksKept
  <1>8. RequestOK(r)'
    <2>1. req'[r].version \in Apps \X Names /\ req'[r].version[1] = stages[s].app
      BY <1>5, <1>6
    <2>2. /\ stages'[s].lock = r /\ stages'[s].status = "staged"
          /\ stages'[s].app = stages[s].app
      BY <1>3, <1>4
    <2> QED BY <1>6, <2>1, <2>2 DEF RequestOK, StaffOps
  <1>9. \A q \in Requests : RequestOK(q)'
    BY <1>6, <1>7, <1>8, OthersKept
  <1>10. TypeOK'
    BY <1>2, <1>4, <1>6 DEF IInv, TypeOK
  <1>11. \A t \in Stages : stages'[t].status = stages[t].status /\ stages'[t].app = stages[t].app
    BY <1>1, <1>3, <1>4
  <1> QED BY <1>2, <1>9, <1>10, <1>11, LockKeeps DEF IInv

LEMMA FindVersionKeeps ==
  ASSUME IInv, NEW r \in Requests, FindVersion(r)
  PROVE  IInv'
  <1>1. /\ req[r].op = "commit" /\ req[r].step = "locked"
        /\ Go(r, "read", req[r].target, req[r].version, req[r].version \in versions)
        /\ UNCHANGED <<entity, queue, versions, stages, staff>>
    BY DEF FindVersion, rows
  <1>2. req[r].target \in Stages /\ req[r].version \in Apps \X Names /\ RequestOK(r)
    BY <1>1 DEF IInv, RequestOK
  <1>3. (req[r].version \in versions) \in BOOLEAN
    OBVIOUS
  <1>4. /\ req' \in [Requests -> Request]
        /\ req'[r].op = "commit" /\ req'[r].step = "read" /\ req'[r].target = req[r].target
        /\ req'[r].version = req[r].version
        /\ \A q \in Requests \ {r} : req'[q] = req[q]
    <2>1. /\ req[r].version \in (Apps \X Names) \cup {None}
          /\ req[r].target \in Entities \cup Stages \cup {None}
          /\ TypeOK /\ "read" \in {"locked", "read"}
      BY <1>2 DEF IInv
    <2>2. PICK seen \in BOOLEAN : seen = (req[r].version \in versions)
      BY <1>3
    <2>3. Go(r, "read", req[r].target, req[r].version, seen)
      BY <1>1, <2>2 DEF Go
    <2> QED BY <1>1, <2>1, <2>3, GoEffect
  <1>5. RequestOK(r)'
    BY <1>1, <1>2, <1>4 DEF RequestOK, StaffOps
  <1>6. \A q \in Requests : RequestOK(q)'
    BY <1>1, <1>4, <1>5, SameLocks, OthersKept
  <1>7. TypeOK'
    BY <1>1, <1>4 DEF IInv, TypeOK
  <1> QED BY <1>1, <1>6, <1>7, LockKeeps DEF IInv

LEMMA SelectPendingKeeps ==
  ASSUME IInv, NEW r \in Requests, SelectPending(r)
  PROVE  IInv'
  <1>1. PICK e \in Entities : Go(r, "read", e, None, FALSE)
    BY DEF SelectPending
  <1>2. /\ UNCHANGED <<entity, queue, versions, stages, staff>>
        /\ req[r].op = "moderate" /\ RequestOK(r)
    BY DEF SelectPending, rows, IInv
  <1>3. /\ req' \in [Requests -> Request]
        /\ req'[r].op = "moderate" /\ req'[r].target = e /\ req'[r].staff = req[r].staff
        /\ \A q \in Requests \ {r} : req'[q] = req[q]
    BY <1>1, <1>2, GoEffect DEF IInv
  <1>4. RequestOK(r)'
    BY <1>2, <1>3 DEF RequestOK, StaffOps
  <1>5. \A q \in Requests : RequestOK(q)'
    BY <1>2, <1>3, <1>4, SameLocks, OthersKept
  <1>6. TypeOK'
    BY <1>2, <1>3 DEF IInv, TypeOK
  <1> QED BY <1>2, <1>5, <1>6, LockKeeps DEF IInv

LEMMA FailKeeps ==
  ASSUME IInv, NEW r \in Requests, Fail(r)
  PROVE  IInv'
  <1>1. /\ stages' = [s \in Stages |-> IF stages[s].lock = r
                                       THEN Held(s, stages[s].expired, None)
                                       ELSE stages[s]]
        /\ End(r) /\ UNCHANGED <<entity, queue, versions, staff>>
    BY DEF Fail
  <1>2. ASSUME NEW s \in Stages
        PROVE  /\ stages'[s] \in StageRow
               /\ stages'[s].status = stages[s].status /\ stages'[s].app = stages[s].app
               /\ stages[s].lock # r => stages'[s] = stages[s]
    BY <1>1 DEF IInv, TypeOK, StageRow, Held
  <1>3. stages' \in [Stages -> StageRow]
    BY <1>1, <1>2
  <1>4. LocksKept(r)
    BY <1>2 DEF LocksKept
  <1>5. req' \in [Requests -> Request] /\ \A q \in Requests : RequestOK(q)'
    BY <1>1, <1>4, EndKeeps
  <1>6. TypeOK'
    BY <1>1, <1>3, <1>5 DEF IInv, TypeOK
  <1> QED BY <1>1, <1>2, <1>5, <1>6, LockKeeps DEF IInv

LEMMA ExpireKeeps ==
  ASSUME IInv, NEW s \in Stages, ExpireStage(s)
  PROVE  IInv'
  <1>1. /\ stages' = [stages EXCEPT ![s] = Held(s, TRUE, stages[s].lock)]
        /\ UNCHANGED <<entity, queue, versions, staff, req>>
    BY DEF ExpireStage
  <1>2. /\ Held(s, TRUE, stages[s].lock) \in StageRow
        /\ Held(s, TRUE, stages[s].lock).status = stages[s].status
        /\ Held(s, TRUE, stages[s].lock).lock = stages[s].lock
        /\ Held(s, TRUE, stages[s].lock).app = stages[s].app
    BY DEF Held, StageRow, IInv, TypeOK
  <1>3. /\ stages' \in [Stages -> StageRow]
        /\ stages'[s] = Held(s, TRUE, stages[s].lock)
        /\ \A t \in Stages \ {s} : stages'[t] = stages[t]
    BY <1>1, <1>2 DEF IInv, TypeOK
  <1>4. \A t \in Stages : /\ stages'[t].status = stages[t].status
                          /\ stages'[t].app = stages[t].app
                          /\ stages'[t].lock = stages[t].lock
    BY <1>2, <1>3
  <1>5. ASSUME NEW q \in Requests PROVE RequestOK(q)'
    <2>1. RequestOK(q) /\ req'[q] = req[q]
      BY <1>1 DEF IInv
    <2>2. CASE req[q].op = "commit" /\ req[q].step # "auth"
      BY <1>4, <2>1, <2>2 DEF RequestOK
    <2>3. CASE ~(req[q].op = "commit" /\ req[q].step # "auth")
      BY <2>1, <2>3 DEF RequestOK
    <2> QED BY <2>2, <2>3
  <1>6. TypeOK'
    BY <1>1, <1>3 DEF IInv, TypeOK
  <1> QED BY <1>1, <1>4, <1>5, <1>6, LockKeeps DEF IInv

\* The rows of other requests' versions stay under their applications.
LEMMA VersionsStay ==
  ASSUME IInv, \A a \in Apps : Exists(a) => Exists(a)',
         NEW v \in versions
  PROVE  Exists(v[1])'
  <1>1. v[1] \in Apps /\ Exists(v[1])
    BY DEF IInv, TypeOK
  <1> QED BY <1>1

\* Applications and artifacts that are created with an entry of the queue.
LEMMA CreateKeeps ==
  ASSUME IInv, NEW r \in Requests, NEW e \in Entities, NEW status \in Statuses,
         NEW version \in versions \cup {None},
         Submit(e, status, version, None, r), status = "approved" => req[r].staff,
         e \in Artifacts => version \in versions,
         End(r), UNCHANGED <<versions, stages, staff>>
  PROVE  IInv'
  <1>1. version \in (Apps \X Names) \cup {None} /\ (e \in Artifacts => version \in versions')
    BY DEF IInv, TypeOK
  <1>2. None \in Stages \cup {None}
    OBVIOUS
  <1>3. /\ entity' \in [Entities -> EntityRow]
        /\ queue' \in [Entities -> Statuses \cup {"none"}]
        /\ \A x \in Entities : EntityOK(x)' /\ (Exists(x) => Exists(x)')
        /\ MadeOnce'
        /\ \A s \in Stages : StageOK(s)'
    <2>1. \A s \in Stages : stages'[s] = stages[s]
      OBVIOUS
    <2> QED BY <1>1, <1>2, <2>1, SubmitKeeps
  <1>4. req' \in [Requests -> Request] /\ \A q \in Requests : RequestOK(q)'
    BY SameLocks, EndKeeps
  <1>5. TypeOK'
    BY <1>3, <1>4 DEF IInv, TypeOK
  <1>6. \A v \in versions' : Exists(v[1])'
    BY <1>3, VersionsStay DEF Entities
  <1> QED BY <1>3, <1>4, <1>5, <1>6 DEF IInv

LEMMA CreateAdminAppKeeps ==
  ASSUME IInv, NEW r \in Requests, CreateAdminApp(r)
  PROVE  IInv'
  <1>1. PICK a \in Apps : Submit(a, Entry(r), None, None, r)
    BY DEF CreateAdminApp
  <1>2. End(r) /\ UNCHANGED <<versions, stages, staff>>
    BY DEF CreateAdminApp
  <1>3. a \in Entities /\ a \notin Artifacts
    BY ModerationAssumption DEF Entities
  <1>4. Entry(r) \in Statuses /\ (Entry(r) = "approved" => req[r].staff)
    BY DEF Entry, Statuses
  <1> QED BY <1>1, <1>2, <1>3, <1>4, CreateKeeps

LEMMA CreateAdminArtifactKeeps ==
  ASSUME IInv, NEW r \in Requests, CreateAdminArtifact(r) \/ CreateUploadedArtifact(r)
  PROVE  IInv'
  <1>1. PICK e \in Artifacts, v \in versions, status \in {Entry(r), "pending"} :
           Submit(e, status, v, None, r)
    BY DEF CreateAdminArtifact, CreateUploadedArtifact
  <1>2. End(r) /\ UNCHANGED <<versions, stages, staff>>
    BY DEF CreateAdminArtifact, CreateUploadedArtifact
  <1>3. status \in Statuses /\ (status = "approved" => req[r].staff)
    BY DEF Entry, Statuses
  <1> QED BY <1>1, <1>2, <1>3, CreateKeeps DEF Entities

LEMMA CreateAdminVersionKeeps ==
  ASSUME IInv, NEW r \in Requests, CreateAdminVersion(r)
  PROVE  IInv'
  <1>1. PICK a \in Apps, n \in Names : Exists(a) /\ versions' = versions \cup {<<a, n>>}
    BY DEF CreateAdminVersion
  <1>2. End(r) /\ UNCHANGED <<entity, queue, stages, staff>>
    BY DEF CreateAdminVersion
  <1>3. req' \in [Requests -> Request] /\ \A q \in Requests : RequestOK(q)'
    BY <1>2, SameLocks, EndKeeps
  <1>4. versions' \subseteq Apps \X Names
    BY <1>1 DEF IInv, TypeOK
  <1>5. TypeOK'
    BY <1>2, <1>3, <1>4 DEF IInv, TypeOK
  <1>6. \A e \in Entities : EntityOK(e)'
    BY <1>1, <1>2 DEF IInv, EntityOK, Exists, Public
  <1>7. \A v \in versions' : Exists(v[1])'
    BY <1>1, <1>2 DEF IInv, Exists
  <1> QED BY <1>2, <1>3, <1>5, <1>6, <1>7 DEF IInv, MadeOnce, StageOK, Exists

LEMMA CreateStagedUploadKeeps ==
  ASSUME IInv, NEW r \in Requests, CreateStagedUpload(r)
  PROVE  IInv'
  <1>1. PICK s \in Stages, a \in Apps :
           /\ stages[s].status = "absent" /\ Exists(a)
           /\ stages' = [stages EXCEPT ![s] =
                           [status |-> "staged", app |-> a, owner |-> req[r].user,
                            expired |-> FALSE, lock |-> None]]
    BY DEF CreateStagedUpload
  <1> DEFINE row == [status |-> "staged", app |-> a, owner |-> req[r].user,
                     expired |-> FALSE, lock |-> None]
  <1>2. End(r) /\ UNCHANGED <<entity, queue, versions, staff>>
    BY DEF CreateStagedUpload
  <1>3. row \in StageRow
    BY DEF StageRow, IInv, TypeOK, Request
  <1>4. row.status = "staged" /\ row.app = a
    OBVIOUS
  <1> HIDE DEF row
  <1>5. /\ stages' \in [Stages -> StageRow] /\ stages'[s] = row
        /\ \A t \in Stages \ {s} : stages'[t] = stages[t]
    BY <1>1, <1>3 DEF row, IInv, TypeOK
  <1>6. ASSUME NEW q \in Requests \ {r} PROVE RequestOK(q)'
    <2>1. RequestOK(q) /\ req'[q] = req[q]
      BY <1>2, EndEffect DEF IInv
    <2>2. CASE req[q].op = "commit" /\ req[q].step # "auth"
      <3>1. req[q].target \in Stages \ {s}
        BY <1>1, <2>1, <2>2 DEF RequestOK
      <3> QED BY <1>5, <2>1, <2>2, <3>1 DEF RequestOK
    <2>3. CASE ~(req[q].op = "commit" /\ req[q].step # "auth")
      BY <2>1, <2>3 DEF RequestOK
    <2> QED BY <2>2, <2>3
  <1>7. req' \in [Requests -> Request] /\ RequestOK(r)'
    BY <1>2, EndEffect DEF IInv, RequestOK, StaffOps
  <1>8. ASSUME NEW e \in Entities PROVE EntityOK(e)'
    <2>1. EntityOK(e) /\ entity[e].stage \in Stages \cup {None}
      BY DEF IInv, TypeOK, EntityRow
    <2>2. ASSUME e \in Artifacts, entity[e].stage # None
          PROVE  stages'[entity[e].stage].status \in {"committed", "deleted"}
      <3>1. entity[e].stage \in Stages \ {s}
        BY <1>1, <2>1, <2>2 DEF EntityOK
      <3> QED BY <1>5, <2>1, <2>2, <3>1 DEF EntityOK
    <2> QED BY <1>2, <2>1, <2>2 DEF EntityOK, Exists, Public
  <1>9. ASSUME NEW t \in Stages PROVE StageOK(t)'
    BY <1>1, <1>2, <1>4, <1>5 DEF IInv, StageOK, Exists
  <1>10. TypeOK'
    BY <1>2, <1>5, <1>7 DEF IInv, TypeOK
  <1> QED BY <1>2, <1>6, <1>7, <1>8, <1>9, <1>10 DEF IInv, MadeOnce, Exists

\* The staged upload is locked, so nobody else commits it meanwhile and its
\* application is not deleted.
LEMMA CommitKeeps ==
  ASSUME IInv, NEW r \in Requests, CommitStagedUpload(r)
  PROVE  IInv'
  <1>1. /\ req[r].op = "commit" /\ req[r].step = "read"
        /\ versions' = versions \cup {req[r].version}
        /\ stages' = [stages EXCEPT ![req[r].target] =
                                     DoneStage("committed", req[r].version[1])]
        /\ End(r) /\ UNCHANGED staff
    BY DEF CommitStagedUpload
  <1>2. PICK e \in Artifacts : Submit(e, Entry(r), req[r].version, req[r].target, r)
    BY DEF CommitStagedUpload
  <1>3. PICK s \in Stages, v \in Apps \X Names :
           /\ s = req[r].target /\ v = req[r].version
           /\ stages[s].lock = r /\ stages[s].status = "staged"
           /\ v[1] = stages[s].app
    BY <1>1 DEF IInv, RequestOK
  <1> DEFINE row == DoneStage("committed", v[1])
  <1>4. stages[s].app \in Apps /\ Exists(stages[s].app)
    BY <1>3 DEF IInv, StageOK
  <1>5. row \in StageRow /\ row.status = "committed" /\ row.app = stages[s].app
    BY <1>3, <1>4 DEF DoneStage, StageRow
  <1> HIDE DEF row
  <1>6. /\ stages' \in [Stages -> StageRow] /\ stages'[s] = row
        /\ \A t \in Stages \ {s} : stages'[t] = stages[t]
    BY <1>1, <1>3, <1>5 DEF row, IInv, TypeOK
  <1>7. Entry(r) \in Statuses /\ (Entry(r) = "approved" => req[r].staff)
    BY DEF Entry, Statuses
  <1>8. /\ entity' \in [Entities -> EntityRow]
        /\ queue' \in [Entities -> Statuses \cup {"none"}]
        /\ \A x \in Entities : EntityOK(x)' /\ (Exists(x) => Exists(x)')
        /\ MadeOnce'
        /\ \A t \in Stages : StageOK(t)'
    <2>1. e \in Entities /\ v \in (Apps \X Names) \cup {None} /\ s \in Stages \cup {None}
      BY DEF Entities
    <2>2. versions \subseteq versions' /\ v \in versions'
      BY <1>1, <1>3
    <2>3. Submit(e, Entry(r), v, s, r)
      BY <1>2, <1>3
    <2>4. stages[s].status = "staged" /\ stages'[s].status = "committed"
          /\ stages'[s].app = stages[s].app
      BY <1>3, <1>5, <1>6
    <2>5. \A t \in Stages : t # s => stages'[t] = stages[t]
      BY <1>6
    <2> QED BY <1>7, <2>1, <2>2, <2>3, <2>4, <2>5, SubmitKeeps
  <1>9. LocksKept(r)
    BY <1>3, <1>6 DEF LocksKept
  <1>10. req' \in [Requests -> Request] /\ \A q \in Requests : RequestOK(q)'
    BY <1>1, <1>9, EndKeeps
  <1>11. TypeOK'
    BY <1>1, <1>3, <1>6, <1>8, <1>10 DEF IInv, TypeOK
  <1>12. \A a \in Apps : Exists(a) => Exists(a)'
    BY <1>8 DEF Entities
  <1>13. ASSUME NEW w \in versions' PROVE Exists(w[1])'
    <2>1. CASE w \in versions
      BY <1>12, <2>1, VersionsStay
    <2>2. CASE w = v
      BY <1>3, <1>4, <1>12, <2>2
    <2> QED BY <1>1, <1>3, <2>1, <2>2
  <1> QED BY <1>8, <1>10, <1>11, <1>13 DEF IInv

LEMMA ModerateKeeps ==
  ASSUME IInv, NEW r \in Requests, Moderate(r)
  PROVE  IInv'
  <1>1. PICK decision \in {"approved", "rejected"}, e \in {req[r].target} :
           /\ queue' = [queue EXCEPT ![e] = decision]
           /\ IF Exists(e) THEN Decide(e, decision, FALSE, r) ELSE UNCHANGED entity
    BY DEF Moderate
  <1>2. /\ req[r].op = "moderate" /\ req[r].step = "read"
        /\ End(r) /\ UNCHANGED <<versions, stages, staff>>
    BY DEF Moderate
  <1>3. e \in Entities /\ req[r].staff /\ decision \in Statuses
    BY <1>2 DEF IInv, RequestOK, StaffOps, Statuses
  <1>4. /\ queue' \in [Entities -> Statuses \cup {"none"}] /\ queue'[e] = decision
        /\ \A x \in Entities \ {e} : queue'[x] = queue[x]
    BY <1>1, <1>3 DEF IInv, TypeOK
  <1>5. req' \in [Requests -> Request] /\ \A q \in Requests : RequestOK(q)'
    BY <1>2, SameLocks, EndKeeps
  <1>6. /\ entity' \in [Entities -> EntityRow]
        /\ \A x \in Entities : EntityOK(x)' /\ (Exists(x) => Exists(x)')
        /\ MadeOnce'
        /\ \A s \in Stages : StageOK(s)'
    <2>1. CASE Exists(e)
      BY <1>1, <1>2, <1>3, <1>4, <2>1, DecideKeeps
    <2>2. CASE ~Exists(e)
      <3>1. UNCHANGED <<entity, versions, stages>>
        BY <1>1, <1>2, <2>2
      <3>2. ASSUME NEW x \in Entities PROVE EntityOK(x)'
        <4>1. EntityOK(x) /\ (x = e => ~Exists(x)) /\ (x # e => queue'[x] = queue[x])
          BY <1>4, <2>2 DEF IInv
        <4> QED BY <3>1, <4>1 DEF EntityOK, Exists, Public
      <3> QED BY <3>1, <3>2 DEF IInv, TypeOK, MadeOnce, StageOK, Exists
    <2> QED BY <2>1, <2>2
  <1>7. TypeOK'
    BY <1>2, <1>4, <1>5, <1>6 DEF IInv, TypeOK
  <1>8. \A v \in versions' : Exists(v[1])'
    BY <1>2, <1>6, VersionsStay DEF Entities
  <1> QED BY <1>5, <1>6, <1>7, <1>8 DEF IInv

LEMMA UpdateStatusKeeps ==
  ASSUME IInv, NEW r \in Requests, UpdateStatus(r)
  PROVE  IInv'
  <1>1. PICK e \in Entities, status \in Statuses :
           Exists(e) /\ Decide(e, status, TRUE, r)
    BY DEF UpdateStatus
  <1>2. /\ req[r].op = "edit" /\ End(r)
        /\ UNCHANGED <<queue, versions, stages, staff>>
    BY DEF UpdateStatus
  <1>3. req[r].staff
    BY <1>2 DEF IInv, RequestOK, StaffOps
  <1>4. req' \in [Requests -> Request] /\ \A q \in Requests : RequestOK(q)'
    BY <1>2, SameLocks, EndKeeps
  <1>5. /\ entity' \in [Entities -> EntityRow]
        /\ \A x \in Entities : EntityOK(x)' /\ (Exists(x) => Exists(x)')
        /\ MadeOnce'
        /\ \A s \in Stages : StageOK(s)'
    <2>1. TRUE \in BOOLEAN /\ \A x \in Entities \ {e} : queue'[x] = queue[x]
      BY <1>2
    <2> QED BY <1>1, <1>2, <1>3, <2>1, DecideKeeps
  <1>6. TypeOK'
    BY <1>2, <1>4, <1>5 DEF IInv, TypeOK
  <1>7. \A v \in versions' : Exists(v[1])'
    BY <1>2, <1>5, VersionsStay DEF Entities
  <1> QED BY <1>4, <1>5, <1>6, <1>7 DEF IInv

\* What is common to the deletions.
LEMMA DeleteKeeps ==
  ASSUME IInv, NEW r \in Requests, NEW gone \in SUBSET Entities, Remove(gone),
         End(r), UNCHANGED <<queue, staff>>,
         versions' \subseteq versions, \A v \in versions' : v[1] \notin gone,
         \A x \in Artifacts \ gone : Exists(x) => entity[x].version \in versions',
         stages' \in [Stages -> StageRow], LocksKept(r),
         \A s \in Stages : \/ stages'[s] = stages[s] /\ stages[s].app \notin gone
                           \/ stages'[s].status = "deleted"
                           \/ stages'[s] = stages[s] /\ gone \cap Apps = {}
  PROVE  IInv'
  <1>1. /\ entity' \in [Entities -> EntityRow]
        /\ \A x \in Entities : EntityOK(x)' /\ (Exists(x) /\ x \notin gone => Exists(x)')
        /\ MadeOnce'
        /\ \A s \in Stages : StageOK(s)'
    BY RemoveKeeps
  <1>2. req' \in [Requests -> Request] /\ \A q \in Requests : RequestOK(q)'
    BY EndKeeps
  <1>3. TypeOK'
    BY <1>1, <1>2 DEF IInv, TypeOK
  <1>4. ASSUME NEW v \in versions' PROVE Exists(v[1])'
    <2>1. v[1] \in Apps /\ Exists(v[1]) /\ v[1] \notin gone
      BY DEF IInv, TypeOK
    <2> QED BY <1>1, <2>1 DEF Entities
  <1> QED BY <1>1, <1>2, <1>3, <1>4 DEF IInv

LEMMA DeleteAdminArtifactKeeps ==
  ASSUME IInv, NEW r \in Requests, DeleteAdminArtifact(r)
  PROVE  IInv'
  <1>1. PICK e \in Artifacts : Remove({e})
    BY DEF DeleteAdminArtifact
  <1>2. End(r) /\ UNCHANGED <<queue, versions, stages, staff>>
    BY DEF DeleteAdminArtifact
  <1>3. {e} \in SUBSET Entities /\ {e} \cap Apps = {}
    BY ModerationAssumption DEF Entities
  <1>4. \A v \in versions' : v[1] \notin {e}
    BY <1>2, <1>3 DEF IInv, TypeOK
  <1>5. \A x \in Artifacts \ {e} : Exists(x) => entity[x].version \in versions'
    BY <1>2 DEF IInv, EntityOK, Entities
  <1>6. \A s \in Stages : stages'[s] = stages[s] /\ {e} \cap Apps = {}
    BY <1>2, <1>3
  <1>7. stages' \in [Stages -> StageRow] /\ LocksKept(r)
    BY <1>2, SameLocks DEF IInv, TypeOK
  <1> QED BY <1>1, <1>2, <1>3, <1>4, <1>5, <1>6, <1>7, DeleteKeeps

LEMMA DeleteAdminVersionKeeps ==
  ASSUME IInv, NEW r \in Requests, DeleteAdminVersion(r)
  PROVE  IInv'
  <1>1. PICK v \in versions : Remove(ArtifactsOf({v})) /\ versions' = versions \ {v}
    BY DEF DeleteAdminVersion
  <1> DEFINE gone == ArtifactsOf({v})
  <1>2. End(r) /\ UNCHANGED <<queue, stages, staff>>
    BY DEF DeleteAdminVersion
  <1>3. gone \in SUBSET Entities /\ gone \cap Apps = {}
    BY ModerationAssumption DEF ArtifactsOf, Entities
  <1>4. \A x \in Artifacts \ gone : Exists(x) => entity[x].version \in versions'
    BY <1>1 DEF ArtifactsOf, IInv, EntityOK, Entities
  <1> HIDE DEF gone
  <1>5. versions' \subseteq versions /\ \A w \in versions' : w[1] \notin gone
    BY <1>1, <1>3 DEF IInv, TypeOK
  <1>6. \A s \in Stages : stages'[s] = stages[s] /\ gone \cap Apps = {}
    BY <1>2, <1>3
  <1>7. stages' \in [Stages -> StageRow] /\ LocksKept(r)
    BY <1>2, SameLocks DEF IInv, TypeOK
  <1>8. Remove(gone)
    BY <1>1 DEF gone
  <1> QED BY <1>2, <1>3, <1>4, <1>5, <1>6, <1>7, <1>8, DeleteKeeps

LEMMA DeleteAdminAppKeeps ==
  ASSUME IInv, NEW r \in Requests, DeleteAdminApp(r)
  PROVE  IInv'
  <1>1. PICK a \in Apps :
           /\ \A s \in Stages : stages[s].app = a => stages[s].lock = None
           /\ Remove({a} \cup ArtifactsOf({a} \X Names))
           /\ versions' = versions \ ({a} \X Names)
           /\ stages' = [s \in Stages |-> IF stages[s].app = a
                                          THEN DoneStage("deleted", None)
                                          ELSE stages[s]]
    BY DEF DeleteAdminApp
  <1> DEFINE gone == {a} \cup ArtifactsOf({a} \X Names)
  <1>2. End(r) /\ UNCHANGED <<queue, staff>>
    BY DEF DeleteAdminApp
  <1>3. gone \in SUBSET Entities /\ gone \cap Apps = {a}
    BY ModerationAssumption DEF ArtifactsOf, Entities
  <1>4. \A x \in Artifacts \ gone : Exists(x) => entity[x].version \in versions'
    BY <1>1 DEF ArtifactsOf, IInv, EntityOK, Entities
  <1> HIDE DEF gone
  <1>5. versions' \subseteq versions /\ \A w \in versions' : w[1] \notin gone
    BY <1>1, <1>3 DEF IInv, TypeOK
  <1>6. DoneStage("deleted", None) \in StageRow /\ DoneStage("deleted", None).status = "deleted"
    BY DEF DoneStage, StageRow
  <1>7. ASSUME NEW s \in Stages
        PROVE  IF stages[s].app = a THEN stages'[s] = DoneStage("deleted", None)
               ELSE stages'[s] = stages[s]
    BY <1>1
  <1>8. stages' \in [Stages -> StageRow]
    <2>1. \A s \in Stages : stages'[s] \in StageRow
      BY <1>6, <1>7 DEF IInv, TypeOK
    <2> QED BY <1>1, <2>1
  <1>9. LocksKept(r)
    BY <1>1, <1>7 DEF LocksKept
  <1>10. ASSUME NEW s \in Stages
         PROVE  \/ stages'[s] = stages[s] /\ stages[s].app \notin gone
                \/ stages'[s].status = "deleted"
                \/ stages'[s] = stages[s] /\ gone \cap Apps = {}
    <2>1. CASE stages[s].app = a
      BY <1>6, <1>7, <2>1
    <2>2. CASE stages[s].app # a
      <3>1. stages[s].app \in Apps \cup {None}
        BY DEF IInv, TypeOK, StageRow
      <3>2. None \notin gone
        BY <1>3, ModerationAssumption DEF Entities
      <3> QED BY <1>3, <1>7, <2>2, <3>1, <3>2
    <2> QED BY <2>1, <2>2
  <1>11. Remove(gone)
    BY <1>1 DEF gone
  <1> QED BY <1>2, <1>3, <1>4, <1>5, <1>8, <1>9, <1>10, <1>11, DeleteKeeps

-----------------------------------------------------------------------------
\* Every step keeps the inductive invariant.
LEMMA InvStep == IInv /\ [Next]_vars => IInv'
  <1> SUFFICES ASSUME IInv, [Next]_vars PROVE IInv'
    OBVIOUS
  <1>1. ASSUME NEW r \in Requests, Step(r) PROVE IInv'
    BY <1>1, CreateAdminAppKeeps, CreateAdminVersionKeeps, CreateAdminArtifactKeeps,
       CreateStagedUploadKeeps, LockStageKeeps, FindVersionKeeps, CommitKeeps,
       SelectPendingKeeps, ModerateKeeps, UpdateStatusKeeps, DeleteAdminArtifactKeeps,
       DeleteAdminVersionKeeps, DeleteAdminAppKeeps
       DEF Step
  <1>2. ASSUME NEW u \in Users, ChangeRoles(u) PROVE IInv'
    <2>1. staff' \subseteq Users /\ UNCHANGED <<entity, queue, versions, stages, req>>
      BY <1>2 DEF ChangeRoles, IInv, TypeOK
    <2>2. TypeOK'
      BY <2>1 DEF IInv, TypeOK
    <2>3. \A q \in Requests : RequestOK(q)'
      BY <2>1 DEF IInv, RequestOK
    <2> QED BY <2>1, <2>2, <2>3, LockKeeps DEF IInv
  <1>3. CASE UNCHANGED vars
    <2>1. UNCHANGED <<entity, queue, versions, stages, staff, req>>
      BY <1>3 DEF vars
    <2>2. TypeOK'
      BY <2>1 DEF IInv, TypeOK
    <2>3. \A q \in Requests : RequestOK(q)'
      BY <2>1 DEF IInv, RequestOK
    <2> QED BY <2>1, <2>2, <2>3, LockKeeps DEF IInv
  <1> QED BY <1>1, <1>2, <1>3, Authenticated, FailKeeps, ExpireKeeps DEF Next

\* The inductive invariant holds of every reachable state.
LEMMA Invariant == Spec => []IInv
  <1> QED BY InvInit, InvStep, PTL DEF Spec

\* Every variable keeps its type.
THEOREM TypeCorrect == Spec => []TypeOK
  <1>1. IInv => TypeOK
    BY DEF IInv
  <1> QED BY <1>1, Invariant, PTL

\* Whatever requests overlap and whatever roles change under them, what the
\* public sees was let out by a request of staff.
THEOREM PublicationSafety == Spec => []PublishedByStaff
  <1>1. IInv => PublishedByStaff
    BY DEF IInv, PublishedByStaff, EntityOK
  <1> QED BY <1>1, Invariant, PTL

\* The queue and the entity tell the same decision unless the status was
\* edited past the queue.
THEOREM QueueSafety == Spec => []QueueAgrees
  <1>1. IInv => QueueAgrees
    BY DEF IInv, QueueAgrees, EntityOK
  <1> QED BY <1>1, Invariant, PTL

\* A staged upload becomes at most one artifact, and is committed exactly when
\* it has become one.
THEOREM StageSafety == Spec => []StageCommitsOnce
  <1>1. IInv => StageCommitsOnce
    <2> SUFFICES ASSUME IInv, NEW s \in Stages
                 PROVE  /\ Cardinality({e \in Artifacts : entity[e].stage = s}) <= 1
                        /\ stages[s].status = "committed"
                             => {e \in Artifacts : entity[e].stage = s} # {}
                        /\ stages[s].status = "staged"
                             => {e \in Artifacts : entity[e].stage = s} = {}
      BY DEF StageCommitsOnce
    <2> DEFINE made == {e \in Artifacts : entity[e].stage = s}
    <2>1. s # None
      BY ModerationAssumption
    <2>2. Cardinality(made) <= 1
      <3>1. CASE made = {}
        BY <3>1, FS_EmptySet
      <3>2. CASE made # {}
        <4>1. PICK e \in made : TRUE
          BY <3>2
        <4>2. made = {e}
          BY <2>1, <4>1 DEF IInv, MadeOnce
        <4>3. Cardinality({e}) = 1
          BY FS_Singleton
        <4> HIDE DEF made
        <4> QED BY <4>2, <4>3
      <3> QED BY <3>1, <3>2
    <2>3. stages[s].status = "committed" => made # {}
      BY DEF IInv, StageOK
    <2>4. stages[s].status = "staged" => made = {}
      BY <2>1 DEF IInv, EntityOK, Entities
    <2> QED BY <2>2, <2>3, <2>4
  <1> QED BY <1>1, Invariant, PTL

\* Nothing outlives what it belongs to.
THEOREM CascadeSafety == Spec => []NoOrphan
  <1>1. IInv => NoOrphan
    BY DEF IInv, NoOrphan, EntityOK, StageOK, Entities
  <1> QED BY <1>1, Invariant, PTL

-----------------------------------------------------------------------------
(* Moderation implements PublicCatalog.                                    *)

\* A step of the catalog, or none.
CatalogStep == [Catalog!Next]_Catalog!vars

\* A request that ends is no longer trusted; one that goes on stays so.
LEMMA EndTrusted ==
  ASSUME TypeOK, NEW r \in Requests, End(r)
  PROVE  Trusted' = Trusted \ {r}
  <1>1. /\ \A q \in Requests \ {r} : req'[q] = req[q]
        /\ req'[r] = Idle
    BY DEF TypeOK, End
  <1> QED BY <1>1 DEF Trusted, Idle

LEMMA GoTrusted ==
  ASSUME TypeOK, NEW r \in Requests, NEW step, NEW target, NEW version, NEW seen,
         Go(r, step, target, version, seen)
  PROVE  Trusted' = Trusted
  <1>1. \A q \in Requests : req'[q].staff = req[q].staff
    BY DEF TypeOK, Go
  <1> QED BY <1>1 DEF Trusted

\* Rows that stay show the same.
LEMMA SameCatalog ==
  ASSUME UNCHANGED entity
  PROVE  UNCHANGED <<Kept, Shown, Deleted, HomeOf>>
  BY DEF Kept, Shown, Deleted, HomeOf, Exists, Public

\* A request that changes no row of the catalog and ends.
LEMMA EndsOnly ==
  ASSUME TypeOK, NEW r \in Requests, End(r), UNCHANGED <<entity, staff>>
  PROVE  CatalogStep
  <1>1. Catalog!GiveUp(r)
    BY EndTrusted, SameCatalog DEF Catalog!GiveUp, Catalog!Leave
  <1> QED BY <1>1 DEF CatalogStep, Catalog!Next

LEMMA GoesOn ==
  ASSUME TypeOK, NEW r \in Requests, NEW step, NEW target, NEW version, NEW seen,
         Go(r, step, target, version, seen), UNCHANGED <<entity, staff>>
  PROVE  CatalogStep
  <1>1. Trusted' = Trusted
    BY GoTrusted
  <1> QED BY <1>1, SameCatalog DEF CatalogStep, Catalog!vars

\* A new row enters the catalog, shown if staff sent it, an artifact under an
\* application that is there.
LEMMA SubmitEnters ==
  ASSUME TypeOK, NEW e \in Entities, NEW status \in {"pending", "approved"},
         NEW version \in (Apps \X Names) \cup {None}, NEW stage \in Stages \cup {None},
         NEW r \in Requests, Submit(e, status, version, stage, r), End(r),
         status = "approved" => req[r].staff,
         e \in Artifacts => version \in Apps \X Names /\ Exists(version[1]),
         UNCHANGED staff
  PROVE  CatalogStep
  <1>1. /\ entity' \in [Entities -> EntityRow]
        /\ entity[e].status = "absent"
        /\ entity'[e].status = status /\ entity'[e].version = version
        /\ \A x \in Entities \ {e} : entity'[x] = entity[x]
    <2>1. status \in Statuses
      BY DEF Statuses
    <2> QED BY <2>1, SubmitEffect
  <1>2. /\ e \notin Kept \cup Deleted
        /\ Kept' = Kept \cup {e}
        /\ Deleted' = Deleted
        /\ Shown' = IF status = "approved" THEN Shown \cup {e} ELSE Shown
    BY <1>1 DEF Kept, Deleted, Shown, Exists, Public, Statuses
  <1>3. status = "approved" => r \in Trusted
    BY DEF Trusted
  <1>4. Catalog!Enter(r, e)
    BY <1>2, <1>3, EndTrusted DEF Catalog!Enter, Catalog!Leave
  <1>5. CASE e \in Artifacts
    <2>1. PICK a \in Apps : a = version[1]
      BY <1>5
    <2>2. a \in Kept
      BY <1>5, <2>1 DEF Kept, Entities
    <2>3. HomeOf' = [HomeOf EXCEPT ![e] = a]
      <3>1. ASSUME NEW x \in Artifacts
            PROVE  (IF Exists(x) THEN entity[x].version[1] ELSE None)' =
                     IF x = e THEN a
                     ELSE IF Exists(x) THEN entity[x].version[1] ELSE None
        BY <1>1, <2>1 DEF Exists, Statuses, Entities
      <3> QED BY <1>5, <3>1 DEF HomeOf
    <2>4. Catalog!EnterArtifact(r, e, a)
      BY <1>4, <2>2, <2>3 DEF Catalog!EnterArtifact
    <2> QED BY <1>5, <2>4 DEF CatalogStep, Catalog!Next
  <1>6. CASE e \notin Artifacts
    <2>1. HomeOf' = HomeOf
      <3>1. ASSUME NEW x \in Artifacts
            PROVE  entity'[x] = entity[x]
        BY <1>1, <1>6 DEF Entities
      <3> QED BY <3>1 DEF HomeOf, Exists
    <2>2. e \in Apps
      BY <1>6 DEF Entities
    <2>3. Catalog!EnterApp(r, e)
      BY <1>4, <2>1 DEF Catalog!EnterApp
    <2> QED BY <2>2, <2>3 DEF CatalogStep, Catalog!Next
  <1> QED BY <1>5, <1>6

\* A decision shows or hides an entry that is there.
LEMMA DecideJudges ==
  ASSUME TypeOK, NEW e \in Entities, NEW status \in Statuses, NEW edited \in BOOLEAN,
         NEW r \in Requests, Exists(e), Decide(e, status, edited, r), End(r),
         req[r].staff, UNCHANGED staff
  PROVE  CatalogStep
  <1>1. /\ entity'[e].status = status /\ entity'[e].version = entity[e].version
        /\ \A x \in Entities \ {e} : entity'[x] = entity[x]
    BY DecideEffect
  <1>2. /\ Kept' = Kept /\ Deleted' = Deleted
        /\ Shown' \in {Shown \cup {e}, Shown \ {e}}
    BY <1>1 DEF Kept, Deleted, Shown, Exists, Public, Statuses
  <1>3. HomeOf' = HomeOf
    <2>1. ASSUME NEW x \in Artifacts
          PROVE  Exists(x)' = Exists(x) /\ entity'[x].version = entity[x].version
      BY <1>1 DEF Exists, Statuses, Entities
    <2> QED BY <2>1 DEF HomeOf
  <1>4. r \in Trusted /\ e \in Kept
    BY DEF Trusted, Kept
  <1>5. Catalog!Judge(r, e)
    BY <1>2, <1>3, <1>4, EndTrusted DEF Catalog!Judge, Catalog!Leave
  <1> QED BY <1>5 DEF CatalogStep, Catalog!Next, Entities

\* Rows that are deleted leave the catalog, if they are of one application.
LEMMA RemoveRemoves ==
  ASSUME TypeOK, NEW gone \in SUBSET Entities, Remove(gone), NEW r \in Requests,
         End(r), req[r].staff, UNCHANGED staff,
         NEW a \in Apps, gone \cap Kept \in Catalog!Family(a)
  PROVE  CatalogStep
  <1> DEFINE out == gone \cap Kept
  <1>1. \A x \in Entities :
          IF x \in out THEN entity'[x].status = "deleted" /\ Exists(x)
          ELSE entity'[x] = entity[x]
    BY RemoveEffect DEF Kept
  <1> HIDE DEF out
  <1>2. /\ out \subseteq Kept
        /\ Kept' = Kept \ out /\ Shown' = Shown \ out /\ Deleted' = Deleted \cup out
    BY <1>1 DEF out, Kept, Shown, Deleted, Exists, Public, Statuses
  <1>3. HomeOf' = [e \in Artifacts |-> IF e \in out THEN None ELSE HomeOf[e]]
    <2>1. ASSUME NEW x \in Artifacts
          PROVE  (IF Exists(x) THEN entity[x].version[1] ELSE None)' =
                   IF x \in out THEN None ELSE HomeOf[x]
      BY <1>1 DEF HomeOf, Exists, Statuses, Entities
    <2> QED BY <2>1 DEF HomeOf
  <1>4. r \in Trusted
    BY DEF Trusted
  <1>5. Catalog!Remove(r, out)
    BY <1>2, <1>3, <1>4, EndTrusted DEF Catalog!Remove, Catalog!Leave
  <1>6. out \in Catalog!Family(a)
    BY DEF out
  <1> QED BY <1>5, <1>6 DEF CatalogStep, Catalog!Next

-----------------------------------------------------------------------------
\* requireAdmin lets a moderator in, and anybody else leaves the catalog as is.
LEMMA AuthenticateImplements ==
  ASSUME TypeOK, NEW r \in Requests, Authenticate(r)
  PROVE  CatalogStep
  <1>1. PICK u \in Users :
          /\ req' = [req EXCEPT ![r] = req'[r]]
          /\ req'[r].staff = (u \in staff)
          /\ req[r].op = "idle" /\ UNCHANGED <<entity, staff>>
    BY DEF Authenticate, rows, TypeOK
  <1>2. \A q \in Requests \ {r} : req'[q] = req[q]
    BY <1>1 DEF TypeOK
  <1>3. CASE u \in staff
    <2>1. Trusted' = Trusted \cup {r}
      BY <1>1, <1>2, <1>3 DEF Trusted
    <2>2. Catalog!LetIn(r)
      BY <1>1, <1>3, <2>1, SameCatalog DEF Catalog!LetIn
    <2> QED BY <2>2 DEF CatalogStep, Catalog!Next
  <1>4. CASE u \notin staff
    <2>1. Trusted' = Trusted \ {r}
      BY <1>1, <1>2, <1>4 DEF Trusted
    <2>2. Catalog!GiveUp(r)
      BY <1>1, <2>1, SameCatalog DEF Catalog!GiveUp, Catalog!Leave
    <2> QED BY <2>2 DEF CatalogStep, Catalog!Next
  <1> QED BY <1>3, <1>4

\* What is created enters the catalog; a version and a staged upload are no
\* entries.
LEMMA CreateImplements ==
  ASSUME IInv, NEW r \in Requests,
         \/ CreateAdminApp(r) \/ CreateAdminArtifact(r) \/ CreateUploadedArtifact(r)
         \/ CreateAdminVersion(r) \/ CreateStagedUpload(r)
  PROVE  CatalogStep
  <1>1. TypeOK /\ Entry(r) \in {"pending", "approved"} /\ (Entry(r) = "approved" => req[r].staff)
    BY DEF IInv, Entry
  <1>2. None \in (Apps \X Names) \cup {None} /\ None \in Stages \cup {None}
    OBVIOUS
  <1>3. CASE CreateAdminApp(r)
    <2>1. PICK a \in Apps : Submit(a, Entry(r), None, None, r)
      BY <1>3 DEF CreateAdminApp
    <2>2. End(r) /\ UNCHANGED staff
      BY <1>3 DEF CreateAdminApp
    <2>3. a \in Entities /\ a \notin Artifacts
      BY ModerationAssumption DEF Entities
    <2> QED BY <1>1, <1>2, <2>1, <2>2, <2>3, SubmitEnters
  <1>4. CASE CreateAdminArtifact(r) \/ CreateUploadedArtifact(r)
    <2>1. PICK e \in Artifacts, v \in versions, status \in {Entry(r), "pending"} :
             Submit(e, status, v, None, r)
      BY <1>4 DEF CreateAdminArtifact, CreateUploadedArtifact
    <2>2. End(r) /\ UNCHANGED staff
      BY <1>4 DEF CreateAdminArtifact, CreateUploadedArtifact
    <2>3. e \in Entities /\ v \in Apps \X Names /\ Exists(v[1])
      BY DEF Entities, IInv, TypeOK
    <2>4. status \in {"pending", "approved"} /\ (status = "approved" => req[r].staff)
      BY <1>1
    <2> QED BY <1>1, <1>2, <2>1, <2>2, <2>3, <2>4, SubmitEnters
  <1>5. CASE CreateAdminVersion(r) \/ CreateStagedUpload(r)
    <2>1. End(r) /\ UNCHANGED <<entity, staff>>
      BY <1>5 DEF CreateAdminVersion, CreateStagedUpload
    <2> QED BY <1>1, <2>1, EndsOnly
  <1> QED BY <1>3, <1>4, <1>5

\* A commit enters the artifact under an application that is still there, since
\* its staged upload is locked.
LEMMA CommitImplements ==
  ASSUME IInv, NEW r \in Requests,
         LockStage(r) \/ FindVersion(r) \/ CommitStagedUpload(r)
  PROVE  CatalogStep
  <1>1. TypeOK
    BY DEF IInv
  <1>2. CASE LockStage(r)
    <2>1. PICK s \in Stages, n \in Names : Go(r, "locked", s, <<stages[s].app, n>>, FALSE)
      BY <1>2 DEF LockStage
    <2>2. UNCHANGED <<entity, staff>>
      BY <1>2 DEF LockStage
    <2> QED BY <1>1, <2>1, <2>2, GoesOn
  <1>3. CASE FindVersion(r)
    <2>1. Go(r, "read", req[r].target, req[r].version, req[r].version \in versions)
          /\ UNCHANGED <<entity, staff>>
      BY <1>3 DEF FindVersion, rows
    <2> QED BY <1>1, <2>1, GoesOn
  <1>4. CASE CommitStagedUpload(r)
    <2>1. PICK e \in Artifacts : Submit(e, Entry(r), req[r].version, req[r].target, r)
      BY <1>4 DEF CommitStagedUpload
    <2>2. /\ req[r].op = "commit" /\ req[r].step = "read"
          /\ End(r) /\ UNCHANGED staff
      BY <1>4 DEF CommitStagedUpload
    <2>3. /\ req[r].target \in Stages /\ req[r].version \in Apps \X Names
          /\ stages[req[r].target].status = "staged"
          /\ req[r].version[1] = stages[req[r].target].app
      BY <2>2 DEF IInv, RequestOK
    <2>4. Exists(req[r].version[1])
      BY <2>3 DEF IInv, StageOK
    <2>5. Entry(r) \in {"pending", "approved"} /\ (Entry(r) = "approved" => req[r].staff)
      BY DEF Entry
    <2>6. e \in Entities
      BY DEF Entities
    <2> QED BY <1>1, <2>1, <2>2, <2>3, <2>4, <2>5, <2>6, SubmitEnters
  <1> QED BY <1>2, <1>3, <1>4

\* A decision is one of staff, made on an entry that is there or on none.
LEMMA DecisionImplements ==
  ASSUME IInv, NEW r \in Requests, SelectPending(r) \/ Moderate(r) \/ UpdateStatus(r)
  PROVE  CatalogStep
  <1>1. TypeOK
    BY DEF IInv
  <1>2. CASE SelectPending(r)
    <2>1. PICK e \in Entities : Go(r, "read", e, None, FALSE)
      BY <1>2 DEF SelectPending
    <2>2. UNCHANGED <<entity, staff>>
      BY <1>2 DEF SelectPending, rows
    <2> QED BY <1>1, <2>1, <2>2, GoesOn
  <1>3. CASE Moderate(r)
    <2>1. PICK decision \in {"approved", "rejected"}, e \in {req[r].target} :
             IF Exists(e) THEN Decide(e, decision, FALSE, r) ELSE UNCHANGED entity
      BY <1>3 DEF Moderate
    <2>2. /\ req[r].op = "moderate" /\ req[r].step = "read"
          /\ End(r) /\ UNCHANGED staff
      BY <1>3 DEF Moderate
    <2>3. e \in Entities /\ req[r].staff /\ decision \in Statuses
      BY <2>2 DEF IInv, RequestOK, StaffOps, Statuses
    <2>4. CASE Exists(e)
      BY <1>1, <2>1, <2>2, <2>3, <2>4, DecideJudges
    <2>5. CASE ~Exists(e)
      BY <1>1, <2>1, <2>2, <2>5, EndsOnly
    <2> QED BY <2>4, <2>5
  <1>4. CASE UpdateStatus(r)
    <2>1. PICK e \in Entities, status \in Statuses : Exists(e) /\ Decide(e, status, TRUE, r)
      BY <1>4 DEF UpdateStatus
    <2>2. req[r].op = "edit" /\ End(r) /\ UNCHANGED staff
      BY <1>4 DEF UpdateStatus
    <2>3. req[r].staff
      BY <2>2 DEF IInv, RequestOK, StaffOps
    <2> QED BY <1>1, <2>1, <2>2, <2>3, DecideJudges
  <1> QED BY <1>2, <1>3, <1>4

\* What is deleted belongs to one application, and with an application goes
\* everything that belongs to it: each artifact has a version of its own
\* application.
LEMMA DeleteImplements ==
  ASSUME IInv, NEW r \in Requests,
         DeleteAdminArtifact(r) \/ DeleteAdminVersion(r) \/ DeleteAdminApp(r)
  PROVE  CatalogStep
  <1>1. TypeOK /\ Apps \cap Artifacts = {}
    BY ModerationAssumption DEF IInv
  <1>2. req[r].op = "delete" /\ End(r) /\ UNCHANGED staff
    BY DEF DeleteAdminArtifact, DeleteAdminVersion, DeleteAdminApp
  <1>3. req[r].staff
    BY <1>2 DEF IInv, RequestOK, StaffOps
  <1>4. ASSUME NEW e \in Artifacts, Exists(e)
        PROVE  /\ entity[e].version \in Apps \X Names /\ HomeOf[e] = entity[e].version[1]
               /\ HomeOf[e] \in Apps
    <2>1. entity[e].version \in versions
      BY <1>4 DEF IInv, EntityOK, Entities
    <2>2. entity[e].version \in Apps \X Names
      BY <2>1 DEF IInv, TypeOK
    <2> QED BY <1>4, <2>2 DEF HomeOf
  <1>5. CASE DeleteAdminArtifact(r)
    <2>1. PICK e \in Artifacts : Exists(e) /\ Remove({e})
      BY <1>5 DEF DeleteAdminArtifact
    <2>2. PICK a \in Apps : HomeOf[e] = a
      BY <1>4, <2>1
    <2>3. {e} \in SUBSET Entities /\ {e} \cap Kept = {e}
      BY <2>1 DEF Entities, Kept
    <2>4. {e} \in Catalog!Family(a)
      BY <2>2 DEF Catalog!Family
    <2> QED BY <1>1, <1>2, <1>3, <2>1, <2>3, <2>4, RemoveRemoves
  <1>6. CASE DeleteAdminVersion(r)
    <2>1. PICK v \in versions : Remove(ArtifactsOf({v}))
      BY <1>6 DEF DeleteAdminVersion
    <2> DEFINE gone == ArtifactsOf({v})
    <2>2. gone \in SUBSET Entities /\ v[1] \in Apps
      BY DEF ArtifactsOf, Entities, IInv, TypeOK
    <2>3. ASSUME NEW e \in gone \cap Kept PROVE e \in Artifacts /\ HomeOf[e] = v[1]
      BY <1>4 DEF ArtifactsOf, Kept
    <2>4. gone \cap Kept \in Catalog!Family(v[1])
      BY <2>3 DEF Catalog!Family
    <2> HIDE DEF gone
    <2>5. Remove(gone)
      BY <2>1 DEF gone
    <2> QED BY <1>1, <1>2, <1>3, <2>2, <2>4, <2>5, RemoveRemoves
  <1>7. CASE DeleteAdminApp(r)
    <2>1. PICK a \in Apps : Exists(a) /\ Remove({a} \cup ArtifactsOf({a} \X Names))
      BY <1>7 DEF DeleteAdminApp
    <2> DEFINE gone == {a} \cup ArtifactsOf({a} \X Names)
    <2>2. gone \in SUBSET Entities
      BY DEF ArtifactsOf, Entities
    <2>3. ASSUME NEW e \in Artifacts
          PROVE  e \in gone \cap Kept <=> HomeOf[e] = a
      <3>1. CASE Exists(e)
        <4>1. e \in Kept /\ (e \in ArtifactsOf({a} \X Names) <=> entity[e].version[1] = a)
          BY <1>4, <3>1 DEF ArtifactsOf, Kept, Entities
        <4> QED BY <1>1, <1>4, <3>1, <4>1
      <3>2. CASE ~Exists(e)
        <4>1. HomeOf[e] = None /\ e \notin Kept
          BY <3>2 DEF HomeOf, Kept
        <4> QED BY <4>1, ModerationAssumption
      <3> QED BY <3>1, <3>2
    <2>4. a \in Kept /\ a \in gone
      BY <2>1 DEF Kept, Entities
    <2>5. gone \cap Kept \subseteq {a} \cup Artifacts
      BY DEF ArtifactsOf
    <2>6. gone \cap Kept = {a} \cup {e \in Artifacts : HomeOf[e] = a}
      <3> HIDE DEF gone
      <3> QED BY <2>3, <2>4, <2>5
    <2>7. gone \cap Kept \in Catalog!Family(a)
      BY <2>6 DEF Catalog!Family
    <2> HIDE DEF gone
    <2>8. Remove(gone)
      BY <2>1 DEF gone
    <2> QED BY <1>1, <1>2, <1>3, <2>2, <2>7, <2>8, RemoveRemoves
  <1> QED BY <1>5, <1>6, <1>7

-----------------------------------------------------------------------------
\* Every step of the moderation is one of the catalog or none.
LEMMA StepImplements == IInv /\ [Next]_vars => CatalogStep
  <1> SUFFICES ASSUME IInv, [Next]_vars PROVE CatalogStep
    OBVIOUS
  <1>1. TypeOK
    BY DEF IInv
  <1>2. ASSUME NEW r \in Requests, Step(r) PROVE CatalogStep
    BY <1>2, CreateImplements, CommitImplements, DecisionImplements, DeleteImplements
       DEF Step
  <1>3. ASSUME NEW r \in Requests, Fail(r) PROVE CatalogStep
    <2>1. End(r) /\ UNCHANGED <<entity, staff>>
      BY <1>3 DEF Fail
    <2> QED BY <1>1, <2>1, EndsOnly
  <1>4. ASSUME NEW u \in Users, ChangeRoles(u) PROVE CatalogStep
    <2>1. Catalog!ChangeRoles(u)
      BY <1>4, SameCatalog DEF ChangeRoles, Catalog!ChangeRoles, Trusted
    <2> QED BY <2>1 DEF CatalogStep, Catalog!Next
  <1>5. ASSUME UNCHANGED <<entity, staff, req>> PROVE CatalogStep
    BY <1>5, SameCatalog DEF CatalogStep, Catalog!vars, Trusted
  <1>6. ASSUME NEW s \in Stages, ExpireStage(s) PROVE CatalogStep
    BY <1>5, <1>6 DEF ExpireStage
  <1> QED BY <1>1, <1>2, <1>3, <1>4, <1>5, <1>6, AuthenticateImplements DEF Next, vars

\* Moderation implements PublicCatalog, for any number of requests that overlap,
\* of applications, artifacts and staged uploads.
THEOREM KeepsPromise == Spec => KeepsCatalogPromise
  <1>1. Init => Catalog!Init
    BY DEF Init, Catalog!Init, Kept, Shown, Deleted, HomeOf, Trusted, Exists, Public,
           Statuses, Entities, Idle
  <1>2. IInv /\ [Next]_vars => [Catalog!Next]_Catalog!vars
    BY StepImplements DEF CatalogStep
  <1> QED BY <1>1, <1>2, Invariant, PTL DEF Spec, KeepsCatalogPromise, Catalog!Spec
=============================================================================
