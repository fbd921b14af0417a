------------------------- MODULE UploadStorageProofs -------------------------
(***************************************************************************)
(* An acknowledged upload keeps its file, and no quarantine file is lost   *)
(* unseen: proofs about UploadStorage for any number of requests, images,  *)
(* names and crashes and any lengths.                                      *)
(***************************************************************************)
EXTENDS UploadStorage, TLAPS

\* The file is the request's own: it was created by it.
Owner(r) == req[r].pc \in {"writing", "saved"} /\ req[r].wrote

\* The request may still take the file away.
MayRemove(r) == \/ req[r].pc = "writing"
                \/ req[r].pc = "saved" /\ Package(r)

\* Where a request works, that whoever may remove a file owns it, and what an
\* owner knows of its file.
RequestOK(r) ==
    /\ req[r].pc # "idle" =>
         req[r].path \in (IF req[r].kind = "image" THEN Images ELSE Names)
    /\ MayRemove(r) => Owner(r)
    /\ req[r].pc = "found" => ~req[r].wrote /\ req[r].kind = "image"
    /\ Owner(r) => Exists(req[r].path)
    /\ req[r].pc = "saved" /\ req[r].wrote =>
         files[req[r].path] = req[r].body /\ req[r].size = req[r].body

\* The file of an acknowledged row is complete and nobody is left to remove it.
RowOK(row) ==
    row.acked => /\ files[row.path] = row.body
                 /\ row.size = row.body
                 /\ \A r \in Requests : MayRemove(r) => req[r].path # row.path

\* A file has one owner.
OneOwner ==
    \A r, s \in Requests :
       Owner(r) /\ Owner(s) /\ req[r].path = req[s].path => r = s

Core ==
    /\ \A r \in Requests : RequestOK(r)
    /\ \A row \in rows : RowOK(row)
    /\ OneOwner
    /\ \A n \in Names : Exists(n) => n \in named

IInv == TypeOK /\ Core /\ NoOtherOrphans

-----------------------------------------------------------------------------

\* The empty disk and tables satisfy the inductive invariant.
LEMMA InvInit == Init => IInv
  <1> SUFFICES ASSUME Init PROVE IInv
    OBVIOUS
  <1>1. TypeOK
    BY StorageAssumption DEF Init, TypeOK
  <1>2. \A r \in Requests : req[r].pc = "idle"
    BY DEF Init, Idle
  <1>3. \A p \in Paths : ~Exists(p)
    BY DEF Init, Exists
  <1>4. Core
    BY <1>2, <1>3
       DEF Init, Core, RequestOK, RowOK, OneOwner, Owner, MayRemove, Paths
  <1>5. NoOtherOrphans
    BY <1>3 DEF NoOtherOrphans, Paths
  <1> QED BY <1>1, <1>4, <1>5 DEF IInv

-----------------------------------------------------------------------------
(* Types.                                                                  *)

\* A request in flight is a full record.
LEMMA InFlight ==
  ASSUME TypeOK, NEW r \in Requests, req[r].pc # "idle"
  PROVE  req[r] \in RequestType
  BY DEF TypeOK, Idle

\* Returned is again a request in flight.
LEMMA ReturnedType ==
  ASSUME TypeOK, NEW r \in Requests, req[r].pc # "idle", NEW n \in Nat
  PROVE  /\ Returned(r, n) \in RequestType
         /\ Returned(r, n).pc = "saved"
         /\ Returned(r, n).kind = req[r].kind
         /\ Returned(r, n).path = req[r].path
         /\ Returned(r, n).body = req[r].body
         /\ Returned(r, n).size = n
         /\ Returned(r, n).wrote = req[r].wrote
  BY InFlight DEF Returned, Request, RequestType, Phases

\* The row of a request has the request's fields.
LEMMA RowOfType ==
  ASSUME TypeOK, NEW r \in Requests, req[r].pc # "idle", NEW b \in BOOLEAN
  PROVE  /\ RowOf(r, b) \in RowType
         /\ RowOf(r, b).path = req[r].path
         /\ RowOf(r, b).body = req[r].body
         /\ RowOf(r, b).size = req[r].size
         /\ RowOf(r, b).acked = b
  BY InFlight DEF RowOf, Row, RowType, RequestType

\* Every step keeps the types, one step per action.
LEMMA TypeStep == IInv /\ [Next]_vars => TypeOK'
  <1> SUFFICES ASSUME TypeOK, Core, [Next]_vars PROVE TypeOK'
    BY DEF IInv
  <1> USE StorageAssumption
  <1>1. ASSUME NEW r \in Requests, Answer(r)
        PROVE  req' \in [Requests -> RequestType \cup {Idle}]
    BY <1>1 DEF Answer, TypeOK
  <1>2. ASSUME NEW p \in Paths, Remove(p)
        PROVE  files' \in [Paths -> Nat \cup {Absent}]
    BY <1>2 DEF Remove, TypeOK
  <1>3. ASSUME NEW r \in Requests, req[r].pc # "idle" PROVE req[r].path \in Paths
    BY <1>3, InFlight DEF RequestType
  <1>4. ASSUME NEW r \in Requests, OpenImage(r) PROVE TypeOK'
    <2>1. PICK c \in Images :
             \/ /\ files' = [files EXCEPT ![c] = 0]
                /\ req' = [req EXCEPT ![r] =
                             Request("writing", "image", c, ImageSize, 0, TRUE)]
             \/ /\ req' = [req EXCEPT ![r] =
                             Request("found", "image", c, ImageSize, 0, FALSE)]
                /\ files' = files
      BY <1>4 DEF OpenImage
    <2>2. \A pc \in {"writing", "found"}, b \in BOOLEAN :
             Request(pc, "image", c, ImageSize, 0, b) \in RequestType
      BY DEF Request, RequestType, Phases, Kinds, Paths
    <2>3. req' \in [Requests -> RequestType \cup {Idle}]
      BY <2>1, <2>2 DEF TypeOK
    <2>4. files' \in [Paths -> Nat \cup {Absent}]
      <3>1. c \in Paths /\ files \in [Paths -> Nat \cup {Absent}]
        BY DEF Paths, TypeOK
      <3>2. files' = files \/ files' = [files EXCEPT ![c] = 0]
        BY <2>1
      <3> QED BY <3>1, <3>2
    <2> QED BY <1>4, <2>3, <2>4 DEF OpenImage, TypeOK
  <1>5. ASSUME NEW r \in Requests, StatImage(r) PROVE TypeOK'
    <2>1. CASE Exists(req[r].path)
      <3>1. files[req[r].path] \in Nat
        BY <1>3, <1>5, <2>1 DEF TypeOK, Exists, StatImage
      <3>2. Returned(r, files[req[r].path]) \in RequestType
        BY <1>5, <3>1, ReturnedType DEF StatImage
      <3> QED BY <1>5, <2>1, <3>2 DEF StatImage, TypeOK
    <2>2. CASE ~Exists(req[r].path)
      BY <1>1, <1>5, <2>2 DEF StatImage, TypeOK
    <2> QED BY <2>1, <2>2
  <1>6. ASSUME NEW r \in Requests, OpenQuarantine(r) PROVE TypeOK'
    <2>1. PICK n \in Names \ named, k \in PackageKinds, b \in 0..MaxBody :
             /\ named' = named \cup {n}
             /\ files' = [files EXCEPT ![n] = 0]
             /\ req' = [req EXCEPT ![r] = Request("writing", k, n, b, 0, TRUE)]
      BY <1>6 DEF OpenQuarantine
    <2>2. Request("writing", k, n, b, 0, TRUE) \in RequestType
      BY DEF Request, RequestType, Phases, Kinds, Paths
    <2>3. req' \in [Requests -> RequestType \cup {Idle}]
      BY <2>1, <2>2 DEF TypeOK
    <2>4. files' \in [Paths -> Nat \cup {Absent}] /\ named' \subseteq Names
      BY <2>1 DEF TypeOK, Paths
    <2> QED BY <1>6, <2>3, <2>4 DEF OpenQuarantine, TypeOK
  <1>7. ASSUME NEW r \in Requests, Write(r) PROVE TypeOK'
    <2>1. req[r].path \in Paths
      BY <1>3, <1>7 DEF Write
    <2>2. files[req[r].path] + 1 \in Nat
      BY <2>1 DEF TypeOK, Absent
    <2>3. files' \in [Paths -> Nat \cup {Absent}]
      BY <1>7, <2>1, <2>2 DEF Write, Grow, TypeOK
    <2> QED BY <1>7, <2>3 DEF Write, TypeOK
  <1>8. ASSUME NEW r \in Requests, Sync(r) PROVE TypeOK'
    <2>1. Owner(r) /\ req[r].path \in Paths
      BY <1>3, <1>8 DEF Sync, Core, RequestOK, MayRemove
    <2>2. files[req[r].path] \in Nat
      BY <2>1 DEF TypeOK, Core, RequestOK, Exists
    <2>3. Returned(r, files[req[r].path]) \in RequestType
      BY <1>8, <2>2, ReturnedType DEF Sync
    <2> QED BY <1>8, <2>3 DEF Sync, TypeOK
  <1>9. ASSUME NEW r \in Requests, SaveFails(r) PROVE TypeOK'
    BY <1>1, <1>2, <1>3, <1>9 DEF SaveFails, TypeOK
  <1>10. ASSUME NEW r \in Requests, BodyBreaks(r) PROVE TypeOK'
    <2>1. Package(r) => req[r].path \in Names
      BY <1>10 DEF BodyBreaks, Core, RequestOK, Package, PackageKinds
    <2> QED BY <1>1, <1>10, <2>1 DEF BodyBreaks, TypeOK
  <1>11. ASSUME NEW r \in Requests, Refuse(r) PROVE TypeOK'
    BY <1>1, <1>2, <1>3, <1>11 DEF Refuse, TypeOK
  <1>12. ASSUME NEW r \in Requests, Insert(r) PROVE TypeOK'
    <2>1. RowOf(r, req[r].wrote) \in RowType
      BY <1>12, InFlight, RowOfType DEF Insert, Insertable, RequestType
    <2> QED BY <1>1, <1>12, <2>1 DEF Insert, TypeOK
  <1>13. ASSUME NEW r \in Requests, InsertUnknown(r) PROVE TypeOK'
    <2>1. RowOf(r, FALSE) \in RowType
      BY <1>13, RowOfType DEF InsertUnknown, Insertable
    <2> QED BY <1>1, <1>2, <1>3, <1>13, <2>1
            DEF InsertUnknown, Insertable, TypeOK
  <1>14. ASSUME NEW row \in rows, CommitStaged(row) PROVE TypeOK'
    <2>1. Row("artifact", row.path, row.body, row.size, row.acked) \in RowType
      BY DEF Row, RowType, TypeOK, Kinds, PackageKinds
    <2> QED BY <1>14, <2>1 DEF CommitStaged, TypeOK
  <1>15. ASSUME NEW row \in rows, DropRow(row) PROVE TypeOK'
    BY <1>15 DEF DropRow, TypeOK
  <1>16. CASE Crash
    BY <1>16 DEF Crash, TypeOK
  <1>17. CASE UNCHANGED vars
    BY <1>17 DEF vars, TypeOK
  <1> QED BY <1>4, <1>5, <1>6, <1>7, <1>8, <1>9, <1>10, <1>11, <1>12, <1>13,
             <1>14, <1>15, <1>16, <1>17 DEF Next, Step
-----------------------------------------------------------------------------
(* What requests, files and rows know of each other.                       *)

\* A request ends and leaves the files alone; a row it may have inserted is
\* not an acknowledged one.
LEMMA Leaving ==
  ASSUME TypeOK, Core, NEW r \in Requests, Answer(r), files' = files,
         \A row \in rows' : row \in rows \/ ~row.acked,
         named' = named
  PROVE  Core'
  <1>1. req'[r].pc = "idle"
    BY DEF Answer, Idle, TypeOK
  <1>2. \A s \in Requests : s # r => req'[s] = req[s]
    BY DEF Answer, TypeOK
  <1>3. \A s \in Requests : s # r =>
           /\ Owner(s)' = Owner(s) /\ MayRemove(s)' = MayRemove(s)
           /\ RequestOK(s)'
    BY <1>2 DEF Core, RequestOK, Owner, MayRemove, Package, Exists
  <1>4. RequestOK(r)' /\ ~Owner(r)' /\ ~MayRemove(r)'
    BY <1>1 DEF RequestOK, Owner, MayRemove
  <1>5. \A row \in rows' : RowOK(row)'
    BY <1>2, <1>3, <1>4 DEF Core, RowOK
  <1>6. OneOwner'
    BY <1>2, <1>3, <1>4 DEF Core, OneOwner
  <1> QED BY <1>3, <1>4, <1>5, <1>6 DEF Core, Exists

\* A request ends and takes its file away: the file has no other owner and no
\* acknowledged row.
LEMMA Removing ==
  ASSUME TypeOK, Core, NEW r \in Requests, Answer(r),
         MayRemove(r), Remove(req[r].path),
         \A row \in rows' : row \in rows \/ ~row.acked,
         named' = named
  PROVE  Core'
  <1> DEFINE p == req[r].path
  <1>1. req'[r].pc = "idle"
    BY DEF Answer, Idle, TypeOK
  <1>2. \A s \in Requests : s # r => req'[s] = req[s]
    BY DEF Answer, TypeOK
  <1>3. \A x \in Paths : files'[x] = IF x = p THEN Absent ELSE files[x]
    BY DEF Remove, TypeOK
  <1>4. \A s \in Requests : req[s].pc # "idle" => req[s].path \in Paths
    BY InFlight DEF RequestType
  <1>5. Owner(r)
    BY DEF Core, RequestOK
  <1>6. \A s \in Requests : s # r =>
           Owner(s)' = Owner(s) /\ MayRemove(s)' = MayRemove(s)
    BY <1>2 DEF Owner, MayRemove, Package
  <1>7. ASSUME NEW s \in Requests, s # r PROVE RequestOK(s)'
    <2>1. Owner(s) => req[s].path # p /\ req[s].path \in Paths
      BY <1>4, <1>5, <1>7 DEF Core, OneOwner, Owner
    <2>2. Owner(s) => files'[req[s].path] = files[req[s].path]
      BY <1>3, <2>1
    <2>3. RequestOK(s)
      BY DEF Core
    <2>4. req[s].pc = "saved" /\ req[s].wrote => Owner(s)
      BY DEF Owner
    <2> QED BY <1>2, <1>6, <1>7, <2>2, <2>3, <2>4 DEF RequestOK, Exists
  <1>8. RequestOK(r)' /\ ~Owner(r)' /\ ~MayRemove(r)'
    BY <1>1 DEF RequestOK, Owner, MayRemove
  <1>9. ASSUME NEW row \in rows', row.acked PROVE RowOK(row)'
    <2>1. row \in rows /\ RowOK(row) /\ row.path \in Paths
      BY <1>9 DEF Core, TypeOK, RowType
    <2>2. row.path # p
      BY <1>9, <2>1 DEF RowOK
    <2>3. files'[row.path] = files[row.path]
      BY <1>3, <2>1, <2>2
    <2> QED BY <1>2, <1>6, <1>8, <1>9, <2>1, <2>3 DEF RowOK
  <1>10. \A row \in rows' : RowOK(row)'
    BY <1>9 DEF RowOK
  <1>11. OneOwner'
    BY <1>2, <1>6, <1>8 DEF Core, OneOwner
  <1>12. \A n \in Names : Exists(n)' => n \in named'
    BY <1>3 DEF Core, Exists, Paths
  <1> QED BY <1>7, <1>8, <1>10, <1>11, <1>12 DEF Core

\* A request creates its file at a path where there is none.
LEMMA Creating ==
  ASSUME TypeOK, Core, NEW r \in Requests, NEW p \in Paths, ~Exists(p),
         req'[r].pc = "writing", req'[r].wrote = TRUE, req'[r].path = p,
         p \in (IF req'[r].kind = "image" THEN Images ELSE Names),
         \A s \in Requests : s # r => req'[s] = req[s],
         files' = [files EXCEPT ![p] = 0],
         rows' = rows, named \subseteq named', p \in Names => p \in named',
         req[r].pc = "idle"
  PROVE  Core'
  <1>1. /\ req'[r].pc = "writing" /\ req'[r].wrote /\ req'[r].path = p
        /\ p \in (IF req'[r].kind = "image" THEN Images ELSE Names)
    OBVIOUS
  <1>2. \A s \in Requests : s # r => req'[s] = req[s]
    OBVIOUS
  <1>3. \A x \in Paths : files'[x] = IF x = p THEN 0 ELSE files[x]
    BY DEF TypeOK
  <1>4. \A s \in Requests : req[s].pc # "idle" => req[s].path \in Paths
    BY InFlight DEF RequestType
  <1>5. \A s \in Requests : s # r =>
           Owner(s)' = Owner(s) /\ MayRemove(s)' = MayRemove(s)
    BY <1>2 DEF Owner, MayRemove, Package
  <1>6. ASSUME NEW s \in Requests, s # r PROVE RequestOK(s)'
    <2>1. RequestOK(s)
      BY DEF Core
    <2>2. Owner(s) => req[s].path # p /\ req[s].path \in Paths
      BY <1>4, <2>1 DEF RequestOK, Owner
    <2>3. Owner(s) => files'[req[s].path] = files[req[s].path]
      BY <1>3, <2>2
    <2>4. req[s].pc = "saved" /\ req[s].wrote => Owner(s)
      BY DEF Owner
    <2> QED BY <1>2, <1>5, <1>6, <2>1, <2>3, <2>4 DEF RequestOK, Exists
  <1>7. Owner(r)' /\ RequestOK(r)'
    <2>1. Owner(r)'
      BY <1>1 DEF Owner
    <2>2. Exists(p)'
      BY <1>3 DEF Exists, Absent
    <2> QED BY <1>1, <2>1, <2>2 DEF RequestOK
  <1>8. ASSUME NEW row \in rows, row.acked PROVE RowOK(row)'
    <2>1. RowOK(row) /\ row.path \in Paths /\ row.body \in Nat
      BY DEF Core, TypeOK, RowType
    <2>2. row.path # p
      BY <1>8, <2>1 DEF RowOK, Exists, Absent
    <2>3. files'[row.path] = files[row.path]
      BY <1>3, <2>1, <2>2
    <2> QED BY <1>1, <1>2, <1>5, <1>8, <2>1, <2>2, <2>3 DEF RowOK
  <1>9. \A row \in rows' : RowOK(row)'
    BY <1>8 DEF RowOK
  <1>10. OneOwner'
    <2>1. \A s \in Requests : Owner(s) => req[s].path # p
      BY DEF Core, RequestOK
    <2> QED BY <1>1, <1>2, <1>5, <2>1 DEF Core, OneOwner
  <1>11. \A n \in Names : Exists(n)' => n \in named'
    BY <1>3 DEF Core, Exists, Paths
  <1> QED BY <1>6, <1>7, <1>9, <1>10, <1>11 DEF Core

\* A request that looks at the image of another one owns nothing.
LEMMA Looking ==
  ASSUME TypeOK, Core, NEW r \in Requests,
         req'[r].pc \in {"found", "saved"}, req'[r].wrote = FALSE,
         req'[r].kind = "image", req'[r].path \in Images,
         \A s \in Requests : s # r => req'[s] = req[s],
         files' = files, rows' = rows, named' = named
  PROVE  Core'
  <1>1. /\ req'[r].pc \in {"found", "saved"} /\ ~req'[r].wrote
        /\ req'[r].kind = "image" /\ req'[r].path \in Images
    OBVIOUS
  <1>2. \A s \in Requests : s # r => req'[s] = req[s]
    OBVIOUS
  <1>3. \A s \in Requests : s # r =>
           /\ Owner(s)' = Owner(s) /\ MayRemove(s)' = MayRemove(s)
           /\ RequestOK(s)'
    BY <1>2 DEF Core, RequestOK, Owner, MayRemove, Package, Exists
  <1>4. RequestOK(r)' /\ ~Owner(r)' /\ ~MayRemove(r)'
    BY <1>1 DEF RequestOK, Owner, MayRemove, Package, PackageKinds
  <1>5. \A row \in rows' : RowOK(row)'
    BY <1>2, <1>3, <1>4 DEF Core, RowOK
  <1>6. OneOwner'
    BY <1>2, <1>3, <1>4 DEF Core, OneOwner
  <1> QED BY <1>3, <1>4, <1>5, <1>6 DEF Core, Exists

\* A write changes a file that only its writer knows as its own.
LEMMA Writing ==
  ASSUME TypeOK, Core, NEW r \in Requests, Write(r)
  PROVE  Core'
  <1> DEFINE p == req[r].path
  <1>1. req[r].pc = "writing" /\ MayRemove(r) /\ Owner(r) /\ Exists(p)
    BY DEF Write, MayRemove, Core, RequestOK
  <1>2. p \in Paths /\ \A s \in Requests :
                          req[s].pc # "idle" => req[s].path \in Paths
    BY <1>1, InFlight DEF RequestType
  <1>3. files[p] + 1 \in Nat /\ files[p] + 1 # Absent
    BY <1>2 DEF TypeOK, Absent
  <1>4. \A x \in Paths : files'[x] = IF x = p THEN files[p] + 1 ELSE files[x]
    BY <1>2 DEF Write, Grow, TypeOK
  <1>5. req' = req /\ rows' = rows /\ named' = named
    BY DEF Write
  <1>6. \A s \in Requests : Owner(s)' = Owner(s) /\ MayRemove(s)' = MayRemove(s)
    BY <1>5 DEF Owner, MayRemove, Package
  <1>7. ASSUME NEW s \in Requests PROVE RequestOK(s)'
    <2>1. RequestOK(s)
      BY DEF Core
    <2>2. CASE s = r
      BY <1>1, <1>3, <1>4, <1>5, <1>6, <2>1, <2>2, <1>2 DEF RequestOK, Exists
    <2>3. CASE s # r
      <3>1. Owner(s) => req[s].path # p /\ req[s].path \in Paths
        BY <1>1, <1>2, <2>3 DEF Core, OneOwner, Owner
      <3>2. Owner(s) => files'[req[s].path] = files[req[s].path]
        BY <1>4, <3>1
      <3>3. req[s].pc = "saved" /\ req[s].wrote => Owner(s)
        BY DEF Owner
      <3> QED BY <1>5, <1>6, <2>1, <3>2, <3>3 DEF RequestOK, Exists
    <2> QED BY <2>2, <2>3
  <1>8. ASSUME NEW row \in rows, row.acked PROVE RowOK(row)'
    <2>1. RowOK(row) /\ row.path \in Paths
      BY DEF Core, TypeOK, RowType
    <2>2. row.path # p
      BY <1>1, <1>8, <2>1 DEF RowOK
    <2>3. files'[row.path] = files[row.path]
      BY <1>4, <2>1, <2>2
    <2> QED BY <1>5, <1>6, <1>8, <2>1, <2>3 DEF RowOK
  <1>9. \A row \in rows' : RowOK(row)'
    BY <1>5, <1>8 DEF RowOK
  <1>10. OneOwner'
    BY <1>5, <1>6 DEF Core, OneOwner
  <1>11. \A n \in Names : Exists(n)' => n \in named'
    <2>1. p \in Names => p \in named
      BY <1>1 DEF Core
    <2> QED BY <1>4, <1>5, <2>1 DEF Core, Exists, Paths
  <1> QED BY <1>7, <1>9, <1>10, <1>11 DEF Core

\* What is synced is the whole body.
LEMMA Syncing ==
  ASSUME TypeOK, Core, NEW r \in Requests, Sync(r)
  PROVE  Core'
  <1> DEFINE p == req[r].path
             q == Returned(r, files[p])
  <1>1. req[r].pc = "writing" /\ MayRemove(r) /\ Owner(r) /\ Exists(p)
    BY DEF Sync, MayRemove, Core, RequestOK
  <1>2. req[r].body \in Nat /\ p \in Paths
    BY <1>1, InFlight DEF RequestType
  <1>3. files[p] = req[r].body
    BY <1>1, <1>2, StorageAssumption DEF Sync, Target
  <1>4. /\ q.pc = "saved" /\ q.kind = req[r].kind /\ q.path = p
        /\ q.body = req[r].body /\ q.size = files[p] /\ q.wrote = req[r].wrote
    BY <1>1, <1>2, <1>3, ReturnedType
  <1>5. req'[r] = q /\ files' = files /\ rows' = rows /\ named' = named
    BY DEF Sync, TypeOK
  <1>6. \A s \in Requests : s # r => req'[s] = req[s]
    BY DEF Sync, TypeOK
  <1>7. \A s \in Requests : s # r =>
           /\ Owner(s)' = Owner(s) /\ MayRemove(s)' = MayRemove(s)
           /\ RequestOK(s)'
    BY <1>5, <1>6 DEF Core, RequestOK, Owner, MayRemove, Package, Exists
  <1>8. Owner(r)' /\ RequestOK(r)' /\ req'[r].path = p
    <2>1. RequestOK(r)
      BY DEF Core
    <2> HIDE DEF q
    <2> QED BY <1>1, <1>3, <1>4, <1>5, <2>1
            DEF RequestOK, Owner, MayRemove, Package, Exists
  <1>9. \A row \in rows' : RowOK(row)'
    BY <1>1, <1>5, <1>6, <1>7, <1>8 DEF Core, RowOK
  <1>10. OneOwner'
    BY <1>1, <1>6, <1>7, <1>8 DEF Core, OneOwner
  <1> QED BY <1>5, <1>7, <1>8, <1>9, <1>10 DEF Core, Exists

\* The row of an owner is complete, and with its request nobody is left who
\* could remove the file.
LEMMA Inserting ==
  ASSUME TypeOK, Core, NEW r \in Requests, Insert(r)
  PROVE  Core'
  <1>1. req[r].pc = "saved" /\ req[r].wrote \in BOOLEAN
    BY InFlight DEF Insert, Insertable, RequestType
  <1>2. PICK new : /\ new = RowOf(r, req[r].wrote)
                   /\ new.path = req[r].path /\ new.body = req[r].body
                   /\ new.size = req[r].size /\ new.acked = req[r].wrote
    BY <1>1, RowOfType
  <1>3. Answer(r) /\ files' = files /\ named' = named /\ rows' = rows \cup {new}
    BY <1>2 DEF Insert
  <1>4. CASE ~req[r].wrote
    BY <1>2, <1>3, <1>4, Leaving
  <1>5. CASE req[r].wrote
    <2>1. req'[r].pc = "idle"
      BY <1>3 DEF Answer, Idle, TypeOK
    <2>2. \A s \in Requests : s # r => req'[s] = req[s]
      BY <1>3 DEF Answer, TypeOK
    <2>3. \A s \in Requests : s # r =>
             /\ Owner(s)' = Owner(s) /\ MayRemove(s)' = MayRemove(s)
             /\ RequestOK(s)'
      BY <1>3, <2>2 DEF Core, RequestOK, Owner, MayRemove, Package, Exists
    <2>4. RequestOK(r)' /\ ~Owner(r)' /\ ~MayRemove(r)'
      BY <2>1 DEF RequestOK, Owner, MayRemove
    <2>5. \A row \in rows : RowOK(row)'
      BY <1>3, <2>2, <2>3, <2>4 DEF Core, RowOK
    <2>6. Owner(r)
      BY <1>1, <1>5 DEF Owner
    <2>7. \A s \in Requests : s # r /\ MayRemove(s) => req[s].path # req[r].path
      BY <2>6 DEF Core, RequestOK, OneOwner
    <2>8. RowOK(new)'
      BY <1>1, <1>2, <1>3, <1>5, <2>2, <2>3, <2>4, <2>7 DEF Core, RequestOK, RowOK
    <2>9. OneOwner'
      BY <2>2, <2>3, <2>4 DEF Core, OneOwner
    <2> QED BY <1>3, <2>3, <2>4, <2>5, <2>8, <2>9 DEF Core, Exists
  <1> QED BY <1>4, <1>5

\* Every step keeps what requests, files and rows know of each other.
LEMMA CoreStep == IInv /\ [Next]_vars => Core'
  <1> SUFFICES ASSUME TypeOK, Core, [Next]_vars PROVE Core'
    BY DEF IInv
  <1>1. ASSUME NEW r \in Requests, OpenImage(r) PROVE Core'
    <2>1. PICK c \in Images :
             \/ /\ ~Exists(c)
                /\ files' = [files EXCEPT ![c] = 0]
                /\ req' = [req EXCEPT ![r] =
                             Request("writing", "image", c, ImageSize, 0, TRUE)]
             \/ /\ req' = [req EXCEPT ![r] =
                             Request("found", "image", c, ImageSize, 0, FALSE)]
                /\ files' = files
      BY <1>1 DEF OpenImage
    <2>2. /\ req[r].pc = "idle" /\ rows' = rows /\ named' = named
          /\ c \in Paths /\ c \notin Names
      BY <1>1, StorageAssumption DEF OpenImage, Paths
    <2>4. CASE /\ ~Exists(c)
               /\ files' = [files EXCEPT ![c] = 0]
               /\ req' = [req EXCEPT ![r] =
                            Request("writing", "image", c, ImageSize, 0, TRUE)]
      <3>1. req'[r] = Request("writing", "image", c, ImageSize, 0, TRUE)
        BY <2>4 DEF TypeOK
      <3>2. /\ req'[r].pc = "writing" /\ req'[r].kind = "image"
            /\ req'[r].path = c /\ req'[r].wrote = TRUE
        BY <3>1 DEF Request
      <3>3. \A s \in Requests : s # r => req'[s] = req[s]
        BY <2>4 DEF TypeOK
      <3> QED BY <2>2, <2>4, <3>2, <3>3, Creating
    <2>5. CASE /\ req' = [req EXCEPT ![r] =
                            Request("found", "image", c, ImageSize, 0, FALSE)]
               /\ files' = files
      <3>1. req'[r] = Request("found", "image", c, ImageSize, 0, FALSE)
        BY <2>5 DEF TypeOK
      <3>2. /\ req'[r].pc = "found" /\ req'[r].kind = "image"
            /\ req'[r].path = c /\ req'[r].wrote = FALSE
        BY <3>1 DEF Request
      <3>3. \A s \in Requests : s # r => req'[s] = req[s]
        BY <2>5 DEF TypeOK
      <3> QED BY <2>2, <2>5, <3>2, <3>3, Looking
    <2> QED BY <2>1, <2>4, <2>5
  <1>2. ASSUME NEW r \in Requests, StatImage(r) PROVE Core'
    <2>1. /\ req[r].pc = "found" /\ ~req[r].wrote /\ req[r].kind = "image"
          /\ req[r].path \in Images /\ req[r].path \in Paths
      BY <1>2 DEF StatImage, Core, RequestOK, Paths
    <2>2. CASE Exists(req[r].path)
      <3>1. files[req[r].path] \in Nat
        BY <2>1, <2>2 DEF TypeOK, Exists
      <3>2. req'[r] = Returned(r, files[req[r].path])
        BY <1>2, <2>2 DEF StatImage, TypeOK
      <3>3. \A s \in Requests : s # r => req'[s] = req[s]
        BY <1>2, <2>2 DEF StatImage, TypeOK
      <3>4. /\ req'[r].pc = "saved" /\ req'[r].kind = "image"
            /\ req'[r].path \in Images /\ req'[r].wrote = req[r].wrote
        BY <2>1, <3>1, <3>2, ReturnedType
      <3>5. req[r].wrote = FALSE
        BY <2>1, InFlight DEF RequestType
      <3> QED BY <1>2, <3>3, <3>4, <3>5, Looking DEF StatImage
    <2>3. CASE ~Exists(req[r].path)
      BY <1>2, <2>3, Leaving DEF StatImage
    <2> QED BY <2>2, <2>3
  <1>3. ASSUME NEW r \in Requests, OpenQuarantine(r) PROVE Core'
    <2>1. PICK n \in Names \ named, k \in PackageKinds, b \in 0..MaxBody :
             /\ named' = named \cup {n}
             /\ files' = [files EXCEPT ![n] = 0]
             /\ req' = [req EXCEPT ![r] = Request("writing", k, n, b, 0, TRUE)]
      BY <1>3 DEF OpenQuarantine
    <2>2. req'[r] = Request("writing", k, n, b, 0, TRUE)
      BY <2>1 DEF TypeOK
    <2>3. /\ req'[r].pc = "writing" /\ req'[r].kind = k
          /\ req'[r].path = n /\ req'[r].wrote = TRUE
      BY <2>2 DEF Request
    <2>4. /\ req[r].pc = "idle" /\ rows' = rows /\ n \in Paths /\ ~Exists(n)
          /\ k # "image"
      BY <1>3 DEF OpenQuarantine, Paths, Core, PackageKinds
    <2>5. \A s \in Requests : s # r => req'[s] = req[s]
      BY <2>1 DEF TypeOK
    <2>6. named \subseteq named' /\ n \in named'
      BY <2>1
    <2> QED BY <2>1, <2>3, <2>4, <2>5, <2>6, Creating
  <1>4. ASSUME NEW r \in Requests, Write(r) PROVE Core'
    BY <1>4, Writing
  <1>5. ASSUME NEW r \in Requests, Sync(r) PROVE Core'
    BY <1>5, Syncing
  <1>6. ASSUME NEW r \in Requests, SaveFails(r) PROVE Core'
    BY <1>6, Removing DEF SaveFails, MayRemove
  <1>7. ASSUME NEW r \in Requests, BodyBreaks(r) PROVE Core'
    BY <1>7, Leaving DEF BodyBreaks
  <1>8. ASSUME NEW r \in Requests, Refuse(r) PROVE Core'
    <2>1. CASE Package(r)
      BY <1>8, <2>1, Removing DEF Refuse, MayRemove
    <2>2. CASE ~Package(r)
      BY <1>8, <2>2, Leaving DEF Refuse
    <2> QED BY <2>1, <2>2
  <1>9. ASSUME NEW r \in Requests, Insert(r) PROVE Core'
    BY <1>9, Inserting
  <1>10. ASSUME NEW r \in Requests, InsertUnknown(r) PROVE Core'
    <2>1. \A row \in rows' : row \in rows \/ ~row.acked
      BY <1>10, RowOfType DEF InsertUnknown, Insertable
    <2>2. CASE Package(r)
      BY <1>10, <2>1, <2>2, Removing DEF InsertUnknown, Insertable, MayRemove
    <2>3. CASE ~Package(r)
      BY <1>10, <2>1, <2>3, Leaving DEF InsertUnknown
    <2> QED BY <2>2, <2>3
  <1>11. ASSUME NEW row \in rows, CommitStaged(row) PROVE Core'
    <2> DEFINE new == Row("artifact", row.path, row.body, row.size, row.acked)
    <2>1. /\ new.path = row.path /\ new.body = row.body
          /\ new.size = row.size /\ new.acked = row.acked
      BY DEF Row
    <2>2. rows' = (rows \ {row}) \cup {new}
      BY <1>11 DEF CommitStaged
    <2> HIDE DEF new
    <2>3. files' = files /\ req' = req /\ named' = named
      BY <1>11 DEF CommitStaged
    <2>4. \A x : RowOK(x)' <=> RowOK(x)
      BY <2>3 DEF RowOK, MayRemove, Package
    <2>5. RowOK(row)
      BY DEF Core
    <2>6. RowOK(new)
      BY <2>1, <2>5 DEF RowOK
    <2>7. \A x \in rows' : RowOK(x)
      BY <2>2, <2>6 DEF Core
    <2>8. \A x \in rows' : RowOK(x)'
      BY <2>4, <2>7
    <2> QED BY <2>3, <2>8
            DEF Core, RequestOK, OneOwner, Owner, MayRemove, Package, Exists
  <1>12. ASSUME NEW row \in rows, DropRow(row) PROVE Core'
    BY <1>12 DEF DropRow, Core, RequestOK, RowOK, OneOwner, Owner, MayRemove,
                 Package, Exists
  <1>13. CASE Crash
    <2>1. \A r \in Requests : req'[r].pc = "idle"
      BY <1>13 DEF Crash, Idle
    <2> QED BY <1>13, <2>1
            DEF Crash, Core, RequestOK, RowOK, OneOwner, Owner, MayRemove, Exists
  <1>14. CASE UNCHANGED vars
    BY <1>14 DEF vars, Core, RequestOK, RowOK, OneOwner, Owner, MayRemove,
                 Package, Exists
  <1> QED BY <1>1, <1>2, <1>3, <1>4, <1>5, <1>6, <1>7, <1>8, <1>9, <1>10,
             <1>11, <1>12, <1>13, <1>14 DEF Next, Step

-----------------------------------------------------------------------------
(* Orphans.                                                                *)

\* What accounts for a quarantine file.
Covered(n) == \/ n \in stray
              \/ \E r \in Requests : req[r].pc # "idle" /\ req[r].path = n
              \/ \E row \in rows : row.path = n

\* It is enough that a step covers the file of the request that takes it, and
\* that no other file appears and nothing else is uncovered.
LEMMA Covering ==
  ASSUME TypeOK, NoOtherOrphans, NEW r \in Requests,
         NEW p, p = req[r].path,
         \A s \in Requests : s # r => req'[s] = req[s],
         \A n \in Names : Exists(n)' => Exists(n) \/ Covered(n)',
         stray \subseteq stray',
         \A row \in rows : row \in rows',
         req[r].pc # "idle" /\ p \in Names => ~Exists(p)' \/ Covered(p)'
  PROVE  NoOtherOrphans'
  <1> SUFFICES ASSUME NEW n \in Names, Exists(n)' PROVE Covered(n)'
    BY DEF NoOtherOrphans, Covered
  <1> SUFFICES ASSUME Exists(n) PROVE Covered(n)'
    OBVIOUS
  <1>1. Covered(n)
    BY DEF NoOtherOrphans, Covered
  <1>2. CASE req[r].pc # "idle" /\ req[r].path = n
    BY <1>2
  <1>3. CASE ~(req[r].pc # "idle" /\ req[r].path = n)
    BY <1>1, <1>3 DEF Covered
  <1> QED BY <1>2, <1>3

\* No step leaves a quarantine file without an account, one step per action.
LEMMA OrphanStep == IInv /\ [Next]_vars => NoOtherOrphans'
  <1> SUFFICES ASSUME TypeOK, Core, NoOtherOrphans, [Next]_vars
               PROVE  NoOtherOrphans'
    BY DEF IInv
  <1>1. ASSUME NEW r \in Requests, Answer(r)
        PROVE  \A s \in Requests : s # r => req'[s] = req[s]
    BY <1>1 DEF Answer, TypeOK
  <1>2. ASSUME NEW p \in Paths, Remove(p)
        PROVE  /\ ~Exists(p)'
               /\ \A n \in Names : Exists(n)' => Exists(n)
    BY <1>2 DEF Remove, TypeOK, Exists, Paths
  <1>3. ASSUME NEW r \in Requests, req[r].pc # "idle" PROVE req[r].path \in Paths
    BY <1>3, InFlight DEF RequestType
  <1>4. ASSUME files' = files PROVE \A n \in Names : Exists(n)' => Exists(n)
    BY <1>4 DEF Exists
  <1>5. ASSUME NEW r \in Requests, ~Package(r), req[r].pc # "idle"
        PROVE  req[r].path \notin Names
    <2>1. req[r].kind \in Kinds
      BY <1>5, InFlight DEF RequestType
    <2> QED BY <1>5, <2>1, StorageAssumption
            DEF Core, RequestOK, Package, Kinds
  <1>6. ASSUME NEW r \in Requests, OpenImage(r) PROVE NoOtherOrphans'
    <2>1. \A s \in Requests : s # r => req'[s] = req[s]
      BY <1>6 DEF OpenImage, TypeOK
    <2>2. PICK c \in Images : files' = files \/ files' = [files EXCEPT ![c] = 0]
      BY <1>6 DEF OpenImage
    <2>3. \A n \in Names : Exists(n)' => Exists(n)
      BY <2>2, StorageAssumption DEF Exists, TypeOK, Paths
    <2> QED BY <1>6, <2>1, <2>3, Covering DEF OpenImage
  <1>7. ASSUME NEW r \in Requests, StatImage(r) PROVE NoOtherOrphans'
    <2>1. \A s \in Requests : s # r => req'[s] = req[s]
      BY <1>1, <1>7 DEF StatImage, TypeOK
    <2>2. req[r].path \notin Names
      BY <1>7, StorageAssumption DEF StatImage, Core, RequestOK
    <2> QED BY <1>4, <1>7, <2>1, <2>2, Covering DEF StatImage
  <1>8. ASSUME NEW r \in Requests, OpenQuarantine(r) PROVE NoOtherOrphans'
    <2>1. PICK n \in Names \ named, k \in PackageKinds, b \in 0..MaxBody :
             /\ files' = [files EXCEPT ![n] = 0]
             /\ req' = [req EXCEPT ![r] = Request("writing", k, n, b, 0, TRUE)]
      BY <1>8 DEF OpenQuarantine
    <2>2. req'[r].pc = "writing" /\ req'[r].path = n
      BY <2>1 DEF Request, TypeOK
    <2>3. \A s \in Requests : s # r => req'[s] = req[s]
      BY <2>1 DEF TypeOK
    <2>4. \A m \in Names : m # n => (Exists(m)' <=> Exists(m))
      BY <2>1 DEF Exists, TypeOK, Paths
    <2>5. Covered(n)'
      BY <2>2 DEF Covered
    <2>6. \A m \in Names : Exists(m)' => Exists(m) \/ Covered(m)'
      BY <2>4, <2>5
    <2> QED BY <1>8, <2>3, <2>6, Covering DEF OpenQuarantine
  <1>9. ASSUME NEW r \in Requests, Write(r) PROVE NoOtherOrphans'
    <2>1. Owner(r) /\ req[r].pc = "writing"
      BY <1>9 DEF Write, Core, RequestOK, MayRemove
    <2>2. Exists(req[r].path) /\ req' = req /\ req[r].path \in Paths
      BY <1>3, <1>9, <2>1 DEF Write, Core, RequestOK
    <2>3. \A n \in Names : Exists(n)' => Exists(n)
      BY <1>9, <2>2 DEF Write, Grow, Exists, TypeOK, Paths
    <2>4. stray' = stray /\ rows' = rows
      BY <1>9 DEF Write
    <2>5. NoOtherOrphans' <=> \A n \in Names : Exists(n)' => Covered(n)
      BY <2>2, <2>4 DEF NoOtherOrphans, Covered
    <2> QED BY <2>3, <2>5 DEF NoOtherOrphans, Covered
  <1>10. ASSUME NEW r \in Requests, Sync(r) PROVE NoOtherOrphans'
    <2>1. req'[r] = Returned(r, files[req[r].path])
      BY <1>10 DEF Sync, TypeOK
    <2>2. PICK p : p = req[r].path /\ req'[r].pc = "saved" /\ req'[r].path = p
      BY <2>1 DEF Returned, Request
    <2>3. Covered(p)'
      BY <2>2 DEF Covered
    <2>4. \A s \in Requests : s # r => req'[s] = req[s]
      BY <1>10 DEF Sync, TypeOK
    <2> QED BY <1>4, <1>10, <2>2, <2>3, <2>4, Covering DEF Sync
  <1>11. ASSUME NEW r \in Requests, SaveFails(r) PROVE NoOtherOrphans'
    <2>1. PICK p \in Paths : p = req[r].path
      BY <1>3, <1>11 DEF SaveFails
    <2> QED BY <1>1, <1>2, <1>11, <2>1, Covering DEF SaveFails
  <1>12. ASSUME NEW r \in Requests, BodyBreaks(r) PROVE NoOtherOrphans'
    <2>1. PICK p : p = req[r].path
      OBVIOUS
    <2>2. p \in Names => Covered(p)'
      BY <1>5, <1>12, <2>1 DEF BodyBreaks, Covered
    <2> QED BY <1>1, <1>4, <1>12, <2>1, <2>2, Covering DEF BodyBreaks
  <1>13. ASSUME NEW r \in Requests, Refuse(r) PROVE NoOtherOrphans'
    <2>1. CASE Package(r)
      <3>1. PICK p \in Paths : p = req[r].path
        BY <1>3, <1>13 DEF Refuse
      <3> QED BY <1>1, <1>2, <1>13, <2>1, <3>1, Covering DEF Refuse
    <2>2. CASE ~Package(r)
      BY <1>1, <1>4, <1>5, <1>13, <2>2, Covering DEF Refuse
    <2> QED BY <2>1, <2>2
  <1>14. ASSUME NEW r \in Requests, Insert(r) PROVE NoOtherOrphans'
    <2>1. req[r].wrote \in BOOLEAN /\ req[r].pc # "idle"
      BY <1>14, InFlight DEF Insert, Insertable, RequestType
    <2>2. PICK p : p = req[r].path
      OBVIOUS
    <2> DEFINE w == RowOf(r, req[r].wrote)
    <2>3. w \in rows' /\ w.path = p
      BY <1>14, <2>1, <2>2, RowOfType DEF Insert
    <2>4. \E new \in rows' : new.path = p
      <3> HIDE DEF w
      <3> QED BY <2>3
    <2>5. Covered(p)'
      BY <2>4 DEF Covered
    <2> QED BY <1>1, <1>4, <1>14, <2>2, <2>5, Covering DEF Insert
  <1>15. ASSUME NEW r \in Requests, InsertUnknown(r) PROVE NoOtherOrphans'
    <2>1. CASE Package(r)
      <3>1. PICK p \in Paths : p = req[r].path
        BY <1>3, <1>15 DEF InsertUnknown, Insertable
      <3> QED BY <1>1, <1>2, <1>15, <2>1, <3>1, Covering DEF InsertUnknown
    <2>2. CASE ~Package(r)
      BY <1>1, <1>4, <1>5, <1>15, <2>2, Covering DEF InsertUnknown, Insertable
    <2> QED BY <2>1, <2>2
  <1>16. ASSUME NEW row \in rows, CommitStaged(row) PROVE NoOtherOrphans'
    <2>1. \E new \in rows' : new.path = row.path
      <3>1. Row("artifact", row.path, row.body, row.size, row.acked).path = row.path
        BY DEF Row
      <3> QED BY <1>16, <3>1 DEF CommitStaged
    <2>2. \A x \in rows : \E y \in rows' : y.path = x.path
      BY <1>16, <2>1 DEF CommitStaged
    <2> QED BY <1>16, <2>2 DEF CommitStaged, NoOtherOrphans, Exists
  <1>17. ASSUME NEW row \in rows, DropRow(row) PROVE NoOtherOrphans'
    BY <1>17 DEF DropRow, NoOtherOrphans, Exists
  <1>18. CASE Crash
    BY <1>18 DEF Crash, NoOtherOrphans, Exists
  <1>19. CASE UNCHANGED vars
    BY <1>19 DEF vars, NoOtherOrphans, Exists
  <1> QED BY <1>6, <1>7, <1>8, <1>9, <1>10, <1>11, <1>12, <1>13, <1>14, <1>15,
             <1>16, <1>17, <1>18, <1>19 DEF Next, Step

\* The inductive invariant holds always.
THEOREM Invariance == Spec => []IInv
  <1>1. Init => IInv
    BY InvInit
  <1>2. IInv /\ [Next]_vars => IInv'
    BY TypeStep, CoreStep, OrphanStep DEF IInv
  <1> QED BY <1>1, <1>2, PTL DEF Spec

\* Disk, tables and requests keep their shape.
THEOREM TypeCorrect == Spec => []TypeOK
  BY Invariance, PTL DEF IInv

\* An upload that was answered with success and had written its file can be
\* fetched, complete, for as long as its row is there.
THEOREM AcknowledgedStay == Spec => []AcknowledgedFilesStay
  <1>1. IInv => AcknowledgedFilesStay
    <2> SUFFICES ASSUME IInv, NEW row \in rows, row.acked
                 PROVE  Status(row) = "ok" /\ files[row.path] = row.body
      BY DEF AcknowledgedFilesStay
    <2>1. files[row.path] = row.body /\ row.size = row.body
      BY DEF IInv, Core, RowOK
    <2>2. row.body # Absent
      BY DEF IInv, TypeOK, RowType, Absent
    <2> QED BY <2>1, <2>2 DEF Status, Exists
  <1> QED BY <1>1, Invariance, PTL

\* Every quarantine file is accounted for.
THEOREM OrphansKnown == Spec => []NoOtherOrphans
  <1>1. IInv => NoOtherOrphans
    BY DEF IInv
  <1> QED BY <1>1, Invariance, PTL
=============================================================================
