---------------------------- MODULE UploadStorage ----------------------------
(***************************************************************************)
(* Files on the local disk and the rows that name them.  storage.Local     *)
(* saves a package under a random name in quarantine/ and a processed      *)
(* image under the SHA-256 of its bytes in images/; the handler that saved *)
(* it then inserts a row (staged_uploads, artifacts or image_assets) and   *)
(* the file handlers answer from the row and the file it names.            *)
(*                                                                         *)
(* Neither disk nor database knows of the other: a file grows while others *)
(* can look at it, a request may fail at any step, a process may stop      *)
(* between two steps, and an insert may have been committed although its   *)
(* caller is given an error (a client that goes away cancels the context   *)
(* of the query).  Lengths are in abstract blocks; two images with the     *)
(* same bytes share one path, two packages never do.                       *)
(***************************************************************************)
EXTENDS Integers, FiniteSets

CONSTANTS
    Images,     \* bytes of processed images: each is its own path
    Names,      \* random names of quarantine files
    Requests,   \* requests that may be in flight together
    ImageSize,  \* length of a processed image
    MaxUpload,  \* maxUploadBytes of storage.Local
    MaxBody,    \* bound: longest file a client sends
    MaxCrashes  \* bound: how often the process stops

ASSUME StorageAssumption ==
    /\ Images \cap Names = {}
    /\ ImageSize \in Nat \ {0}
    /\ MaxUpload \in Nat \ {0}
    /\ MaxBody \in Nat
    /\ MaxCrashes \in Nat

VARIABLES
    files,      \* length of the file at each path, Absent where there is none
    named,      \* random names that have been drawn
    req,        \* what each request is doing
    rows,       \* rows of image_assets, staged_uploads and artifacts
    stray,      \* history: quarantine files whose request or row is gone
    crashes     \* how often the process has stopped

vars == <<files, named, req, rows, stray, crashes>>

-----------------------------------------------------------------------------
Paths == Images \cup Names
Absent == -1

\* inspect: adminInspectUpload; artifact: adminUploadArtifact; stage:
\* contributionStageUpload; image: processImageMultipart and its four callers.
PackageKinds == {"inspect", "artifact", "stage"}
Kinds == PackageKinds \cup {"image"}

\* found: OpenFile has answered ErrExist; writing: the file is this request's
\* own and grows; saved: SaveImage or SaveQuarantine has returned.
Phases == {"idle", "found", "writing", "saved"}

Request(pc, kind, path, body, size, wrote) ==
    [pc |-> pc, kind |-> kind, path |-> path, body |-> body, size |-> size,
     wrote |-> wrote]
Row(kind, path, body, size, acked) ==
    [kind |-> kind, path |-> path, body |-> body, size |-> size,
     acked |-> acked]

Idle == [pc |-> "idle"]

\* body is what the client sent and acked a history variable: the request
\* that inserted the row had written the file and was told that all is well.
RequestType == [pc: Phases \ {"idle"}, kind: Kinds, path: Paths, body: Nat,
                size: Nat, wrote: BOOLEAN]
RowType == [kind: Kinds, path: Paths, body: Nat, size: Nat, acked: BOOLEAN]

TypeOK ==
    /\ files \in [Paths -> Nat \cup {Absent}]
    /\ named \subseteq Names
    /\ req \in [Requests -> RequestType \cup {Idle}]
    /\ rows \subseteq RowType
    /\ stray \subseteq Names
    /\ crashes \in 0..MaxCrashes

Init ==
    /\ files = [p \in Paths |-> Absent]
    /\ named = {}
    /\ req = [r \in Requests |-> Idle]
    /\ rows = {}
    /\ stray = {}
    /\ crashes = 0

-----------------------------------------------------------------------------
Exists(p) == files[p] # Absent
Package(r) == req[r].kind \in PackageKinds
Grow(p) == files' = [files EXCEPT ![p] = files[p] + 1]
Remove(p) == files' = [files EXCEPT ![p] = Absent]
Answer(r) == req' = [req EXCEPT ![r] = Idle]

\* Saved with the length the saver reports.
Returned(r, size) ==
    Request("saved", req[r].kind, req[r].path, req[r].body, size, req[r].wrote)

\* How much of the body reaches the file: an image is one Write of all its
\* bytes, a package is copied through a reader that stops one past the limit.
Target(r) ==
    IF Package(r) /\ req[r].body > MaxUpload THEN MaxUpload + 1
    ELSE req[r].body

\* SaveImage: O_CREATE|O_EXCL at the path of the bytes.
OpenImage(r) ==
    /\ req[r].pc = "idle"
    /\ \E c \in Images :
          \/ /\ ~Exists(c)
             /\ files' = [files EXCEPT ![c] = 0]
             /\ req' = [req EXCEPT ![r] =
                          Request("writing", "image", c, ImageSize, 0, TRUE)]
          \/ /\ Exists(c)
             /\ req' = [req EXCEPT ![r] =
                          Request("found", "image", c, ImageSize, 0, FALSE)]
             /\ UNCHANGED files
    /\ UNCHANGED <<named, rows, stray, crashes>>

\* SaveImage: Stat of a file that another upload made, complete or not.
StatImage(r) ==
    /\ req[r].pc = "found"
    /\ IF Exists(req[r].path)
       THEN req' = [req EXCEPT ![r] = Returned(r, files[req[r].path])]
       ELSE Answer(r)
    /\ UNCHANGED <<files, named, rows, stray, crashes>>

\* SaveQuarantine: a name nobody has drawn before.
OpenQuarantine(r) ==
    /\ req[r].pc = "idle"
    /\ \E n \in Names \ named, k \in PackageKinds, b \in 0..MaxBody :
          /\ named' = named \cup {n}
          /\ files' = [files EXCEPT ![n] = 0]
          /\ req' = [req EXCEPT ![r] = Request("writing", k, n, b, 0, TRUE)]
    /\ UNCHANGED <<rows, stray, crashes>>

Write(r) ==
    /\ req[r].pc = "writing"
    /\ files[req[r].path] < Target(r)
    /\ Grow(req[r].path)
    /\ UNCHANGED <<named, req, rows, stray, crashes>>

\* Everything is written: a package beyond the limit is refused, anything
\* else is synced and kept.
Sync(r) ==
    /\ req[r].pc = "writing"
    /\ files[req[r].path] = Target(r)
    /\ Package(r) => files[req[r].path] <= MaxUpload
    /\ req' = [req EXCEPT ![r] = Returned(r, files[req[r].path])]
    /\ UNCHANGED <<files, named, rows, stray, crashes>>

\* ErrTooLarge, a failed Write, Copy or Sync: the deferred Remove of a saver
\* takes back the file it has created.
SaveFails(r) ==
    /\ req[r].pc = "writing"
    /\ Remove(req[r].path)
    /\ Answer(r)
    /\ UNCHANGED <<named, rows, stray, crashes>>

-----------------------------------------------------------------------------
\* The rest of the multipart body cannot be read.  The handlers return from
\* the loop before their deferred Remove is set up: the file stays.
BodyBreaks(r) ==
    /\ req[r].pc = "saved"
    /\ stray' = stray \cup (IF Package(r) THEN {req[r].path} ELSE {})
    /\ Answer(r)
    /\ UNCHANGED <<files, named, rows, crashes>>

\* Mutant of Refuse: the image handlers take the file back as well.
RefuseRemovingImage(r) ==
    /\ req[r].pc = "saved"
    /\ Remove(req[r].path)
    /\ Answer(r)
    /\ UNCHANGED <<named, rows, stray, crashes>>

\* Mutant of Refuse: the deferred Remove of a package handler is missing.
RefuseKeepingFile(r) ==
    /\ req[r].pc = "saved"
    /\ Answer(r)
    /\ UNCHANGED <<files, named, rows, stray, crashes>>

\* The body holds a second file or a field that is too long, a field is
\* refused, the insert fails, or an inspection is over: a package is removed,
\* an image, which others may share, is not.
Refuse(r) ==
    /\ req[r].pc = "saved"
    /\ IF Package(r) THEN Remove(req[r].path) ELSE UNCHANGED files
    /\ Answer(r)
    /\ UNCHANGED <<named, rows, stray, crashes>>

\* insertImageAsset and CreateStagedUpload refuse a length of zero,
\* CreateUploadedArtifact does not.
Insertable(r) ==
    /\ req[r].pc = "saved"
    /\ req[r].kind # "inspect"
    /\ req[r].kind # "artifact" => req[r].size > 0

RowOf(r, acked) ==
    Row(req[r].kind, req[r].path, req[r].body, req[r].size, acked)

\* The row is committed and the client told so.
Insert(r) ==
    /\ Insertable(r)
    /\ rows' = rows \cup {RowOf(r, req[r].wrote)}
    /\ Answer(r)
    /\ UNCHANGED <<files, named, stray, crashes>>

\* The row is committed and the handler given an error.
InsertUnknown(r) ==
    /\ Insertable(r)
    /\ rows' = rows \cup {RowOf(r, FALSE)}
    /\ IF Package(r) THEN Remove(req[r].path) ELSE UNCHANGED files
    /\ Answer(r)
    /\ UNCHANGED <<named, stray, crashes>>

-----------------------------------------------------------------------------
\* CommitStagedUpload: the artifact takes over the path of the staged upload.
CommitStaged(row) ==
    /\ row \in rows /\ row.kind = "stage"
    /\ rows' = (rows \ {row}) \cup
                 {Row("artifact", row.path, row.body, row.size, row.acked)}
    /\ UNCHANGED <<files, named, req, stray, crashes>>

\* An artifact, its version or its application is deleted, an avatar is
\* replaced, an icon, screenshot or review image is deleted: rows only.
DropRow(row) ==
    /\ row \in rows
    /\ rows' = rows \ {row}
    /\ stray' = stray \cup ({row.path} \cap Names)
    /\ UNCHANGED <<files, named, req, crashes>>

\* The process stops: its requests are gone, files and rows stay as they are.
Crash ==
    /\ crashes < MaxCrashes
    /\ crashes' = crashes + 1
    /\ stray' = stray \cup
          {n \in Names : \E r \in Requests :
                            req[r].pc # "idle" /\ req[r].path = n}
    /\ req' = [r \in Requests |-> Idle]
    /\ UNCHANGED <<files, named, rows>>

Step(r) ==
    \/ OpenImage(r)
    \/ StatImage(r)
    \/ OpenQuarantine(r)
    \/ Write(r)
    \/ Sync(r)
    \/ SaveFails(r)
    \/ BodyBreaks(r)
    \/ Refuse(r)
    \/ Insert(r)
    \/ InsertUnknown(r)

Next ==
    \/ \E r \in Requests : Step(r)
    \/ \E row \in rows : CommitStaged(row) \/ DropRow(row)
    \/ Crash

Spec == Init /\ [][Next]_vars

-----------------------------------------------------------------------------
\* imageAsset and localArtifactFile: the status a row is answered with.  The
\* length is compared unless the row of a package gives none.
Status(row) ==
    IF ~Exists(row.path) THEN "missing"
    ELSE IF /\ row.kind = "image" \/ row.size > 0
            /\ files[row.path] # row.size THEN "size_mismatch"
    ELSE "ok"

\* An upload that was answered with success and had written its file can be
\* fetched, complete, for as long as its row is there, whatever other uploads
\* of the same bytes, failed inserts, deleted rows and crashes do
\* (SaveImage, SaveQuarantine, the cleanup of the upload handlers, imageAsset
\* and localArtifactFile).
AcknowledgedFilesStay ==
    \A row \in rows :
       row.acked => Status(row) = "ok" /\ files[row.path] = row.body

\* A quarantine file that no request is working on is named by a row, unless
\* the process stopped, the body broke off, or the row was deleted
\* (the cleanup of adminUploadArtifact and contributionStageUpload).
NoOtherOrphans ==
    \A n \in Names :
       Exists(n) => \/ n \in stray
                    \/ \E r \in Requests : req[r].pc # "idle" /\ req[r].path = n
                    \/ \E row \in rows : row.path = n

\* README.md: files lie "in content-addressed local storage by SHA-256", and
\* the image endpoint answers with "immutable caching, ETag": what it answers
\* with is the whole of the bytes the address stands for.
AnswersAreContent ==
    \A row \in rows :
       row.kind = "image" /\ Status(row) = "ok" => row.size = row.body
=============================================================================
