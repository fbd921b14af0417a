------------------------------ MODULE ImageRows ------------------------------
(***************************************************************************)
(* The rows of image_assets and the rows that refer to them: avatars       *)
(* (users.avatar_image_id), images of reviews (review_images) and          *)
(* screenshots of a version (screenshots).  Each upload is a transaction   *)
(* of several statements in READ COMMITTED; what it has read may be old    *)
(* when it writes, and only row locks and the UNIQUE constraint of         *)
(* review_images stand between two uploads.  Other transactions see a      *)
(* row when it is committed.                                               *)
(*                                                                         *)
(* One application is modelled: a user has one review of it, so a review   *)
(* is named by its author.                                                 *)
(***************************************************************************)
EXTENDS Naturals, FiniteSetsExt

CONSTANTS
    Users,
    Staff,      \* users with the role admin or moder
    Versions,   \* versions of the application
    Assets,     \* identifiers of image_assets rows, each given out once
    Links,      \* screenshots made from a URL, without an asset
    Limit,      \* images of a review, screenshots of a version: 3 in the code
    Requests,   \* requests that may be in flight together
    None

ASSUME ImageAssumption ==
    /\ Staff \subseteq Users
    /\ None \notin Users \cup Assets \cup Requests
    /\ Assets \cap Links = {}
    /\ IsFiniteSet(Assets) /\ IsFiniteSet(Links)
    /\ Limit \in Nat \ {0}

VARIABLES
    kind,       \* kind of an existing asset; "unborn", "gone"
    creator,    \* created_by of an avatar; of other assets nothing reads it
    avatar,     \* users.avatar_image_id
    images,     \* review_images: rows <<review, sort_order, asset>>
    shots,      \* screenshots: rows <<asset or link, version>>
    versions,   \* versions that exist
    lock,       \* the request that holds FOR UPDATE on a users row
    req,        \* transactions in progress
    cascaded    \* history: assets whose screenshot went with its version

vars == <<kind, creator, avatar, images, shots, versions, lock, req, cascaded>>

-----------------------------------------------------------------------------
Reviews == Users
Slots == 0..(Limit - 1)

Idle == [op |-> "idle"]
AvatarTx == [op: {"avatar"}, user: Users, old: Assets \cup {None}]
ReviewTx == [op: {"review"}, review: Reviews, todo: SUBSET Slots,
             done: SUBSET Slots]
ShotsTx == [op: {"shots"}, version: Versions, n: 1..Limit]

TypeOK ==
    /\ kind \in [Assets -> {"unborn", "gone", "avatar", "review", "screenshot"}]
    /\ creator \in [Assets -> Users \cup {None}]
    /\ avatar \in [Users -> Assets \cup {None}]
    /\ images \subseteq Reviews \X Slots \X Assets
    /\ shots \subseteq (Assets \cup Links) \X Versions
    /\ versions \subseteq Versions
    /\ lock \in [Users -> Requests \cup {None}]
    /\ req \in [Requests -> {Idle} \cup AvatarTx \cup ReviewTx \cup ShotsTx]
    /\ cascaded \subseteq Assets

Init ==
    /\ kind = [a \in Assets |-> "unborn"]
    /\ creator = [a \in Assets |-> None]
    /\ avatar = [u \in Users |-> None]
    /\ images = {}
    /\ shots = {}
    /\ versions = Versions
    /\ lock = [u \in Users |-> None]
    /\ req = [r \in Requests |-> Idle]
    /\ cascaded = {}

-----------------------------------------------------------------------------
Unborn == {a \in Assets : kind[a] = "unborn"}
Begin(r, tx) == req[r] = Idle /\ req' = [req EXCEPT ![r] = tx]
Done(r) == req' = [req EXCEPT ![r] = Idle]

\* The assets of new are inserted, and those of old deleted.
Kinds(new, k, old) ==
    kind' = [a \in Assets |-> IF a \in new THEN k
                              ELSE IF a \in old THEN "gone" ELSE kind[a]]

\* Mutant of SetAvatarLock: the users row is read without FOR UPDATE.
SetAvatarRead(r, u) ==
    /\ Begin(r, [op |-> "avatar", user |-> u, old |-> avatar[u]])
    /\ UNCHANGED <<kind, creator, avatar, images, shots, versions, lock, cascaded>>

\* SetAvatarImage: the current avatar is read and its users row locked.
SetAvatarLock(r, u) ==
    /\ lock[u] = None
    /\ lock' = [lock EXCEPT ![u] = r]
    /\ Begin(r, [op |-> "avatar", user |-> u, old |-> avatar[u]])
    /\ UNCHANGED <<kind, creator, avatar, images, shots, versions, cascaded>>

\* The new asset is inserted, the users row updated, the old asset deleted.
SetAvatarCommit(r) ==
    /\ req[r].op = "avatar"
    /\ \E u \in {req[r].user}, a \in Unborn :
          /\ Kinds({a}, "avatar", {req[r].old})
          /\ creator' = [creator EXCEPT ![a] = u]
          /\ avatar' = [avatar EXCEPT ![u] = a]
          /\ lock' = [lock EXCEPT ![u] = None]
    /\ Done(r)
    /\ UNCHANGED <<images, shots, versions, cascaded>>

\* DeleteAvatarImage: the UPDATE waits for the row, then every avatar of the
\* user that no users row names is deleted.
DeleteAvatarImage(u) ==
    /\ lock[u] = None
    /\ avatar' = [avatar EXCEPT ![u] = None]
    /\ Kinds({}, "avatar",
             {a \in Assets : /\ kind[a] = "avatar" /\ creator[a] = u
                             /\ \A w \in Users \ {u} : avatar[w] # a})
    /\ UNCHANGED <<creator, images, shots, versions, lock, req, cascaded>>

-----------------------------------------------------------------------------
Taken(v) == {row[2] : row \in {x \in images : x[1] = v}}
MayChange(u, v) == u = v \/ u \in Staff

\* A review transaction has picked the n lowest of these slots.
Pick(r, v, n, S) ==
    \E T \in kSubset(n, S) :
        /\ \A s \in T, t \in S \ T : s < t
        /\ Begin(r, [op |-> "review", review |-> v, todo |-> T, done |-> {}])

\* AddReviewImages: canChangeReview, then the transaction reads the slots that
\* are taken and picks the lowest free ones, if there are enough.
AddReviewImages(r, u, v) ==
    /\ MayChange(u, v)
    /\ \E n \in 1..Limit : Pick(r, v, n, Slots \ Taken(v))
    /\ UNCHANGED <<kind, creator, avatar, images, shots, versions, lock, cascaded>>

\* A slot another open transaction has inserted: the index entry is locked.
Held(r, v, s) ==
    \E q \in Requests \ {r} :
       req[q].op = "review" /\ req[q].review = v /\ s \in req[q].done

\* The slots are filled in ascending order.
Advance(r, s) ==
    /\ \A t \in req[r].todo : s <= t
    /\ req' = [req EXCEPT ![r] =
                 [op |-> "review", review |-> req[r].review,
                  todo |-> req[r].todo \ {s}, done |-> req[r].done \cup {s}]]

\* Mutant of InsertImage: review_images without its UNIQUE constraint.
InsertAnywhere(r) ==
    /\ req[r].op = "review"
    /\ \E s \in req[r].todo : Advance(r, s)
    /\ UNCHANGED <<kind, creator, avatar, images, shots, versions, lock, cascaded>>

\* The next INSERT: it waits while its slot is held.
InsertImage(r) ==
    /\ req[r].op = "review"
    /\ \E s \in req[r].todo : /\ ~Held(r, req[r].review, s)
                             /\ s \notin Taken(req[r].review)
                             /\ Advance(r, s)
    /\ UNCHANGED <<kind, creator, avatar, images, shots, versions, lock, cascaded>>

\* All the images or none.
AddCommit(r) ==
    /\ req[r].op = "review" /\ req[r].todo = {}
    /\ \E f \in Injection(req[r].done, Unborn) :
       \E new \in {{f[s] : s \in req[r].done}} :
          /\ images' = images \cup {<<req[r].review, s, f[s]>> : s \in req[r].done}
          /\ Kinds(new, "review", {})
    /\ Done(r)
    /\ UNCHANGED <<creator, avatar, shots, versions, lock, cascaded>>

\* Mutant of DeleteReviewImage: the asset is left behind.
DeleteReviewRow(u, row) ==
    /\ row \in images /\ MayChange(u, row[1])
    /\ images' = images \ {row}
    /\ UNCHANGED <<kind, creator, avatar, shots, versions, lock, req, cascaded>>

DeleteReviewImage(u, row) ==
    /\ row \in images /\ MayChange(u, row[1])
    /\ images' = images \ {row}
    /\ Kinds({}, "review", {row[3]})
    /\ UNCHANGED <<creator, avatar, shots, versions, lock, req, cascaded>>

-----------------------------------------------------------------------------
ShotsOf(v) == {row \in shots : row[2] = v}

\* CreateUploadedScreenshots: the screenshots of the version are counted; no
\* lock keeps the count true until the rows are inserted.
CountScreenshots(r, v) ==
    /\ v \in versions
    /\ \E n \in 1..Limit :
          /\ Cardinality(ShotsOf(v)) + n <= Limit
          /\ Begin(r, [op |-> "shots", version |-> v, n |-> n])
    /\ UNCHANGED <<kind, creator, avatar, images, shots, versions, lock, cascaded>>

\* Assets and screenshots are inserted; the version must still be there.
InsertScreenshots(r) ==
    /\ req[r].op = "shots" /\ req[r].version \in versions
    /\ \E new \in kSubset(req[r].n, Unborn) :
          /\ Kinds(new, "screenshot", {})
          /\ shots' = shots \cup (new \X {req[r].version})
    /\ Done(r)
    /\ UNCHANGED <<creator, avatar, images, versions, lock, cascaded>>

CreateAdminScreenshot(l, v) ==
    /\ v \in versions /\ \A row \in shots : row[1] # l
    /\ shots' = shots \cup {<<l, v>>}
    /\ UNCHANGED <<kind, creator, avatar, images, versions, lock, req, cascaded>>

\* UpdateAdminScreenshot may move a screenshot to another version.
UpdateAdminScreenshot(row, v) ==
    /\ row \in shots /\ v \in versions
    /\ shots' = (shots \ {row}) \cup {<<row[1], v>>}
    /\ UNCHANGED <<kind, creator, avatar, images, versions, lock, req, cascaded>>

DeleteAdminScreenshot(row) ==
    /\ row \in shots
    /\ shots' = shots \ {row}
    /\ Kinds({}, "screenshot", {row[1]})
    /\ UNCHANGED <<creator, avatar, images, versions, lock, req, cascaded>>

\* DeleteAdminVersion: its screenshots go by ON DELETE CASCADE, the assets stay.
DeleteAdminVersion(v) ==
    /\ v \in versions
    /\ versions' = versions \ {v}
    /\ shots' = shots \ ShotsOf(v)
    /\ cascaded' = cascaded \cup ({row[1] : row \in ShotsOf(v)} \cap Assets)
    /\ UNCHANGED <<kind, creator, avatar, images, lock, req>>

\* An error, a slot taken meanwhile, a version gone: the transaction is rolled
\* back and its locks are released.
Fail(r) ==
    /\ req[r] # Idle
    /\ Done(r)
    /\ lock' = [u \in Users |-> IF lock[u] = r THEN None ELSE lock[u]]
    /\ UNCHANGED <<kind, creator, avatar, images, shots, versions, cascaded>>

Step(r) ==
    \/ \E u \in Users : SetAvatarLock(r, u)
    \/ SetAvatarCommit(r)
    \/ \E u \in Users, v \in Reviews : AddReviewImages(r, u, v)
    \/ InsertImage(r)
    \/ AddCommit(r)
    \/ \E v \in Versions : CountScreenshots(r, v)
    \/ InsertScreenshots(r)
    \/ Fail(r)

Next ==
    \/ \E r \in Requests : Step(r)
    \/ \E u \in Users : DeleteAvatarImage(u)
    \/ \E u \in Users, row \in images : DeleteReviewImage(u, row)
    \/ \E l \in Links, v \in Versions : CreateAdminScreenshot(l, v)
    \/ \E row \in shots, v \in Versions : UpdateAdminScreenshot(row, v)
    \/ \E row \in shots : DeleteAdminScreenshot(row)
    \/ \E v \in Versions : DeleteAdminVersion(v)

Spec == Init /\ [][Next]_vars

-----------------------------------------------------------------------------
\* An avatar that exists is the current one of the user who uploaded it, and
\* a user's current avatar exists: however uploads and deletions of one user
\* overlap, no avatar is left behind (SetAvatarImage, DeleteAvatarImage).
AvatarsCurrent ==
    /\ \A a \in Assets : kind[a] = "avatar" => avatar[creator[a]] = a
    /\ \A u \in Users : avatar[u] # None => kind[avatar[u]] = "avatar"

\* README.md: up to three images for one review, though two uploads may have
\* found the same slots free (AddReviewImages, review_images).
ReviewImageLimit ==
    \A v \in Reviews : Cardinality({row \in images : row[1] = v}) <= Limit

\* Every image of a review or screenshot that exists is named by one row, and
\* every row names an image that exists; only the deletion of a version leaves
\* images behind (AddReviewImages, DeleteReviewImage, DeleteAdminScreenshot).
AssetsNamedOnce ==
    /\ \A a \in Assets \ cascaded :
          /\ kind[a] = "review" =>
                Cardinality({row \in images : row[3] = a}) = 1
          /\ kind[a] = "screenshot" =>
                Cardinality({row \in shots : row[1] = a}) = 1
    /\ \A row \in images : kind[row[3]] = "review"
    /\ \A row \in shots : row[1] \in Assets => kind[row[1]] = "screenshot"
=============================================================================
