---------------------------- MODULE ImageRowsProofs ----------------------------
(***************************************************************************)
(* No avatar is left behind, reviews keep their limit and every image is   *)
(* named once: proofs about ImageRows for any number of users, versions,   *)
(* images and requests and any limit.                                      *)
(***************************************************************************)
EXTENDS ImageRows, FiniteSetTheorems, TLAPS

\* An avatar and its user name each other.
AvatarOK(a) == kind[a] = "avatar" => creator[a] \in Users /\ avatar[creator[a]] = a
UserOK(u) == avatar[u] # None => kind[avatar[u]] = "avatar" /\ creator[avatar[u]] = u

\* Rows of review_images: one for each slot, and one for each image there is.
ImagesOK ==
    /\ \A x, y \in images : x[1] = y[1] /\ x[2] = y[2] => x = y
    /\ \A x, y \in images : x[3] = y[3] => x = y
    /\ \A x \in images : kind[x[3]] = "review"
    /\ \A a \in Assets : kind[a] = "review" => \E x \in images : x[3] = a

\* Rows of screenshots.
ShotsOK ==
    /\ \A x, y \in shots : x[1] = y[1] => x = y
    /\ \A x \in shots : x[1] \in Assets => kind[x[1]] = "screenshot"
    /\ \A a \in Assets \ cascaded :
         kind[a] = "screenshot" => \E x \in shots : x[1] = a

\* An avatar upload holds the row of its user, so what it has read is true; the
\* slots a review upload has filled are nobody else's.
RequestOK(r) ==
    /\ req[r].op = "avatar" => /\ lock[req[r].user] = r
                               /\ req[r].old = avatar[req[r].user]
    /\ req[r].op = "review" =>
         /\ \A s \in req[r].done : s \notin Taken(req[r].review)
         /\ \A q \in Requests \ {r} :
              req[q].op = "review" /\ req[q].review = req[r].review
                => req[r].done \cap req[q].done = {}

IInv ==
    /\ TypeOK
    /\ \A a \in Assets : AvatarOK(a)
    /\ \A u \in Users : UserOK(u)
    /\ ImagesOK
    /\ ShotsOK
    /\ \A r \in Requests : RequestOK(r)

-----------------------------------------------------------------------------
\* The empty tables satisfy the inductive invariant.
LEMMA InvInit == Init => IInv
  <1> SUFFICES ASSUME Init PROVE IInv
    OBVIOUS
  <1>1. TypeOK
    BY DEF Init, TypeOK
  <1>2. \A r \in Requests : RequestOK(r)
    BY DEF Init, RequestOK, Idle
  <1> QED BY <1>1, <1>2 DEF Init, IInv, AvatarOK, UserOK, ImagesOK, ShotsOK

\* The kind of a request tells its fields.
LEMMA RequestTypes ==
  ASSUME TypeOK, NEW r \in Requests
  PROVE  /\ req[r].op = "avatar" => req[r] \in AvatarTx
         /\ req[r].op = "review" => req[r] \in ReviewTx
         /\ req[r].op = "shots" => req[r] \in ShotsTx
         /\ req[r].op \in {"idle", "avatar", "review", "shots"}
         /\ req[r].op = "idle" => req[r] = Idle
  BY DEF TypeOK, Idle, AvatarTx, ReviewTx, ShotsTx

\* New and deleted images get their kind, the others keep it.
LEMMA KindsEffect ==
  ASSUME TypeOK, NEW new, NEW k \in {"avatar", "review", "screenshot"}, NEW old,
         Kinds(new, k, old)
  PROVE  /\ kind' \in [Assets -> {"unborn", "gone", "avatar", "review", "screenshot"}]
         /\ \A a \in Assets : kind'[a] = IF a \in new THEN k
                                         ELSE IF a \in old THEN "gone" ELSE kind[a]
  BY DEF TypeOK, Kinds

\* A request ends, or gets a new state.
LEMMA RequestEffect ==
  ASSUME TypeOK, NEW r \in Requests,
         NEW tx \in {Idle} \cup AvatarTx \cup ReviewTx \cup ShotsTx,
         req' = [req EXCEPT ![r] = tx]
  PROVE  /\ req' \in [Requests -> {Idle} \cup AvatarTx \cup ReviewTx \cup ShotsTx]
         /\ req'[r] = tx
         /\ \A q \in Requests \ {r} : req'[q] = req[q]
  <1> DEFINE T == {Idle} \cup AvatarTx \cup ReviewTx \cup ShotsTx
  <1>1. req \in [Requests -> T] /\ tx \in T
    BY DEF TypeOK
  <1> HIDE DEF T
  <1>2. /\ req' \in [Requests -> T] /\ req'[r] = tx
        /\ \A q \in Requests \ {r} : req'[q] = req[q]
    BY <1>1
  <1> QED BY <1>2 DEF T

-----------------------------------------------------------------------------
\* The parts of the invariant stay when what they are about stays.
LEMMA AvatarsKept ==
  ASSUME IInv, UNCHANGED <<creator, avatar>>, TypeOK,
         \A a \in Assets : kind[a] = "avatar" <=> kind'[a] = "avatar"
  PROVE  /\ \A a \in Assets : AvatarOK(a)'
         /\ \A u \in Users : UserOK(u)'
  BY DEF IInv, AvatarOK, UserOK, TypeOK

LEMMA ImagesKept ==
  ASSUME IInv, UNCHANGED images,
         \A a \in Assets : kind[a] = "review" <=> kind'[a] = "review"
  PROVE  ImagesOK'
  BY DEF IInv, ImagesOK, TypeOK

LEMMA ShotsKept ==
  ASSUME IInv, UNCHANGED <<shots, cascaded>>,
         \A a \in Assets : kind[a] = "screenshot" <=> kind'[a] = "screenshot"
  PROVE  ShotsOK'
  BY DEF IInv, ShotsOK, TypeOK

\* Requests other than r stay as they are if nobody takes their locks and slots.
LEMMA OthersKept ==
  ASSUME IInv, NEW r \in Requests,
         \A q \in Requests \ {r} : req'[q] = req[q],
         \A u \in Users : lock[u] \in Requests \ {r} =>
             lock'[u] = lock[u] /\ avatar'[u] = avatar[u],
         \A q \in Requests \ {r} : req[q].op = "review" =>
             /\ \A s \in req[q].done : s \notin Taken(req[q].review)'
             /\ req'[r].op = "review" /\ req'[r].review = req[q].review
                  => req[q].done \cap req'[r].done = {}
  PROVE  \A q \in Requests \ {r} : RequestOK(q)'
  <1> SUFFICES ASSUME NEW q \in Requests \ {r} PROVE RequestOK(q)'
    OBVIOUS
  <1>1. RequestOK(q) /\ req'[q] = req[q]
    BY DEF IInv
  <1>2. CASE req[q].op = "avatar"
    <2>1. req[q].user \in Users
      BY <1>2, RequestTypes DEF IInv, AvatarTx
    <2> QED BY <1>1, <1>2, <2>1 DEF RequestOK
  <1>3. CASE req[q].op = "review"
    <2>1. \A s \in req'[q].done : s \notin Taken(req[q].review)'
      BY <1>1, <1>3
    <2>2. ASSUME NEW p \in Requests \ {q}, req'[p].op = "review",
                 req'[p].review = req'[q].review
          PROVE  req'[q].done \cap req'[p].done = {}
      <3>1. CASE p = r
        BY <1>1, <1>3, <2>2, <3>1
      <3>2. CASE p # r
        BY <1>1, <1>3, <2>2, <3>2 DEF RequestOK
      <3> QED BY <3>1, <3>2
    <2> QED BY <1>1, <1>3, <2>1, <2>2 DEF RequestOK
  <1>4. CASE req[q].op \notin {"avatar", "review"}
    BY <1>1, <1>4 DEF RequestOK
  <1> QED BY <1>2, <1>3, <1>4

\* An ended request has nothing left to say.
LEMMA DoneOK ==
  ASSUME IInv, NEW r \in Requests, Done(r)
  PROVE  /\ req' \in [Requests -> {Idle} \cup AvatarTx \cup ReviewTx \cup ShotsTx]
         /\ RequestOK(r)'
         /\ req'[r].op = "idle"
         /\ \A q \in Requests \ {r} : req'[q] = req[q]
  <1>1. /\ req' \in [Requests -> {Idle} \cup AvatarTx \cup ReviewTx \cup ShotsTx]
        /\ req'[r] = Idle
        /\ \A q \in Requests \ {r} : req'[q] = req[q]
    BY RequestEffect DEF IInv, Done
  <1> QED BY <1>1 DEF RequestOK, Idle

-----------------------------------------------------------------------------
LEMMA SetAvatarLockKeeps ==
  ASSUME IInv, NEW r \in Requests, NEW u \in Users, SetAvatarLock(r, u)
  PROVE  IInv'
  <1> DEFINE tx == [op |-> "avatar", user |-> u, old |-> avatar[u]]
  <1>1. /\ lock[u] = None /\ lock' = [lock EXCEPT ![u] = r]
        /\ req' = [req EXCEPT ![r] = tx] /\ req[r] = Idle
        /\ UNCHANGED <<kind, creator, avatar, images, shots, versions, cascaded>>
    BY DEF SetAvatarLock, Begin
  <1>2. tx \in AvatarTx /\ tx.op = "avatar" /\ tx.user = u /\ tx.old = avatar[u]
    BY DEF AvatarTx, IInv, TypeOK
  <1> HIDE DEF tx
  <1>3. /\ req' \in [Requests -> {Idle} \cup AvatarTx \cup ReviewTx \cup ShotsTx]
        /\ req'[r] = tx
        /\ \A q \in Requests \ {r} : req'[q] = req[q]
    BY <1>1, <1>2, RequestEffect DEF IInv
  <1>4. /\ lock' \in [Users -> Requests \cup {None}] /\ lock'[u] = r
        /\ \A w \in Users \ {u} : lock'[w] = lock[w]
    BY <1>1 DEF IInv, TypeOK
  <1>5. RequestOK(r)'
    BY <1>1, <1>2, <1>3, <1>4 DEF RequestOK
  <1>6. \A w \in Users : lock[w] \in Requests \ {r} => lock'[w] = lock[w] /\ avatar'[w] = avatar[w]
    BY <1>1, <1>4, ImageAssumption
  <1>7. \A q \in Requests \ {r} : req[q].op = "review" =>
             /\ \A s \in req[q].done : s \notin Taken(req[q].review)'
             /\ req'[r].op = "review" /\ req'[r].review = req[q].review
                  => req[q].done \cap req'[r].done = {}
    BY <1>1, <1>2, <1>3 DEF IInv, RequestOK, Taken
  <1>8. \A q \in Requests : RequestOK(q)'
    BY <1>3, <1>5, <1>6, <1>7, OthersKept
  <1>9. TypeOK'
    BY <1>1, <1>3, <1>4 DEF IInv, TypeOK
  <1>10. \A a \in Assets : kind'[a] = kind[a]
    BY <1>1
  <1> QED BY <1>1, <1>8, <1>9, <1>10, AvatarsKept, ImagesKept, ShotsKept DEF IInv

\* The upload still holds the row: the avatar it deletes is the current one.
LEMMA SetAvatarCommitKeeps ==
  ASSUME IInv, NEW r \in Requests, SetAvatarCommit(r)
  PROVE  IInv'
  <1>1. PICK u \in {req[r].user}, a \in Unborn :
           /\ Kinds({a}, "avatar", {req[r].old})
           /\ creator' = [creator EXCEPT ![a] = u]
           /\ avatar' = [avatar EXCEPT ![u] = a]
           /\ lock' = [lock EXCEPT ![u] = None]
    BY DEF SetAvatarCommit
  <1>2. /\ req[r].op = "avatar" /\ Done(r)
        /\ UNCHANGED <<images, shots, versions, cascaded>>
    BY DEF SetAvatarCommit
  <1>3. /\ u \in Users /\ a \in Assets /\ kind[a] = "unborn"
        /\ lock[u] = r /\ req[r].old = avatar[u]
    BY <1>1, <1>2, RequestTypes DEF IInv, AvatarTx, Unborn, RequestOK
  <1>4. /\ kind' \in [Assets -> {"unborn", "gone", "avatar", "review", "screenshot"}]
        /\ \A b \in Assets : kind'[b] = IF b \in {a} THEN "avatar"
                                        ELSE IF b \in {req[r].old} THEN "gone" ELSE kind[b]
    <2> DEFINE new == {a}
               old == {req[r].old}
    <2>1. Kinds(new, "avatar", old)
      BY <1>1
    <2> HIDE DEF new, old
    <2>2. /\ kind' \in [Assets -> {"unborn", "gone", "avatar", "review", "screenshot"}]
          /\ \A b \in Assets : kind'[b] = IF b \in new THEN "avatar"
                                          ELSE IF b \in old THEN "gone" ELSE kind[b]
      BY <2>1, KindsEffect DEF IInv
    <2> QED BY <2>2 DEF new, old
  <1>5. /\ creator' \in [Assets -> Users \cup {None}] /\ creator'[a] = u
        /\ \A b \in Assets \ {a} : creator'[b] = creator[b]
        /\ avatar' \in [Users -> Assets \cup {None}] /\ avatar'[u] = a
        /\ \A w \in Users \ {u} : avatar'[w] = avatar[w]
        /\ lock' \in [Users -> Requests \cup {None}]
        /\ \A w \in Users \ {u} : lock'[w] = lock[w]
    BY <1>1, <1>3 DEF IInv, TypeOK
  <1>6. \A b \in Assets : b = avatar[u] => kind[b] = "avatar"
    BY <1>3, ImageAssumption DEF IInv, UserOK
  <1>7. ASSUME NEW b \in Assets PROVE AvatarOK(b)'
    <2>1. CASE b = a
      BY <1>3, <1>5, <2>1 DEF AvatarOK
    <2>2. CASE b # a /\ b = avatar[u]
      BY <1>3, <1>4, <2>2 DEF AvatarOK
    <2>3. CASE b # a /\ b # avatar[u]
      BY <1>3, <1>4, <1>5, <2>3 DEF IInv, AvatarOK
    <2> QED BY <2>1, <2>2, <2>3
  <1>8. ASSUME NEW w \in Users PROVE UserOK(w)'
    <2>1. CASE w = u
      BY <1>3, <1>4, <1>5, <2>1 DEF UserOK
    <2>2. CASE w # u /\ avatar[w] # None
      <3>1. /\ avatar[w] \in Assets /\ kind[avatar[w]] = "avatar"
            /\ creator[avatar[w]] = w
        BY <2>2 DEF IInv, UserOK, TypeOK
      <3>2. avatar[w] # a /\ avatar[w] # req[r].old
        BY <1>3, <2>2, <3>1 DEF IInv, UserOK
      <3> QED BY <1>4, <1>5, <2>2, <3>1, <3>2 DEF UserOK
    <2>3. CASE w # u /\ avatar[w] = None
      BY <1>5, <2>3 DEF UserOK
    <2> QED BY <2>1, <2>2, <2>3
  <1>9. /\ \A b \in Assets : kind[b] = "review" <=> kind'[b] = "review"
        /\ \A b \in Assets : kind[b] = "screenshot" <=> kind'[b] = "screenshot"
    BY <1>3, <1>4, <1>6
  <1>10. ImagesOK' /\ ShotsOK'
    BY <1>2, <1>9, ImagesKept, ShotsKept
  <1>11. /\ req' \in [Requests -> {Idle} \cup AvatarTx \cup ReviewTx \cup ShotsTx]
         /\ RequestOK(r)' /\ req'[r].op = "idle"
         /\ \A q \in Requests \ {r} : req'[q] = req[q]
    BY <1>2, DoneOK
  <1>12. \A w \in Users : lock[w] \in Requests \ {r} =>
            lock'[w] = lock[w] /\ avatar'[w] = avatar[w]
    BY <1>3, <1>5
  <1>13. \A q \in Requests \ {r} : req[q].op = "review" =>
             /\ \A s \in req[q].done : s \notin Taken(req[q].review)'
             /\ req'[r].op = "review" /\ req'[r].review = req[q].review
                  => req[q].done \cap req'[r].done = {}
    BY <1>2, <1>11 DEF IInv, RequestOK, Taken
  <1>14. \A q \in Requests : RequestOK(q)'
    BY <1>11, <1>12, <1>13, OthersKept
  <1>15. TypeOK'
    BY <1>2, <1>4, <1>5, <1>11 DEF IInv, TypeOK
  <1> QED BY <1>7, <1>8, <1>10, <1>14, <1>15 DEF IInv

\* Nobody holds the row, so no upload has read the avatar that goes.
LEMMA DeleteAvatarImageKeeps ==
  ASSUME IInv, NEW u \in Users, DeleteAvatarImage(u)
  PROVE  IInv'
  <1> DEFINE old == {a \in Assets : /\ kind[a] = "avatar" /\ creator[a] = u
                                    /\ \A w \in Users \ {u} : avatar[w] # a}
  <1>1. /\ lock[u] = None
        /\ avatar' = [avatar EXCEPT ![u] = None]
        /\ Kinds({}, "avatar", old)
        /\ UNCHANGED <<creator, images, shots, versions, lock, req, cascaded>>
    BY DEF DeleteAvatarImage
  <1>2. /\ kind' \in [Assets -> {"unborn", "gone", "avatar", "review", "screenshot"}]
        /\ \A b \in Assets : kind'[b] = IF b \in {} THEN "avatar"
                                        ELSE IF b \in old THEN "gone" ELSE kind[b]
    <2> HIDE DEF old
    <2> QED BY <1>1, KindsEffect DEF IInv
  <1>3. /\ avatar' \in [Users -> Assets \cup {None}] /\ avatar'[u] = None
        /\ \A w \in Users \ {u} : avatar'[w] = avatar[w]
    BY <1>1 DEF IInv, TypeOK
  <1>4. ASSUME NEW b \in Assets PROVE AvatarOK(b)'
    <2>1. SUFFICES ASSUME kind'[b] = "avatar"
                   PROVE  creator'[b] \in Users /\ avatar'[creator'[b]] = b
      BY DEF AvatarOK
    <2>2. kind[b] = "avatar" /\ b \notin old
      BY <1>2, <2>1
    <2>3. creator[b] \in Users /\ avatar[creator[b]] = b
      BY <2>2 DEF IInv, AvatarOK
    <2>4. creator[b] # u
      <3>1. SUFFICES ASSUME creator[b] = u
                     PROVE  \A w \in Users \ {u} : avatar[w] # b
        BY <2>2
      <3> QED BY <3>1, ImageAssumption DEF IInv, UserOK
    <2> QED BY <1>1, <1>3, <2>3, <2>4
  <1>5. ASSUME NEW w \in Users PROVE UserOK(w)'
    <2>1. CASE w = u
      BY <1>3, <2>1 DEF UserOK
    <2>2. CASE w # u /\ avatar[w] # None
      <3>1. /\ avatar[w] \in Assets /\ kind[avatar[w]] = "avatar"
            /\ creator[avatar[w]] = w
        BY <2>2 DEF IInv, UserOK, TypeOK
      <3> QED BY <1>1, <1>2, <1>3, <2>2, <3>1 DEF UserOK
    <2>3. CASE w # u /\ avatar[w] = None
      BY <1>3, <2>3 DEF UserOK
    <2> QED BY <2>1, <2>2, <2>3
  <1>6. /\ \A b \in Assets : kind[b] = "review" <=> kind'[b] = "review"
        /\ \A b \in Assets : kind[b] = "screenshot" <=> kind'[b] = "screenshot"
    BY <1>2
  <1>7. ImagesOK' /\ ShotsOK'
    BY <1>1, <1>6, ImagesKept, ShotsKept
  <1>8. ASSUME NEW q \in Requests PROVE RequestOK(q)'
    <2>1. RequestOK(q) /\ req'[q] = req[q]
      BY <1>1 DEF IInv
    <2>2. CASE req[q].op = "avatar"
      <3>1. req[q].user \in Users
        BY <2>2, RequestTypes DEF IInv, AvatarTx
      <3>2. lock[req[q].user] = q /\ q # None
        BY <2>1, <2>2, ImageAssumption DEF RequestOK
      <3> QED BY <1>1, <1>3, <2>1, <2>2, <3>1, <3>2 DEF RequestOK
    <2>3. CASE req[q].op # "avatar"
      BY <1>1, <2>1, <2>3 DEF RequestOK, Taken
    <2> QED BY <2>2, <2>3
  <1>9. TypeOK'
    BY <1>1, <1>2, <1>3 DEF IInv, TypeOK
  <1> QED BY <1>4, <1>5, <1>7, <1>8, <1>9 DEF IInv

-----------------------------------------------------------------------------
\* A review upload that has just begun has filled no slot.
LEMMA AddReviewImagesKeeps ==
  ASSUME IInv, NEW r \in Requests, NEW u \in Users, NEW v \in Reviews,
         AddReviewImages(r, u, v)
  PROVE  IInv'
  <1>1. PICK n \in 1..Limit : Pick(r, v, n, Slots \ Taken(v))
    BY DEF AddReviewImages
  <1>2. PICK T \in kSubset(n, Slots \ Taken(v)) :
          Begin(r, [op |-> "review", review |-> v, todo |-> T, done |-> {}])
    BY <1>1 DEF Pick
  <1> DEFINE tx == [op |-> "review", review |-> v, todo |-> T, done |-> {}]
  <1>3. /\ req' = [req EXCEPT ![r] = tx] /\ req[r] = Idle
        /\ UNCHANGED <<kind, creator, avatar, images, shots, versions, lock, cascaded>>
    BY <1>2 DEF AddReviewImages, Begin
  <1>4. tx \in ReviewTx /\ tx.op = "review" /\ tx.review = v /\ tx.done = {}
    BY <1>2 DEF ReviewTx, kSubset
  <1> HIDE DEF tx
  <1>5. /\ req' \in [Requests -> {Idle} \cup AvatarTx \cup ReviewTx \cup ShotsTx]
        /\ req'[r] = tx
        /\ \A q \in Requests \ {r} : req'[q] = req[q]
    BY <1>3, <1>4, RequestEffect DEF IInv
  <1>6. RequestOK(r)'
    BY <1>4, <1>5 DEF RequestOK
  <1>7. \A q \in Requests \ {r} : req[q].op = "review" =>
             /\ \A s \in req[q].done : s \notin Taken(req[q].review)'
             /\ req'[r].op = "review" /\ req'[r].review = req[q].review
                  => req[q].done \cap req'[r].done = {}
    BY <1>3, <1>4, <1>5 DEF IInv, RequestOK, Taken
  <1>8. \A w \in Users : lock[w] \in Requests \ {r} => lock'[w] = lock[w] /\ avatar'[w] = avatar[w]
    BY <1>3
  <1>9. \A q \in Requests : RequestOK(q)'
    BY <1>5, <1>6, <1>7, <1>8, OthersKept
  <1>10. TypeOK'
    BY <1>3, <1>5 DEF IInv, TypeOK
  <1>11. \A a \in Assets : kind'[a] = kind[a]
    BY <1>3
  <1> QED BY <1>3, <1>9, <1>10, <1>11, AvatarsKept, ImagesKept, ShotsKept DEF IInv

\* A slot that is filled is free and nobody else's.
LEMMA InsertImageKeeps ==
  ASSUME IInv, NEW r \in Requests, InsertImage(r)
  PROVE  IInv'
  <1>1. PICK s \in req[r].todo : /\ ~Held(r, req[r].review, s)
                               /\ s \notin Taken(req[r].review)
                               /\ Advance(r, s)
    BY DEF InsertImage
  <1>2. /\ req[r].op = "review"
        /\ UNCHANGED <<kind, creator, avatar, images, shots, versions, lock, cascaded>>
    BY DEF InsertImage
  <1>3. /\ req[r].review \in Reviews /\ req[r].todo \subseteq Slots
        /\ req[r].done \subseteq Slots
    BY <1>2, RequestTypes DEF IInv, ReviewTx
  <1> DEFINE tx == [op |-> "review", review |-> req[r].review,
                    todo |-> req[r].todo \ {s}, done |-> req[r].done \cup {s}]
  <1>4. req' = [req EXCEPT ![r] = tx]
    BY <1>1 DEF Advance
  <1>5. /\ tx \in ReviewTx /\ tx.op = "review" /\ tx.review = req[r].review
        /\ tx.done = req[r].done \cup {s}
    BY <1>1, <1>3 DEF ReviewTx
  <1> HIDE DEF tx
  <1>6. /\ req' \in [Requests -> {Idle} \cup AvatarTx \cup ReviewTx \cup ShotsTx]
        /\ req'[r] = tx
        /\ \A q \in Requests \ {r} : req'[q] = req[q]
    BY <1>4, <1>5, RequestEffect DEF IInv
  <1>7. ASSUME NEW q \in Requests \ {r}, req[q].op = "review",
               req[q].review = req[r].review
        PROVE  req[q].done \cap tx.done = {}
    <2>1. req[q].done \cap req[r].done = {}
      BY <1>2, <1>7 DEF IInv, RequestOK
    <2>2. s \notin req[q].done
      BY <1>1, <1>7 DEF Held
    <2> QED BY <1>5, <2>1, <2>2
  <1>8. RequestOK(r)'
    <2>1. \A t \in tx.done : t \notin Taken(req[r].review)'
      BY <1>1, <1>2, <1>5, <1>6 DEF IInv, RequestOK, Taken
    <2>2. \A q \in Requests \ {r} : req'[q].op = "review" /\ req'[q].review = tx.review
                                    => tx.done \cap req'[q].done = {}
      BY <1>5, <1>6, <1>7
    <2> QED BY <1>5, <1>6, <2>1, <2>2 DEF RequestOK
  <1>9. \A q \in Requests \ {r} : req[q].op = "review" =>
             /\ \A t \in req[q].done : t \notin Taken(req[q].review)'
             /\ req'[r].op = "review" /\ req'[r].review = req[q].review
                  => req[q].done \cap req'[r].done = {}
    BY <1>2, <1>5, <1>6, <1>7 DEF IInv, RequestOK, Taken
  <1>10. \A w \in Users : lock[w] \in Requests \ {r} => lock'[w] = lock[w] /\ avatar'[w] = avatar[w]
    BY <1>2
  <1>11. \A q \in Requests : RequestOK(q)'
    BY <1>6, <1>8, <1>9, <1>10, OthersKept
  <1>12. TypeOK'
    BY <1>2, <1>6 DEF IInv, TypeOK
  <1>13. \A a \in Assets : kind'[a] = kind[a]
    BY <1>2
  <1> QED BY <1>2, <1>11, <1>12, <1>13, AvatarsKept, ImagesKept, ShotsKept DEF IInv

\* Two rows of one slot cannot come together: what other uploads have filled
\* is not among the slots of this one, and what is committed is not either.
LEMMA AddCommitKeeps ==
  ASSUME IInv, NEW r \in Requests, AddCommit(r)
  PROVE  IInv'
  <1> DEFINE v == req[r].review
             D == req[r].done
  <1>1. PICK f \in Injection(D, Unborn) :
        \E new \in {{f[s] : s \in D}} :
          /\ images' = images \cup {<<v, s, f[s]>> : s \in D}
          /\ Kinds(new, "review", {})
    BY DEF AddCommit
  <1> DEFINE new == {f[s] : s \in D}
             none == {}
             rows == {<<v, s, f[s]>> : s \in D}
  <1>2. /\ req[r].op = "review" /\ Done(r)
        /\ images' = images \cup rows /\ Kinds(new, "review", none)
        /\ UNCHANGED <<creator, avatar, shots, versions, lock, cascaded>>
    BY <1>1 DEF AddCommit
  <1>3. v \in Reviews /\ D \subseteq Slots
    BY <1>2, RequestTypes DEF IInv, ReviewTx
  <1>4. /\ \A s \in D : f[s] \in Assets /\ kind[f[s]] = "unborn"
        /\ \A s, t \in D : f[s] = f[t] => s = t
    BY DEF Injection, IsInjective, Unborn
  <1>5. \A s \in D : s \notin Taken(v)
    BY <1>2 DEF IInv, RequestOK
  <1>6. \A x \in rows : x[1] = v /\ x[2] \in D /\ x[3] = f[x[2]] /\ x = <<v, x[2], f[x[2]]>>
    <2> SUFFICES ASSUME NEW x \in rows
                 PROVE  x[1] = v /\ x[2] \in D /\ x[3] = f[x[2]] /\ x = <<v, x[2], f[x[2]]>>
      OBVIOUS
    <2>1. PICK s \in D : x = <<v, s, f[s]>>
      OBVIOUS
    <2> HIDE DEF v, D
    <2> QED BY <2>1
  <1>7. \A a \in Assets : a \in new <=> \E x \in rows : x[3] = a
    <2>1. ASSUME NEW a \in new PROVE \E x \in rows : x[3] = a
      <3>1. PICK s \in D : a = f[s]
        OBVIOUS
      <3>2. <<v, s, f[s]>> \in rows
        OBVIOUS
      <3>3. <<v, s, f[s]>>[3] = a
        BY <3>1
      <3> HIDE DEF rows
      <3> QED BY <3>2, <3>3
    <2>2. ASSUME NEW x \in rows PROVE x[3] \in new
      BY <1>6
    <2> QED BY <2>1, <2>2
  <1>8. rows \subseteq Reviews \X Slots \X Assets
    BY <1>3, <1>4
  <1>9. \A a \in new : a \in Assets /\ kind[a] = "unborn"
    BY <1>4
  <1>10. \A x \in images : x[1] = v => x[2] \notin D
    BY <1>5 DEF Taken
  <1> HIDE DEF new, none
  <1>11. /\ kind' \in [Assets -> {"unborn", "gone", "avatar", "review", "screenshot"}]
         /\ \A a \in Assets : kind'[a] = IF a \in new THEN "review"
                                         ELSE IF a \in none THEN "gone" ELSE kind[a]
    BY <1>2, KindsEffect DEF IInv
  <1>12. \A a \in Assets : kind'[a] = IF a \in new THEN "review" ELSE kind[a]
    BY <1>11 DEF none
  <1> HIDE DEF rows, D, v
  <1>13. ImagesOK'
    <2>1. ASSUME NEW x \in images', NEW y \in images', x[1] = y[1], x[2] = y[2]
          PROVE  x = y
      BY <1>2, <1>6, <1>10, <2>1 DEF IInv, ImagesOK
    <2>2. \A x \in images : x[3] \in Assets /\ kind[x[3]] = "review"
      BY DEF IInv, ImagesOK, TypeOK
    <2>3. \A x \in rows : x[3] \in new /\ x[3] \in Assets
      BY <1>7, <1>8
    <2>4. ASSUME NEW x \in images', NEW y \in images', x[3] = y[3]
          PROVE  x = y
      <3>1. CASE x \in images /\ y \in images
        BY <2>4, <3>1 DEF IInv, ImagesOK
      <3>2. CASE x \in rows /\ y \in rows
        BY <1>4, <1>6, <2>4, <3>2
      <3>3. CASE ~(x \in images /\ y \in images) /\ ~(x \in rows /\ y \in rows)
        BY <1>2, <1>9, <2>2, <2>3, <2>4, <3>3
      <3> QED BY <3>1, <3>2, <3>3
    <2>5. \A x \in images' : kind'[x[3]] = "review"
      BY <1>2, <1>12, <2>2, <2>3
    <2>6. \A a \in Assets : kind'[a] = "review" => \E x \in images' : x[3] = a
      BY <1>2, <1>7, <1>12 DEF IInv, ImagesOK
    <2> QED BY <2>1, <2>4, <2>5, <2>6 DEF ImagesOK
  <1>14. /\ \A a \in Assets : kind[a] = "avatar" <=> kind'[a] = "avatar"
         /\ \A a \in Assets : kind[a] = "screenshot" <=> kind'[a] = "screenshot"
    BY <1>9, <1>12
  <1>15. /\ req' \in [Requests -> {Idle} \cup AvatarTx \cup ReviewTx \cup ShotsTx]
         /\ RequestOK(r)' /\ req'[r].op = "idle"
         /\ \A q \in Requests \ {r} : req'[q] = req[q]
    BY <1>2, DoneOK
  <1>16. ASSUME NEW q \in Requests \ {r}, req[q].op = "review", NEW s \in req[q].done
         PROVE  s \notin Taken(req[q].review)'
    <2>1. SUFFICES ASSUME NEW x \in images', x[1] = req[q].review, x[2] = s PROVE FALSE
      BY <1>15 DEF Taken
    <2>2. CASE x \in images
      <3>1. s \notin Taken(req[q].review)
        BY <1>16 DEF IInv, RequestOK
      <3> QED BY <2>1, <2>2, <3>1 DEF Taken
    <2>3. CASE x \in rows
      <3>1. req[q].review = req[r].review /\ s \in req[r].done
        BY <1>6, <2>1, <2>3 DEF v, D
      <3> QED BY <1>2, <1>16, <3>1 DEF IInv, RequestOK
    <2> QED BY <1>2, <2>2, <2>3
  <1>17. \A q \in Requests \ {r} : req[q].op = "review" =>
             /\ \A s \in req[q].done : s \notin Taken(req[q].review)'
             /\ req'[r].op = "review" /\ req'[r].review = req[q].review
                  => req[q].done \cap req'[r].done = {}
    BY <1>15, <1>16
  <1>18. \A w \in Users : lock[w] \in Requests \ {r} => lock'[w] = lock[w] /\ avatar'[w] = avatar[w]
    BY <1>2
  <1>19. \A q \in Requests : RequestOK(q)'
    BY <1>15, <1>17, <1>18, OthersKept
  <1>20. TypeOK'
    BY <1>2, <1>8, <1>11, <1>15 DEF IInv, TypeOK
  <1> QED BY <1>2, <1>13, <1>14, <1>19, <1>20, AvatarsKept, ShotsKept DEF IInv

\* Requests stay as they are when rows of images only go.
LEMMA RequestsKept ==
  ASSUME IInv, UNCHANGED <<req, lock, avatar>>, images' \subseteq images
  PROVE  \A r \in Requests : RequestOK(r)'
  <1>1. \A v : Taken(v)' \subseteq Taken(v)
    BY DEF Taken
  <1> QED BY <1>1 DEF IInv, RequestOK

LEMMA DeleteReviewImageKeeps ==
  ASSUME IInv, NEW u \in Users, NEW row \in images, DeleteReviewImage(u, row)
  PROVE  IInv'
  <1> DEFINE none == {}
             old == {row[3]}
  <1>1. /\ images' = images \ {row} /\ Kinds(none, "review", old)
        /\ UNCHANGED <<creator, avatar, shots, versions, lock, req, cascaded>>
    BY DEF DeleteReviewImage
  <1>2. row[3] \in Assets /\ kind[row[3]] = "review"
    BY DEF IInv, ImagesOK, TypeOK
  <1> HIDE DEF none, old
  <1>3. /\ kind' \in [Assets -> {"unborn", "gone", "avatar", "review", "screenshot"}]
        /\ \A a \in Assets : kind'[a] = IF a \in none THEN "review"
                                        ELSE IF a \in old THEN "gone" ELSE kind[a]
    BY <1>1, KindsEffect DEF IInv
  <1>4. \A a \in Assets : kind'[a] = IF a = row[3] THEN "gone" ELSE kind[a]
    BY <1>3 DEF none, old
  <1>5. ImagesOK'
    <2>1. \A x \in images' : x \in images /\ x[3] \in Assets /\ x[3] # row[3]
      BY <1>1 DEF IInv, ImagesOK, TypeOK
    <2>2. \A a \in Assets \ {row[3]} : kind[a] = "review" => \E x \in images' : x[3] = a
      BY <1>1 DEF IInv, ImagesOK
    <2> QED BY <1>4, <2>1, <2>2 DEF IInv, ImagesOK
  <1>6. /\ \A a \in Assets : kind[a] = "avatar" <=> kind'[a] = "avatar"
        /\ \A a \in Assets : kind[a] = "screenshot" <=> kind'[a] = "screenshot"
    BY <1>2, <1>4
  <1>7. TypeOK'
    BY <1>1, <1>3 DEF IInv, TypeOK
  <1> QED BY <1>1, <1>5, <1>6, <1>7, RequestsKept, AvatarsKept, ShotsKept DEF IInv

-----------------------------------------------------------------------------
LEMMA CountScreenshotsKeeps ==
  ASSUME IInv, NEW r \in Requests, NEW v \in Versions, CountScreenshots(r, v)
  PROVE  IInv'
  <1>1. PICK n \in 1..Limit :
          Begin(r, [op |-> "shots", version |-> v, n |-> n])
    BY DEF CountScreenshots
  <1> DEFINE tx == [op |-> "shots", version |-> v, n |-> n]
  <1>2. /\ req' = [req EXCEPT ![r] = tx] /\ req[r] = Idle
        /\ UNCHANGED <<kind, creator, avatar, images, shots, versions, lock, cascaded>>
    BY <1>1 DEF CountScreenshots, Begin
  <1>3. tx \in ShotsTx /\ tx.op = "shots"
    BY DEF ShotsTx
  <1> HIDE DEF tx
  <1>4. /\ req' \in [Requests -> {Idle} \cup AvatarTx \cup ReviewTx \cup ShotsTx]
        /\ req'[r] = tx
        /\ \A q \in Requests \ {r} : req'[q] = req[q]
    BY <1>2, <1>3, RequestEffect DEF IInv
  <1>5. RequestOK(r)'
    BY <1>3, <1>4 DEF RequestOK
  <1>6. \A q \in Requests \ {r} : req[q].op = "review" =>
             /\ \A s \in req[q].done : s \notin Taken(req[q].review)'
             /\ req'[r].op = "review" /\ req'[r].review = req[q].review
                  => req[q].done \cap req'[r].done = {}
    BY <1>2, <1>3, <1>4 DEF IInv, RequestOK, Taken
  <1>7. \A w \in Users : lock[w] \in Requests \ {r} => lock'[w] = lock[w] /\ avatar'[w] = avatar[w]
    BY <1>2
  <1>8. \A q \in Requests : RequestOK(q)'
    BY <1>4, <1>5, <1>6, <1>7, OthersKept
  <1>9. TypeOK'
    BY <1>2, <1>4 DEF IInv, TypeOK
  <1>10. \A a \in Assets : kind'[a] = kind[a]
    BY <1>2
  <1> QED BY <1>2, <1>8, <1>9, <1>10, AvatarsKept, ImagesKept, ShotsKept DEF IInv

\* The new assets had no row, and each gets one.
LEMMA InsertScreenshotsKeeps ==
  ASSUME IInv, NEW r \in Requests, InsertScreenshots(r)
  PROVE  IInv'
  <1> DEFINE v == req[r].version
             n == req[r].n
  <1>1. PICK new \in kSubset(n, Unborn) :
          /\ Kinds(new, "screenshot", {})
          /\ shots' = shots \cup (new \X {v})
    BY DEF InsertScreenshots
  <1>2. /\ req[r].op = "shots" /\ v \in versions /\ Done(r)
        /\ UNCHANGED <<creator, avatar, images, versions, lock, cascaded>>
    BY DEF InsertScreenshots
  <1>3. v \in Versions
    BY <1>2, RequestTypes DEF IInv, ShotsTx
  <1>4. \A a \in new : a \in Assets /\ kind[a] = "unborn"
    BY DEF kSubset, Unborn
  <1> HIDE DEF v, n
  <1> DEFINE none == {}
  <1>5. Kinds(new, "screenshot", none)
    BY <1>1
  <1> HIDE DEF none
  <1>6. /\ kind' \in [Assets -> {"unborn", "gone", "avatar", "review", "screenshot"}]
        /\ \A a \in Assets : kind'[a] = IF a \in new THEN "screenshot"
                                        ELSE IF a \in none THEN "gone" ELSE kind[a]
    BY <1>5, KindsEffect DEF IInv
  <1>7. \A a \in Assets : kind'[a] = IF a \in new THEN "screenshot" ELSE kind[a]
    BY <1>6 DEF none
  <1>8. shots' \subseteq (Assets \cup Links) \X Versions
    BY <1>1, <1>3, <1>4 DEF IInv, TypeOK
  <1>9. /\ \A a \in new : <<a, v>> \in shots' /\ <<a, v>>[1] = a
        /\ \A x \in shots' : x \in shots \/ (x[1] \in new /\ x = <<x[1], v>>)
    BY <1>1
  <1>10. \A x \in shots : x[1] \notin new
    BY <1>4 DEF IInv, ShotsOK
  <1>11. ShotsOK'
    <2>1. \A x, y \in shots' : x[1] = y[1] => x = y
      BY <1>9, <1>10 DEF IInv, ShotsOK
    <2>2. \A x \in shots' : x[1] \in Assets => kind'[x[1]] = "screenshot"
      BY <1>7, <1>9 DEF IInv, ShotsOK
    <2>3. ASSUME NEW a \in Assets \ cascaded, kind'[a] = "screenshot"
          PROVE  \E x \in shots' : x[1] = a
      BY <1>1, <1>7, <1>9, <2>3 DEF IInv, ShotsOK
    <2> QED BY <1>2, <2>1, <2>2, <2>3 DEF ShotsOK
  <1>12. /\ \A a \in Assets : kind[a] = "avatar" <=> kind'[a] = "avatar"
         /\ \A a \in Assets : kind[a] = "review" <=> kind'[a] = "review"
    BY <1>4, <1>7
  <1>13. /\ req' \in [Requests -> {Idle} \cup AvatarTx \cup ReviewTx \cup ShotsTx]
         /\ RequestOK(r)' /\ req'[r].op = "idle"
         /\ \A q \in Requests \ {r} : req'[q] = req[q]
    BY <1>2, DoneOK
  <1>14. \A q \in Requests \ {r} : req[q].op = "review" =>
             /\ \A s \in req[q].done : s \notin Taken(req[q].review)'
             /\ req'[r].op = "review" /\ req'[r].review = req[q].review
                  => req[q].done \cap req'[r].done = {}
    BY <1>2, <1>13 DEF IInv, RequestOK, Taken
  <1>15. \A w \in Users : lock[w] \in Requests \ {r} => lock'[w] = lock[w] /\ avatar'[w] = avatar[w]
    BY <1>2
  <1>16. \A q \in Requests : RequestOK(q)'
    BY <1>13, <1>14, <1>15, OthersKept
  <1>17. TypeOK'
    BY <1>2, <1>6, <1>8, <1>13 DEF IInv, TypeOK
  <1> QED BY <1>2, <1>11, <1>12, <1>16, <1>17, AvatarsKept, ImagesKept DEF IInv

LEMMA CreateAdminScreenshotKeeps ==
  ASSUME IInv, NEW l \in Links, NEW v \in Versions, CreateAdminScreenshot(l, v)
  PROVE  IInv'
  <1>1. /\ \A row \in shots : row[1] # l
        /\ shots' = shots \cup {<<l, v>>}
        /\ UNCHANGED <<kind, creator, avatar, images, versions, lock, req, cascaded>>
    BY DEF CreateAdminScreenshot
  <1>2. l \notin Assets
    BY ImageAssumption
  <1>3. ShotsOK'
    BY <1>1, <1>2 DEF IInv, ShotsOK
  <1>4. TypeOK'
    BY <1>1 DEF IInv, TypeOK
  <1>5. \A a \in Assets : kind'[a] = kind[a]
    BY <1>1
  <1> QED BY <1>1, <1>3, <1>4, <1>5, RequestsKept, AvatarsKept, ImagesKept DEF IInv

\* A screenshot that comes to another version keeps its asset.
LEMMA UpdateAdminScreenshotKeeps ==
  ASSUME IInv, NEW row \in shots, NEW v \in Versions, UpdateAdminScreenshot(row, v)
  PROVE  IInv'
  <1> DEFINE moved == <<row[1], v>>
  <1>1. /\ shots' = (shots \ {row}) \cup {moved}
        /\ UNCHANGED <<kind, creator, avatar, images, versions, lock, req, cascaded>>
    BY DEF UpdateAdminScreenshot
  <1>2. /\ row = <<row[1], row[2]>> /\ row[1] \in Assets \cup Links
        /\ moved[1] = row[1] /\ moved[2] = v
        /\ moved \in (Assets \cup Links) \X Versions
    BY DEF IInv, TypeOK
  <1> HIDE DEF moved
  <1>3. ShotsOK'
    <2>1. \A x, y \in shots' : x[1] = y[1] => x = y
      BY <1>1, <1>2 DEF IInv, ShotsOK
    <2>2. \A x \in shots' : x[1] \in Assets => kind'[x[1]] = "screenshot"
      BY <1>1, <1>2 DEF IInv, ShotsOK
    <2>3. \A a \in Assets \ cascaded : kind[a] = "screenshot" => \E x \in shots' : x[1] = a
      BY <1>1, <1>2 DEF IInv, ShotsOK
    <2> QED BY <1>1, <2>1, <2>2, <2>3 DEF ShotsOK
  <1>4. TypeOK'
    BY <1>1, <1>2 DEF IInv, TypeOK
  <1>5. \A a \in Assets : kind'[a] = kind[a]
    BY <1>1
  <1> QED BY <1>1, <1>3, <1>4, <1>5, RequestsKept, AvatarsKept, ImagesKept DEF IInv

LEMMA DeleteAdminScreenshotKeeps ==
  ASSUME IInv, NEW row \in shots, DeleteAdminScreenshot(row)
  PROVE  IInv'
  <1> DEFINE none == {}
             old == {row[1]}
  <1>1. /\ shots' = shots \ {row}
        /\ Kinds(none, "screenshot", old)
        /\ UNCHANGED <<creator, avatar, images, versions, lock, req, cascaded>>
    BY DEF DeleteAdminScreenshot
  <1> HIDE DEF none, old
  <1>2. /\ kind' \in [Assets -> {"unborn", "gone", "avatar", "review", "screenshot"}]
        /\ \A a \in Assets : kind'[a] = IF a \in none THEN "screenshot"
                                        ELSE IF a \in old THEN "gone" ELSE kind[a]
    BY <1>1, KindsEffect DEF IInv
  <1>3. \A a \in Assets : kind'[a] = IF a = row[1] THEN "gone" ELSE kind[a]
    BY <1>2 DEF none, old
  <1>4. \A x \in shots' : x \in shots /\ x[1] # row[1]
    BY <1>1 DEF IInv, ShotsOK
  <1>5. ShotsOK'
    <2>1. ASSUME NEW a \in Assets \ cascaded, kind'[a] = "screenshot"
          PROVE  \E x \in shots' : x[1] = a
      BY <1>1, <1>3, <2>1 DEF IInv, ShotsOK
    <2> QED BY <1>1, <1>3, <1>4, <2>1 DEF IInv, ShotsOK
  <1>6. row[1] \in Assets => kind[row[1]] = "screenshot"
    BY DEF IInv, ShotsOK
  <1>7. /\ \A a \in Assets : kind[a] = "avatar" <=> kind'[a] = "avatar"
        /\ \A a \in Assets : kind[a] = "review" <=> kind'[a] = "review"
    BY <1>3, <1>6
  <1>8. TypeOK'
    BY <1>1, <1>2 DEF IInv, TypeOK
  <1> QED BY <1>1, <1>5, <1>7, <1>8, RequestsKept, AvatarsKept, ImagesKept DEF IInv

\* The assets of the screenshots that go with a version are remembered.
LEMMA DeleteAdminVersionKeeps ==
  ASSUME IInv, NEW v \in Versions, DeleteAdminVersion(v)
  PROVE  IInv'
  <1>1. /\ versions' = versions \ {v} /\ shots' = shots \ ShotsOf(v)
        /\ cascaded' = cascaded \cup ({row[1] : row \in ShotsOf(v)} \cap Assets)
        /\ UNCHANGED <<kind, creator, avatar, images, lock, req>>
    BY DEF DeleteAdminVersion
  <1>2. ShotsOK'
    <2>1. ASSUME NEW a \in Assets \ cascaded', kind[a] = "screenshot"
          PROVE  \E x \in shots' : x[1] = a
      <3>1. PICK x \in shots : x[1] = a
        BY <1>1, <2>1 DEF IInv, ShotsOK
      <3>2. x \notin ShotsOf(v)
        BY <1>1, <2>1, <3>1
      <3> QED BY <1>1, <3>1, <3>2
    <2> QED BY <1>1, <2>1 DEF IInv, ShotsOK
  <1>3. TypeOK'
    BY <1>1 DEF IInv, TypeOK
  <1>4. \A a \in Assets : kind'[a] = kind[a]
    BY <1>1
  <1> QED BY <1>1, <1>2, <1>3, <1>4, RequestsKept, AvatarsKept, ImagesKept DEF IInv

\* A request that is rolled back gives up its own locks only.
LEMMA FailKeeps ==
  ASSUME IInv, NEW r \in Requests, Fail(r)
  PROVE  IInv'
  <1>1. /\ Done(r)
        /\ lock' = [u \in Users |-> IF lock[u] = r THEN None ELSE lock[u]]
        /\ UNCHANGED <<kind, creator, avatar, images, shots, versions, cascaded>>
    BY DEF Fail
  <1>2. /\ req' \in [Requests -> {Idle} \cup AvatarTx \cup ReviewTx \cup ShotsTx]
        /\ RequestOK(r)' /\ req'[r].op = "idle"
        /\ \A q \in Requests \ {r} : req'[q] = req[q]
    BY <1>1, DoneOK
  <1>3. /\ lock' \in [Users -> Requests \cup {None}]
        /\ \A w \in Users : lock[w] # r => lock'[w] = lock[w]
    BY <1>1 DEF IInv, TypeOK
  <1>4. \A q \in Requests \ {r} : req[q].op = "review" =>
             /\ \A s \in req[q].done : s \notin Taken(req[q].review)'
             /\ req'[r].op = "review" /\ req'[r].review = req[q].review
                  => req[q].done \cap req'[r].done = {}
    BY <1>1, <1>2 DEF IInv, RequestOK, Taken
  <1>5. \A w \in Users : lock[w] \in Requests \ {r} => lock'[w] = lock[w] /\ avatar'[w] = avatar[w]
    BY <1>1, <1>3
  <1>6. \A q \in Requests : RequestOK(q)'
    BY <1>2, <1>4, <1>5, OthersKept
  <1>7. TypeOK'
    BY <1>1, <1>2, <1>3 DEF IInv, TypeOK
  <1>8. \A a \in Assets : kind'[a] = kind[a]
    BY <1>1
  <1> QED BY <1>1, <1>6, <1>7, <1>8, AvatarsKept, ImagesKept, ShotsKept DEF IInv

-----------------------------------------------------------------------------
\* Every step keeps the inductive invariant.
LEMMA InvStep == IInv /\ [Next]_vars => IInv'
  <1> SUFFICES ASSUME IInv, [Next]_vars PROVE IInv'
    OBVIOUS
  <1>1. ASSUME NEW r \in Requests, Step(r) PROVE IInv'
    BY <1>1, SetAvatarLockKeeps, SetAvatarCommitKeeps, AddReviewImagesKeeps, InsertImageKeeps,
       AddCommitKeeps, CountScreenshotsKeeps, InsertScreenshotsKeeps, FailKeeps DEF Step
  <1>2. CASE Next
    BY <1>1, <1>2, DeleteAvatarImageKeeps, DeleteReviewImageKeeps, CreateAdminScreenshotKeeps,
       UpdateAdminScreenshotKeeps, DeleteAdminScreenshotKeeps, DeleteAdminVersionKeeps DEF Next
  <1>3. CASE UNCHANGED vars
    <2>1. UNCHANGED <<kind, creator, avatar, images, shots, versions, lock, req, cascaded>>
      BY <1>3 DEF vars
    <2>2. TypeOK'
      BY <2>1 DEF IInv, TypeOK
    <2>3. \A a \in Assets : kind'[a] = kind[a]
      BY <2>1
    <2> QED BY <2>1, <2>2, <2>3, RequestsKept, AvatarsKept, ImagesKept, ShotsKept DEF IInv
  <1> QED BY <1>2, <1>3

LEMMA Invariance == Spec => []IInv
  BY InvInit, InvStep, PTL DEF Spec

\* Type correctness of the tables and of the requests in flight.
THEOREM TypeCorrect == Spec => []TypeOK
  <1>1. IInv => TypeOK
    BY DEF IInv
  <1> QED BY <1>1, Invariance, PTL

\* An avatar that exists is the current one of its user, however the uploads
\* and deletions of SetAvatarImage and DeleteAvatarImage overlap.
THEOREM AvatarSafety == Spec => []AvatarsCurrent
  <1>1. IInv => AvatarsCurrent
    BY DEF IInv, AvatarsCurrent, AvatarOK, UserOK
  <1> QED BY <1>1, Invariance, PTL

\* Reviews keep their limit: the rows of a review have different slots
\* (AddReviewImages, the UNIQUE constraint of review_images).
THEOREM ReviewLimitSafety == Spec => []ReviewImageLimit
  <1>1. IInv => ReviewImageLimit
    <2> SUFFICES ASSUME IInv, NEW v \in Reviews
                 PROVE  Cardinality({row \in images : row[1] = v}) <= Limit
      BY DEF ReviewImageLimit
    <2> DEFINE rows == {row \in images : row[1] = v}
               slot == [row \in rows |-> row[2]]
    <2>1. slot \in Injection(rows, Slots)
      <3>1. \A row \in rows : row[2] \in Slots
        BY DEF IInv, TypeOK
      <3>2. \A x, y \in rows : x[2] = y[2] => x = y
        BY DEF IInv, ImagesOK
      <3> HIDE DEF rows
      <3> QED BY <3>1, <3>2 DEF Injection, IsInjective
    <2>2. IsFiniteSet(Slots) /\ Cardinality(Slots) = Limit
      <3> DEFINE top == Limit - 1
      <3>1. top \in Int /\ top - 0 + 1 = Limit /\ ~(0 > top)
        BY ImageAssumption
      <3> HIDE DEF top
      <3>2. IsFiniteSet(0..top) /\ Cardinality(0..top) = top - 0 + 1
        BY <3>1, FS_Interval
      <3> QED BY <3>1, <3>2 DEF Slots, top
    <2> HIDE DEF rows, slot
    <2>3. Cardinality(rows) <= Limit
      BY <2>1, <2>2, FS_Injection
    <2> QED BY <2>3 DEF rows
  <1> QED BY <1>1, Invariance, PTL

\* Every image of a review or screenshot is named by one row, and every row
\* names an image that exists; the images of screenshots that went with their
\* version are excepted (AddReviewImages, DeleteReviewImage,
\* DeleteAdminScreenshot, DeleteAdminVersion).
THEOREM AssetSafety == Spec => []AssetsNamedOnce
  <1>1. IInv => AssetsNamedOnce
    <2> SUFFICES ASSUME IInv PROVE AssetsNamedOnce
      OBVIOUS
    <2>1. ASSUME NEW a \in Assets, kind[a] = "review"
          PROVE  Cardinality({row \in images : row[3] = a}) = 1
      <3>1. PICK x \in images : x[3] = a
        BY <2>1 DEF IInv, ImagesOK
      <3>2. {row \in images : row[3] = a} = {x}
        BY <3>1 DEF IInv, ImagesOK
      <3> QED BY <3>2, FS_Singleton
    <2>2. ASSUME NEW a \in Assets \ cascaded, kind[a] = "screenshot"
          PROVE  Cardinality({row \in shots : row[1] = a}) = 1
      <3>1. PICK x \in shots : x[1] = a
        BY <2>2 DEF IInv, ShotsOK
      <3>2. {row \in shots : row[1] = a} = {x}
        BY <3>1 DEF IInv, ShotsOK
      <3> QED BY <3>2, FS_Singleton
    <2> QED BY <2>1, <2>2 DEF IInv, ImagesOK, ShotsOK, AssetsNamedOnce
  <1> QED BY <1>1, Invariance, PTL
===============================================================================
