--------------------------- MODULE CatalogPageProofs ---------------------------
(***************************************************************************)
(* The page of an application offers the best build that runs, and counts  *)
(* a download once: proofs about Compatibility, VersionChoice, Engagement  *)
(* and CatalogPage for any systems, builds, versions, visitors and         *)
(* requests.                                                               *)
(***************************************************************************)
EXTENDS CatalogPage, FiniteSetTheorems, TLAPS

Triple == Int \X Int \X Int

\* The order of versions, component by component.
Less(v, w) ==
    \/ v[1] < w[1]
    \/ v[1] = w[1] /\ v[2] < w[2]
    \/ v[1] = w[1] /\ v[2] = w[2] /\ v[3] < w[3]

-----------------------------------------------------------------------------
\* Two versions that differ, differ in a first component.
LEMMA FirstDifference ==
    ASSUME NEW v \in Triple, NEW w \in Triple, v # w
    PROVE  \E i \in 1..3 : v[i] # w[i] /\ \A j \in 1..(i - 1) : v[j] = w[j]
  <1>1. CASE v[1] # w[1]
    BY <1>1 DEF Triple
  <1>2. CASE v[1] = w[1] /\ v[2] # w[2]
    BY <1>2 DEF Triple
  <1>3. CASE v[1] = w[1] /\ v[2] = w[2]
    BY <1>3 DEF Triple
  <1> QED BY <1>1, <1>2, <1>3

\* Compare is the sign of that order.
LEMMA CompareIsOrder ==
    ASSUME NEW v \in Triple, NEW w \in Triple
    PROVE  /\ Compare(v, w) \in {-1, 0, 1}
           /\ Compare(v, w) = 0 <=> v = w
           /\ Compare(v, w) < 0 <=> Less(v, w)
           /\ Compare(v, w) > 0 <=> Less(w, v)
  <1>1. CASE v = w
    BY <1>1 DEF Compare, Less, Triple
  <1>2. CASE v # w
    <2> DEFINE first(i) == i \in 1..3 /\ v[i] # w[i] /\ \A j \in 1..(i - 1) : v[j] = w[j]
    <2>1. PICK i \in 1..3 : /\ first(i)
                            /\ Compare(v, w) = IF v[i] < w[i] THEN -1 ELSE 1
      BY <1>2, FirstDifference DEF Compare
    <2>2. v[1] \in Int /\ v[2] \in Int /\ v[3] \in Int
          /\ w[1] \in Int /\ w[2] \in Int /\ w[3] \in Int
      BY DEF Triple
    <2>3. CASE i = 1
      BY <1>2, <2>1, <2>2, <2>3 DEF Less
    <2>4. CASE i = 2
      <3>1. v[1] = w[1]
        BY <2>1, <2>4
      <3> QED BY <1>2, <2>1, <2>2, <2>4, <3>1 DEF Less
    <2>5. CASE i = 3
      <3>1. v[1] = w[1] /\ v[2] = w[2]
        BY <2>1, <2>5
      <3> QED BY <1>2, <2>1, <2>2, <2>5, <3>1 DEF Less
    <2> QED BY <2>1, <2>3, <2>4, <2>5
  <1> QED BY <1>1, <1>2

\* A family is the first two components.
LEMMA FamilyOrder ==
    ASSUME NEW v \in Triple, NEW w \in Triple
    PROVE  /\ Family(v) \in Triple /\ Family(Family(v)) = Family(v)
           /\ Less(Family(v), Family(w)) => Less(v, w)
           /\ Less(v, w) => Less(Family(v), Family(w)) \/ Family(v) = Family(w)
           /\ ~Less(v, v)
  BY DEF Family, Triple, Less

\* The order is total and transitive.
LEMMA LessTotal ==
    ASSUME NEW u \in Triple, NEW v \in Triple, NEW w \in Triple
    PROVE  /\ Less(u, v) /\ Less(v, w) => Less(u, w)
           /\ ~Less(u, v) /\ ~Less(v, w) => ~Less(u, w)
           /\ u = v \/ Less(u, v) \/ Less(v, u)
           /\ ~(Less(u, v) /\ Less(v, u))
  BY DEF Less, Triple

-----------------------------------------------------------------------------
\* A limit is a system or not set; a system is above or below it by its order,
\* a family by that of its first two components.
LEMMA LimitOrder ==
    ASSUME NEW os \in Systems, NEW arch, NEW limit \in Limit3
    PROVE  /\ Above(Exact(os, arch), limit) <=> limit \in Systems /\ Less(limit, os)
           /\ Below(Exact(os, arch), limit) <=> limit \in Systems /\ Less(os, limit)
           /\ Above(Series(os, arch), limit) <=>
                limit \in Systems /\ Less(Family(limit), Family(os))
           /\ Below(Series(os, arch), limit) <=>
                limit \in Systems /\ Less(Family(os), Family(limit))
  <1>1. Systems \subseteq Triple
    BY CompatibilityAssumption DEF Triple
  <1>2. limit \in Systems <=> limit \notin {Unreadable, NoVersion}
    BY CompatibilityAssumption DEF Limit3
  <1>3. ASSUME limit \in Systems
        PROVE  /\ Compare(os, limit) > 0 <=> Less(limit, os)
               /\ Compare(os, limit) < 0 <=> Less(os, limit)
    BY <1>1, <1>3, CompareIsOrder
  <1>4. ASSUME limit \in Systems
        PROVE  /\ Family(os) \in Triple /\ Family(Family(os)) = Family(os)
               /\ Compare(Family(os), Family(limit)) > 0 <=> Less(Family(limit), Family(os))
               /\ Compare(Family(os), Family(limit)) < 0 <=> Less(Family(os), Family(limit))
    BY <1>1, <1>4, CompareIsOrder, FamilyOrder
  <1> QED BY <1>2, <1>3, <1>4 DEF Above, Below, CompareTargetOS, Exact, Series

\* 32 bit support ends with a version, and with a whole family.
LEMMA SupportEnds ==
    ASSUME NEW os \in Systems, NEW later \in Systems
    PROVE  /\ Supports32BitApps(os) \in BOOLEAN
           /\ Less(os, later) /\ Supports32BitApps(later) => Supports32BitApps(os)
           /\ Supports32BitApps(Family(os)) <=> Supports32BitApps(os)
  <1>1. /\ <<10, 15, 0>> \in Triple /\ os \in Triple /\ later \in Triple
        /\ os[3] >= 0
    BY CompatibilityAssumption DEF Triple
  <1>2. /\ Supports32BitApps(os) <=> Less(os, <<10, 15, 0>>)
        /\ Supports32BitApps(later) <=> Less(later, <<10, 15, 0>>)
        /\ Supports32BitApps(Family(os)) <=> Less(Family(os), <<10, 15, 0>>)
    BY <1>1, CompareIsOrder, FamilyOrder DEF Supports32BitApps
  <1>3. Less(os, later) /\ Less(later, <<10, 15, 0>>) => Less(os, <<10, 15, 0>>)
    BY <1>1, LessTotal
  <1>4. Family(<<10, 15, 0>>) = <<10, 15, 0>>
    BY DEF Family
  <1>5. Less(Family(os), <<10, 15, 0>>) => Less(os, <<10, 15, 0>>)
    BY <1>1, <1>4, FamilyOrder
  <1>6. Less(os, <<10, 15, 0>>) => Less(Family(os), <<10, 15, 0>>)
    BY <1>1 DEF Less, Family, Triple
  <1> QED BY <1>2, <1>3, <1>5, <1>6 DEF Supports32BitApps

\* What a build is blocked by, on a system and in a family.
LEMMA BlockedBy ==
    ASSUME NEW os \in Systems, NEW arch, NEW b \in Builds
    PROVE  /\ Blocked(Exact(os, arch), b) <=>
                \/ Unknown(b) \/ b.rosetta
                \/ b.min \in Systems /\ Less(os, b.min)
                \/ b.maxSupported \in Systems /\ Less(b.maxSupported, os) /\ b.hardBlock
                \/ Accepted(arch, Supports32BitApps(os)) \cap b.archs = {}
           /\ Blocked(Series(os, arch), b) <=>
                \/ Unknown(b) \/ b.rosetta
                \/ b.min \in Systems /\ Less(Family(os), Family(b.min))
                \/ /\ b.maxSupported \in Systems /\ b.hardBlock
                   /\ Less(Family(b.maxSupported), Family(os))
                \/ Accepted(arch, Supports32BitApps(os)) \cap b.archs = {}
  <1>1. b.min \in Limit3 /\ b.maxSupported \in Limit3
    BY CompatibilityAssumption DEF Build
  <1>2. Supports32BitApps(Family(os)) <=> Supports32BitApps(os)
    BY SupportEnds
  <1>3. Supports32BitApps(Family(os)) = Supports32BitApps(os)
    BY <1>2, SupportEnds DEF Supports32BitApps
  <1>4. /\ Mismatch(Exact(os, arch), b) <=>
             Accepted(arch, Supports32BitApps(os)) \cap b.archs = {}
        /\ Mismatch(Series(os, arch), b) <=>
             Accepted(arch, Supports32BitApps(os)) \cap b.archs = {}
    BY <1>3 DEF Mismatch, Exact, Series
  <1> QED BY <1>1, <1>4, LimitOrder DEF Blocked, TooNew

\* A family shows what its releases run and, of what they do not, only builds
\* with contradictory limits, whatever a build requires.
THEOREM FamiliesAreTheirReleases == SeriesAgree
  <1> SUFFICES ASSUME NEW b \in Builds, NEW arch \in Architectures, NEW os \in Systems
               PROVE  LET shown == ~Blocked(Series(os, arch), b)
                          runs == \E release \in Systems :
                                      /\ Family(release) = Family(os)
                                      /\ ~Blocked(Exact(release, arch), b)
                      IN  /\ runs => shown
                          /\ shown => runs \/ Contradictory(b, Family(os))
    BY DEF SeriesAgree
  <1>1. Systems \subseteq Triple
    BY CompatibilityAssumption DEF Triple
  <1>2. ASSUME NEW release \in Systems, Family(release) = Family(os)
        PROVE  Supports32BitApps(release) = Supports32BitApps(os)
    BY <1>2, SupportEnds
  <1>3. ASSUME NEW release \in Systems, Family(release) = Family(os),
               ~Blocked(Exact(release, arch), b)
        PROVE  ~Blocked(Series(os, arch), b)
    <2>1. b.min \in Systems /\ Less(Family(os), Family(b.min)) => Less(release, b.min)
      BY <1>1, <1>3, FamilyOrder
    <2>2. b.maxSupported \in Systems /\ Less(Family(b.maxSupported), Family(os)) =>
            Less(b.maxSupported, release)
      BY <1>1, <1>3, FamilyOrder
    <2> QED BY <1>2, <1>3, <2>1, <2>2, BlockedBy
  <1>4. ASSUME ~Blocked(Series(os, arch), b), ~Contradictory(b, Family(os))
        PROVE  \E release \in Systems : /\ Family(release) = Family(os)
                                        /\ ~Blocked(Exact(release, arch), b)
    <2>1. /\ b.min \in Systems => ~Less(Family(os), Family(b.min))
          /\ b.maxSupported \in Systems /\ b.hardBlock =>
               ~Less(Family(b.maxSupported), Family(os))
      BY <1>4, BlockedBy
    <2>2. /\ b.min \in Systems /\ Family(b.min) = Family(os)
          /\ b.maxSupported \in Systems /\ Family(b.maxSupported) = Family(os)
          => (b.hardBlock => ~Less(b.maxSupported, b.min))
      BY <1>1, <1>4, CompareIsOrder DEF Contradictory
    <2>3. CASE b.min \in Systems /\ Family(b.min) = Family(os)
      <3>1. ~Less(b.min, b.min)
        BY <1>1, <2>3, FamilyOrder
      <3>2. b.maxSupported \in Systems /\ b.hardBlock => ~Less(b.maxSupported, b.min)
        BY <1>1, <2>1, <2>2, <2>3, FamilyOrder
      <3> QED BY <1>2, <1>4, <2>3, <3>1, <3>2, BlockedBy
    <2>4. CASE b.maxSupported \in Systems /\ Family(b.maxSupported) = Family(os) /\ b.hardBlock
      <3>1. ~Less(b.maxSupported, b.maxSupported)
        BY <1>1, <2>4, FamilyOrder
      <3>2. b.min \in Systems => ~Less(b.maxSupported, b.min)
        BY <1>1, <2>1, <2>2, <2>4, FamilyOrder
      <3> QED BY <1>2, <1>4, <2>4, <3>1, <3>2, BlockedBy
    <2>5. CASE /\ ~(b.min \in Systems /\ Family(b.min) = Family(os))
               /\ ~(/\ b.maxSupported \in Systems /\ b.hardBlock
                    /\ Family(b.maxSupported) = Family(os))
      <3>1. b.min \in Systems => ~Less(os, b.min)
        BY <1>1, <2>1, <2>5, FamilyOrder
      <3>2. b.maxSupported \in Systems /\ b.hardBlock => ~Less(b.maxSupported, os)
        BY <1>1, <2>1, <2>5, FamilyOrder
      <3> QED BY <1>4, <3>1, <3>2, BlockedBy
    <2> QED BY <2>3, <2>4, <2>5
  <1> QED BY <1>3, <1>4

\* The systems a build runs on have no gap, whatever it requires.
THEOREM BuildsRunOnIntervals == NoGap
  <1> SUFFICES ASSUME NEW b \in Builds, NEW arch \in Architectures, NEW low \in Systems,
                      NEW os \in Systems, NEW high \in Systems,
                      Compare(low, os) <= 0, Compare(os, high) <= 0,
                      ~Blocked(Exact(low, arch), b), ~Blocked(Exact(high, arch), b)
               PROVE  ~Blocked(Exact(os, arch), b)
    BY DEF NoGap
  <1>1. Systems \subseteq Triple
    BY CompatibilityAssumption DEF Triple
  <1>2. ~Less(os, low) /\ ~Less(high, os)
    BY <1>1, CompareIsOrder
  <1>3. b.min \in Systems => ~Less(os, b.min)
    <2>1. b.min \in Systems => ~Less(low, b.min)
      BY BlockedBy
    <2> QED BY <1>1, <1>2, <2>1, LessTotal
  <1>4. b.maxSupported \in Systems /\ b.hardBlock => ~Less(b.maxSupported, os)
    <2>1. b.maxSupported \in Systems /\ b.hardBlock => ~Less(b.maxSupported, high)
      BY BlockedBy
    <2> QED BY <1>1, <1>2, <2>1, LessTotal
  <1>5. \/ Supports32BitApps(os) = Supports32BitApps(low)
        \/ Supports32BitApps(os) = Supports32BitApps(high)
    <2>1. low = os \/ Less(low, os)
      BY <1>1, <1>2, LessTotal
    <2>2. os = high \/ Less(os, high)
      BY <1>1, <1>2, LessTotal
    <2> QED BY <1>1, <2>1, <2>2, SupportEnds
  <1> QED BY <1>3, <1>4, <1>5, BlockedBy

-----------------------------------------------------------------------------
\* Rows of artifactsForApp.
Rows == [id : Nat, version : Triple, recommended : BOOLEAN, build : Builds]

\* Sorting is by a strict total order of rows with different ids.
LEMMA BeforeIsOrder ==
    ASSUME NEW x \in Rows, NEW y \in Rows, NEW z \in Rows
    PROVE  /\ ~Before(x, x)
           /\ Before(x, y) /\ Before(y, z) => Before(x, z)
           /\ x.id # y.id => Before(x, y) \/ Before(y, x)
           /\ Before(x, y) => ~Less(x.version, y.version)
  <1>1. /\ x.version \in Triple /\ y.version \in Triple /\ z.version \in Triple
        /\ x.id \in Nat /\ y.id \in Nat /\ z.id \in Nat
        /\ x.recommended \in BOOLEAN /\ y.recommended \in BOOLEAN
        /\ z.recommended \in BOOLEAN
    BY DEF Rows
  <1>2. ASSUME NEW p \in Rows, NEW q \in Rows
        PROVE  Before(p, q) <=>
                 \/ Less(q.version, p.version)
                 \/ /\ p.version = q.version
                    /\ \/ p.recommended /\ ~q.recommended
                       \/ (p.recommended <=> q.recommended) /\ p.id < q.id
    <2>1. /\ p.version \in Triple /\ q.version \in Triple
          /\ p.recommended \in BOOLEAN /\ q.recommended \in BOOLEAN
      BY DEF Rows
    <2>2. /\ Compare(p.version, q.version) > 0 <=> Less(q.version, p.version)
          /\ Compare(p.version, q.version) = 0 <=> p.version = q.version
      BY <2>1, CompareIsOrder
    <2>3. p.version = q.version => ~Less(q.version, p.version)
      BY <2>1, FamilyOrder
    <2> QED BY <2>1, <2>2, <2>3 DEF Before
  <1>3. ASSUME NEW u \in Triple, NEW v \in Triple, NEW w \in Triple
        PROVE  /\ ~Less(u, u)
               /\ Less(u, v) /\ Less(v, w) => Less(u, w)
               /\ u = v \/ Less(u, v) \/ Less(v, u)
               /\ ~(Less(u, v) /\ Less(v, u))
    BY LessTotal, FamilyOrder
  <1> QED BY <1>1, <1>2, <1>3

\* A row that stands before all others, by the number of rows before it.
LEMMA FirstRow ==
    ASSUME NEW R \in SUBSET Rows, IsFiniteSet(R), R # {},
           \A x, y \in R : x.id = y.id => x = y
    PROVE  \E x \in R : \A y \in R : y # x => Before(x, y)
  <1> DEFINE Ahead(x) == {y \in R : Before(y, x)}
             T == {Ahead(x) : x \in R}
  <1>1. IsWellFoundedOn(StrictSubsetOrdering(R), FiniteSubsetsOf(R))
    BY FS_StrictSubsetOrderingWellFounded
  <1>2. T \subseteq FiniteSubsetsOf(R) /\ T # {}
    <2>1. \A x \in R : Ahead(x) \in SUBSET R
      OBVIOUS
    <2>2. \A B \in SUBSET R : B \in FiniteSubsetsOf(R)
      BY FS_Subset DEF FiniteSubsetsOf
    <2> HIDE DEF Ahead
    <2> QED BY <2>1, <2>2
  <1>3. PICK A \in T : \A B \in T : <<B, A>> \notin StrictSubsetOrdering(R)
    <2> HIDE DEF T
    <2> QED BY <1>1, <1>2, WFMin
  <1>4. PICK x \in R : A = Ahead(x)
    BY <1>3
  <1>5. ASSUME NEW y \in R, Before(y, x) PROVE FALSE
    <2>1. y \in Ahead(x) /\ y \notin Ahead(y)
      BY <1>5, BeforeIsOrder
    <2>2. Ahead(y) \subseteq Ahead(x)
      BY <1>5, BeforeIsOrder
    <2>3. Ahead(y) \in T
      OBVIOUS
    <2>4. <<Ahead(y), A>> \in StrictSubsetOrdering(R)
      BY <1>4, <2>1, <2>2 DEF StrictSubsetOrdering
    <2> QED BY <1>3, <2>3, <2>4
  <1>6. \A y \in R : y # x => Before(x, y)
    BY <1>5, BeforeIsOrder
  <1> QED BY <1>6

\* The page shows an eligible row, and no eligible row has a higher version.
LEMMA ChoosesBest ==
    ASSUME NEW R \in SUBSET Rows, IsFiniteSet(R), R # {}, NEW t,
           \A x, y \in R : x.id = y.id => x = y
    PROVE  LET runs == {y \in R : Evaluate(t, y.build) # "blocked"}
               page == ChooseArtifact(t, R)
           IN  /\ page \in R
               /\ runs # {} => page \in runs
               /\ \A y \in IF runs = {} THEN R ELSE runs :
                      Compare(y.version, page.version) <= 0
  <1> DEFINE runs == {y \in R : Evaluate(t, y.build) # "blocked"}
             eligible == IF runs = {} THEN R ELSE runs
             page == ChooseArtifact(t, R)
  <1>1. eligible \in SUBSET R /\ eligible # {} /\ eligible \in SUBSET Rows
    OBVIOUS
  <1>2. IsFiniteSet(eligible)
    BY <1>1, FS_Subset
  <1>3. \E x \in eligible : \A y \in eligible : y # x => Before(x, y)
    <2> HIDE DEF eligible
    <2> QED BY <1>1, <1>2, FirstRow
  <1>4. page \in eligible /\ \A y \in eligible : y # page => Before(page, y)
    <2>1. page = CHOOSE x \in eligible : \A y \in eligible : y # x => Before(x, y)
      BY DEF ChooseArtifact
    <2> HIDE DEF eligible, page
    <2> QED BY <1>3, <2>1
  <1>5. ASSUME NEW y \in eligible PROVE Compare(y.version, page.version) <= 0
    <2> HIDE DEF eligible, page
    <2>1. page \in Rows /\ y \in Rows
      BY <1>1, <1>4
    <2>2. page.version \in Triple /\ y.version \in Triple
      BY <2>1 DEF Rows
    <2>3. ~Less(page.version, y.version)
      BY <1>4, <2>1, <2>2, BeforeIsOrder, FamilyOrder
    <2> QED BY <2>2, <2>3, CompareIsOrder
  <1> QED BY <1>1, <1>4, <1>5

-----------------------------------------------------------------------------
\* A request for a new version still names it: only updates are overtaken.
\* What rows there are it has seen, or they were inserted since.
KnowsOf(e, rows) ==
    /\ e.new => e.version \in VersionIds
    /\ e.step # "idle" => rows \subseteq e.seen \cup e.late
EditOK(r) == KnowsOf(edit[r], versions)

ChoiceInv ==
    /\ ChoiceTypeOK
    /\ \A r \in Editors : EditOK(r)
    /\ RecommendedTogetherUnseen

LEMMA ChoiceInitInv == ChoiceInit => ChoiceInv
  BY DEF ChoiceInit, ChoiceInv, ChoiceTypeOK, EditOK, KnowsOf, RecommendedTogetherUnseen,
         NoEdit, Edit

\* A version that is flagged stays flagged beside those only that its request
\* may not know of.
LEMMA FlagKeeps ==
    ASSUME ChoiceInv, NEW v \in VersionIds, NEW cleared, NEW late,
           Flag(v, cleared, late), versions' = versions \cup {v},
           flagged \subseteq cleared \cup late
    PROVE  /\ flagged' \subseteq versions' /\ unseen' \subseteq SUBSET flagged'
           /\ RecommendedTogetherUnseen'
  <1>1. /\ flagged' = (flagged \ cleared) \cup {v}
        /\ unseen' = {p \in unseen : p \subseteq flagged'}
                      \cup {{v, w} : w \in (flagged' \cap late) \ {v}}
    BY DEF Flag
  <1>2. flagged' \subseteq versions'
    BY <1>1 DEF ChoiceInv, ChoiceTypeOK
  <1>3. ASSUME NEW a \in flagged', NEW b \in flagged', a # b PROVE {a, b} \in unseen'
    <2>1. CASE a \in flagged /\ b \in flagged
      <3>1. {a, b} \in unseen
        BY <1>3, <2>1 DEF ChoiceInv, RecommendedTogetherUnseen
      <3> QED BY <1>1, <3>1
    <2>2. CASE a = v /\ b \in late
      BY <1>1, <1>3, <2>2
    <2>3. CASE b = v /\ a \in late
      <3>1. {a, b} = {v, a}
        BY <2>3
      <3> QED BY <1>1, <1>3, <2>3, <3>1
    <2>4. a # v => a \in flagged /\ a \in late
      BY <1>1
    <2>5. b # v => b \in flagged /\ b \in late
      BY <1>1
    <2> QED BY <1>3, <2>1, <2>2, <2>3, <2>4, <2>5
  <1>4. unseen' \subseteq SUBSET flagged'
    BY <1>1
  <1> QED BY <1>2, <1>3, <1>4 DEF RecommendedTogetherUnseen

\* Every request takes note of a version that is inserted.
LEMMA InsertedKeeps ==
    ASSUME ChoiceInv, NEW v \in VersionIds
    PROVE  /\ Inserted(v) \in [Editors -> Edit]
           /\ \A r \in Editors : KnowsOf(Inserted(v)[r], versions \cup {v})
  <1>1. ASSUME NEW e \in Edit, KnowsOf(e, versions), e.step # "idle"
        PROVE  LET d == [e EXCEPT !.late = @ \cup {v}]
               IN  d \in Edit /\ KnowsOf(d, versions \cup {v})
    BY <1>1 DEF KnowsOf, Edit
  <1>2. ASSUME NEW r \in Editors
        PROVE  Inserted(v)[r] \in Edit /\ KnowsOf(Inserted(v)[r], versions \cup {v})
    <2>1. edit[r] \in Edit /\ KnowsOf(edit[r], versions)
      BY DEF ChoiceInv, ChoiceTypeOK, EditOK
    <2>2. CASE edit[r].step = "idle" \/ v \in versions
      <3>1. Inserted(v)[r] = edit[r]
        BY <2>2 DEF Inserted
      <3>2. KnowsOf(edit[r], versions \cup {v})
        BY <2>1, <2>2 DEF KnowsOf
      <3> QED BY <2>1, <3>1, <3>2
    <2>3. CASE ~(edit[r].step = "idle" \/ v \in versions)
      <3>1. Inserted(v)[r] = [edit[r] EXCEPT !.late = @ \cup {v}]
        BY <2>3 DEF Inserted
      <3> QED BY <1>1, <2>1, <2>3, <3>1
    <2> QED BY <2>2, <2>3
  <1>3. Inserted(v) = [r \in Editors |-> Inserted(v)[r]]
    BY DEF Inserted
  <1> QED BY <1>2, <1>3

\* A flag that is taken away takes its pairs with it.
LEMMA ForgetKeeps ==
    ASSUME ChoiceInv, NEW gone, Forget(gone)
    PROVE  /\ flagged' = flagged \ gone /\ unseen' \subseteq SUBSET flagged'
           /\ RecommendedTogetherUnseen'
  BY DEF Forget, ChoiceInv, ChoiceTypeOK, RecommendedTogetherUnseen

\* The steps of a request that recommends a version.
LEMMA EditStepKeeps ==
    ASSUME ChoiceInv, NEW r \in Editors, EditStep(r) PROVE ChoiceInv'
  <1>1. ASSUME NEW v \in VersionIds, BeginEdit(r, v) PROVE ChoiceInv'
    <2>1. edit' \in [Editors -> Edit]
      BY <1>1 DEF BeginEdit, Look, ChoiceInv, ChoiceTypeOK, Edit
    <2>2. \A q \in Editors : EditOK(q)'
      BY <1>1 DEF BeginEdit, Look, ChoiceInv, ChoiceTypeOK, EditOK, KnowsOf
    <2> QED BY <1>1, <2>1, <2>2
            DEF BeginEdit, Look, ChoiceInv, ChoiceTypeOK, RecommendedTogetherUnseen
  <1>2. CASE ClearFlags(r)
    <2>1. edit' \in [Editors -> Edit]
      BY <1>2 DEF ClearFlags, ChoiceInv, ChoiceTypeOK, Edit
    <2>2. \A q \in Editors : EditOK(q)'
      BY <1>2 DEF ClearFlags, ChoiceInv, ChoiceTypeOK, EditOK, KnowsOf, Edit
    <2> QED BY <1>2, <2>1, <2>2
            DEF ClearFlags, ChoiceInv, ChoiceTypeOK, RecommendedTogetherUnseen
  <1>3. ASSUME NEW f \in [Editors -> Edit], NEW rows,
               \A q \in Editors : KnowsOf(f[q], rows)
        PROVE  LET g == [f EXCEPT ![r] = NoEdit]
               IN  g \in [Editors -> Edit] /\ \A q \in Editors : KnowsOf(g[q], rows)
    BY <1>3 DEF Edit, NoEdit, KnowsOf
  <1>4. CASE WriteVersion(r)
    <2>1. edit[r].version \in VersionIds
      BY <1>4, ChoiceAssumption
         DEF WriteVersion, ChoiceInv, ChoiceTypeOK, EditOK, KnowsOf, Edit
    <2>2. PICK v \in VersionIds : v = edit[r].version
      BY <2>1
    <2>3. /\ Flag(v, edit[r].seen, edit[r].late) /\ versions' = versions \cup {v}
          /\ edit' = [Inserted(v) EXCEPT ![r] = NoEdit] /\ published' = published
      BY <1>4, <2>2 DEF WriteVersion
    <2>4. flagged \subseteq edit[r].seen \cup edit[r].late
      BY <1>4 DEF WriteVersion, ChoiceInv, ChoiceTypeOK, EditOK, KnowsOf
    <2>5. /\ flagged' \subseteq versions' /\ unseen' \subseteq SUBSET flagged'
          /\ RecommendedTogetherUnseen'
      BY <2>2, <2>3, <2>4, FlagKeeps
    <2>6. edit' \in [Editors -> Edit] /\ \A q \in Editors : EditOK(q)'
      <3>1. /\ Inserted(v) \in [Editors -> Edit]
            /\ \A q \in Editors : KnowsOf(Inserted(v)[q], versions \cup {v})
        BY InsertedKeeps
      <3> QED BY <1>3, <2>3, <3>1 DEF EditOK
    <2> QED BY <2>3, <2>5, <2>6 DEF ChoiceInv, ChoiceTypeOK
  <1>5. CASE AbandonEdit(r)
    <2>1. /\ edit' = [edit EXCEPT ![r] = NoEdit]
          /\ UNCHANGED <<versions, flagged, published, unseen>>
      BY <1>5 DEF AbandonEdit
    <2>2. edit' \in [Editors -> Edit] /\ \A q \in Editors : EditOK(q)'
      <3>1. edit \in [Editors -> Edit] /\ \A q \in Editors : KnowsOf(edit[q], versions)
        BY DEF ChoiceInv, ChoiceTypeOK, EditOK
      <3> QED BY <1>3, <2>1, <3>1 DEF EditOK
    <2> QED BY <2>1, <2>2 DEF ChoiceInv, ChoiceTypeOK, RecommendedTogetherUnseen
  <1> QED BY <1>1, <1>2, <1>4, <1>5 DEF EditStep

\* The single statements of editors, and uploads that are committed.
LEMMA EditsKeep ==
    ASSUME ChoiceInv,
           \/ \E v \in VersionIds : CreateVersion(v) \/ Unflag(v)
           \/ \E a \in Artifacts : \/ Moderate(a)
                                   \/ \E flag, approved \in BOOLEAN :
                                        CommitStagedUpload(a, flag, approved)
    PROVE  ChoiceInv'
  <1>1. ASSUME NEW v \in VersionIds, CreateVersion(v) PROVE ChoiceInv'
    <2>1. edit' \in [Editors -> Edit] /\ \A r \in Editors : EditOK(r)'
      BY <1>1, InsertedKeeps DEF CreateVersion, EditOK
    <2> QED BY <1>1, <2>1
            DEF CreateVersion, ChoiceInv, ChoiceTypeOK, RecommendedTogetherUnseen
  <1>2. ASSUME NEW v \in VersionIds, Unflag(v) PROVE ChoiceInv'
    BY <1>2, ForgetKeeps DEF Unflag, ChoiceInv, ChoiceTypeOK, EditOK
  <1>3. ASSUME NEW a \in Artifacts, Moderate(a) PROVE ChoiceInv'
    BY <1>3 DEF Moderate, ChoiceInv, ChoiceTypeOK, EditOK, RecommendedTogetherUnseen
  <1>4. ASSUME NEW a \in Artifacts, NEW flag \in BOOLEAN, NEW approved \in BOOLEAN,
               CommitStagedUpload(a, flag, approved)
        PROVE  ChoiceInv'
    <2>1. Home[a] \in VersionIds
      BY ChoiceAssumption
    <2>2. /\ versions' \subseteq VersionIds
          /\ published' \subseteq {x \in Artifacts : Home[x] \in versions'}
          /\ edit' \in [Editors -> Edit] /\ \A r \in Editors : EditOK(r)'
      BY <1>4, <2>1, InsertedKeeps
         DEF CommitStagedUpload, ChoiceInv, ChoiceTypeOK, EditOK
    <2>3. /\ flagged' \subseteq versions' /\ unseen' \subseteq SUBSET flagged'
          /\ RecommendedTogetherUnseen'
      <3>1. CASE flag /\ Home[a] \notin versions
        <4>1. flagged \subseteq VersionIds
          BY DEF ChoiceInv, ChoiceTypeOK
        <4> QED BY <1>4, <2>1, <3>1, <4>1, FlagKeeps DEF CommitStagedUpload
      <3>2. CASE ~(flag /\ Home[a] \notin versions)
        BY <1>4, <3>2
           DEF CommitStagedUpload, ChoiceInv, ChoiceTypeOK, RecommendedTogetherUnseen
      <3> QED BY <3>1, <3>2
    <2> QED BY <2>2, <2>3 DEF ChoiceInv, ChoiceTypeOK, EditOK
  <1> QED BY <1>1, <1>2, <1>3, <1>4

\* A version goes with its artifacts, its flag and the updates it was to get.
LEMMA DeleteVersionKeeps ==
    ASSUME ChoiceInv, NEW v \in VersionIds, DeleteAdminVersion(v) PROVE ChoiceInv'
  <1>1. /\ flagged' = flagged \ {v} /\ unseen' \subseteq SUBSET flagged'
        /\ RecommendedTogetherUnseen'
    BY ForgetKeeps DEF DeleteAdminVersion
  <1>2. ASSUME NEW e \in Edit, KnowsOf(e, versions)
        PROVE  Overtake(e, v) \in Edit /\ KnowsOf(Overtake(e, v), versions \ {v})
    BY <1>2 DEF Overtake, Edit, KnowsOf
  <1>3. /\ edit' = [r \in Editors |-> Overtake(edit[r], v)]
        /\ versions' = versions \ {v}
    BY DEF DeleteAdminVersion
  <1>4. edit' \in [Editors -> Edit] /\ \A r \in Editors : EditOK(r)'
    BY <1>2, <1>3 DEF ChoiceInv, ChoiceTypeOK, EditOK
  <1> QED BY <1>1, <1>4 DEF DeleteAdminVersion, ChoiceInv, ChoiceTypeOK

LEMMA DeleteArtifactKeeps ==
    ASSUME ChoiceInv, NEW a \in Artifacts, DeleteAdminArtifact(a) PROVE ChoiceInv'
  BY DEF DeleteAdminArtifact, ChoiceInv, ChoiceTypeOK, EditOK, RecommendedTogetherUnseen

-----------------------------------------------------------------------------
\* A review that was written has an author, and its words are that author's or
\* a member of staff's.
ReviewOK(v) ==
    /\ reviews[v].author = Nobody => reviews[v] = Unwritten
    /\ reviews[v].author # Nobody =>
         reviews[v].words \in Staff \cup {reviews[v].author}

\* A user has one review that is shown.
OneReviewEach ==
    \A v, w \in Reviews :
        Shown(v) /\ Shown(w) /\ reviews[v].author = reviews[w].author => v = w

\* A request that has found a review may still change it; one that sends a file
\* has one.
CallOK(g) ==
    /\ call[g].op \in {"update", "delete"} =>
         /\ call[g].user \in Users /\ call[g].review \in Reviews
         /\ reviews[call[g].review].author # Nobody
         /\ MayChange(call[g].user, call[g].review)
    /\ call[g].op = "transfer" => call[g].user \in Visitors /\ call[g].file \in Files

EngagementInv ==
    /\ EngagementTypeOK
    /\ \A v \in Reviews : ReviewOK(v)
    /\ OneReviewEach
    /\ \A g \in Guests : CallOK(g)
    /\ CountedOnce

LEMMA EngagementInitInv == EngagementInit => EngagementInv
  <1> SUFFICES ASSUME EngagementInit PROVE EngagementInv
    OBVIOUS
  <1>1. EngagementTypeOK
    BY DEF EngagementInit, EngagementTypeOK, Unwritten, NoCall, Review, Call
  <1>2. OneReviewEach /\ (\A v \in Reviews : ReviewOK(v)) /\ \A g \in Guests : CallOK(g)
    BY DEF EngagementInit, OneReviewEach, ReviewOK, CallOK, Unwritten, NoCall, Shown
  <1>3. CountedOnce
    BY DEF EngagementInit, CountedOnce, Counted, FilesOf
  <1> QED BY <1>1, <1>2, <1>3 DEF EngagementInv

\* Who ends a request leaves the others as they were.
LEMMA AnswerKeeps ==
    ASSUME EngagementInv, NEW g \in Guests, Answer(g), reviews' = reviews
    PROVE  call' \in [Guests -> Call] /\ \A h \in Guests : CallOK(h)'
  <1>1. NoCall \in Call
    BY DEF NoCall, Call
  <1> QED BY <1>1
          DEF Answer, EngagementInv, EngagementTypeOK, CallOK, MayChange, NoCall

\* A review that keeps its author keeps what others may do with it.
LEMMA ReviewChanges ==
    ASSUME EngagementInv, NEW v \in Reviews, NEW x \in Review,
           reviews' = [reviews EXCEPT ![v] = x],
           reviews[v].author \in {x.author, Nobody},
           x.author # Nobody, x.words \in Staff \cup {x.author},
           x.deleted \/ \A w \in Reviews :
                            Shown(w) /\ reviews[w].author = x.author => w = v
    PROVE  /\ reviews' \in [Reviews -> Review]
           /\ \A w \in Reviews : ReviewOK(w)'
           /\ OneReviewEach'
           /\ call' = call => \A h \in Guests : CallOK(h)'
  <1>1. reviews \in [Reviews -> Review]
    BY DEF EngagementInv, EngagementTypeOK
  <1>2. /\ reviews'[v] = x
        /\ \A w \in Reviews \ {v} : reviews'[w] = reviews[w]
    BY <1>1
  <1>3. \A w \in Reviews : ReviewOK(w)'
    BY <1>2 DEF EngagementInv, ReviewOK
  <1>4. OneReviewEach'
    BY <1>2 DEF EngagementInv, OneReviewEach, Shown
  <1>5. ASSUME call' = call, NEW h \in Guests PROVE CallOK(h)'
    BY <1>2, <1>5 DEF EngagementInv, CallOK, MayChange
  <1> QED BY <1>1, <1>3, <1>4, <1>5

LEMMA CreateReviewKeeps ==
    ASSUME EngagementInv, NEW u \in Users, CreateReview(u) PROVE EngagementInv'
  <1> DEFINE x == [author |-> u, deleted |-> FALSE, words |-> u]
  <1>1. PICK v \in Reviews :
          /\ \/ Shown(v) /\ reviews[v].author = u
             \/ /\ reviews[v] = Unwritten
                /\ ~\E w \in Reviews : Shown(w) /\ reviews[w].author = u
          /\ reviews' = [reviews EXCEPT ![v] = x]
    BY DEF CreateReview
  <1>2. x \in Review /\ x.author = u /\ x.words = u /\ u # Nobody
    BY EngagementAssumption DEF Review
  <1>3. reviews[v].author \in {u, Nobody}
    BY <1>1 DEF Unwritten
  <1>4. \A w \in Reviews : Shown(w) /\ reviews[w].author = u => w = v
    BY <1>1 DEF EngagementInv, OneReviewEach
  <1>5. UNCHANGED <<events, call, received>>
    BY DEF CreateReview
  <1> HIDE DEF x
  <1>6. /\ reviews' \in [Reviews -> Review] /\ OneReviewEach'
        /\ \A w \in Reviews : ReviewOK(w)'
        /\ \A h \in Guests : CallOK(h)'
    BY <1>1, <1>2, <1>3, <1>4, <1>5, ReviewChanges
  <1> QED BY <1>5, <1>6 DEF EngagementInv, EngagementTypeOK, CountedOnce, Counted

LEMMA FindReviewKeeps ==
    ASSUME EngagementInv, NEW g \in Guests, NEW u \in Users, NEW v \in Reviews,
           NEW op \in {"update", "delete"}, FindReview(g, u, v, op)
    PROVE  EngagementInv'
  <1> DEFINE c == [op |-> op, user |-> u, review |-> v, file |-> Nobody, whole |-> FALSE]
  <1>1. /\ call' = [call EXCEPT ![g] = c] /\ UNCHANGED <<reviews, events, received>>
        /\ reviews[v].author # Nobody /\ MayChange(u, v)
    BY DEF FindReview, Shown
  <1>2. c \in Call
    BY DEF Call
  <1>3. \A h \in Guests : CallOK(h)'
    BY <1>1 DEF EngagementInv, EngagementTypeOK, CallOK, MayChange
  <1> HIDE DEF c
  <1> QED BY <1>1, <1>2, <1>3
          DEF EngagementInv, EngagementTypeOK, ReviewOK, OneReviewEach, Shown, CountedOnce,
              Counted

\* A review that was found and is shown is changed as its author or staff wants.
LEMMA ChangeReviewKeeps ==
    ASSUME EngagementInv, NEW g \in Guests, UpdateReview(g) \/ DeleteReview(g)
    PROVE  EngagementInv'
  <1> DEFINE v == call[g].review
             u == call[g].user
             x == IF call[g].op = "update"
                  THEN [author |-> reviews[v].author, deleted |-> FALSE, words |-> u]
                  ELSE [author |-> reviews[v].author, deleted |-> TRUE,
                        words |-> reviews[v].words]
  <1>1. /\ call[g].op \in {"update", "delete"} /\ Shown(v) /\ Answer(g)
        /\ reviews' = [reviews EXCEPT ![v] = x] /\ UNCHANGED <<events, received>>
    BY DEF UpdateReview, DeleteReview
  <1>2. v \in Reviews /\ u \in Users /\ MayChange(u, v)
    BY <1>1 DEF EngagementInv, CallOK
  <1>3. reviews[v] \in Review /\ reviews \in [Reviews -> Review]
    BY <1>2 DEF EngagementInv, EngagementTypeOK
  <1>4. x \in Review /\ x.author = reviews[v].author /\ x.author # Nobody
    BY <1>1, <1>2, <1>3 DEF Review, Shown
  <1>5. x.words \in Staff \cup {x.author}
    <2>1. reviews[v].words \in Staff \cup {reviews[v].author}
      BY <1>1, <1>2 DEF EngagementInv, ReviewOK, Shown
    <2> QED BY <1>2, <2>1 DEF MayChange
  <1>6. \A w \in Reviews : Shown(w) /\ reviews[w].author = x.author => w = v
    BY <1>1, <1>2, <1>4 DEF EngagementInv, OneReviewEach
  <1>7. /\ reviews' \in [Reviews -> Review] /\ OneReviewEach'
        /\ \A w \in Reviews : ReviewOK(w)'
    <2> HIDE DEF x, v
    <2> QED BY <1>1, <1>2, <1>4, <1>5, <1>6, ReviewChanges
  <1>8. \A w \in Reviews : reviews'[w].author = reviews[w].author
    <2> HIDE DEF x
    <2> QED BY <1>1, <1>2, <1>3, <1>4
  <1>9. call' \in [Guests -> Call] /\ \A h \in Guests : CallOK(h)'
    <2>1. NoCall \in Call
      BY DEF NoCall, Call
    <2>2. call' \in [Guests -> Call]
      BY <1>1, <2>1 DEF Answer, EngagementInv, EngagementTypeOK
    <2>3. CallOK(g)'
      BY <1>1 DEF Answer, EngagementInv, EngagementTypeOK, CallOK, NoCall
    <2>4. ASSUME NEW h \in Guests, h # g PROVE CallOK(h)'
      <3>1. call'[h] = call[h]
        BY <1>1, <2>4 DEF Answer, EngagementInv, EngagementTypeOK
      <3> HIDE DEF v, u, x
      <3> QED BY <1>8, <3>1 DEF EngagementInv, CallOK, MayChange
    <2> QED BY <2>2, <2>3, <2>4
  <1> QED BY <1>1, <1>7, <1>9 DEF EngagementInv, EngagementTypeOK, CountedOnce, Counted

LEMMA OpenFileKeeps ==
    ASSUME EngagementInv, NEW g \in Guests, NEW x \in Visitors, NEW f \in Files,
           OpenFile(g, x, f)
    PROVE  EngagementInv'
  <1>1. PICK whole \in BOOLEAN :
          call' = [call EXCEPT ![g] = [op |-> "transfer", user |-> x, review |-> Nobody,
                                       file |-> f, whole |-> whole]]
    BY DEF OpenFile
  <1>2. call' \in [Guests -> Call]
    BY <1>1 DEF EngagementInv, EngagementTypeOK, Call
  <1>3. UNCHANGED <<reviews, events, received>>
    BY DEF OpenFile
  <1>4. \A h \in Guests : CallOK(h)'
    BY <1>1, <1>3 DEF EngagementInv, EngagementTypeOK, CallOK, MayChange
  <1> QED BY <1>2, <1>3, <1>4
          DEF EngagementInv, EngagementTypeOK, ReviewOK, OneReviewEach, Shown, CountedOnce,
              Counted

\* A download is counted for the first file of its version that a visitor gets.
LEMMA FirstIsCounted ==
    ASSUME EngagementInv, NEW f \in Files, NEW x \in Visitors,
           events' = IF Counted(VersionOf[f], x) # {} THEN events
                     ELSE [events EXCEPT ![<<f, x>>] = 1],
           received' = received \cup {<<VersionOf[f], x>>}
    PROVE  /\ events' \in [Files \X Visitors -> Nat]
           /\ received' \subseteq Releases \X Visitors
           /\ CountedOnce'
  <1> DEFINE v == VersionOf[f]
  <1>1. /\ events \in [Files \X Visitors -> Nat] /\ received \subseteq Releases \X Visitors
        /\ v \in Releases /\ f \in FilesOf(v)
    BY DEF EngagementInv, EngagementTypeOK, Releases, FilesOf
  <1>2. events' \in [Files \X Visitors -> Nat] /\ received' \subseteq Releases \X Visitors
    BY <1>1
  <1>3. ASSUME NEW w \in Releases, NEW y \in Visitors
        PROVE  IF <<w, y>> \in received'
               THEN \E h \in FilesOf(w) : Counted(w, y)' = {h} /\ events'[<<h, y>>] = 1
               ELSE Counted(w, y)' = {}
    <2>1. IF <<w, y>> \in received
          THEN \E h \in FilesOf(w) : Counted(w, y) = {h} /\ events[<<h, y>>] = 1
          ELSE Counted(w, y) = {}
      BY DEF EngagementInv, CountedOnce
    <2>2. CASE Counted(v, x) # {}
      <3>1. events' = events /\ Counted(w, y)' = Counted(w, y)
        BY <2>2 DEF Counted
      <3>2. <<v, x>> \in received
        BY <1>1, <2>2 DEF EngagementInv, CountedOnce
      <3> QED BY <2>1, <3>1, <3>2
    <2>3. CASE Counted(v, x) = {}
      <3>1. events' = [events EXCEPT ![<<f, x>>] = 1]
        BY <2>3
      <3>2. CASE w = v /\ y = x
        <4>1. \A h \in FilesOf(v) : events[<<h, x>>] = 0
          BY <1>1, <2>3 DEF Counted, FilesOf
        <4>2. \A h \in FilesOf(v) : events'[<<h, x>>] = IF h = f THEN 1 ELSE 0
          BY <1>1, <3>1, <4>1 DEF FilesOf
        <4>3. Counted(v, x)' = {f}
          BY <1>1, <4>2 DEF Counted
        <4> QED BY <1>1, <3>2, <4>2, <4>3
      <3>3. CASE ~(w = v /\ y = x)
        <4>1. \A h \in FilesOf(w) : events'[<<h, y>>] = events[<<h, y>>]
          BY <1>1, <3>1, <3>3 DEF FilesOf
        <4>2. Counted(w, y)' = Counted(w, y)
          BY <4>1 DEF Counted
        <4>3. <<w, y>> \in received' <=> <<w, y>> \in received
          BY <3>3
        <4> QED BY <2>1, <4>1, <4>2, <4>3
      <3> QED BY <3>2, <3>3
    <2> QED BY <2>2, <2>3
  <1> QED BY <1>2, <1>3 DEF CountedOnce

LEMMA RecordKeeps ==
    ASSUME EngagementInv, NEW g \in Guests, NEW approved,
           RecordCompletedDownload(g, approved)
    PROVE  EngagementInv'
  <1>1. /\ call[g].op = "transfer" /\ Answer(g) /\ reviews' = reviews
    BY DEF RecordCompletedDownload
  <1>2. PICK f \in Files, x \in Visitors :
          IF f \in approved
          THEN /\ events' = IF Counted(VersionOf[f], x) # {} THEN events
                            ELSE [events EXCEPT ![<<f, x>>] = 1]
               /\ received' = received \cup {<<VersionOf[f], x>>}
          ELSE UNCHANGED <<events, received>>
    BY DEF RecordCompletedDownload, EngagementInv, CallOK
  <1>3. /\ events' \in [Files \X Visitors -> Nat]
        /\ received' \subseteq Releases \X Visitors
        /\ CountedOnce'
    <2>1. CASE f \in approved
      BY <1>2, <2>1, FirstIsCounted
    <2>2. CASE f \notin approved
      BY <1>2, <2>2 DEF EngagementInv, EngagementTypeOK, CountedOnce, Counted
    <2> QED BY <2>1, <2>2
  <1> QED BY <1>1, <1>3, AnswerKeeps
          DEF EngagementInv, EngagementTypeOK, ReviewOK, OneReviewEach, Shown

LEMMA EndUncountedKeeps ==
    ASSUME EngagementInv, NEW g \in Guests, EndUncounted(g) PROVE EngagementInv'
  BY AnswerKeeps
     DEF EndUncounted, EngagementInv, EngagementTypeOK, ReviewOK, OneReviewEach, Shown,
         CountedOnce, Counted

\* The artifact that was counted takes the download with it.
LEMMA DropEventsKeeps ==
    ASSUME EngagementInv, NEW files, DropEvents(files), UNCHANGED <<reviews, call>>
    PROVE  EngagementInv'
  <1>1. /\ events \in [Files \X Visitors -> Nat]
        /\ received \subseteq Releases \X Visitors
    BY DEF EngagementInv, EngagementTypeOK
  <1>2. /\ events' = [e \in DOMAIN events |-> IF e[1] \in files THEN 0 ELSE events[e]]
        /\ received' = received \ Uncounted(files)
    BY DEF DropEvents
  <1>3. /\ events' \in [Files \X Visitors -> Nat]
        /\ \A f \in Files, x \in Visitors :
             events'[<<f, x>>] = IF f \in files THEN 0 ELSE events[<<f, x>>]
    BY <1>1, <1>2
  <1>4. ASSUME NEW w \in Releases, NEW y \in Visitors
        PROVE  <<w, y>> \in Uncounted(files) <=>
                 \E f \in FilesOf(w) : f \in files /\ events[<<f, y>>] > 0
    <2>1. ASSUME NEW f \in FilesOf(w), f \in files, events[<<f, y>>] > 0
          PROVE  <<w, y>> \in Uncounted(files)
      <3> DEFINE e == <<f, y>>
      <3>1. e \in {d \in DOMAIN events : d[1] \in files /\ events[d] > 0}
        BY <1>1, <2>1 DEF FilesOf
      <3>2. <<VersionOf[e[1]], e[2]>> = <<w, y>>
        BY DEF FilesOf
      <3> HIDE DEF e
      <3> QED BY <3>1, <3>2 DEF Uncounted
    <2>2. ASSUME <<w, y>> \in Uncounted(files)
          PROVE  \E f \in FilesOf(w) : f \in files /\ events[<<f, y>>] > 0
      <3>1. PICK e \in Files \X Visitors :
              e[1] \in files /\ events[e] > 0 /\ <<w, y>> = <<VersionOf[e[1]], e[2]>>
        BY <1>1, <2>2 DEF Uncounted
      <3>2. e[1] \in FilesOf(w) /\ e = <<e[1], y>>
        BY <3>1 DEF FilesOf
      <3> QED BY <3>1, <3>2
    <2> QED BY <2>1, <2>2
  <1>5. ASSUME NEW w \in Releases, NEW y \in Visitors
        PROVE  IF <<w, y>> \in received'
               THEN \E h \in FilesOf(w) : Counted(w, y)' = {h} /\ events'[<<h, y>>] = 1
               ELSE Counted(w, y)' = {}
    <2>1. IF <<w, y>> \in received
          THEN \E h \in FilesOf(w) : Counted(w, y) = {h} /\ events[<<h, y>>] = 1
          ELSE Counted(w, y) = {}
      BY DEF EngagementInv, CountedOnce
    <2>2. Counted(w, y)' = Counted(w, y) \ files
      BY <1>1, <1>3 DEF Counted, FilesOf
    <2>3. CASE <<w, y>> \notin received
      BY <1>2, <2>1, <2>2, <2>3
    <2>4. CASE <<w, y>> \in received
      <3>1. PICK h \in FilesOf(w) : Counted(w, y) = {h} /\ events[<<h, y>>] = 1
        BY <2>1, <2>4
      <3>2. <<w, y>> \in Uncounted(files) <=> h \in files
        <4>1. \A f \in FilesOf(w) : events[<<f, y>>] > 0 <=> f = h
          BY <3>1 DEF Counted
        <4> QED BY <1>4, <3>1, <4>1
      <3>3. h \in Files
        BY DEF FilesOf
      <3>4. CASE h \in files
        <4>1. <<w, y>> \notin received'
          BY <1>2, <3>2, <3>4
        <4>2. Counted(w, y)' = {}
          BY <2>2, <3>1, <3>4
        <4> QED BY <4>1, <4>2
      <3>5. CASE h \notin files
        <4>1. <<w, y>> \in received' /\ Counted(w, y)' = {h}
          BY <1>2, <2>2, <2>4, <3>1, <3>2, <3>5
        <4>2. events'[<<h, y>>] = 1
          BY <1>3, <3>1, <3>3, <3>5
        <4> QED BY <4>1, <4>2
      <3> QED BY <3>4, <3>5
    <2> QED BY <2>3, <2>4
  <1>6. CountedOnce'
    BY <1>5 DEF CountedOnce
  <1> QED BY <1>1, <1>2, <1>3, <1>6
          DEF EngagementInv, EngagementTypeOK, ReviewOK, OneReviewEach, Shown, CallOK,
              MayChange

-----------------------------------------------------------------------------
\* The rows of the artifacts that are published have different ids and are
\* finitely many.
LEMMA RowsOfPage ==
    ASSUME NEW offered \in SUBSET Artifacts, offered # {}, NEW marked
    PROVE  LET rows == {Row(a, marked) : a \in offered}
           IN  /\ rows \in SUBSET Rows /\ IsFiniteSet(rows) /\ rows # {}
               /\ \A x, y \in rows : x.id = y.id => x = y
  <1> DEFINE rows == {Row(a, marked) : a \in offered}
             f == [a \in offered |-> Row(a, marked)]
  <1>1. ASSUME NEW a \in offered
        PROVE  Row(a, marked) \in Rows /\ Row(a, marked).id = a
    <2>1. Number[Home[a]] \in Triple /\ Requires[a] \in Builds /\ a \in Nat
      BY ChoiceAssumption DEF Triple
    <2>2. (Home[a] \in marked) \in BOOLEAN
      OBVIOUS
    <2> QED BY <2>1, <2>2 DEF Row, Rows
  <1>2. IsFiniteSet(offered)
    BY ChoiceAssumption, FS_Subset
  <1>3. f \in Surjection(offered, rows)
    BY DEF Surjection
  <1>4. IsFiniteSet(rows)
    BY <1>2, <1>3, FS_Surjection
  <1> QED BY <1>1, <1>4

\* Every page is well served, whatever is published and flagged.
LEMMA EveryPageServes ==
    ASSUME NEW offered \in SUBSET Artifacts, offered # {}, NEW marked \in SUBSET VersionIds
    PROVE  [offered |-> offered, marked |-> marked] \in WellServed
  <1> DEFINE x == [offered |-> offered, marked |-> marked]
             rows == {Row(a, marked) : a \in offered}
             runs(t) == {y \in rows : Evaluate(t, y.build) # "blocked"}
             page(t) == ChooseArtifact(t, rows)
  <1>1. x \in Pages /\ x.offered = offered /\ x.marked = marked
    <2>1. \E o \in (SUBSET Artifacts) \ {{}}, m \in SUBSET VersionIds :
              x = [offered |-> o, marked |-> m]
      OBVIOUS
    <2> QED BY <2>1 DEF Pages
  <1>2. ASSUME NEW t \in Targets
        PROVE  /\ runs(t) # {} => page(t) \in runs(t)
               /\ \A y \in IF runs(t) = {} THEN rows ELSE runs(t) :
                      Compare(y.version, page(t).version) <= 0
    <2>1. /\ rows \in SUBSET Rows /\ IsFiniteSet(rows) /\ rows # {}
          /\ \A p, q \in rows : p.id = q.id => p = q
      BY RowsOfPage
    <2> HIDE DEF rows
    <2> QED BY <2>1, ChoosesBest
  <1> QED BY <1>1, <1>2 DEF WellServed

-----------------------------------------------------------------------------
PageInv == ChoiceInv /\ EngagementInv

\* Editors change the versions, visitors what they leave; a deletion changes
\* both.
LEMMA PageStep == PageInv /\ [PageNext]_pageVars => PageInv'
  <1> SUFFICES ASSUME PageInv, [PageNext]_pageVars PROVE PageInv'
    OBVIOUS
  <1>1. ChoiceInv /\ EngagementInv
    BY DEF PageInv
  <1>2. UNCHANGED engagementVars => EngagementInv'
    BY <1>1 DEF engagementVars, EngagementInv, EngagementTypeOK, ReviewOK, OneReviewEach,
                Shown, CallOK, MayChange, CountedOnce, Counted
  <1>3. UNCHANGED choiceVars => ChoiceInv'
    BY <1>1 DEF choiceVars, ChoiceInv, ChoiceTypeOK, EditOK, RecommendedTogetherUnseen
  <1>4. CASE EditVersions
    <2>1. UNCHANGED engagementVars
      BY <1>4 DEF EditVersions
    <2>2. ChoiceInv'
      BY <1>1, <1>4, EditStepKeeps, EditsKeep DEF EditVersions
    <2> QED BY <1>2, <2>1, <2>2 DEF PageInv
  <1>5. ASSUME NEW v \in VersionIds, DeleteVersion(v) PROVE PageInv'
    BY <1>1, <1>5, DeleteVersionKeeps, DropEventsKeeps DEF DeleteVersion, PageInv
  <1>6. ASSUME NEW a \in Artifacts, DeleteArtifact(a) PROVE PageInv'
    BY <1>1, <1>6, DeleteArtifactKeeps, DropEventsKeeps DEF DeleteArtifact, PageInv
  <1>7. CASE Visit
    <2>1. UNCHANGED choiceVars
      BY <1>7 DEF Visit
    <2>2. EngagementInv'
      BY <1>1, <1>7, CreateReviewKeeps, FindReviewKeeps, ChangeReviewKeeps, OpenFileKeeps,
         RecordKeeps, EndUncountedKeeps
         DEF Visit
    <2> QED BY <1>3, <2>1, <2>2 DEF PageInv
  <1>8. CASE UNCHANGED pageVars
    BY <1>2, <1>3, <1>8 DEF pageVars, PageInv
  <1> QED BY <1>4, <1>5, <1>6, <1>7, <1>8 DEF PageNext

\* The invariant of the page holds of every reachable state.
LEMMA PageInvariant == PageSpec => []PageInv
  <1>1. PageInit => PageInv
    BY ChoiceInitInv, EngagementInitInv DEF PageInit, PageInv
  <1> QED BY <1>1, PageStep, PTL DEF PageSpec

-----------------------------------------------------------------------------
\* Rows keep their types, and no published artifact outlives its version.
THEOREM PageTypeCorrect == PageSpec => []PageTypeOK
  <1>1. PageInv => PageTypeOK
    BY DEF PageInv, ChoiceInv, EngagementInv, PageTypeOK
  <1> QED BY <1>1, PageInvariant, PTL

\* The page offers the best build that runs, after any edits, to every target.
THEOREM OffersBest == PageSpec => []PageOffersBest
  <1>1. PageInv => PageOffersBest
    <2> SUFFICES ASSUME PageInv, published # {}
                 PROVE  [offered |-> published, marked |-> flagged] \in WellServed
      BY DEF PageOffersBest
    <2>1. published \in SUBSET Artifacts /\ flagged \in SUBSET VersionIds
      BY DEF PageInv, ChoiceInv, ChoiceTypeOK
    <2> QED BY <2>1, EveryPageServes
  <1> QED BY <1>1, PageInvariant, PTL

\* A catalog of a family shows whatever some release of it may run, and nothing
\* else but builds whose limits contradict each other, which edits can make.
THEOREM CatalogOfFamily == PageSpec => []SeriesCoversItsReleases
  <1>1. SeriesCoversItsReleases
    BY FamiliesAreTheirReleases DEF SeriesCoversItsReleases
  <1> QED BY <1>1, PTL

\* No build on the page has a gap between systems that it runs on.
THEOREM PageHasNoGap == PageSpec => []RunsOnAnInterval
  <1>1. RunsOnAnInterval
    BY BuildsRunOnIntervals DEF RunsOnAnInterval
  <1> QED BY <1>1, PTL

\* Two versions are recommended together only when one was inserted while the
\* request for the other was under way, or by an upload that clears no flag.
THEOREM SecondRecommendationUnseen == PageSpec => []RecommendedTogetherUnseen
  <1>1. PageInv => RecommendedTogetherUnseen
    BY DEF PageInv, ChoiceInv
  <1> QED BY <1>1, PageInvariant, PTL

\* A visitor's downloads of a version count once, retried and interleaved with
\* deletions as they may be.
THEOREM DownloadsCountOnce == PageSpec => []CountedOnce
  <1>1. PageInv => CountedOnce
    BY DEF PageInv, EngagementInv
  <1> QED BY <1>1, PageInvariant, PTL

\* A user never has two reviews on the page, and a review never holds the words
\* of anybody but its author and staff: a check that was made before the change
\* is still right when the change is made.
THEOREM ReviewsAreTheirAuthors ==
    PageSpec => [](/\ OneReviewEach
                   /\ \A v \in Reviews :
                        Shown(v) => reviews[v].words \in Staff \cup {reviews[v].author})
  <1>1. PageInv => /\ OneReviewEach
                   /\ \A v \in Reviews :
                        Shown(v) => reviews[v].words \in Staff \cup {reviews[v].author}
    BY DEF PageInv, EngagementInv, ReviewOK, Shown
  <1> QED BY <1>1, PageInvariant, PTL

\* No change that was under way reaches a review that has been deleted.
THEOREM DeletedReviewsStay == PageSpec => DeletedStaysDeleted
  <1>1. PageInv /\ [PageNext]_pageVars =>
          [\A v \in Reviews : reviews[v].deleted => reviews'[v] = reviews[v]]_engagementVars
    <2> SUFFICES ASSUME PageInv, [PageNext]_pageVars, NEW v \in Reviews,
                        reviews[v].deleted, reviews'[v] # reviews[v]
                 PROVE  FALSE
      OBVIOUS
    <2>1. reviews \in [Reviews -> Review]
      BY DEF PageInv, EngagementInv, EngagementTypeOK
    <2>2. \/ \E u \in Users : CreateReview(u)
          \/ \E g \in Guests : UpdateReview(g) \/ DeleteReview(g)
      BY DEF PageNext, pageVars, EditVersions, engagementVars, DeleteVersion,
             DeleteArtifact, Visit, FindReview, OpenFile, RecordCompletedDownload,
             EndUncounted
    <2>3. ASSUME NEW u \in Users, CreateReview(u) PROVE FALSE
      BY <2>1, <2>3 DEF CreateReview, Shown, Unwritten
    <2>4. ASSUME NEW g \in Guests, UpdateReview(g) \/ DeleteReview(g) PROVE FALSE
      <3>1. Shown(call[g].review)
        BY <2>4 DEF UpdateReview, DeleteReview
      <3>2. v # call[g].review
        BY <3>1 DEF Shown
      <3> QED BY <2>1, <2>4, <3>2 DEF UpdateReview, DeleteReview
    <2> QED BY <2>2, <2>3, <2>4
  <1> QED BY <1>1, PageInvariant, PTL DEF PageSpec, DeletedStaysDeleted
=============================================================================
