---------------------------- MODULE Compatibility ----------------------------
(***************************************************************************)
(* Which build runs on which Mac: Evaluate of                              *)
(* backend/internal/compatibility/engine.go with version.go and            *)
(* backend/internal/architecture, and the choice among the published       *)
(* builds of an application (chooseArtifact of catalog/store.go).          *)
(*                                                                         *)
(* A version is the triple ParseVersion makes of a text, Unreadable if it  *)
(* makes none, NoVersion for a limit that is not set.                      *)
(***************************************************************************)
EXTENDS Integers, FiniteSets

CONSTANTS
    Systems,    \* releases of Mac OS X, as triples
    Builds,     \* what builds may require
    Unreadable,
    NoVersion

Architectures == {"i386", "i686", "x86_64", "ppc", "ppc-g3", "ppc-g4", "ppc-g5",
                  "ppc64"}

Limit3 == Systems \cup {Unreadable, NoVersion}

Build == [min : Limit3, maxSupported : Limit3, maxTested : Limit3,
          hardBlock : BOOLEAN, archs : SUBSET Architectures,
          rosetta : BOOLEAN, java : BOOLEAN]

ASSUME CompatibilityAssumption ==
    /\ Systems \subseteq Nat \X Nat \X Nat
    /\ Unreadable \notin Systems /\ NoVersion \notin Systems
    /\ Builds \subseteq Build

-----------------------------------------------------------------------------
\* Version.Compare: the first component that differs decides.
Compare(v, w) ==
    IF v = w THEN 0
    ELSE LET i == CHOOSE i \in 1..3 : v[i] # w[i] /\ \A j \in 1..(i - 1) : v[j] = w[j]
         IN  IF v[i] < w[i] THEN -1 ELSE 1

Family(v) == <<v[1], v[2], 0>>

\* Mutant of CompareTargetOS: a series is taken for its first release.
CompareExactly(os, limit, series) == Compare(os, limit)

\* A series is compared by major and minor version only.
CompareTargetOS(os, limit, series) ==
    IF series THEN Compare(Family(os), Family(limit)) ELSE Compare(os, limit)

Above(t, limit) == /\ limit \notin {Unreadable, NoVersion}
                   /\ CompareTargetOS(t.os, limit, t.series) > 0
Below(t, limit) == /\ limit \notin {Unreadable, NoVersion}
                   /\ CompareTargetOS(t.os, limit, t.series) < 0

\* Mutant of Supports32BitApps: the major version is forgotten.
Supports32ByMinor(os) == os[2] < 15

Supports32BitApps(os) == Compare(os, <<10, 15, 0>>) < 0

\* The architectures whose code a processor runs.
Accepted(arch, supports32) ==
    CASE arch \in {"i386", "i686"} -> {"i386", "i686"}
      [] arch = "x86_64" -> {"x86_64"} \cup (IF supports32 THEN {"i386", "i686"} ELSE {})
      [] arch = "ppc-g3" -> {"ppc", "ppc-g3"}
      [] arch = "ppc-g4" -> {"ppc", "ppc-g3", "ppc-g4"}
      [] arch = "ppc-g5" -> {"ppc", "ppc-g3", "ppc-g4", "ppc-g5", "ppc64"}
      [] arch \in {"ppc", "ppc64"} -> {arch}

\* The reasons of Evaluate that block a build; Unknown when a limit that
\* decides, or the architecture, cannot be told.
Unknown(b) == Unreadable \in {b.min, b.maxSupported} \/ b.archs = {}
TooNew(t, b) == Above(t, b.maxSupported) /\ b.hardBlock
Mismatch(t, b) == Accepted(t.arch, Supports32BitApps(t.os)) \cap b.archs = {}

Blocked(t, b) ==
    \/ Unknown(b)
    \/ Below(t, b.min)
    \/ TooNew(t, b)
    \/ Mismatch(t, b)
    \/ b.rosetta

Evaluate(t, b) ==
    IF Blocked(t, b) THEN "blocked"
    ELSE IF Above(t, b.maxTested) THEN "untested"
    ELSE IF b.java THEN "probably_compatible" ELSE "compatible"

-----------------------------------------------------------------------------
\* Mutant of Before: the flag goes before the version.
BeforeRecommendedFirst(x, y) ==
    IF x.recommended # y.recommended THEN x.recommended
    ELSE IF Compare(x.version, y.version) # 0 THEN Compare(x.version, y.version) > 0
    ELSE x.id < y.id

\* Rows are sorted by version, then by the recommended flag, then by id.
Before(x, y) ==
    IF Compare(x.version, y.version) # 0 THEN Compare(x.version, y.version) > 0
    ELSE IF x.recommended # y.recommended THEN x.recommended
    ELSE x.id < y.id

\* The first row that is not blocked, else the first; of at least one row.
ChooseArtifact(t, rows) ==
    LET usable == {x \in rows : Evaluate(t, x.build) # "blocked"}
        eligible == IF usable = {} THEN rows ELSE usable
    IN  CHOOSE x \in eligible : \A y \in eligible : y # x => Before(x, y)

-----------------------------------------------------------------------------
Exact(os, arch) == [os |-> os, arch |-> arch, series |-> FALSE]
Series(os, arch) == [os |-> Family(os), arch |-> arch, series |-> TRUE]

\* Limits inside one family that no release is between.  Each request is
\* checked by itself, and an update that leaves a limit out keeps the old one.
Contradictory(b, family) ==
    /\ b.hardBlock /\ {b.min, b.maxSupported} \subseteq Systems
    /\ Family(b.min) = family /\ Family(b.maxSupported) = family
    /\ Compare(b.min, b.maxSupported) > 0

\* For any build: what runs on a release is shown to its family, and what is
\* shown to a family and runs on no release of it has contradictory limits.
SeriesAgree ==
    \A b \in Builds, arch \in Architectures, os \in Systems :
        LET shown == ~Blocked(Series(os, arch), b)
            runs == \E release \in Systems : /\ Family(release) = Family(os)
                                            /\ ~Blocked(Exact(release, arch), b)
        IN  /\ runs => shown
            /\ shown => runs \/ Contradictory(b, Family(os))

\* The systems a build runs on have no gap.
NoGap ==
    \A b \in Builds, arch \in Architectures, low, os, high \in Systems :
        /\ Compare(low, os) <= 0 /\ Compare(os, high) <= 0
        /\ ~Blocked(Exact(low, arch), b) /\ ~Blocked(Exact(high, arch), b)
        => ~Blocked(Exact(os, arch), b)
=============================================================================
