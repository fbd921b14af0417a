---------------------------- MODULE VersionChoice ----------------------------
(***************************************************************************)
(* The versions and published builds of one application, and the build its *)
(* page offers (backend/internal/account/store_catalog_admin.go,           *)
(* store_contribution.go; catalog/store.go).                               *)
(*                                                                         *)
(* A request that makes a version the recommended one clears the flag of   *)
(* the versions its UPDATE can see, which locks them, and then inserts or  *)
(* updates its own.  CommitStagedUpload inserts a version with the flag    *)
(* and clears nothing.                                                     *)
(***************************************************************************)
EXTENDS Compatibility

CONSTANTS
    VersionIds, \* rows of app_versions
    Artifacts,  \* ids of artifacts
    Number,     \* the version text of each row, parsed: a major of -1 for
                \* texts that are not versions, which sort below all others
    Home,       \* the version of each artifact
    Requires,   \* the build of each artifact
    Editors,    \* requests that edit versions
    None

ASSUME ChoiceAssumption ==
    /\ IsFiniteSet(Artifacts) /\ Artifacts \subseteq Nat
    /\ Number \in [VersionIds -> (Nat \cup {-1}) \X Nat \X Nat]
    /\ Home \in [Artifacts -> VersionIds]
    /\ Requires \in [Artifacts -> Builds]
    /\ None \notin VersionIds

VARIABLES
    versions,   \* rows there are
    flagged,    \* those with is_recommended
    published,  \* approved artifacts
    edit,       \* requests that make a version the recommended one
    unseen      \* history: pairs of flagged versions, one of which was inserted
                \* after the request that flagged the other had looked, or was
                \* flagged by an upload

choiceVars == <<versions, flagged, published, edit, unseen>>

-----------------------------------------------------------------------------
Edit == [step : {"idle", "clear", "write"}, new : BOOLEAN,
         version : VersionIds \cup {None},
         seen : SUBSET VersionIds,    \* rows that the UPDATE has in its snapshot
         late : SUBSET VersionIds]    \* history: rows inserted since
NoEdit == [step |-> "idle", new |-> FALSE, version |-> None, seen |-> {}, late |-> {}]

ChoiceTypeOK ==
    /\ versions \subseteq VersionIds /\ flagged \subseteq versions
    /\ published \subseteq {a \in Artifacts : Home[a] \in versions}
    /\ edit \in [Editors -> Edit]
    /\ unseen \subseteq SUBSET flagged

ChoiceInit ==
    /\ versions = {} /\ flagged = {} /\ published = {}
    /\ edit = [r \in Editors |-> NoEdit]
    /\ unseen = {}

\* Rows an open transaction has updated.
Locked(v) == \E r \in Editors : edit[r].step = "write" /\ v \in edit[r].seen

\* v is flagged, the flags of cleared are taken away, and late are those that
\* the request which does so may not know of.
Flag(v, cleared, late) ==
    /\ flagged' = (flagged \ cleared) \cup {v}
    /\ unseen' = {p \in unseen : p \subseteq flagged'}
                 \cup {{v, w} : w \in (flagged' \cap late) \ {v}}

\* The requests when v has been inserted, if it has.
Inserted(v) ==
    [r \in Editors |-> IF edit[r].step = "idle" \/ v \in versions THEN edit[r]
                       ELSE [edit[r] EXCEPT !.late = @ \cup {v}]]

Forget(gone) ==
    /\ flagged' = flagged \ gone
    /\ unseen' = {p \in unseen : p \cap gone = {}}

-----------------------------------------------------------------------------
Look(r, v, seen) ==
    /\ edit[r].step = "idle"
    /\ edit' = [edit EXCEPT ![r] = [step |-> "clear", new |-> v \notin versions,
                                    version |-> v, seen |-> seen, late |-> {}]]
    /\ UNCHANGED <<versions, flagged, published, unseen>>

\* Mutant of BeginEdit: the UPDATE takes only rows that have the flag.
BeginEditOfFlagged(r, v) == Look(r, v, flagged)

\* CreateAdminVersion and UpdateAdminVersion with is_recommended: the
\* snapshot of UPDATE ... SET is_recommended = false ...
BeginEdit(r, v) == Look(r, v, versions)

\* ... which waits for the rows that others have updated ...
ClearFlags(r) ==
    /\ edit[r].step = "clear"
    /\ \A v \in edit[r].seen : ~Locked(v)
    /\ edit' = [edit EXCEPT ![r].step = "write"]
    /\ UNCHANGED <<versions, flagged, published, unseen>>

\* ... and the INSERT or UPDATE of the version itself, and COMMIT.
WriteVersion(r) ==
    /\ edit[r].step = "write"
    /\ edit[r].new <=> edit[r].version \notin versions
    /\ versions' = versions \cup {edit[r].version}
    /\ Flag(edit[r].version, edit[r].seen, edit[r].late)
    /\ edit' = [Inserted(edit[r].version) EXCEPT ![r] = NoEdit]
    /\ UNCHANGED published

\* The version is there already, or no longer; or the request is cancelled.
AbandonEdit(r) ==
    /\ edit[r].step # "idle"
    /\ edit' = [edit EXCEPT ![r] = NoEdit]
    /\ UNCHANGED <<versions, flagged, published, unseen>>

\* CreateAdminVersion without the flag.
CreateVersion(v) ==
    /\ v \notin versions
    /\ versions' = versions \cup {v}
    /\ edit' = Inserted(v)
    /\ UNCHANGED <<flagged, published, unseen>>

\* UpdateAdminVersion with is_recommended = false.
Unflag(v) ==
    /\ v \in flagged /\ ~Locked(v)
    /\ Forget({v})
    /\ UNCHANGED <<versions, published, edit>>

\* CommitStagedUpload: the version of the file, if it is new with the flag
\* asked for, and the artifact, approved at once when staff commits it.
CommitStagedUpload(a, flag, approved) ==
    /\ versions' = versions \cup {Home[a]}
    /\ IF flag /\ Home[a] \notin versions THEN Flag(Home[a], {}, VersionIds)
       ELSE UNCHANGED <<flagged, unseen>>
    /\ published' = IF approved THEN published \cup {a} ELSE published
    /\ edit' = Inserted(Home[a])

\* Moderate and AdminUpdateArtifact: approved, or no longer.
Moderate(a) ==
    /\ Home[a] \in versions
    /\ \/ published' = published \cup {a}
       \/ published' = published \ {a}
    /\ UNCHANGED <<versions, flagged, edit, unseen>>

DeleteAdminArtifact(a) ==
    /\ Home[a] \in versions
    /\ published' = published \ {a}
    /\ UNCHANGED <<versions, flagged, edit, unseen>>

\* A request that was to update the version finds no row any more.
Overtake(e, v) ==
    [e EXCEPT !.seen = @ \ {v}, !.late = @ \ {v},
              !.version = IF ~e.new /\ @ = v THEN None ELSE @]

\* Mutant of DeleteAdminVersion: its artifacts stay.
DeleteVersionRow(v) ==
    /\ v \in versions /\ ~Locked(v)
    /\ versions' = versions \ {v}
    /\ Forget({v})
    /\ edit' = [r \in Editors |-> Overtake(edit[r], v)]
    /\ UNCHANGED published

\* With its artifacts, by the foreign keys.
DeleteAdminVersion(v) ==
    /\ v \in versions /\ ~Locked(v)
    /\ versions' = versions \ {v}
    /\ published' = {a \in published : Home[a] # v}
    /\ Forget({v})
    /\ edit' = [r \in Editors |-> Overtake(edit[r], v)]

EditStep(r) ==
    \/ \E v \in VersionIds : BeginEdit(r, v)
    \/ ClearFlags(r) \/ WriteVersion(r) \/ AbandonEdit(r)

-----------------------------------------------------------------------------
Targets == {Exact(os, arch) : os \in Systems, arch \in Architectures}

\* artifactsForApp, when the versions marked are flagged.
Row(a, marked) == [id |-> a, version |-> Number[Home[a]],
                   recommended |-> Home[a] \in marked, build |-> Requires[a]]

Pages == {[offered |-> o, marked |-> m] :
              o \in (SUBSET Artifacts) \ {{}}, m \in SUBSET VersionIds}

\* Those of which every visitor is offered a build that runs, if there is one,
\* and none of a lower version than another that runs; if none runs, the
\* highest version, with the reasons.
WellServed ==
    {x \in Pages : \A t \in Targets :
        LET rows == {Row(a, x.marked) : a \in x.offered}
            runs == {y \in rows : Evaluate(t, y.build) # "blocked"}
            page == ChooseArtifact(t, rows)
        IN  /\ runs # {} => page \in runs
            /\ \A y \in IF runs = {} THEN rows ELSE runs :
                   Compare(y.version, page.version) <= 0}

\* Whatever editors have published and flagged by now, the page offers every
\* visitor the highest version with a build that runs on the visitor's Mac;
\* the flag decides between equal versions only.  (PROJECT_SPEC 11.7.)
PageOffersBest ==
    published # {} => [offered |-> published, marked |-> flagged] \in WellServed

\* A catalog asked for a family (10.6.x) shows every build that some release of
\* it may run, although a family is judged by one evaluation that ignores patch
\* levels.  Editors may give a published artifact any requirements; the only
\* other builds the family is shown are those whose limits contradict each other.
SeriesCoversItsReleases == published # {} => SeriesAgree

\* A published build that runs on two systems runs on all between them: no limit
\* that editors may give it, and no end of 32 bit support, leaves a gap.
RunsOnAnInterval == published # {} => NoGap

\* Two versions are recommended together only when one of them was inserted
\* while the request that recommended the other was under way, or recommended
\* by an upload: two requests that recommend versions there are never leave
\* both recommended, in whichever order they look, wait and commit.
RecommendedTogetherUnseen ==
    \A v, w \in flagged : v # w => {v, w} \in unseen
=============================================================================
