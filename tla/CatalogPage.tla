----------------------------- MODULE CatalogPage -----------------------------
(***************************************************************************)
(* The page of one application: the versions its staff edits and the build *)
(* it offers (VersionChoice), with the reviews and downloads of visitors   *)
(* (Engagement).  A download is counted only while its artifact is         *)
(* published, and goes with its artifact.                                  *)
(***************************************************************************)
EXTENDS VersionChoice, Engagement

ASSUME PageAssumption ==
    /\ Files \subseteq Artifacts /\ VersionOf = Home
    /\ Guests = Editors

pageVars == <<choiceVars, engagementVars>>

-----------------------------------------------------------------------------
PageInit == ChoiceInit /\ EngagementInit

\* A request is to one handler.
Editing(r) == edit[r].step # "idle"
Visiting(r) == call[r].op # "idle"

EditVersions ==
    /\ \/ \E r \in Editors : ~Visiting(r) /\ EditStep(r)
       \/ \E v \in VersionIds : CreateVersion(v) \/ Unflag(v)
       \/ \E a \in Artifacts : \/ Moderate(a)
                               \/ \E flag, approved \in BOOLEAN :
                                    CommitStagedUpload(a, flag, approved)
    /\ UNCHANGED engagementVars

DeleteVersion(v) ==
    /\ DeleteAdminVersion(v)
    /\ DropEvents(FilesOf(v))
    /\ UNCHANGED <<reviews, call>>

DeleteArtifact(a) ==
    /\ DeleteAdminArtifact(a)
    /\ DropEvents({a})
    /\ UNCHANGED <<reviews, call>>

Visit ==
    /\ \/ \E u \in Users : CreateReview(u)
       \/ \E g \in {r \in Guests : ~Editing(r)} :
            \/ \E u \in Users, v \in Reviews, op \in {"update", "delete"} :
                 FindReview(g, u, v, op)
            \/ UpdateReview(g) \/ DeleteReview(g)
            \/ \E x \in Visitors, f \in published \cap Files : OpenFile(g, x, f)
            \/ RecordCompletedDownload(g, published)
            \/ EndUncounted(g)
    /\ UNCHANGED choiceVars

PageNext ==
    \/ EditVersions
    \/ \E v \in VersionIds : DeleteVersion(v)
    \/ \E a \in Artifacts : DeleteArtifact(a)
    \/ Visit

PageSpec == PageInit /\ [][PageNext]_pageVars

\* The rows of the page keep their shape; no artifact outlives its version.
PageTypeOK == ChoiceTypeOK /\ EngagementTypeOK
=============================================================================
