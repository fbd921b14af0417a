------------------------------ MODULE Engagement ------------------------------
(***************************************************************************)
(* What visitors leave on the page of one application: reviews             *)
(* (backend/internal/account/store_reviews.go) and counted downloads       *)
(* (catalog/telemetry.go, api/file_handlers.go).                           *)
(*                                                                         *)
(* None of these operations is a transaction: a request looks a review up  *)
(* and changes it by a later statement, or looks an artifact up, sends the *)
(* file and counts the download after that.                                *)
(***************************************************************************)
EXTENDS Naturals

CONSTANTS
    Users,      \* accounts
    Staff,      \* those that are moderators or administrators
    Visitors,   \* who downloads: accounts, and addresses of all others
    Reviews,    \* ids of reviews, used once
    Files,      \* artifacts whose file is stored here
    VersionOf,  \* the version each belongs to
    Guests,     \* requests of visitors
    Nobody

ASSUME EngagementAssumption ==
    /\ Staff \subseteq Users /\ Nobody \notin Users
    /\ Files \subseteq DOMAIN VersionOf

VARIABLES
    reviews,    \* rows of reviews
    events,     \* download_events: how many of each file and visitor
    call,       \* requests in flight
    received    \* history: versions and visitors a whole file of them was sent
                \* to, unless that has been deleted

engagementVars == <<reviews, events, call, received>>

-----------------------------------------------------------------------------
Releases == {VersionOf[f] : f \in Files}
FilesOf(v) == {f \in Files : VersionOf[f] = v}

\* words: who wrote the present text.
Review == [author : Users \cup {Nobody}, deleted : BOOLEAN,
           words : Users \cup {Nobody}]
Unwritten == [author |-> Nobody, deleted |-> FALSE, words |-> Nobody]

\* whole: a GET without Range.
Call == [op : {"idle", "update", "delete", "transfer"},
         user : Users \cup Visitors \cup {Nobody},
         review : Reviews \cup {Nobody}, file : Files \cup {Nobody}, whole : BOOLEAN]
NoCall == [op |-> "idle", user |-> Nobody, review |-> Nobody, file |-> Nobody,
           whole |-> FALSE]

Shown(v) == reviews[v].author # Nobody /\ ~reviews[v].deleted

EngagementTypeOK ==
    /\ reviews \in [Reviews -> Review]
    /\ events \in [Files \X Visitors -> Nat]
    /\ call \in [Guests -> Call]
    /\ received \subseteq Releases \X Visitors

EngagementInit ==
    /\ reviews = [v \in Reviews |-> Unwritten]
    /\ events = [e \in Files \X Visitors |-> 0]
    /\ call = [g \in Guests |-> NoCall]
    /\ received = {}

Answer(g) == call' = [call EXCEPT ![g] = NoCall]

-----------------------------------------------------------------------------
\* INSERT ... ON CONFLICT (app_id, user_id) WHERE deleted_at IS NULL DO UPDATE.
CreateReview(u) ==
    /\ \E v \in Reviews :
         /\ \/ Shown(v) /\ reviews[v].author = u
            \/ /\ reviews[v] = Unwritten
               /\ ~\E w \in Reviews : Shown(w) /\ reviews[w].author = u
         /\ reviews' = [reviews EXCEPT ![v] =
                          [author |-> u, deleted |-> FALSE, words |-> u]]
    /\ UNCHANGED <<events, call, received>>

\* canChangeReview
MayChange(u, v) == u \in Staff \/ reviews[v].author = u

\* reviewIDByRef, and then canChangeReview.
FindReview(g, u, v, op) ==
    /\ call[g].op = "idle"
    /\ Shown(v)
    /\ MayChange(u, v)
    /\ call' = [call EXCEPT ![g] = [op |-> op, user |-> u, review |-> v,
                                    file |-> Nobody, whole |-> FALSE]]
    /\ UNCHANGED <<reviews, events, received>>

\* Mutant of UpdateReview: by id alone.
UpdateDeletedToo(g) ==
    /\ call[g].op = "update"
    /\ reviews' = [reviews EXCEPT ![call[g].review] =
                     [author |-> @.author, deleted |-> @.deleted, words |-> call[g].user]]
    /\ Answer(g)
    /\ UNCHANGED <<events, received>>

\* UPDATE reviews ... WHERE id = $1 AND deleted_at IS NULL
UpdateReview(g) ==
    /\ call[g].op = "update"
    /\ Shown(call[g].review)
    /\ reviews' = [reviews EXCEPT ![call[g].review] =
                     [author |-> @.author, deleted |-> FALSE, words |-> call[g].user]]
    /\ Answer(g)
    /\ UNCHANGED <<events, received>>

DeleteReview(g) ==
    /\ call[g].op = "delete"
    /\ Shown(call[g].review)
    /\ reviews' = [reviews EXCEPT ![call[g].review] =
                     [author |-> @.author, deleted |-> TRUE, words |-> @.words]]
    /\ Answer(g)
    /\ UNCHANGED <<events, received>>

-----------------------------------------------------------------------------
\* artifactFile: the file of an approved artifact is found and opened.
OpenFile(g, x, f) ==
    /\ call[g].op = "idle"
    /\ \E whole \in BOOLEAN :
         call' = [call EXCEPT ![g] = [op |-> "transfer", user |-> x, review |-> Nobody,
                                      file |-> f, whole |-> whole]]
    /\ UNCHANGED <<reviews, events, received>>

\* The artifacts of a version that have an event of this visitor.
Counted(v, x) == {f \in FilesOf(v) : events[<<f, x>>] > 0}

\* Mutant of RecordCompletedDownload: without ON CONFLICT DO NOTHING.
RecordAgain(g, approved) ==
    /\ call[g].op = "transfer" /\ call[g].whole
    /\ \E f \in {call[g].file}, x \in {call[g].user} :
         IF f \in approved
         THEN /\ events' = [events EXCEPT ![<<f, x>>] = @ + 1]
              /\ received' = received \cup {<<VersionOf[f], x>>}
         ELSE UNCHANGED <<events, received>>
    /\ Answer(g)
    /\ UNCHANGED reviews

\* The whole file is sent; the download is counted if the artifact is approved
\* still and the visitor has no event yet of this file's version.
RecordCompletedDownload(g, approved) ==
    /\ call[g].op = "transfer" /\ call[g].whole
    /\ \E f \in {call[g].file}, x \in {call[g].user} :
         IF f \in approved
         THEN /\ events' = IF Counted(VersionOf[f], x) # {} THEN events
                           ELSE [events EXCEPT ![<<f, x>>] = 1]
              /\ received' = received \cup {<<VersionOf[f], x>>}
         ELSE UNCHANGED <<events, received>>
    /\ Answer(g)
    /\ UNCHANGED reviews

\* The client breaks off, asked for a range only, or gets an error.
EndUncounted(g) ==
    /\ call[g].op # "idle"
    /\ Answer(g)
    /\ UNCHANGED <<reviews, events, received>>

\* The downloads whose event names one of these files.
Uncounted(files) == {<<VersionOf[e[1]], e[2]>> :
                        e \in {d \in DOMAIN events : d[1] \in files /\ events[d] > 0}}

\* ON DELETE CASCADE of artifacts, and so of their versions.  The file that was
\* counted takes the download with it; another of its version counts anew.
DropEvents(files) ==
    /\ events' = [e \in DOMAIN events |-> IF e[1] \in files THEN 0 ELSE events[e]]
    /\ received' = received \ Uncounted(files)

-----------------------------------------------------------------------------
\* A deleted review stays as it was: a change that found it before its deletion
\* and is made after neither brings it back nor rewrites it.
DeletedStaysDeleted ==
    [][\A v \in Reviews : reviews[v].deleted => reviews'[v] = reviews[v]]_engagementVars

\* However often a download is retried or asked for in pieces, it counts once
\* for each visitor and version, and not before a whole file was sent.
CountedOnce ==
    \A v \in Releases, x \in Visitors :
        IF <<v, x>> \in received
        THEN \E f \in FilesOf(v) : Counted(v, x) = {f} /\ events[<<f, x>>] = 1
        ELSE Counted(v, x) = {}
===============================================================================
