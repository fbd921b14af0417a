-------------------------- MODULE SessionRevocation --------------------------
(***************************************************************************)
(* What both kinds of session promise about the credential they were       *)
(* opened with, a web session about the password of its account and a      *)
(* legacy session about its legacy password: replacing the credential ends *)
(* every session but the one that replaced it, an ended session never      *)
(* works again, and the only session of a replaced credential is one whose *)
(* opening had already begun when the credential was replaced.             *)
(*                                                                         *)
(* A replacement may take two steps.  It then ends the sessions that were  *)
(* open at the first and leaves those opened since, which become sessions  *)
(* of a replaced credential at the second.                                 *)
(*                                                                         *)
(* AccountSecurity and LegacyAccess implement this specification.          *)
(***************************************************************************)
CONSTANTS
    Sessions,
    Clients     \* who may be opening a session

VARIABLES
    standing,   \* live sessions of the credential in force
    racing,     \* live sessions of a credential that has been replaced
    spent,      \* sessions that have ended
    pending,    \* clients that have proved the credential in force
    overtaken,  \* clients that have proved one that was replaced since
    replacing,  \* whether a replacement is between its two steps
    doomed      \* the live sessions it will end

replacement == <<replacing, doomed>>
vars == <<standing, racing, spent, pending, overtaken, replacement>>

-----------------------------------------------------------------------------
Live == standing \cup racing
Opening == pending \cup overtaken

Init ==
    /\ standing = {}
    /\ racing = {}
    /\ spent = {}
    /\ pending = {}
    /\ overtaken = {}
    /\ replacing = FALSE
    /\ doomed = {}

Begin(c) ==
    /\ c \notin Opening
    /\ pending' = pending \cup {c}
    /\ UNCHANGED <<standing, racing, spent, overtaken, replacement>>

Quit(c) ==
    /\ c \in Opening
    /\ pending' = pending \ {c}
    /\ overtaken' = overtaken \ {c}
    /\ UNCHANGED <<standing, racing, spent, replacement>>

Unused(s) == s \notin Live \cup spent

Open(c, s) ==
    /\ Unused(s)
    /\ c \in pending
    /\ standing' = standing \cup {s}
    /\ pending' = pending \ {c}
    /\ UNCHANGED <<racing, spent, overtaken, replacement>>

OpenLate(c, s) ==
    /\ Unused(s)
    /\ c \in overtaken
    /\ racing' = racing \cup {s}
    /\ overtaken' = overtaken \ {c}
    /\ UNCHANGED <<standing, spent, pending, replacement>>

\* The session that comes with the account itself.
OpenFirst(s) ==
    /\ Unused(s)
    /\ standing' = standing \cup {s}
    /\ UNCHANGED <<racing, spent, pending, overtaken, replacement>>

End(ended) ==
    /\ standing' = standing \ ended
    /\ racing' = racing \ ended
    /\ spent' = spent \cup ended
    /\ doomed' = doomed \ ended
    /\ UNCHANGED <<pending, overtaken, replacing>>

\* Every live session ends but that of the caller, who has just proved the
\* credential in force; not while a replacement is under way.
EndAllBut(keep) ==
    /\ ~replacing
    /\ standing' = keep
    /\ racing' = {}
    /\ spent' = spent \cup (Live \ keep)
    /\ UNCHANGED replacement

EndOthers(keep) ==
    /\ EndAllBut(keep)
    /\ UNCHANGED <<pending, overtaken>>

Replace(keep) ==
    /\ EndAllBut(keep)
    /\ pending' = {}
    /\ overtaken' = Opening

BeginReplace ==
    /\ ~replacing
    /\ replacing' = TRUE
    /\ doomed' = Live
    /\ UNCHANGED <<standing, racing, spent, pending, overtaken>>

FinishReplace ==
    /\ replacing
    /\ standing' = {}
    /\ racing' = Live \ doomed
    /\ spent' = spent \cup doomed
    /\ pending' = {}
    /\ overtaken' = Opening
    /\ replacing' = FALSE
    /\ doomed' = {}

AbandonReplace ==
    /\ replacing
    /\ replacing' = FALSE
    /\ doomed' = {}
    /\ UNCHANGED <<standing, racing, spent, pending, overtaken>>

\* At most one session is kept.
Kept == {{}} \cup {{s} : s \in Live}

Next ==
    \/ \E c \in Clients : Begin(c) \/ Quit(c)
    \/ \E c \in Clients, s \in Sessions : Open(c, s) \/ OpenLate(c, s)
    \/ \E s \in Sessions : OpenFirst(s)
    \/ \E ended \in SUBSET Sessions : End(ended)
    \/ \E keep \in Kept : EndOthers(keep) \/ Replace(keep)
    \/ BeginReplace \/ FinishReplace \/ AbandonReplace

Spec == Init /\ [][Next]_vars
=============================================================================
