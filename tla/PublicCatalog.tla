---------------------------- MODULE PublicCatalog ----------------------------
(***************************************************************************)
(* What the catalog promises about the applications and artifacts it       *)
(* shows: an entry is shown or hidden only by a client that a moderator's  *)
(* roles let in, and each time it is let in a client makes one change at   *)
(* most, however long it takes and whatever becomes of the roles; an       *)
(* artifact is entered under an application that is there and goes with    *)
(* it, in one step; what has been removed never comes back.                *)
(*                                                                         *)
(* Moderation implements this specification.                               *)
(***************************************************************************)
CONSTANTS
    Users,
    Apps,
    Artifacts,
    Clients,    \* who may change the catalog
    None

VARIABLES
    kept,       \* entries there are
    shown,      \* those the public sees
    gone,       \* entries that have been removed
    home,       \* the application of each artifact
    moderators, \* users with a moderator's roles
    trusted     \* clients let in with such roles that have changed nothing yet

vars == <<kept, shown, gone, home, moderators, trusted>>

-----------------------------------------------------------------------------
Init ==
    /\ kept = {}
    /\ shown = {}
    /\ gone = {}
    /\ home = [e \in Artifacts |-> None]
    /\ moderators \in SUBSET Users
    /\ trusted = {}

ChangeRoles(u) ==
    /\ moderators' = IF u \in moderators THEN moderators \ {u} ELSE moderators \cup {u}
    /\ UNCHANGED <<kept, shown, gone, home, trusted>>

LetIn(c) ==
    /\ moderators # {}
    /\ trusted' = trusted \cup {c}
    /\ UNCHANGED <<kept, shown, gone, home, moderators>>

\* The client has made its change.
Leave(c) ==
    /\ trusted' = trusted \ {c}
    /\ UNCHANGED moderators

GiveUp(c) ==
    /\ Leave(c)
    /\ UNCHANGED <<kept, shown, gone, home>>

\* Anybody may submit an entry; a trusted client may show it at once.
Enter(c, e) ==
    /\ e \notin kept \cup gone
    /\ kept' = kept \cup {e}
    /\ \/ shown' = shown
       \/ c \in trusted /\ shown' = shown \cup {e}
    /\ UNCHANGED gone
    /\ Leave(c)

EnterApp(c, a) ==
    /\ Enter(c, a)
    /\ UNCHANGED home

EnterArtifact(c, e, a) ==
    /\ a \in kept
    /\ Enter(c, e)
    /\ home' = [home EXCEPT ![e] = a]

Judge(c, e) ==
    /\ c \in trusted
    /\ e \in kept
    /\ shown' \in {shown \cup {e}, shown \ {e}}
    /\ UNCHANGED <<kept, gone, home>>
    /\ Leave(c)

\* An application with all of its artifacts, or some of its artifacts.
Family(a) == {{a} \cup {e \in Artifacts : home[e] = a}}
             \cup SUBSET {e \in Artifacts : home[e] = a}

Remove(c, out) ==
    /\ c \in trusted
    /\ out \subseteq kept
    /\ kept' = kept \ out
    /\ shown' = shown \ out
    /\ gone' = gone \cup out
    /\ home' = [e \in Artifacts |-> IF e \in out THEN None ELSE home[e]]
    /\ Leave(c)

Next ==
    \/ \E u \in Users : ChangeRoles(u)
    \/ \E c \in Clients : LetIn(c) \/ GiveUp(c)
    \/ \E c \in Clients, a \in Apps :
         \/ EnterApp(c, a)
         \/ \E e \in Artifacts : EnterArtifact(c, e, a)
         \/ \E out \in Family(a) : Remove(c, out)
    \/ \E c \in Clients, e \in Apps \cup Artifacts : Judge(c, e)

Spec == Init /\ [][Next]_vars
=============================================================================
