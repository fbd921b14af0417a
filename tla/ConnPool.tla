------------------------------- MODULE ConnPool -------------------------------
(***************************************************************************)
(* The database connections of one backend process: db.Open limits the     *)
(* pool (SetMaxOpenConns), and some handlers run a further query while the  *)
(* rows of an outer one are still open (Apps and Manifest of the catalog,  *)
(* ListUsers, LegacyLogin).  Such a handler holds one connection and waits *)
(* for a second; when every connection is held that way nobody can go on   *)
(* until a client gives up.                                                *)
(*                                                                         *)
(* A request here is one statement or one transaction of a handler, or the *)
(* outer query with the queries run inside its loop.  The pool of          *)
(* database/sql hands a free connection to some waiter, not always the     *)
(* first.  A client that goes away cancels the request's context, which    *)
(* ends its wait or its query with an error; the deferred Close and        *)
(* Rollback give the connections back.                                     *)
(***************************************************************************)
EXTENDS Naturals, FiniteSets

CONSTANTS
    Conns,      \* the MaxOpenConns connections of the pool
    Requests,   \* requests that may be in flight together
    Nested,     \* those among them whose handler queries inside a loop
    MaxInner,   \* bound: rows of an outer query
    None

ASSUME PoolAssumption ==
    /\ IsFiniteSet(Conns) /\ IsFiniteSet(Requests)
    /\ Nested \subseteq Requests
    /\ None \notin Requests
    /\ MaxInner \in Nat

VARIABLES
    owner,      \* the request that holds each connection
    phase,      \* where each request is
    inner       \* inner queries a request has still to run

vars == <<owner, phase, inner>>

-----------------------------------------------------------------------------
\* wait, query: for the outer connection and with it; waitInner, queryInner:
\* for a second one and with both.
Phases == {"idle", "wait", "query", "waitInner", "queryInner"}

TypeOK ==
    /\ owner \in [Conns -> Requests \cup {None}]
    /\ phase \in [Requests -> Phases]
    /\ inner \in [Requests -> Nat]

Free(c) == owner[c] = None
Waiting(r) == phase[r] \in {"wait", "waitInner"}

Init ==
    /\ owner = [c \in Conns |-> None]
    /\ phase = [r \in Requests |-> "idle"]
    /\ inner = [r \in Requests |-> 0]

-----------------------------------------------------------------------------
Arrive(r) ==
    /\ phase[r] = "idle"
    /\ phase' = [phase EXCEPT ![r] = "wait"]
    /\ UNCHANGED <<owner, inner>>

\* The pool hands out a free connection: QueryContext or BeginTx returns, for
\* an outer query with some number of rows.
Acquire(r) ==
    /\ \E c \in Conns : Free(c) /\ owner' = [owner EXCEPT ![c] = r]
    /\ \/ /\ phase[r] = "wait"
          /\ phase' = [phase EXCEPT ![r] = "query"]
          /\ \E n \in IF r \in Nested THEN 0..MaxInner ELSE {0} :
               inner' = [inner EXCEPT ![r] = n]
       \/ /\ phase[r] = "waitInner"
          /\ phase' = [phase EXCEPT ![r] = "queryInner"]
          /\ UNCHANGED inner

\* A row of the outer query: another query while its rows are open.
QueryInner(r) ==
    /\ phase[r] = "query"
    /\ inner[r] > 0
    /\ phase' = [phase EXCEPT ![r] = "waitInner"]
    /\ inner' = [inner EXCEPT ![r] = inner[r] - 1]
    /\ UNCHANGED owner

\* Mutant of CloseInner: the inner rows are never closed.
LeakInner(r) ==
    /\ phase[r] = "queryInner"
    /\ phase' = [phase EXCEPT ![r] = "query"]
    /\ UNCHANGED <<owner, inner>>

\* The inner rows are closed; their connection goes back.
CloseInner(r) ==
    /\ phase[r] = "queryInner"
    /\ \E c \in Conns : owner[c] = r /\ owner' = [owner EXCEPT ![c] = None]
    /\ phase' = [phase EXCEPT ![r] = "query"]
    /\ UNCHANGED inner

Release(r) ==
    owner' = [c \in Conns |-> IF owner[c] = r THEN None ELSE owner[c]]

\* Mutant of End: the answer is sent, the rows are not closed.
EndWithOpenRows(r) ==
    /\ phase' = [phase EXCEPT ![r] = "idle"]
    /\ inner' = [inner EXCEPT ![r] = 0]
    /\ UNCHANGED owner

End(r) ==
    /\ Release(r)
    /\ phase' = [phase EXCEPT ![r] = "idle"]
    /\ inner' = [inner EXCEPT ![r] = 0]

\* rows.Close, Commit or Rollback, and the answer.
Finish(r) ==
    /\ phase[r] = "query"
    /\ inner[r] = 0
    /\ End(r)

\* The client goes away: req.Context() is cancelled.
GiveUp(r) ==
    /\ phase[r] # "idle"
    /\ End(r)

-----------------------------------------------------------------------------
Step(r) == Acquire(r) \/ QueryInner(r) \/ CloseInner(r) \/ Finish(r)

Next == \E r \in Requests : Arrive(r) \/ Step(r) \/ GiveUp(r)

Spec == Init /\ [][Next]_vars

-----------------------------------------------------------------------------
NestedInFlight == {r \in Nested : phase[r] # "idle"}

\* Every connection is held by a handler that waits for its second.
LockedUp == \A c \in Conns : ~Free(c) /\ phase[owner[c]] = "waitInner"

\* While fewer nested handlers are in flight than there are connections the
\* pool is not locked up: whenever somebody waits, a connection is free or its
\* holder can go on.  The code does not keep them fewer.
NotStuck ==
    Cardinality(NestedInFlight) < Cardinality(Conns) =>
        \A r \in Requests : Waiting(r) =>
            \E c \in Conns : Free(c) \/ ~Waiting(owner[c])

\* No way of ending a request, in the middle of its loop too, keeps a
\* connection from the others.
NothingLeaks ==
    \A c \in Conns : ~Free(c) => phase[owner[c]] \notin {"idle", "wait"}
=============================================================================
