----------------------------- MODULE RequestPath -----------------------------
(***************************************************************************)
(* The way of a request through a backend process: SecurityMiddleware      *)
(* asks the RateLimiter about requests to the credential endpoints, and    *)
(* what it lets through goes on to a handler, which takes its connections  *)
(* from the pool (ConnPool).  LegacyLogin is such a request and one that   *)
(* queries inside a loop.                                                  *)
(***************************************************************************)
EXTENDS ConnPool, RateLimiter

ASSUME PathAssumption == Attempting \subseteq Requests

pathVars == <<vars, limiterVars>>

-----------------------------------------------------------------------------
PathInit == Init /\ LimiterInit

\* A request to another endpoint goes straight to its handler.
Handle(r) ==
    /\ r \notin DOMAIN attempts
    /\ Arrive(r)
    /\ UNCHANGED limiterVars

\* A request to a credential endpoint is to be decided first.
Ask(r) ==
    /\ r \in Attempting
    /\ phase[r] = "idle"
    /\ ReadClock(r)
    /\ UNCHANGED vars

\* Let through: the handler begins, or rejects the request by itself.
Admit(r) ==
    /\ Allow(r)
    /\ Arrive(r) \/ UNCHANGED vars

\* Mutant of Reject: an attempt over the limit waits until there is room.
PutOff(r) ==
    /\ r \in DOMAIN attempts
    /\ UNCHANGED pathVars

\* Refused: no handler runs and no connection is asked for.
Reject(r) ==
    /\ Refuse(r)
    /\ UNCHANGED vars

Decide(r) == Admit(r) \/ Reject(r)

\* A restart closes every connection and forgets every bucket.
Crash ==
    /\ Restart
    /\ owner' = [c \in Conns |-> None]
    /\ phase' = [r \in Requests |-> "idle"]
    /\ inner' = [r \in Requests |-> 0]

PathNext ==
    \/ \E r \in Requests :
         \/ Handle(r) \/ Ask(r) \/ Decide(r)
         \/ (Step(r) \/ GiveUp(r)) /\ UNCHANGED limiterVars
    \/ Tick /\ UNCHANGED vars
    \/ Crash

PathSpec == PathInit /\ [][PathNext]_pathVars

\* A query returns, and a waiter gets a connection if one is free again and
\* again; an attempt is decided once it has the mutex, which nobody holds for
\* long.  No client need give up.
FairPathSpec ==
    /\ PathSpec
    /\ \A r \in Requests : /\ SF_pathVars(Step(r) /\ UNCHANGED limiterVars)
                           /\ WF_pathVars(Decide(r))

-----------------------------------------------------------------------------
\* Connections, requests, buckets and attempts keep their shape; no bucket
\* counts beyond the limit.
PathTypeOK == TypeOK /\ LimiterTypeOK

\* Every request is answered without anybody giving up, refused or let through
\* by the limiter if it has to ask, and by its handler, unless the pool locks
\* up for good: nothing else ever keeps a request from its answer.
EveryRequestAnswered ==
    \/ <>[]LockedUp
    \/ \A r \in Requests :
           r \in DOMAIN attempts \/ phase[r] # "idle"
               ~> r \notin DOMAIN attempts /\ phase[r] = "idle"
=============================================================================
