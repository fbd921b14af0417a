----------------------------- MODULE RateLimiter -----------------------------
(***************************************************************************)
(* The in-memory limiter of the credential endpoints                       *)
(* (backend/internal/api/security_middleware.go): a bucket for each        *)
(* path|address, which counts the attempts of one window and is started    *)
(* again by the first attempt after it.                                    *)
(*                                                                         *)
(* SecurityMiddleware reads the clock and then calls Allow, which takes    *)
(* the mutex: attempts may be decided later than, and in another order     *)
(* than, the times they carry.  Times are relative to the present: an      *)
(* attempt carries the age of its clock reading, a bucket the time it has  *)
(* left, which is negative once its ResetTime has passed.                  *)
(***************************************************************************)
EXTENDS Integers, FiniteSets

CONSTANTS
    Keys,       \* path|address of an attempt
    Attempting, \* requests to the credential endpoints in flight together
    Watched,    \* the key whose attempts the history counts: any of them
    Limit,      \* attempts of one window: 20
    Window,     \* its length: five minutes
    MaxDelay,   \* bound: time an attempt may wait between clock and mutex
    Capacity    \* buckets beyond which expired ones are dropped: 4096

ASSUME LimiterAssumption ==
    /\ Watched \in Keys
    /\ Limit \in Nat \ {0} /\ Capacity \in Nat
    /\ MaxDelay \in Nat /\ Window \in Nat /\ MaxDelay < Window

VARIABLES
    buckets,    \* the map of the limiter
    attempts,   \* attempts that have read the clock, by request
    grants,     \* history: how long ago attempts with the watched key were let
                \* through, by this process or one before it, the latest first
    restarts    \* history: how long ago the last two restarts were

limiterVars == <<buckets, attempts, grants, restarts>>

-----------------------------------------------------------------------------
Bucket == [count : 0..Limit, left : -MaxDelay..Window]
Attempt == [key : Keys, age : 0..MaxDelay]
\* The latest grants matter, and of older ones only that they are older.
Grants == 1..(3 * Limit)
LongAgo == Window + MaxDelay

\* A period shorter than a window by the delay between clock and mutex.
Period == Window - MaxDelay

LimiterTypeOK ==
    /\ DOMAIN buckets \subseteq Keys
    /\ \A k \in DOMAIN buckets : buckets[k] \in Bucket
    /\ DOMAIN attempts \subseteq Attempting
    /\ \A r \in DOMAIN attempts : attempts[r] \in Attempt
    /\ grants \in [Grants -> 0..LongAgo]
    /\ restarts \in [1..2 -> 0..Period]

LimiterInit ==
    /\ buckets = << >>
    /\ attempts = << >>
    /\ grants = [i \in Grants |-> LongAgo]
    /\ restarts = [i \in 1..2 |-> Period]

-----------------------------------------------------------------------------
\* now.Before(bucket.ResetTime), for an attempt whose clock reading is age old.
Open(bucket, age) == bucket.left + age > 0

\* Mutant of Fresh: the attempt that starts a window is not counted.
FreshUncounted(age) == [count |-> 0, left |-> Window - age]

Fresh(age) == [count |-> 1, left |-> Window - age]

With(k, bucket) ==
    [j \in DOMAIN buckets \cup {k} |-> IF j = k THEN bucket ELSE buckets[j]]

Counted(k) == With(k, [count |-> buckets[k].count + 1, left |-> buckets[k].left])

\* Expired buckets are dropped when there are too many, and only then.
Purged(table, age) ==
    IF Cardinality(DOMAIN table) <= Capacity THEN table
    ELSE [k \in {j \in DOMAIN table : Open(table[j], age)} |-> table[k]]

Decided(r) == attempts' = [q \in DOMAIN attempts \ {r} |-> attempts[q]]
Now(ages) == [i \in DOMAIN ages |-> IF i = 1 THEN 0 ELSE ages[i - 1]]
Granted(k) ==
    /\ grants' = IF k = Watched THEN Now(grants) ELSE grants
    /\ UNCHANGED restarts

\* SecurityMiddleware: rateLimitKey and time.Now(), the mutex still ahead.
ReadClock(r) ==
    /\ r \notin DOMAIN attempts
    /\ \E k \in Keys :
         attempts' = [q \in DOMAIN attempts \cup {r} |->
                        IF q = r THEN [key |-> k, age |-> 0] ELSE attempts[q]]
    /\ UNCHANGED <<buckets, grants, restarts>>

\* Allow: no bucket, or one whose window is over.
StartWindow(r) ==
    /\ r \in DOMAIN attempts
    /\ \E k \in {attempts[r].key}, age \in {attempts[r].age} :
         /\ k \in DOMAIN buckets => ~Open(buckets[k], age)
         /\ buckets' = With(k, Fresh(age))
         /\ Granted(k)
    /\ Decided(r)

\* Allow: one more in a window that has room.
CountAttempt(r) ==
    /\ r \in DOMAIN attempts
    /\ \E k \in {attempts[r].key}, age \in {attempts[r].age} :
         /\ k \in DOMAIN buckets /\ Open(buckets[k], age)
         /\ buckets[k].count < Limit
         /\ buckets' = Purged(Counted(k), age)
         /\ Granted(k)
    /\ Decided(r)

Allow(r) == StartWindow(r) \/ CountAttempt(r)

\* Mutant of Refuse: a full bucket refuses after its window, too.
RefuseForGood(r) ==
    /\ r \in DOMAIN attempts
    /\ \E k \in {attempts[r].key} :
         k \in DOMAIN buckets /\ buckets[k].count >= Limit
    /\ Decided(r)
    /\ UNCHANGED <<buckets, grants, restarts>>

\* 429 rate_limited.
Refuse(r) ==
    /\ r \in DOMAIN attempts
    /\ \E k \in {attempts[r].key}, age \in {attempts[r].age} :
         /\ k \in DOMAIN buckets /\ Open(buckets[k], age)
         /\ buckets[k].count >= Limit
    /\ Decided(r)
    /\ UNCHANGED <<buckets, grants, restarts>>

\* A unit of time passes.  What is over for every attempt stays as it is.
Older(ages, most) == [i \in DOMAIN ages |-> IF ages[i] = most THEN most ELSE ages[i] + 1]
Tick ==
    /\ \A r \in DOMAIN attempts : attempts[r].age < MaxDelay
    /\ attempts' = [r \in DOMAIN attempts |->
                      [attempts[r] EXCEPT !.age = @ + 1]]
    /\ buckets' = [k \in DOMAIN buckets |->
                     IF buckets[k].left = -MaxDelay THEN buckets[k]
                     ELSE [buckets[k] EXCEPT !.left = @ - 1]]
    /\ grants' = Older(grants, LongAgo)
    /\ restarts' = Older(restarts, Period)

\* The process is gone, and its memory with it; what it let through stays so.
Restart ==
    /\ buckets' = << >>
    /\ attempts' = << >>
    /\ restarts' = Now(restarts)
    /\ UNCHANGED grants

-----------------------------------------------------------------------------
\* A window begins with an attempt, so around its end a key gets less than
\* twice the limit in a period without a restart, whatever the order attempts
\* are decided in and whichever buckets are dropped meanwhile; a restart in the
\* period forgets the window that was running and allows the limit once more.
BelowTwiceTheLimit ==
    /\ restarts[1] = Period => grants[2 * Limit] >= Period
    /\ restarts[2] = Period => grants[3 * Limit] >= Period

\* Nobody is refused without having used the limit up: Limit attempts with
\* the same key were let through within a window and the delay.
RefusedOnlyAfterLimit ==
    [][\A r \in DOMAIN attempts :
          Refuse(r) /\ attempts[r].key = Watched
              => grants[Limit] < Window + MaxDelay]_limiterVars
=============================================================================
