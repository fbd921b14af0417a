--------------------------- MODULE RequestPathProofs ---------------------------
(***************************************************************************)
(* The pool does not lock up while fewer nested handlers are in flight     *)
(* than there are connections, and the limiter lets through less than      *)
(* twice its limit, or thrice around a restart, and refuses nobody before  *)
(* the limit: proofs about ConnPool, RateLimiter and the two together, for *)
(* pools, limits and windows of any size.                                  *)
(***************************************************************************)
EXTENDS RequestPath, FiniteSetTheorems, TLAPS

\* What a request may hold in each phase, and who may be in the inner ones.
RequestOK(r) ==
    /\ phase[r] \in {"idle", "wait"} => \A c \in Conns : owner[c] # r
    /\ phase[r] \in {"query", "waitInner"} =>
         \A c, d \in Conns : owner[c] = r /\ owner[d] = r => c = d
    /\ phase[r] = "queryInner" =>
         \E c, d \in Conns : \A x \in Conns : owner[x] = r => x \in {c, d}
    /\ phase[r] \in {"waitInner", "queryInner"} => r \in Nested
    /\ inner[r] > 0 => r \in Nested

PoolInv == TypeOK /\ \A r \in Requests : RequestOK(r)

-----------------------------------------------------------------------------

\* An idle pool is well-formed and no request holds a connection.
LEMMA PoolInit == Init => PoolInv
  BY PoolAssumption DEF Init, PoolInv, TypeOK, RequestOK, Phases

\* Every step keeps the pool well-formed: connections follow the phase.
LEMMA PoolStep == PoolInv /\ [Next]_vars => PoolInv'
  <1> SUFFICES ASSUME PoolInv, [Next]_vars PROVE PoolInv'
    OBVIOUS
  <1> USE PoolAssumption DEF PoolInv, TypeOK, Phases
  <1>1. ASSUME NEW r \in Requests, Arrive(r) PROVE PoolInv'
    BY <1>1 DEF Arrive, RequestOK
  <1>2. ASSUME NEW r \in Requests, Acquire(r) PROVE PoolInv'
    <2>1. TypeOK'
      BY <1>2 DEF Acquire
    <2>2. PICK c \in Conns : Free(c) /\ owner' = [owner EXCEPT ![c] = r]
      BY <1>2 DEF Acquire
    <2>3. ASSUME NEW q \in Requests, q # r PROVE RequestOK(q)'
      <3>1. \A x \in Conns : owner'[x] = q <=> owner[x] = q
        BY <2>2, <2>3 DEF Free
      <3>2. phase'[q] = phase[q] /\ inner'[q] = inner[q]
        BY <1>2, <2>3 DEF Acquire
      <3> QED BY <3>1, <3>2 DEF RequestOK
    <2>4. CASE phase[r] = "wait"
      <3>1. \A x \in Conns : owner'[x] = r <=> x = c
        BY <2>2, <2>4 DEF RequestOK
      <3>2. phase'[r] = "query" /\ (inner'[r] > 0 => r \in Nested)
        BY <1>2, <2>4 DEF Acquire
      <3>3. RequestOK(r)'
        BY <3>1, <3>2 DEF RequestOK
      <3> QED BY <2>1, <2>3, <3>3
    <2>5. CASE phase[r] = "waitInner"
      <3>1. PICK d \in Conns : \A x \in Conns : owner[x] = r => x = d
        BY <2>2, <2>5 DEF RequestOK
      <3>2. \A x \in Conns : owner'[x] = r => x \in {c, d}
        BY <2>2, <3>1
      <3>3. phase'[r] = "queryInner" /\ inner'[r] = inner[r]
        BY <1>2, <2>5 DEF Acquire
      <3>4. RequestOK(r)'
        BY <2>5, <3>2, <3>3 DEF RequestOK
      <3> QED BY <2>1, <2>3, <3>4
    <2> QED BY <1>2, <2>4, <2>5 DEF Acquire
  <1>3. ASSUME NEW r \in Requests, QueryInner(r) PROVE PoolInv'
    BY <1>3 DEF QueryInner, RequestOK
  <1>4. ASSUME NEW r \in Requests, CloseInner(r) PROVE PoolInv'
    <2>1. TypeOK'
      BY <1>4 DEF CloseInner
    <2>2. PICK c \in Conns : owner[c] = r /\ owner' = [owner EXCEPT ![c] = None]
      BY <1>4 DEF CloseInner
    <2>3. \A x \in Conns, q \in Requests :
            owner'[x] = q <=> owner[x] = q /\ x # c
      BY <2>2
    <2>4. ASSUME NEW q \in Requests, q # r PROVE RequestOK(q)'
      <3>1. phase'[q] = phase[q] /\ inner'[q] = inner[q]
        BY <1>4, <2>4 DEF CloseInner
      <3> QED BY <2>2, <2>3, <2>4, <3>1 DEF RequestOK
    <2>5. RequestOK(r)'
      <3>1. phase[r] = "queryInner" /\ phase'[r] = "query" /\ inner'[r] = inner[r]
        BY <1>4 DEF CloseInner
      <3> QED BY <2>2, <2>3, <3>1 DEF RequestOK
    <2> QED BY <2>1, <2>4, <2>5
  <1>5. ASSUME NEW r \in Requests, End(r) PROVE PoolInv'
    <2>1. TypeOK'
      BY <1>5 DEF End, Release
    <2>2. ASSUME NEW q \in Requests, q # r PROVE RequestOK(q)'
      <3>1. \A x \in Conns : owner'[x] = q <=> owner[x] = q
        BY <1>5, <2>2 DEF End, Release
      <3>2. phase'[q] = phase[q] /\ inner'[q] = inner[q]
        BY <1>5, <2>2 DEF End
      <3> QED BY <3>1, <3>2 DEF RequestOK
    <2>3. RequestOK(r)'
      BY <1>5 DEF End, Release, RequestOK
    <2> QED BY <2>1, <2>2, <2>3
  <1>6. CASE UNCHANGED vars
    BY <1>6 DEF vars, RequestOK
  <1> QED BY <1>1, <1>2, <1>3, <1>4, <1>5, <1>6 DEF Next, Step, Finish, GiveUp

\* The invariant of the pool holds of every reachable state.
LEMMA PoolInvariant == Spec => []PoolInv
  <1> QED BY PoolInit, PoolStep, PTL DEF Spec

\* If every connection is held by a waiter, connections inject into the nested
\* handlers in flight.
LEMMA NoLockup == PoolInv => NotStuck
  <1> SUFFICES ASSUME PoolInv, Cardinality(NestedInFlight) < Cardinality(Conns),
                      \A c \in Conns : ~Free(c) /\ Waiting(owner[c])
               PROVE  FALSE
    BY DEF NotStuck
  <1>1. IsFiniteSet(NestedInFlight)
    BY PoolAssumption, FS_Subset DEF NestedInFlight
  <1>2. \A c \in Conns : owner[c] \in Requests /\ phase[owner[c]] = "waitInner"
    BY DEF PoolInv, TypeOK, RequestOK, Free, Waiting
  <1>3. \A c \in Conns : owner[c] \in NestedInFlight
    BY <1>2 DEF PoolInv, RequestOK, NestedInFlight
  <1>4. owner \in Injection(Conns, NestedInFlight)
    BY <1>2, <1>3 DEF PoolInv, TypeOK, RequestOK, Injection, IsInjective
  <1>5. Cardinality(Conns) <= Cardinality(NestedInFlight)
    BY <1>1, <1>4, FS_Injection
  <1>6. Cardinality(Conns) \in Nat /\ Cardinality(NestedInFlight) \in Nat
    BY <1>1, PoolAssumption, FS_CardinalityType
  <1> QED BY <1>5, <1>6

-----------------------------------------------------------------------------
\* Every variable keeps its type.
THEOREM PoolTypeCorrect == Spec => []TypeOK
  <1>1. PoolInv => TypeOK
    BY DEF PoolInv
  <1> QED BY <1>1, PoolInvariant, PTL

\* While more connections than nested handlers are in flight the pool is not
\* locked up: the code does not see to it, ten nested requests lock it up.
THEOREM PoolNeverStuck == Spec => []NotStuck
  <1> QED BY NoLockup, PoolInvariant, PTL

\* A request that is over, or has not got its connection, holds none.
THEOREM NoConnectionLeaks == Spec => []NothingLeaks
  <1>1. PoolInv => NothingLeaks
    BY DEF PoolInv, TypeOK, RequestOK, NothingLeaks, Free
  <1> QED BY <1>1, PoolInvariant, PTL

-----------------------------------------------------------------------------
\* The grants are listed from the latest.
LatestFirst == \A i, j \in Grants : i <= j => grants[i] <= grants[j]

\* The bucket of the watched key: the latest grants are those it counts.  Its
\* window began with the first of them, up to MaxDelay after the reading that
\* ends it, and not before the process; of the grants before it fewer than Limit
\* are of this process and the period, and than twice that of the last two.
CurrentWindow(b) ==
    /\ b.count >= 1
    /\ grants[b.count] + b.left >= Period
    /\ b.left > -MaxDelay => grants[b.count] + b.left <= Window
    /\ restarts[1] < Period => restarts[1] + b.left >= Window
    /\ grants[b.count + Limit] >= restarts[1]
    /\ grants[b.count + 2 * Limit] >= restarts[2]

\* With no bucket the next window may begin at once.
BetweenWindows ==
    /\ grants[Limit] >= restarts[1]
    /\ grants[2 * Limit] >= restarts[2]

\* An attempt has read the clock after the process was started.
OfThisProcess(a) == restarts[1] < Period => a.age <= restarts[1]

LimiterInv ==
    /\ LimiterTypeOK
    /\ LatestFirst
    /\ \A r \in DOMAIN attempts : OfThisProcess(attempts[r])
    /\ Watched \in DOMAIN buckets => CurrentWindow(buckets[Watched])
    /\ Watched \notin DOMAIN buckets => BetweenWindows

-----------------------------------------------------------------------------
\* A limiter without buckets and grants is between windows.
LEMMA LimiterInitInv == LimiterInit => LimiterInv
  BY LimiterAssumption
     DEF LimiterInit, LimiterInv, LimiterTypeOK, LatestFirst, BetweenWindows, Grants,
         LongAgo, Period

\* A grant becomes the latest and moves the others back by one.
LEMMA GrantShifts ==
    ASSUME LimiterInv, Granted(Watched)
    PROVE  /\ grants' \in [Grants -> 0..LongAgo]
           /\ LatestFirst'
           /\ grants'[1] = 0
           /\ \A i \in 1..(3 * Limit - 1) : grants'[i + 1] = grants[i]
           /\ restarts' = restarts
  BY LimiterAssumption
     DEF LimiterInv, LimiterTypeOK, LatestFirst, Granted, Now, Grants, LongAgo

\* When the window of the watched bucket is over, so is the period that its
\* first grant and the start of the process lie in.
LEMMA WindowOver ==
    ASSUME LimiterInv, NEW age \in 0..MaxDelay,
           Watched \in DOMAIN buckets => ~Open(buckets[Watched], age)
    PROVE  BetweenWindows
  <1> USE LimiterAssumption
  <1>1. CASE Watched \notin DOMAIN buckets
    BY <1>1 DEF LimiterInv
  <1>2. CASE Watched \in DOMAIN buckets
    <2>1. /\ buckets[Watched] \in Bucket /\ CurrentWindow(buckets[Watched])
          /\ buckets[Watched].left + age <= 0
      BY <1>2 DEF LimiterInv, LimiterTypeOK, Open, Bucket
    <2>2. PICK n \in 1..Limit, left \in Int :
            buckets[Watched].count = n /\ buckets[Watched].left = left /\ left <= 0
      BY <2>1 DEF Bucket, CurrentWindow
    <2>3. n \in Grants /\ Limit \in Grants /\ 2 * Limit \in Grants
      BY <2>2 DEF Grants
    <2>4. /\ grants[n] \in Int /\ grants[Limit] \in Int /\ grants[2 * Limit] \in Int
          /\ restarts[1] \in 0..Period /\ restarts[2] \in 0..Period /\ Period \in Int
      BY <2>3 DEF LimiterInv, LimiterTypeOK, LongAgo, Period
    <2>5. grants[n] <= grants[Limit] /\ grants[n] <= grants[2 * Limit]
      BY <2>2, <2>3 DEF LimiterInv, LatestFirst
    <2>6. grants[n] + left >= Period
      BY <2>1, <2>2 DEF CurrentWindow
    <2> QED BY <2>2, <2>4, <2>5, <2>6 DEF BetweenWindows
  <1> QED BY <1>1, <1>2

\* An attempt that is decided is no longer waiting.
LEMMA DecidedAttempts ==
    ASSUME LimiterInv, NEW r \in DOMAIN attempts, Decided(r)
    PROVE  /\ DOMAIN attempts' \subseteq Attempting
           /\ \A q \in DOMAIN attempts' : attempts'[q] \in Attempt
           /\ \A q \in DOMAIN attempts' : OfThisProcess(attempts'[q])
           /\ attempts[r].key \in Keys /\ attempts[r].age \in 0..MaxDelay
  BY DEF LimiterInv, LimiterTypeOK, Decided, Attempt

\* Reading the clock adds an attempt and nothing else.
LEMMA ReadClockKeeps ==
    ASSUME LimiterInv, NEW r \in Attempting, ReadClock(r) PROVE LimiterInv'
  <1>1. PICK k \in Keys :
          attempts' = [q \in DOMAIN attempts \cup {r} |->
                         IF q = r THEN [key |-> k, age |-> 0] ELSE attempts[q]]
    BY DEF ReadClock
  <1>2. /\ DOMAIN attempts' \subseteq Attempting
        /\ \A q \in DOMAIN attempts' : attempts'[q] \in Attempt
        /\ \A q \in DOMAIN attempts' : OfThisProcess(attempts'[q])
    BY <1>1, LimiterAssumption
       DEF LimiterInv, LimiterTypeOK, Attempt, OfThisProcess, Period
  <1>3. buckets' = buckets /\ grants' = grants /\ restarts' = restarts
    BY DEF ReadClock
  <1> QED BY <1>2, <1>3
          DEF LimiterInv, OfThisProcess, LimiterTypeOK, LatestFirst, CurrentWindow, BetweenWindows

\* A new window counts its first grant; what was granted before is as old as
\* the last window, or belongs to it.
LEMMA StartWindowKeeps ==
    ASSUME LimiterInv, NEW r, StartWindow(r) PROVE LimiterInv'
  <1> USE LimiterAssumption
  <1>1. PICK k \in Keys, age \in 0..MaxDelay :
          /\ age = attempts[r].age
          /\ k \in DOMAIN buckets => ~Open(buckets[k], age)
          /\ buckets' = With(k, Fresh(age)) /\ Granted(k)
    BY DecidedAttempts DEF StartWindow
  <1>2. r \in DOMAIN attempts /\ Decided(r) /\ restarts' = restarts
    BY <1>1 DEF StartWindow, Granted
  <1>3. Fresh(age) \in Bucket
    BY DEF Fresh, Bucket
  <1>4. /\ DOMAIN buckets' = DOMAIN buckets \cup {k}
        /\ buckets'[k] = Fresh(age)
        /\ \A j \in DOMAIN buckets \ {k} : buckets'[j] = buckets[j]
    BY <1>1 DEF With
  <1>5. /\ DOMAIN buckets' \subseteq Keys
        /\ \A j \in DOMAIN buckets' : buckets'[j] \in Bucket
    BY <1>3, <1>4 DEF LimiterInv, LimiterTypeOK
  <1>6. \A q \in DOMAIN attempts' : OfThisProcess(attempts[q])' /\ attempts'[q] \in Attempt
    BY <1>2, DecidedAttempts DEF OfThisProcess
  <1>7. DOMAIN attempts' \subseteq Attempting /\ restarts' \in [1..2 -> 0..Period]
    BY <1>2, DecidedAttempts DEF LimiterInv, LimiterTypeOK
  <1>8. CASE k = Watched
    <2>1. BetweenWindows
      BY <1>1, <1>8, WindowOver
    <2>2. /\ grants' \in [Grants -> 0..LongAgo] /\ LatestFirst' /\ grants'[1] = 0
          /\ \A i \in 1..(3 * Limit - 1) : grants'[i + 1] = grants[i]
      BY <1>1, <1>8, GrantShifts
    <2>3. grants'[1 + Limit] = grants[Limit] /\ grants'[1 + 2 * Limit] = grants[2 * Limit]
      BY <2>2
    <2>4. restarts[1] < Period => age <= restarts[1]
      BY <1>1, <1>2 DEF LimiterInv, OfThisProcess
    <2>5. restarts[1] \in 0..Period /\ Period \in Int
      BY DEF LimiterInv, LimiterTypeOK, Period
    <2>6. CurrentWindow(Fresh(age))'
      BY <1>2, <2>1, <2>2, <2>3, <2>4, <2>5
         DEF CurrentWindow, BetweenWindows, Fresh, Period
    <2> QED BY <1>4, <1>5, <1>6, <1>7, <1>8, <2>2, <2>6
            DEF LimiterInv, LimiterTypeOK
  <1>9. CASE k # Watched
    <2>1. grants' = grants
      BY <1>1, <1>9 DEF Granted
    <2>2. /\ Watched \in DOMAIN buckets' <=> Watched \in DOMAIN buckets
          /\ Watched \in DOMAIN buckets => buckets'[Watched] = buckets[Watched]
      BY <1>4, <1>9
    <2> QED BY <1>2, <1>5, <1>6, <1>7, <2>1, <2>2
            DEF LimiterInv, LimiterTypeOK, LatestFirst, CurrentWindow, BetweenWindows
  <1> QED BY <1>8, <1>9

\* A purge changes no bucket that it keeps and drops none that is open.
LEMMA PurgedKeepsOpen ==
    ASSUME NEW table, NEW age
    PROVE  /\ DOMAIN Purged(table, age) \subseteq DOMAIN table
           /\ \A j \in DOMAIN Purged(table, age) : Purged(table, age)[j] = table[j]
           /\ \A j \in DOMAIN table \ DOMAIN Purged(table, age) : ~Open(table[j], age)
  BY DEF Purged

\* One more grant of the current window; a purge may end another's window, or
\* drop the watched bucket when its window is over.
LEMMA CountAttemptKeeps ==
    ASSUME LimiterInv, NEW r, CountAttempt(r) PROVE LimiterInv'
  <1> USE LimiterAssumption
  <1>1. PICK k \in Keys, age \in 0..MaxDelay :
          /\ k \in DOMAIN buckets /\ Open(buckets[k], age) /\ buckets[k].count < Limit
          /\ buckets' = Purged(Counted(k), age) /\ Granted(k)
    BY DecidedAttempts DEF CountAttempt
  <1>2. r \in DOMAIN attempts /\ Decided(r)
    BY DEF CountAttempt
  <1>3. PICK c \in Bucket : /\ c = [count |-> buckets[k].count + 1, left |-> buckets[k].left]
                            /\ Open(c, age)
    <2>1. ASSUME NEW b \in Bucket, b.count < Limit, Open(b, age)
          PROVE  /\ [count |-> b.count + 1, left |-> b.left] \in Bucket
                 /\ Open([count |-> b.count + 1, left |-> b.left], age)
      BY <2>1 DEF Bucket, Open
    <2>2. buckets[k] \in Bucket
      BY <1>1 DEF LimiterInv, LimiterTypeOK
    <2> QED BY <1>1, <2>1, <2>2
  <1>4. /\ DOMAIN Counted(k) = DOMAIN buckets
        /\ Counted(k)[k] = c
        /\ \A j \in DOMAIN buckets \ {k} : Counted(k)[j] = buckets[j]
    <2>1. Counted(k) = [j \in DOMAIN buckets \cup {k} |-> IF j = k THEN c ELSE buckets[j]]
      BY <1>3 DEF Counted, With
    <2> HIDE DEF Counted
    <2> QED BY <1>1, <2>1
  <1>5. /\ DOMAIN buckets' \subseteq DOMAIN buckets
        /\ \A j \in DOMAIN buckets' : buckets'[j] = Counted(k)[j]
        /\ \A j \in DOMAIN buckets \ DOMAIN buckets' : ~Open(Counted(k)[j], age)
    <2> HIDE DEF Counted
    <2> QED BY <1>1, <1>4, PurgedKeepsOpen
  <1>6. /\ DOMAIN buckets' \subseteq Keys
        /\ \A j \in DOMAIN buckets' : buckets'[j] \in Bucket
    BY <1>4, <1>5 DEF LimiterInv, LimiterTypeOK
  <1>7. restarts' = restarts
    BY <1>1 DEF Granted
  <1>8. /\ DOMAIN attempts' \subseteq Attempting /\ restarts' \in [1..2 -> 0..Period]
        /\ \A q \in DOMAIN attempts' :
             OfThisProcess(attempts[q])' /\ attempts'[q] \in Attempt
    BY <1>2, <1>7, DecidedAttempts DEF LimiterInv, LimiterTypeOK, OfThisProcess
  <1>9. CASE k = Watched
    <2>1. /\ grants' \in [Grants -> 0..LongAgo] /\ LatestFirst'
          /\ \A i \in 1..(3 * Limit - 1) : grants'[i + 1] = grants[i]
      BY <1>1, <1>9, GrantShifts
    <2>2. CurrentWindow(buckets[k]) /\ buckets[k] \in Bucket
      BY <1>1, <1>9 DEF LimiterInv, LimiterTypeOK
    <2>3. PICK n \in 1..(Limit - 1), left \in Int :
            buckets[k].count = n /\ buckets[k].left = left
      BY <1>1, <2>2 DEF CurrentWindow, Bucket
    <2>4. /\ grants'[n + 1] = grants[n]
          /\ grants'[n + 1 + Limit] = grants[n + Limit]
          /\ grants'[n + 1 + 2 * Limit] = grants[n + 2 * Limit]
      <3>1. n \in 1..(3 * Limit - 1) /\ n + Limit \in 1..(3 * Limit - 1)
            /\ n + 2 * Limit \in 1..(3 * Limit - 1)
        BY <2>3
      <3>2. n + Limit + 1 = n + 1 + Limit /\ n + 2 * Limit + 1 = n + 1 + 2 * Limit
        BY <2>3
      <3> QED BY <2>1, <3>1, <3>2
    <2>5. CurrentWindow(c)'
      <3>1. c.count = n + 1 /\ c.left = left
        BY <1>3, <2>3
      <3>2. /\ grants[n] + left >= Period
            /\ left > -MaxDelay => grants[n] + left <= Window
            /\ restarts[1] < Period => restarts[1] + left >= Window
            /\ grants[n + Limit] >= restarts[1]
            /\ grants[n + 2 * Limit] >= restarts[2]
        BY <2>2, <2>3 DEF CurrentWindow
      <3> QED BY <1>7, <2>3, <2>4, <3>1, <3>2 DEF CurrentWindow
    <2>6. k \in DOMAIN buckets' /\ buckets'[k] = c
      BY <1>1, <1>3, <1>4, <1>5
    <2> QED BY <1>6, <1>8, <1>9, <2>1, <2>5, <2>6 DEF LimiterInv, LimiterTypeOK
  <1>10. CASE k # Watched
    <2>1. grants' = grants
      BY <1>1, <1>10 DEF Granted
    <2>2. Watched \in DOMAIN buckets' =>
            Watched \in DOMAIN buckets /\ buckets'[Watched] = buckets[Watched]
      BY <1>4, <1>5, <1>10
    <2>3. Watched \notin DOMAIN buckets' => BetweenWindows
      <3>1. Watched \in DOMAIN buckets \ DOMAIN buckets' => ~Open(buckets[Watched], age)
        BY <1>4, <1>5, <1>10
      <3> QED BY <3>1, WindowOver
    <2> QED BY <1>6, <1>7, <1>8, <2>1, <2>2, <2>3
            DEF LimiterInv, LimiterTypeOK, LatestFirst, CurrentWindow, BetweenWindows
  <1> QED BY <1>9, <1>10

\* A refusal only ends the attempt.
LEMMA RefuseKeeps ==
    ASSUME LimiterInv, NEW r, Refuse(r) PROVE LimiterInv'
  <1>1. /\ r \in DOMAIN attempts /\ Decided(r)
        /\ buckets' = buckets /\ grants' = grants /\ restarts' = restarts
    BY DEF Refuse
  <1> QED BY <1>1, DecidedAttempts
          DEF LimiterInv, LimiterTypeOK, LatestFirst, OfThisProcess, CurrentWindow,
              BetweenWindows

\* A new process has no bucket; what the last one let through was less than
\* twice the limit, and stays in the history.
LEMMA RestartKeeps == ASSUME LimiterInv, Restart PROVE LimiterInv'
  <1> USE LimiterAssumption
  <1>1. /\ restarts \in [1..2 -> 0..Period] /\ Period \in Nat
        /\ restarts' = [i \in 1..2 |-> IF i = 1 THEN 0 ELSE restarts[i - 1]]
    BY DEF Restart, Now, LimiterInv, LimiterTypeOK, Period
  <1>2. restarts'[1] = 0 /\ restarts'[2] = restarts[1] /\ restarts' \in [1..2 -> 0..Period]
    BY <1>1
  <1>3. grants' = grants /\ grants \in [Grants -> 0..LongAgo]
    BY DEF Restart, LimiterInv, LimiterTypeOK
  <1>4. grants[2 * Limit] >= restarts[1]
    <2>1. PICK i \in 1..(2 * Limit) : grants[i] >= restarts[1]
      BY DEF LimiterInv, LimiterTypeOK, CurrentWindow, BetweenWindows, Bucket
    <2>2. i \in Grants /\ 2 * Limit \in Grants
      BY DEF Grants
    <2>3. grants[i] <= grants[2 * Limit]
      BY <2>2 DEF LimiterInv, LatestFirst
    <2> QED BY <1>1, <1>3, <2>1, <2>2, <2>3 DEF LongAgo
  <1>5. BetweenWindows'
    BY <1>2, <1>3, <1>4 DEF BetweenWindows, Grants, LongAgo
  <1> QED BY <1>2, <1>3, <1>5 DEF Restart, LimiterInv, LimiterTypeOK, LatestFirst

\* Time makes grants older and windows shorter by the same amount.
LEMMA TickKeeps == ASSUME LimiterInv, Tick PROVE LimiterInv'
  <1> USE LimiterAssumption
  <1>1. /\ DOMAIN attempts' \subseteq Attempting
        /\ \A q \in DOMAIN attempts' : /\ attempts'[q] \in Attempt
                                       /\ attempts'[q].age = attempts[q].age + 1
    <2>1. ASSUME NEW a \in Attempt, a.age < MaxDelay
          PROVE  /\ [a EXCEPT !.age = @ + 1] \in Attempt
                 /\ [a EXCEPT !.age = @ + 1].age = a.age + 1
      BY <2>1 DEF Attempt
    <2>2. /\ DOMAIN attempts' = DOMAIN attempts
          /\ \A q \in DOMAIN attempts :
               /\ attempts'[q] = [attempts[q] EXCEPT !.age = @ + 1]
               /\ attempts[q].age < MaxDelay
      BY DEF Tick
    <2> QED BY <2>1, <2>2 DEF LimiterInv, LimiterTypeOK
  <1>2. /\ DOMAIN buckets' = DOMAIN buckets
        /\ \A k \in DOMAIN buckets :
             /\ buckets'[k] \in Bucket
             /\ buckets'[k].count = buckets[k].count
             /\ buckets'[k].left = IF buckets[k].left = -MaxDelay THEN buckets[k].left
                                   ELSE buckets[k].left - 1
    <2>1. ASSUME NEW b \in Bucket, b.left # -MaxDelay
          PROVE  LET d == [b EXCEPT !.left = @ - 1]
                 IN  d \in Bucket /\ d.count = b.count /\ d.left = b.left - 1
      BY <2>1 DEF Bucket
    <2>2. /\ DOMAIN buckets' = DOMAIN buckets
          /\ \A k \in DOMAIN buckets :
               buckets'[k] = IF buckets[k].left = -MaxDelay THEN buckets[k]
                             ELSE [buckets[k] EXCEPT !.left = @ - 1]
      BY DEF Tick
    <2> QED BY <2>1, <2>2 DEF LimiterInv, LimiterTypeOK
  <1>3. /\ grants' \in [Grants -> 0..LongAgo]
        /\ \A i \in Grants :
             grants'[i] = IF grants[i] = LongAgo THEN LongAgo ELSE grants[i] + 1
    <2>1. grants' = [i \in Grants |-> IF grants[i] = LongAgo THEN LongAgo
                                      ELSE grants[i] + 1]
      BY DEF Tick, Older, LimiterInv, LimiterTypeOK
    <2> QED BY <2>1 DEF LimiterInv, LimiterTypeOK, LongAgo
  <1>4. LatestFirst'
    <2>1. ASSUME NEW i \in Grants, NEW j \in Grants, i <= j
          PROVE  grants'[i] <= grants'[j]
      <3>1. grants[i] \in 0..LongAgo /\ grants[j] \in 0..LongAgo
        BY DEF LimiterInv, LimiterTypeOK
      <3>2. grants[i] <= grants[j]
        BY <2>1 DEF LimiterInv, LatestFirst
      <3> QED BY <1>3, <3>1, <3>2 DEF LongAgo
    <2> QED BY <2>1 DEF LatestFirst
  <1>5. /\ restarts \in [1..2 -> 0..Period] /\ restarts' \in [1..2 -> 0..Period]
        /\ \A i \in 1..2 :
             restarts'[i] = IF restarts[i] = Period THEN Period ELSE restarts[i] + 1
    <2>1. restarts' = [i \in 1..2 |-> IF restarts[i] = Period THEN Period
                                      ELSE restarts[i] + 1]
      BY DEF Tick, Older, LimiterInv, LimiterTypeOK
    <2> QED BY <2>1 DEF LimiterInv, LimiterTypeOK, Period
  <1>6. ASSUME NEW i \in Grants, NEW j \in 1..2, grants[i] >= restarts[j]
        PROVE  grants'[i] >= restarts'[j]
    <2>1. grants[i] \in 0..LongAgo /\ restarts[j] \in 0..Period
      BY <1>5 DEF LimiterInv, LimiterTypeOK
    <2> QED BY <1>3, <1>5, <1>6, <2>1 DEF LongAgo, Period
  <1>7. \A q \in DOMAIN attempts' : OfThisProcess(attempts[q])'
    <2> SUFFICES ASSUME NEW q \in DOMAIN attempts'
                 PROVE  restarts'[1] < Period => attempts'[q].age <= restarts'[1]
      BY DEF OfThisProcess, Period
    <2>1. q \in DOMAIN attempts
      BY DEF Tick
    <2>2. attempts[q].age \in Int /\ OfThisProcess(attempts[q])
      BY <2>1 DEF LimiterInv, LimiterTypeOK, Attempt
    <2> QED BY <1>1, <1>5, <2>2 DEF OfThisProcess, Period
  <1>8. ASSUME Watched \notin DOMAIN buckets PROVE BetweenWindows'
    <2>1. Limit \in Grants /\ 2 * Limit \in Grants
      BY DEF Grants
    <2>2. BetweenWindows
      BY <1>8 DEF LimiterInv
    <2> QED BY <1>6, <2>1, <2>2 DEF BetweenWindows
  <1>9. ASSUME Watched \in DOMAIN buckets PROVE CurrentWindow(buckets[Watched])'
    <2>1. CurrentWindow(buckets[Watched]) /\ buckets[Watched] \in Bucket
      BY <1>9 DEF LimiterInv, LimiterTypeOK
    <2>2. PICK n \in 1..Limit, left \in -MaxDelay..Window :
            buckets[Watched].count = n /\ buckets[Watched].left = left
      BY <2>1 DEF CurrentWindow, Bucket
    <2>3. n \in Grants /\ n + Limit \in Grants /\ n + 2 * Limit \in Grants
      BY <2>2 DEF Grants
    <2>4. grants[n] \in 0..LongAgo
      BY <2>3 DEF LimiterInv, LimiterTypeOK
    <2>5. grants'[n] = IF grants[n] = LongAgo THEN LongAgo ELSE grants[n] + 1
      BY <1>3, <2>3
    <2>6. /\ grants[n] + left >= Period
          /\ left > -MaxDelay => grants[n] + left <= Window
          /\ restarts[1] < Period => restarts[1] + left >= Window
          /\ grants[n + Limit] >= restarts[1]
          /\ grants[n + 2 * Limit] >= restarts[2]
      BY <2>1, <2>2 DEF CurrentWindow
    <2>7. PICK left2 \in Int :
            /\ buckets'[Watched].count = n /\ buckets'[Watched].left = left2
            /\ left2 = IF left = -MaxDelay THEN left ELSE left - 1
      BY <1>2, <1>9, <2>2
    <2>8. /\ grants'[n] + left2 >= Period
          /\ left2 > -MaxDelay => grants'[n] + left2 <= Window
      BY <2>4, <2>5, <2>6, <2>7 DEF LongAgo, Period
    <2>9. restarts'[1] < Period => restarts'[1] + left2 >= Window
      <3>1. restarts[1] \in 0..Period /\ Period = Window - MaxDelay
        BY <1>5 DEF Period
      <3>2. restarts'[1] = IF restarts[1] = Period THEN Period ELSE restarts[1] + 1
        BY <1>5
      <3> QED BY <2>6, <2>7, <3>1, <3>2
    <2>10. grants'[n + Limit] >= restarts'[1] /\ grants'[n + 2 * Limit] >= restarts'[2]
      BY <1>6, <2>3, <2>6
    <2> QED BY <2>2, <2>7, <2>8, <2>9, <2>10 DEF CurrentWindow, Period
  <1> QED BY <1>1, <1>2, <1>3, <1>4, <1>5, <1>7, <1>8, <1>9 DEF LimiterInv, LimiterTypeOK

-----------------------------------------------------------------------------
\* A request that waits for the limiter has not begun in its handler.
Undecided(r) == r \in DOMAIN attempts => phase[r] = "idle"

PathInv == PoolInv /\ LimiterInv /\ \A r \in Requests : Undecided(r)

\* A process starts with an idle pool and an empty limiter.
LEMMA PathInitInv == PathInit => PathInv
  BY PoolInit, LimiterInitInv DEF PathInit, PathInv, LimiterInit, Undecided

\* A limiter that does not change keeps its invariant.
LEMMA LimiterStutters == LimiterInv /\ UNCHANGED limiterVars => LimiterInv'
  BY DEF limiterVars, LimiterInv, LimiterTypeOK, LatestFirst, OfThisProcess,
         CurrentWindow, BetweenWindows

\* What the handler of r does leaves the phases of others.
LEMMA OthersKeepPhase ==
    ASSUME PoolInv, NEW r \in Requests, Arrive(r) \/ Step(r) \/ GiveUp(r)
    PROVE  \A q \in Requests \ {r} : phase'[q] = phase[q]
  BY DEF PoolInv, TypeOK, Arrive, Step, GiveUp, Acquire, QueryInner, CloseInner, Finish,
         End

\* Every step of the path keeps the invariants of both parts and hands a
\* request over once.
LEMMA PathStep == PathInv /\ [PathNext]_pathVars => PathInv'
  <1> SUFFICES ASSUME PathInv, [PathNext]_pathVars PROVE PathInv'
    OBVIOUS
  <1>1. PoolInv /\ LimiterInv
    BY DEF PathInv
  <1>2. \A r \in DOMAIN attempts : r \in Requests /\ phase[r] = "idle"
    BY PathAssumption DEF PathInv, Undecided, LimiterInv, LimiterTypeOK
  <1>3. ASSUME NEW r \in Requests, Handle(r) PROVE PathInv'
    <2>1. Arrive(r) /\ UNCHANGED limiterVars /\ r \notin DOMAIN attempts
      BY <1>3 DEF Handle
    <2>2. PoolInv' /\ LimiterInv'
      BY <1>1, <2>1, PoolStep, LimiterStutters DEF Next
    <2>3. \A q \in Requests : Undecided(q)'
      BY <1>1, <1>2, <2>1, OthersKeepPhase DEF Undecided, limiterVars
    <2> QED BY <2>2, <2>3 DEF PathInv
  <1>4. ASSUME NEW r \in Requests, Ask(r) PROVE PathInv'
    <2>1. UNCHANGED vars /\ r \in Attempting /\ ReadClock(r) /\ phase[r] = "idle"
      BY <1>4 DEF Ask
    <2>2. PoolInv' /\ LimiterInv'
      BY <1>1, <2>1, PoolStep, ReadClockKeeps
    <2>3. DOMAIN attempts' = DOMAIN attempts \cup {r}
      BY <2>1 DEF ReadClock
    <2>4. \A q \in Requests : Undecided(q)'
      BY <1>2, <2>1, <2>3 DEF Undecided, vars
    <2> QED BY <2>2, <2>4 DEF PathInv
  <1>5. ASSUME NEW r \in Requests, Admit(r) PROVE PathInv'
    <2>1. Allow(r) /\ (Arrive(r) \/ UNCHANGED vars)
      BY <1>5 DEF Admit
    <2>2. LimiterInv'
      BY <1>1, <2>1, StartWindowKeeps, CountAttemptKeeps DEF Allow
    <2>3. PoolInv'
      BY <1>1, <2>1, PoolStep DEF Next
    <2>4. DOMAIN attempts' = DOMAIN attempts \ {r}
      BY <2>1 DEF Allow, StartWindow, CountAttempt, Decided
    <2>5. \A q \in Requests \ {r} : phase'[q] = phase[q]
      BY <1>1, <2>1, OthersKeepPhase DEF vars
    <2>6. \A q \in Requests : Undecided(q)'
      BY <1>2, <2>4, <2>5 DEF Undecided
    <2> QED BY <2>2, <2>3, <2>6 DEF PathInv
  <1>6. ASSUME NEW r \in Requests, Reject(r) PROVE PathInv'
    <2>1. Refuse(r) /\ UNCHANGED vars
      BY <1>6 DEF Reject
    <2>2. PoolInv' /\ LimiterInv'
      BY <1>1, <2>1, PoolStep, RefuseKeeps
    <2>3. DOMAIN attempts' = DOMAIN attempts \ {r}
      BY <2>1 DEF Refuse, Decided
    <2>4. \A q \in Requests : Undecided(q)'
      BY <1>2, <2>1, <2>3 DEF Undecided, vars
    <2> QED BY <2>2, <2>4 DEF PathInv
  <1>7. ASSUME NEW r \in Requests, Step(r) \/ GiveUp(r), UNCHANGED limiterVars
        PROVE  PathInv'
    <2>1. PoolInv' /\ LimiterInv'
      BY <1>1, <1>7, PoolStep, LimiterStutters DEF Next
    <2>2. phase[r] # "idle"
      BY <1>7 DEF Step, GiveUp, Acquire, QueryInner, CloseInner, Finish
    <2>3. \A q \in Requests : Undecided(q)'
      BY <1>1, <1>2, <1>7, <2>2, OthersKeepPhase DEF Undecided, limiterVars
    <2> QED BY <2>1, <2>3 DEF PathInv
  <1>8. CASE Tick /\ UNCHANGED vars
    <2>1. PoolInv' /\ LimiterInv'
      BY <1>1, <1>8, PoolStep, TickKeeps
    <2>2. DOMAIN attempts' = DOMAIN attempts
      BY <1>8 DEF Tick
    <2>3. \A q \in Requests : Undecided(q)'
      BY <1>2, <1>8, <2>2 DEF Undecided, vars
    <2> QED BY <2>1, <2>3 DEF PathInv
  <1>9. CASE Crash
    <2>1. LimiterInv'
      BY <1>1, <1>9, RestartKeeps DEF Crash
    <2>2. PoolInv'
      BY <1>9, PoolAssumption DEF Crash, PoolInv, TypeOK, RequestOK, Phases
    <2>3. \A q \in Requests : Undecided(q)'
      BY <1>9 DEF Crash, Restart, Undecided
    <2> QED BY <2>1, <2>2, <2>3 DEF PathInv
  <1>10. CASE UNCHANGED pathVars
    <2>1. UNCHANGED vars /\ UNCHANGED limiterVars
      BY <1>10 DEF pathVars
    <2>2. PoolInv' /\ LimiterInv'
      BY <1>1, <2>1, PoolStep, LimiterStutters
    <2>3. \A q \in Requests : Undecided(q)'
      BY <1>2, <2>1 DEF Undecided, vars, limiterVars
    <2> QED BY <2>2, <2>3 DEF PathInv
  <1> QED BY <1>3, <1>4, <1>5, <1>6, <1>7, <1>8, <1>9, <1>10 DEF PathNext, Decide

\* The invariant of the path holds of every reachable state.
LEMMA PathInvariant == PathSpec => []PathInv
  <1> QED BY PathInitInv, PathStep, PTL DEF PathSpec

\* A full bucket that is still open was filled within its window, which began
\* at most a window and the delay ago.
LEMMA RefusedWhenFull ==
    ASSUME LimiterInv, NEW r, Refuse(r), attempts[r].key = Watched
    PROVE  grants[Limit] < Window + MaxDelay
  <1> USE LimiterAssumption
  <1>1. /\ r \in DOMAIN attempts /\ Decided(r) /\ Watched \in DOMAIN buckets
        /\ Open(buckets[Watched], attempts[r].age) /\ buckets[Watched].count >= Limit
    BY DEF Refuse
  <1>2. attempts[r].age \in 0..MaxDelay
    BY <1>1, DecidedAttempts
  <1>3. buckets[Watched] \in Bucket /\ CurrentWindow(buckets[Watched])
    BY <1>1 DEF LimiterInv, LimiterTypeOK
  <1>4. /\ buckets[Watched].count = Limit
        /\ buckets[Watched].left \in Int /\ buckets[Watched].left > -MaxDelay
    BY <1>1, <1>2, <1>3 DEF Bucket, Open
  <1>5. grants[Limit] + buckets[Watched].left <= Window
    BY <1>3, <1>4 DEF CurrentWindow
  <1>6. grants[Limit] \in Int
    BY DEF LimiterInv, LimiterTypeOK, Grants, LongAgo
  <1> QED BY <1>1, <1>2, <1>4, <1>5, <1>6 DEF Open

\* Of two windows' worth of grants the earliest is older than the period or
\* than the process, and of three it is older than the process before.
LEMMA TwoWindows == LimiterInv => BelowTwiceTheLimit
  <1> SUFFICES ASSUME LimiterInv PROVE BelowTwiceTheLimit
    OBVIOUS
  <1> USE LimiterAssumption
  <1>1. PICK i \in 1..(2 * Limit), j \in 1..(3 * Limit) :
          grants[i] >= restarts[1] /\ grants[j] >= restarts[2]
    <2>1. CASE Watched \notin DOMAIN buckets
      <3>1. Limit \in 1..(2 * Limit) /\ 2 * Limit \in 1..(3 * Limit)
        OBVIOUS
      <3> QED BY <2>1, <3>1 DEF LimiterInv, BetweenWindows
    <2>2. CASE Watched \in DOMAIN buckets
      <3>1. PICK n \in 1..Limit : buckets[Watched].count = n
        BY <2>2 DEF LimiterInv, LimiterTypeOK, CurrentWindow, Bucket
      <3>2. n + Limit \in 1..(2 * Limit) /\ n + 2 * Limit \in 1..(3 * Limit)
        OBVIOUS
      <3> QED BY <2>2, <3>1, <3>2 DEF LimiterInv, CurrentWindow
    <2> QED BY <2>1, <2>2
  <1>2. i \in Grants /\ j \in Grants /\ 2 * Limit \in Grants /\ 3 * Limit \in Grants
    BY DEF Grants
  <1>3. grants[i] <= grants[2 * Limit] /\ grants[j] <= grants[3 * Limit]
    BY <1>2 DEF LimiterInv, LatestFirst, Grants
  <1>4. \A k \in Grants : grants[k] \in Int
    BY DEF LimiterInv, LimiterTypeOK, LongAgo
  <1>5. restarts[1] \in 0..Period /\ restarts[2] \in 0..Period /\ Period \in Int
    BY DEF LimiterInv, LimiterTypeOK, Period
  <1> QED BY <1>1, <1>2, <1>3, <1>4, <1>5 DEF BelowTwiceTheLimit

-----------------------------------------------------------------------------
\* Pool and limiter keep their types, and no bucket counts beyond the limit,
\* in every order of decisions and through restarts.
THEOREM PathTypeCorrect == PathSpec => []PathTypeOK
  <1>1. PathInv => PathTypeOK
    BY DEF PathInv, PoolInv, LimiterInv, PathTypeOK
  <1> QED BY <1>1, PathInvariant, PTL

\* Behind the limiter, and across restarts, no connection leaks, and the pool
\* is not locked up while fewer nested handlers are in flight than there are
\* connections, which neither the limiter nor the pool sees to.
THEOREM PathNeverStuck == PathSpec => [](NotStuck /\ NothingLeaks)
  <1>1. PathInv => NotStuck /\ NothingLeaks
    BY NoLockup
       DEF PathInv, PoolInv, TypeOK, RequestOK, NothingLeaks, Free
  <1> QED BY <1>1, PathInvariant, PTL

\* Whatever the limit, the window and the delay: less than twice the limit in a
\* period shorter than the window by the delay, and less than three times when
\* the process is restarted once in it.
THEOREM LimitHolds == PathSpec => []BelowTwiceTheLimit
  <1>1. PathInv => BelowTwiceTheLimit
    BY TwoWindows DEF PathInv
  <1> QED BY <1>1, PathInvariant, PTL

\* Nobody is refused before the limit has been used.
THEOREM RefusalsDeserved == PathSpec => RefusedOnlyAfterLimit
  <1>1. PathInv /\ [PathNext]_pathVars =>
          [\A r \in DOMAIN attempts : Refuse(r) /\ attempts[r].key = Watched
             => grants[Limit] < Window + MaxDelay]_limiterVars
    BY RefusedWhenFull DEF PathInv
  <1> QED BY <1>1, PathInvariant, PTL DEF PathSpec, RefusedOnlyAfterLimit

\* A request that waits for the limiter holds no connection.
THEOREM UndecidedHoldNothing ==
    PathSpec => [](\A r \in DOMAIN attempts : \A c \in Conns : owner[c] # r)
  <1>1. PathInv => \A r \in DOMAIN attempts : \A c \in Conns : owner[c] # r
    BY PathAssumption
       DEF PathInv, Undecided, PoolInv, RequestOK, LimiterInv, LimiterTypeOK
  <1> QED BY <1>1, PathInvariant, PTL

=============================================================================
