--------------------------- MODULE RateLimit_proofs -------------------------
(***************************************************************************)
(* Proofs about RateLimit for every limit, window, granularity of time and *)
(* number of requests and clients.  The difficult one is the bound over a  *)
(* stretch of time that begins anywhere: IInv compares the time a window   *)
(* has left with the time the observer has left.  A window that ends first *)
(* began before the observer did, one that does not began since.           *)
(***************************************************************************)
EXTENDS RateLimit, TLAPS

\* A key that expires is there, and one that is there expires in time.
KeysExpire ==
    \A k \in Keys :
        /\ count[k] > 0 => ttl[k] > 0 /\ ttl[k] <= Ticks(k[1])
        /\ count[k] = 0 => ttl[k] = 0

\* Requests the present window has let through, at most.
LetThrough(k) == IF count[k] < Limit[k[1]] THEN count[k] ELSE Limit[k[1]]

WatchInv ==
    LET k == watch.key IN
    /\ watch.left <= Ticks(k[1])
    /\ watch.left = 0 => watch.seen = 0
    /\ watch.left > 0 =>
        /\ count[k] = 0 => watch.seen <= Limit[k[1]]
        /\ count[k] > 0 /\ ttl[k] < watch.left => watch.seen <= LetThrough(k)
        /\ count[k] > 0 /\ ttl[k] >= watch.left =>
              watch.seen <= Limit[k[1]] + LetThrough(k)

\* The wait a client was asked for falls short of the window's end by less
\* than half a second.
WaitInv == \A r \in Requests : 2 * resetIn[r] < 2 * due[r] + TicksPerSecond

IInv == TypeOK /\ KeysExpire /\ WatchInv /\ WaitInv

-----------------------------------------------------------------------------
\* Windows have a length, or none.
LEMMA TicksType == \A s \in Scopes : Ticks(s) \in Nat
  <1> TAKE s \in Scopes
  <1>1. Window[s] \in Nat /\ TicksPerSecond \in Nat \ {0}
    BY LimitAssumption
  <1>2. \A a, b \in Nat : a * b \in Nat
    BY SMT
  <1> QED BY <1>1, <1>2 DEF Ticks

\* What is known of the quotient by a positive number.
LEMMA Division ==
  ASSUME NEW a \in Nat, NEW b \in Nat \ {0}
  PROVE  a \div b \in Nat /\ a < b * (a \div b) + b
  BY SMT

\* What hit() returns as retry_after is at most half a second too short.
LEMMA RetryAfterRounds ==
  ASSUME NEW t \in Nat
  PROVE  /\ RetryAfter(t) * TicksPerSecond \in Nat
         /\ 2 * t < 2 * (RetryAfter(t) * TicksPerSecond) + TicksPerSecond
  <1> DEFINE T == TicksPerSecond
             n == NearestSecond(t)
             m == RetryAfter(t)
  <1>1. T \in Nat \ {0}
    BY LimitAssumption
  <1>2. n \in Nat /\ 2 * t + T < (2 * T) * n + 2 * T
    <2> DEFINE a == 2 * t + T
               b == 2 * T
    <2>1. a \in Nat /\ b \in Nat \ {0}
      BY <1>1
    <2>2. n = a \div b
      BY DEF NearestSecond
    <2> HIDE DEF a, b, n
    <2>3. n \in Nat /\ a < b * n + b
      BY <2>1, <2>2, Division
    <2> QED BY <2>3 DEF a, b
  <1>3. m \in Nat /\ n <= m
    BY <1>2 DEF RetryAfter, AtLeastOne
  <1>4. T * n <= m * T /\ m * T \in Nat
    BY <1>1, <1>2, <1>3, SMT
  <1>5. (2 * T) * n = 2 * (T * n) /\ T * n \in Nat
    BY <1>1, <1>2, SMT
  <1> HIDE DEF n, m, T
  <1>6. 2 * t < 2 * (m * T) + T
    BY <1>1, <1>2, <1>3, <1>4, <1>5, SMT
  <1> QED BY <1>4, <1>6 DEF m, T

\* A key has a limit the counter can exceed and a window that ends, which may
\* be empty.
LEMMA KeyType ==
  ASSUME NEW k \in Keys
  PROVE  /\ k[1] \in Scopes /\ Limit[k[1]] \in Nat /\ Limit[k[1]] < MaxCount
         /\ Ticks(k[1]) \in Nat /\ MaxCount \in Nat
  BY LimitAssumption, TicksType DEF Keys

\* No counter is there, and nobody has been asked to wait.
LEMMA InitInv == Init => IInv
  <1> SUFFICES ASSUME Init PROVE IInv
    OBVIOUS
  <1>1. TypeOK
    BY DEF Init, TypeOK, Scopes
  <1>2. KeysExpire /\ WaitInv
    BY LimitAssumption DEF Init, KeysExpire, WaitInv
  <1>3. WatchInv
    BY KeyType DEF Init, WatchInv
  <1> QED BY <1>1, <1>2, <1>3 DEF IInv

\* A step in which nothing happens keeps it.
LEMMA StutterInv == IInv /\ UNCHANGED vars => IInv'
  BY DEF IInv, vars, TypeOK, KeysExpire, WatchInv, WaitInv, LetThrough

\* A request that arrives has not been asked to wait.
LEMMA ArriveInv == ASSUME IInv, NEW r \in Requests, Arrive(r) PROVE IInv'
  <1>1. TypeOK'
    BY DEF IInv, Arrive, TypeOK, Scopes
  <1>2. KeysExpire' /\ WatchInv'
    BY DEF IInv, Arrive, KeysExpire, WatchInv, LetThrough
  <1>3. WaitInv'
    BY LimitAssumption DEF IInv, Arrive, TypeOK, WaitInv
  <1> QED BY <1>1, <1>2, <1>3 DEF IInv

\* What the script does to the counters, whatever becomes of the request.
LEMMA ScriptInv ==
  ASSUME IInv, NEW k \in Keys, count' = Counted(k), ttl' = Expiring(k)
  PROVE  /\ count' \in [Keys -> Nat] /\ ttl' \in [Keys -> Nat]
         /\ KeysExpire'
         /\ Ticks(k[1]) = 0 => count'[k] = 0
         /\ Ticks(k[1]) > 0 => count'[k] > 0 /\ count'[k] >= count[k]
         /\ Ticks(k[1]) > 0 /\ count[k] < MaxCount => count'[k] = count[k] + 1
         /\ count[k] >= MaxCount => count'[k] = count[k]
         /\ count[k] = 0 => ttl'[k] = Ticks(k[1])
         /\ count[k] > 0 => ttl'[k] = ttl[k]
         /\ \A j \in Keys \ {k} : count'[j] = count[j] /\ ttl'[j] = ttl[j]
  BY KeyType DEF IInv, TypeOK, KeysExpire, Counted, Expiring

\* A hit that is not let through, or not by the counter, leaves the observer
\* where it was.
LEMMA UnseenInv ==
  ASSUME IInv, NEW k \in Keys, count' = Counted(k), ttl' = Expiring(k), UNCHANGED watch
  PROVE  WatchInv'
  BY ScriptInv, KeyType DEF IInv, TypeOK, WatchInv, KeysExpire, LetThrough

\* A hit that is let through is seen by the observer of its key.
LEMMA SeenInv ==
  ASSUME IInv, NEW k \in Keys, count' = Counted(k), ttl' = Expiring(k),
         WithinLimit(k), watch' = Seen(k)
  PROVE  watch' \in [key : Keys, left : Nat, seen : Nat] /\ WatchInv'
  BY ScriptInv, KeyType DEF IInv, TypeOK, WatchInv, KeysExpire, LetThrough, Seen, WithinLimit

\* A hit within the limit, one that Redis failed to answer,
LEMMA AdmitInv == ASSUME IInv, NEW r \in Requests, Admit(r) PROVE IInv'
  <1> PICK s \in Scopes :
         LET k == <<s, ClientOf[r]>> IN
         /\ WithinLimit(k) /\ count' = Counted(k) /\ ttl' = Expiring(k)
         /\ watch' = Seen(k) /\ Pass(r, s)
    BY DEF Admit
  <1> DEFINE k == <<s, ClientOf[r]>>
  <1>1. k \in Keys
    BY LimitAssumption DEF Keys
  <1>2. TypeOK'
    BY <1>1, ScriptInv, SeenInv DEF IInv, TypeOK, Pass, Onward, Scopes
  <1>3. KeysExpire' /\ WatchInv'
    BY <1>1, ScriptInv, SeenInv
  <1>4. WaitInv'
    BY DEF IInv, WaitInv, Pass
  <1> QED BY <1>2, <1>3, <1>4 DEF IInv

\* which may have been counted,
LEMMA FailOpenInv == ASSUME IInv, NEW r \in Requests, FailOpen(r) PROVE IInv'
  <1> PICK s \in Scopes :
         LET k == <<s, ClientOf[r]>> IN
         /\ \/ count' = Counted(k) /\ ttl' = Expiring(k)
            \/ UNCHANGED <<count, ttl>>
         /\ UNCHANGED watch /\ Pass(r, s)
    BY DEF FailOpen
  <1> DEFINE k == <<s, ClientOf[r]>>
  <1>1. k \in Keys
    BY LimitAssumption DEF Keys
  <1>2. WaitInv'
    BY DEF IInv, WaitInv, Pass
  <1>3. CASE count' = Counted(k) /\ ttl' = Expiring(k)
    <2>1. TypeOK'
      BY <1>1, <1>3, ScriptInv DEF IInv, TypeOK, Pass, Onward, Scopes
    <2> QED BY <1>1, <1>2, <1>3, <2>1, ScriptInv, UnseenInv DEF IInv
  <1>4. CASE UNCHANGED <<count, ttl>>
    <2>1. TypeOK'
      BY <1>4 DEF IInv, TypeOK, Pass, Onward, Scopes
    <2>2. KeysExpire' /\ WatchInv'
      BY <1>4 DEF IInv, KeysExpire, WatchInv, LetThrough
    <2> QED BY <1>2, <2>1, <2>2 DEF IInv
  <1> QED BY <1>3, <1>4

\* A refused client is told a wait that RetryAfterRounds bounds from below.
LEMMA RefuseInv == ASSUME IInv, NEW r \in Requests, Refuse(r) PROVE IInv'
  <1> PICK s \in Scopes :
         LET k == <<s, ClientOf[r]>> IN
         /\ count' = Counted(k) /\ ttl' = Expiring(k)
         /\ pc' = [pc EXCEPT ![r] = "refused"]
         /\ due' = [due EXCEPT ![r] = RetryAfter(ttl'[k]) * TicksPerSecond]
         /\ resetIn' = [resetIn EXCEPT ![r] = ttl'[k]]
         /\ UNCHANGED <<route, watch>>
    BY DEF Refuse
  <1> DEFINE k == <<s, ClientOf[r]>>
  <1>1. k \in Keys
    BY LimitAssumption DEF Keys
  <1>2. ttl'[k] \in Nat
    BY <1>1, ScriptInv
  <1>3. TypeOK'
    BY <1>1, <1>2, ScriptInv, RetryAfterRounds DEF IInv, TypeOK
  <1>4. KeysExpire' /\ WatchInv'
    BY <1>1, ScriptInv, UnseenInv
  <1>5. WaitInv'
    BY <1>2, RetryAfterRounds DEF IInv, TypeOK, WaitInv
  <1> QED BY <1>3, <1>4, <1>5 DEF IInv

\* The window and the observer grow older together.
LEMMA TickInv == ASSUME IInv, Tick PROVE IInv'
  <1>0. \A n \in Nat : Less(n) \in Nat
    BY DEF Less
  <1>1. TypeOK'
    <2>1. watch' \in [key : Keys, left : Nat, seen : Nat]
      <3>1. CASE watch.left > 1
        <4>1. watch.left - 1 \in Nat /\ watch' = [watch EXCEPT !.left = watch.left - 1]
          BY <3>1 DEF IInv, Tick, TypeOK
        <4> QED BY <4>1 DEF IInv, TypeOK
      <3>2. CASE ~(watch.left > 1)
        BY <3>2 DEF IInv, Tick, TypeOK, Idle
      <3> QED BY <3>1, <3>2
    <2>2. /\ count' \in [Keys -> Nat] /\ ttl' \in [Keys -> Nat]
          /\ due' \in [Requests -> Nat] /\ resetIn' \in [Requests -> Nat]
      BY <1>0 DEF IInv, Tick, TypeOK
    <2> QED BY <2>1, <2>2 DEF IInv, Tick, TypeOK
  <1>2. KeysExpire'
    BY KeyType DEF IInv, Tick, TypeOK, KeysExpire, Less
  <1>3. WatchInv'
    <2> DEFINE k == watch.key
    <2>1. k \in Keys /\ watch'.key = k
      BY DEF IInv, TypeOK, Tick, Idle
    <2>2. CASE watch.left > 1
      <3>1. watch'.left = watch.left - 1 /\ watch'.seen = watch.seen
        BY <2>2 DEF IInv, TypeOK, Tick
      <3>2. /\ ttl'[k] = Less(ttl[k])
            /\ count'[k] = IF ttl[k] = 1 THEN 0 ELSE count[k]
        BY <2>1 DEF Tick
      <3> QED BY <2>1, <2>2, <3>1, <3>2, KeyType
              DEF IInv, TypeOK, KeysExpire, WatchInv, LetThrough, Less
    <2>3. CASE watch.left <= 1
      <3>1. watch'.left = 0 /\ watch'.seen = 0
        BY <2>3 DEF IInv, TypeOK, Tick, Idle
      <3> QED BY <2>1, <3>1, KeyType DEF WatchInv
    <2> QED BY <2>1, <2>2, <2>3 DEF IInv, TypeOK
  <1>4. WaitInv'
    <2>1. \A d, z \in Nat, T \in Nat \ {0} :
             2 * z < 2 * d + T => 2 * Less(z) < 2 * Less(d) + T
      BY DEF Less
    <2> QED BY <2>1, LimitAssumption DEF IInv, Tick, TypeOK, WaitInv
  <1> QED BY <1>1, <1>2, <1>3, <1>4 DEF IInv

\* A restart of Redis forgets the counters; the observer begins again.
LEMMA RedisRestartInv == ASSUME IInv, RedisRestart PROVE IInv'
  <1>1. TypeOK'
    BY DEF IInv, RedisRestart, TypeOK, Idle
  <1>2. KeysExpire'
    BY DEF RedisRestart, KeysExpire
  <1>3. WatchInv'
    BY KeyType DEF IInv, RedisRestart, TypeOK, WatchInv, Idle
  <1>4. WaitInv'
    BY LimitAssumption DEF IInv, RedisRestart, TypeOK, WaitInv
  <1> QED BY <1>1, <1>2, <1>3, <1>4 DEF IInv

\* The observer may begin at any time, in the middle of a window.
LEMMA ObserveInv == ASSUME IInv, Observe PROVE IInv'
  <1> DEFINE k == watch.key
  <1>1. /\ k \in Keys /\ watch'.key = k /\ watch.left = 0
        /\ watch'.left = Ticks(k[1]) /\ watch'.seen = watch.seen
        /\ UNCHANGED <<count, ttl, pc, route, due, resetIn>>
    BY DEF IInv, TypeOK, Observe
  <1>2. TypeOK'
    BY <1>1, KeyType DEF IInv, TypeOK, Observe
  <1>3. KeysExpire' /\ WaitInv'
    BY <1>1 DEF IInv, KeysExpire, WaitInv
  <1>4. WatchInv'
    BY <1>1, KeyType DEF IInv, TypeOK, KeysExpire, WatchInv, LetThrough
  <1> QED BY <1>2, <1>3, <1>4 DEF IInv

\* Every step keeps the invariant.
LEMMA NextInv == IInv /\ [Next]_vars => IInv'
  BY StutterInv, ArriveInv, AdmitInv, RefuseInv, FailOpenInv, TickInv,
     RedisRestartInv, ObserveInv DEF Next

-----------------------------------------------------------------------------
\* Every reachable state satisfies the inductive invariant.
THEOREM InvariantHolds == Spec => []IInv
  BY InitInv, NextInv, PTL DEF Spec

\* The variables keep their types in every run of the limiter.
THEOREM RateLimitTypeCorrect == Spec => []TypeOK
  <1>1. IInv => TypeOK
    BY DEF IInv
  <1> QED BY <1>1, InvariantHolds, PTL

\* No counter outlives its window, so no client is shut out for good (the
\* atomic script of redis_rate_limiter).
THEOREM NoKeyIsImmortal == Spec => []NoImmortalKey
  <1>1. IInv => NoImmortalKey
    BY KeyType DEF IInv, TypeOK, KeysExpire, NoImmortalKey
  <1> QED BY <1>1, InvariantHolds, PTL

\* At most twice the limit passes in any stretch as long as the window
\* (hit's fixed window), for every limit and window.
THEOREM BurstIsBounded == Spec => []AtMostTwiceLimit
  <1>1. IInv => AtMostTwiceLimit
    BY KeyType DEF IInv, TypeOK, WatchInv, AtMostTwiceLimit, LetThrough
  <1> QED BY <1>1, InvariantHolds, PTL

\* Who waits for Retry-After comes at most half a second early (TTL rounding
\* and max(ttl, 1) in hit).
THEOREM RetryAfterIsAlmostReset == Spec => []RetryAfterIsClose
  <1>1. IInv => RetryAfterIsClose
    BY LimitAssumption DEF IInv, TypeOK, WaitInv, RetryAfterIsClose
  <1> QED BY <1>1, InvariantHolds, PTL
=============================================================================
