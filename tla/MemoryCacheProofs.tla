------------------------- MODULE MemoryCacheProofs -------------------------
(***************************************************************************)
(* The expiry timers and the onChange subscriptions of the in-process      *)
(* cache, for any number of keys, values, timers and callers.              *)
(***************************************************************************)
EXTENDS MemoryCache, TLAPS

LEMMA InitTypeOK == Init => TypeOK
BY NoneAssumption DEF Init, TypeOK, Idle

LEMMA NextTypeOK == TypeOK /\ [Next]_vars => TypeOK'
<1> SUFFICES ASSUME TypeOK, [Next]_vars PROVE TypeOK'
  OBVIOUS
<1> USE NoneAssumption DEF TypeOK
<1>1. ASSUME NEW k \in Keys, NEW v \in Values, NEW ttl \in BOOLEAN,
             cache' = [cache EXCEPT ![k] = v], Rearm(k, ttl), ResolveOnChange(k, v)
      PROVE  TypeOK'
  <2>1. cache' \in [Keys -> Values \cup {None}]
    BY <1>1
  <2>2. ClearTimeout(k) \in [TimerIds -> Keys \cup {None}]
    BY DEF ClearTimeout
  <2>3. /\ timeoutMap' \in [Keys -> TimerIds \cup {None}]
        /\ timerKey' \in [TimerIds -> Keys \cup {None}]
        /\ expires' \in SUBSET Keys
    BY <1>1, <2>2 DEF Rearm
  <2>4. stale' \in SUBSET TimerIds
    BY <1>1 DEF Rearm, StaleAfter
  <2>5. /\ subscribed' \in SUBSET Keys
        /\ firstSet' \in [Waiters -> Values \cup {None}]
    BY <1>1 DEF ResolveOnChange
  <2>6. waiter' \in [Waiters -> [st : {"idle", "waiting", "notified", "timedout"},
                                 key : Keys \cup {None},
                                 val : Values \cup {None}]]
    BY <1>1 DEF ResolveOnChange, WaitingOn
  <2>7. \A w \in Waiters : waiter'[w].st = "waiting" => waiter'[w].key \in Keys
    BY <1>1 DEF ResolveOnChange, WaitingOn
  <2> QED BY <2>1, <2>3, <2>4, <2>5, <2>6, <2>7
<1>2. ASSUME NEW k \in Keys, UpdateExpiration(k) PROVE TypeOK'
  BY <1>2 DEF UpdateExpiration, ClearTimeout
<1>3. ASSUME NEW k \in Keys, Remove(k) PROVE TypeOK'
  BY <1>3 DEF Remove, StaleAfter
<1>4. ASSUME NEW t \in TimerIds, Expire(t) PROVE TypeOK'
  BY <1>4 DEF Expire, StaleAfter
<1>5. ASSUME NEW w \in Waiters, NEW k \in Keys, OnChange(w, k) PROVE TypeOK'
  BY <1>5 DEF OnChange, store
<1>6. ASSUME NEW w \in Waiters, WaitTimeout(w) PROVE TypeOK'
  <2>1. cache[waiter[w].key] \in Values \cup {None}
    BY <1>6 DEF WaitTimeout
  <2> QED BY <1>6, <2>1 DEF WaitTimeout, store
<1>7. ASSUME NEW w \in Waiters, Return(w) PROVE TypeOK'
  BY <1>7 DEF Return, store, Idle
<1>8. CASE UNCHANGED vars
  BY <1>8 DEF vars
<1> QED
  BY <1>1, <1>2, <1>3, <1>4, <1>5, <1>6, <1>7, <1>8 DEF Next, Set, SetIfNotExist

\* What the cache, its timers and its callers hold stays in its type, for any
\* keys, values, timers and callers.
THEOREM CacheTypes == Spec => []TypeOK
  BY InitTypeOK, NextTypeOK, PTL DEF Spec

-----------------------------------------------------------------------------
(* Expiry timers *)

LEMMA RearmKeepsTimers ==
    ASSUME TimerInv, NEW k \in Keys, NEW v \in Values, NEW ttl \in BOOLEAN,
           cache' = [cache EXCEPT ![k] = v], Rearm(k, ttl)
    PROVE  TimersAreTracked' /\ TimerSparesNewValues' /\ ExpiryFollowsLastWriter'
<1> USE NoneAssumption DEF TimerInv, TypeOK
<1> DEFINE cleared == ClearTimeout(k)
<1>1. /\ cleared \in [TimerIds -> Keys \cup {None}]
      /\ \A t \in TimerIds : cleared[t] # k
      /\ \A t \in TimerIds : cleared[t] # None => cleared[t] = timerKey[t]
      /\ \A t \in TimerIds : timerKey[t] \notin {k, None} => cleared[t] = timerKey[t]
  BY DEF ClearTimeout, TimersAreTracked
<1>2. stale' = {t \in stale : cleared[t] # None}
  BY <1>1 DEF Rearm, StaleAfter
<1>3. \A j \in Keys : j # k => cache'[j] = cache[j]
  OBVIOUS
<1>4. cache'[k] # None
  OBVIOUS
<1> HIDE DEF cleared
<1>5. CASE ttl
  <2>1. PICK t \in TimerIds : /\ FreshTimer(t)
                              /\ timeoutMap' = [timeoutMap EXCEPT ![k] = t]
                              /\ timerKey' = [cleared EXCEPT ![t] = k]
    BY <1>5 DEF Rearm, cleared
  <2>2. expires' = expires \cup {k}
    BY <1>5 DEF Rearm
  <2>3. timerKey[t] = None /\ cleared[t] = None /\ t \notin stale'
    BY <2>1, <1>1, <1>2 DEF FreshTimer, TimersAreTracked
  <2>4. TimersAreTracked'
    BY <1>1, <1>2, <2>1, <2>3 DEF TimersAreTracked, FreshTimer
  <2>5. TimerSparesNewValues'
    BY <1>1, <1>2, <1>3, <2>1, <2>3 DEF TimerSparesNewValues
  <2>6. ASSUME NEW j \in Keys
        PROVE  /\ j \in expires' => cache'[j] # None
               /\ j \in expires' <=> \E u \in TimerIds : timerKey'[u] = j /\ u \notin stale'
    <3>1. CASE j = k
      BY <3>1, <1>4, <2>1, <2>2, <2>3, <1>1
    <3>2. CASE j # k
      <4>1. \A u \in TimerIds : timerKey'[u] = j <=> timerKey[u] = j
        BY <3>2, <1>1, <2>1, <2>3
      <4>2. \A u \in TimerIds : timerKey[u] = j => (u \in stale' <=> u \in stale)
        BY <3>2, <1>1, <1>2
      <4> QED BY <3>2, <4>1, <4>2, <1>3, <2>2 DEF ExpiryFollowsLastWriter
    <3> QED BY <3>1, <3>2
  <2> QED BY <2>4, <2>5, <2>6 DEF ExpiryFollowsLastWriter
<1>6. CASE ~ttl
  <2>1. timerKey' = cleared /\ expires' = expires \ {k} /\ timeoutMap' = timeoutMap
    BY <1>6 DEF Rearm, cleared
  <2>4. TimersAreTracked'
    BY <1>1, <1>2, <2>1 DEF TimersAreTracked
  <2>5. TimerSparesNewValues'
    BY <1>1, <1>2, <1>3, <2>1 DEF TimerSparesNewValues
  <2>6. ASSUME NEW j \in Keys
        PROVE  /\ j \in expires' => cache'[j] # None
               /\ j \in expires' <=> \E u \in TimerIds : timerKey'[u] = j /\ u \notin stale'
    <3>1. CASE j = k
      BY <3>1, <2>1, <1>1
    <3>2. CASE j # k
      <4>1. \A u \in TimerIds : timerKey'[u] = j <=> timerKey[u] = j
        BY <3>2, <1>1, <2>1
      <4>2. \A u \in TimerIds : timerKey[u] = j => (u \in stale' <=> u \in stale)
        BY <3>2, <1>1, <1>2
      <4> QED BY <3>2, <4>1, <4>2, <1>3, <2>1 DEF ExpiryFollowsLastWriter
    <3> QED BY <3>1, <3>2
  <2> QED BY <2>4, <2>5, <2>6 DEF ExpiryFollowsLastWriter
<1> QED BY <1>5, <1>6

\* A scheduled expiry callback only ever deletes the value it was armed for,
\* and a value expires exactly when its last writer asked for it, in every
\* interleaving of writers, removals, renewals and firing timers.
THEOREM TimersSafe == Spec => [](TimerSparesNewValues /\ ExpiryFollowsLastWriter)
<1>1. Init => TimerInv
  <2> SUFFICES ASSUME Init PROVE TimerInv
    OBVIOUS
  <2>1. TypeOK
    BY InitTypeOK
  <2> QED BY <2>1, NoneAssumption DEF Init, TimerInv, TimersAreTracked, TimerSparesNewValues,
                      ExpiryFollowsLastWriter
<1>2. TimerInv /\ [Next]_vars => TimerInv'
  <2> SUFFICES ASSUME TimerInv, [Next]_vars
               PROVE  TimersAreTracked' /\ TimerSparesNewValues' /\ ExpiryFollowsLastWriter'
    BY NextTypeOK DEF TimerInv
  <2> USE NoneAssumption DEF TimerInv, TypeOK
  <2>1. ASSUME NEW k \in Keys, NEW v \in Values, NEW ttl \in BOOLEAN,
               Set(k, v, ttl) \/ SetIfNotExist(k, v, ttl)
        PROVE  TimersAreTracked' /\ TimerSparesNewValues' /\ ExpiryFollowsLastWriter'
    BY <2>1, RearmKeepsTimers DEF Set, SetIfNotExist
  <2>2. ASSUME NEW k \in Keys, UpdateExpiration(k)
        PROVE  TimersAreTracked' /\ TimerSparesNewValues' /\ ExpiryFollowsLastWriter'
    <3>1. PICK t \in TimerIds : /\ FreshTimer(t)
                                /\ timeoutMap' = [timeoutMap EXCEPT ![k] = t]
                                /\ timerKey' = [ClearTimeout(k) EXCEPT ![t] = k]
                                /\ stale' = stale \ {timeoutMap[k]}
      BY <2>2 DEF UpdateExpiration
    <3>2. /\ timerKey[t] = None /\ t \notin stale
          /\ \A u \in TimerIds : u # t =>
                timerKey'[u] = IF u = timeoutMap[k] THEN None ELSE timerKey[u]
          /\ timerKey'[t] = k
      BY <3>1 DEF FreshTimer, ClearTimeout, TimersAreTracked
    <3>3. cache' = cache /\ expires' = expires \cup {k} /\ cache[k] # None
      BY <2>2 DEF UpdateExpiration
    <3>4. TimersAreTracked'
      BY <3>1, <3>2 DEF TimersAreTracked, FreshTimer
    <3>5. TimerSparesNewValues'
      BY <3>1, <3>2, <3>3 DEF TimerSparesNewValues, TimersAreTracked
    <3>6. ExpiryFollowsLastWriter'
      BY <3>1, <3>2, <3>3 DEF ExpiryFollowsLastWriter, TimersAreTracked
    <3> QED BY <3>4, <3>5, <3>6
  <2>3. ASSUME NEW k \in Keys, Remove(k)
        PROVE  TimersAreTracked' /\ TimerSparesNewValues' /\ ExpiryFollowsLastWriter'
    <3>1. TimersAreTracked'
      BY <2>3 DEF Remove, StaleAfter, TimersAreTracked
    <3>2. TimerSparesNewValues'
      BY <2>3 DEF Remove, StaleAfter, TimerSparesNewValues
    <3>3. ExpiryFollowsLastWriter'
      BY <2>3 DEF Remove, StaleAfter, ExpiryFollowsLastWriter, TimersAreTracked
    <3> QED BY <3>1, <3>2, <3>3
  <2>4. ASSUME NEW t \in TimerIds, Expire(t)
        PROVE  TimersAreTracked' /\ TimerSparesNewValues' /\ ExpiryFollowsLastWriter'
    <3>1. TimersAreTracked'
      BY <2>4 DEF Expire, StaleAfter, TimersAreTracked
    <3>2. TimerSparesNewValues'
      BY <2>4 DEF Expire, StaleAfter, TimerSparesNewValues
    <3>3. ExpiryFollowsLastWriter'
      BY <2>4 DEF Expire, StaleAfter, ExpiryFollowsLastWriter, TimersAreTracked
    <3> QED BY <3>1, <3>2, <3>3
  <2>5. ASSUME UNCHANGED store
        PROVE  TimersAreTracked' /\ TimerSparesNewValues' /\ ExpiryFollowsLastWriter'
    BY <2>5 DEF store, TimersAreTracked, TimerSparesNewValues, ExpiryFollowsLastWriter
  <2> QED
    BY <2>1, <2>2, <2>3, <2>4, <2>5
       DEF Next, OnChange, WaitTimeout, Return, vars, store
<1>3. TimerInv => TimerSparesNewValues /\ ExpiryFollowsLastWriter
  BY DEF TimerInv
<1> QED BY <1>1, <1>2, <1>3, PTL DEF Spec

\* No timer that is still running deletes a value written after the one it was
\* armed for was overwritten or removed.
THEOREM NewValuesSpared == Spec => []TimerSparesNewValues
  BY TimersSafe, PTL

-----------------------------------------------------------------------------
(* Subscriptions *)

\* onChange loses no wake-up: a caller still waiting has missed no set of its
\* key, and one that was notified holds the first value set after it began to
\* wait, however many callers share the promise of the key.
THEOREM WakeupsSafe == Spec => []FirstSetWakesWaiter
<1>1. Init => WaiterInv
  BY InitTypeOK DEF Init, WaiterInv, WaitersAreSubscribed, FirstSetWakesWaiter, Idle
<1>2. WaiterInv /\ [Next]_vars => WaiterInv'
  <2> SUFFICES ASSUME WaiterInv, [Next]_vars
               PROVE  WaitersAreSubscribed' /\ FirstSetWakesWaiter'
    BY NextTypeOK DEF WaiterInv
  <2> USE NoneAssumption DEF WaiterInv, TypeOK, WaitersAreSubscribed, FirstSetWakesWaiter
  <2>1. ASSUME NEW k \in Keys, NEW v \in Values, ResolveOnChange(k, v)
        PROVE  WaitersAreSubscribed' /\ FirstSetWakesWaiter'
    BY <2>1 DEF ResolveOnChange, WaitingOn
  <2>2. ASSUME NEW w \in Waiters, NEW k \in Keys, OnChange(w, k)
        PROVE  WaitersAreSubscribed' /\ FirstSetWakesWaiter'
    BY <2>2 DEF OnChange
  <2>3. ASSUME NEW w \in Waiters, WaitTimeout(w)
        PROVE  WaitersAreSubscribed' /\ FirstSetWakesWaiter'
    BY <2>3 DEF WaitTimeout
  <2>4. ASSUME NEW w \in Waiters, Return(w)
        PROVE  WaitersAreSubscribed' /\ FirstSetWakesWaiter'
    BY <2>4 DEF Return, Idle
  <2>5. ASSUME UNCHANGED <<subscribed, waiter, firstSet>>
        PROVE  WaitersAreSubscribed' /\ FirstSetWakesWaiter'
    BY <2>5
  <2> QED
    BY <2>1, <2>2, <2>3, <2>4, <2>5
       DEF Next, Set, SetIfNotExist, UpdateExpiration, Remove, Expire, vars
<1>3. WaiterInv => FirstSetWakesWaiter
  BY DEF WaiterInv
<1> QED BY <1>1, <1>2, <1>3, PTL DEF Spec
=============================================================================
