---------------------------- MODULE MemoryCache ----------------------------
(***************************************************************************)
(* The in-process cache of packages/core/src/util/cache/memory.ts.         *)
(*                                                                         *)
(* Every operation of the class runs to completion on the event loop, so   *)
(* each is one action.  What interleaves are the callbacks it leaves       *)
(* behind: the expiry timers armed by set, setIfNotExist and               *)
(* updateExpiration, and the promise race of onChange between the shared   *)
(* subscription of a key and the waiter's own timeout.                     *)
(***************************************************************************)
EXTENDS FiniteSets

CONSTANTS
    Keys,       \* namespaced keys, `${namespace}:${key}`
    Values,     \* cached strings
    TimerIds,   \* handles returned by setTimeout for expiries
    Waiters,    \* callers of onChange
    None        \* undefined / null

ASSUME NoneAssumption == None \notin Values \cup TimerIds \cup Keys

VARIABLES
    cache,       \* _cache: the Map behind the proxy
    timeoutMap,  \* _timeoutMap: last handle stored for a key; never deleted
    timerKey,    \* scheduled expiry callbacks: the key each will delete
    subscribed,  \* _keySubscriptionMap / _keySubscriptionPromiseMap hold key
    waiter,      \* state of each onChange caller
    \* History.
    stale,       \* timers whose value has since been removed or overwritten
    expires,     \* keys whose present value was given an expiry
    firstSet     \* first value set on a waiter's key since it began to wait

vars == <<cache, timeoutMap, timerKey, subscribed, waiter,
          stale, expires, firstSet>>

store == <<cache, timeoutMap, timerKey, stale, expires>>

Idle == [st |-> "idle", key |-> None, val |-> None]

TypeOK ==
    /\ cache \in [Keys -> Values \cup {None}]
    /\ timeoutMap \in [Keys -> TimerIds \cup {None}]
    /\ timerKey \in [TimerIds -> Keys \cup {None}]
    /\ subscribed \in SUBSET Keys
    /\ waiter \in [Waiters -> [st : {"idle", "waiting", "notified", "timedout"},
                               key : Keys \cup {None},
                               val : Values \cup {None}]]
    /\ \A w \in Waiters : waiter[w].st = "waiting" => waiter[w].key \in Keys
    /\ stale \in SUBSET TimerIds
    /\ expires \in SUBSET Keys
    /\ firstSet \in [Waiters -> Values \cup {None}]

Init ==
    /\ cache = [k \in Keys |-> None]
    /\ timeoutMap = [k \in Keys |-> None]
    /\ timerKey = [t \in TimerIds |-> None]
    /\ subscribed = {}
    /\ waiter = [w \in Waiters |-> Idle]
    /\ stale = {}
    /\ expires = {}
    /\ firstSet = [w \in Waiters |-> None]

-----------------------------------------------------------------------------
(* Helpers *)

\* setTimeout returns a handle that nothing in the cache still refers to.
FreshTimer(t) == timerKey[t] = None /\ \A k \in Keys : timeoutMap[k] # t

\* if (_timeoutMap.has(k)) clearTimeout(_timeoutMap.get(k))
ClearTimeout(k) ==
    [t \in TimerIds |-> IF t = timeoutMap[k] THEN None ELSE timerKey[t]]

\* Timers still scheduled under sched that the loss of k's value makes stale.
StaleAfter(k, sched) ==
    {t \in TimerIds : sched[t] # None /\ (t \in stale \/ timerKey[t] = k)}

\* A fault for comparison: the previous timer is left running.
RearmWithoutClear(k, ttl) ==
    /\ \E t \in TimerIds :
         /\ FreshTimer(t)
         /\ timeoutMap' = IF ttl THEN [timeoutMap EXCEPT ![k] = t] ELSE timeoutMap
         /\ timerKey' = IF ttl THEN [timerKey EXCEPT ![t] = k] ELSE timerKey
    /\ stale' = StaleAfter(k, timerKey)
    /\ expires' = IF ttl THEN expires \cup {k} ELSE expires \ {k}

\* A fault for comparison: the expiry is recorded and no timer armed.
RearmForgetsTimer(k, ttl) ==
    /\ timerKey' = ClearTimeout(k)
    /\ stale' = StaleAfter(k, ClearTimeout(k))
    /\ expires' = IF ttl THEN expires \cup {k} ELSE expires \ {k}
    /\ UNCHANGED timeoutMap

\* The expiry bookkeeping shared by set and setIfNotExist; a falsy
\* expireSeconds arms nothing and leaves the cleared handle in the map.
Rearm(k, ttl) ==
    LET cleared == ClearTimeout(k) IN
    /\ stale' = StaleAfter(k, cleared)
    /\ \/ /\ ttl
          /\ \E t \in TimerIds :
                /\ FreshTimer(t)
                /\ timeoutMap' = [timeoutMap EXCEPT ![k] = t]
                /\ timerKey' = [cleared EXCEPT ![t] = k]
          /\ expires' = expires \cup {k}
       \/ /\ ~ttl
          /\ timerKey' = cleared
          /\ expires' = expires \ {k}
          /\ UNCHANGED timeoutMap

\* The waiters attached to the shared promise of k: those still waiting on it.
WaitingOn(k) == {w \in Waiters : waiter[w].st = "waiting" /\ waiter[w].key = k}

\* A fault for comparison: the promise of the last caller alone is resolved.
ResolveOneWaiter(k, v) ==
    /\ waiter' = [w \in Waiters |->
                    IF w \in WaitingOn(k) /\ w = CHOOSE x \in WaitingOn(k) : TRUE
                    THEN [st |-> "notified", key |-> k, val |-> v]
                    ELSE waiter[w]]
    /\ subscribed' = subscribed \ {k}
    /\ firstSet' = [w \in Waiters |->
                      IF w \in WaitingOn(k) /\ firstSet[w] = None
                      THEN v ELSE firstSet[w]]

\* resolveOnChange: resolves the shared promise of k with v and drops it.
ResolveOnChange(k, v) ==
    /\ waiter' = [w \in Waiters |->
                    IF k \in subscribed /\ w \in WaitingOn(k)
                    THEN [st |-> "notified", key |-> k, val |-> v]
                    ELSE waiter[w]]
    /\ subscribed' = subscribed \ {k}
    /\ firstSet' = [w \in Waiters |->
                      IF w \in WaitingOn(k) /\ firstSet[w] = None
                      THEN v ELSE firstSet[w]]

-----------------------------------------------------------------------------
(* Operations *)

Set(k, v, ttl) ==
    /\ cache' = [cache EXCEPT ![k] = v]
    /\ Rearm(k, ttl)
    /\ ResolveOnChange(k, v)

\* A key that is present makes setIfNotExist return false and change nothing,
\* so only the successful call is an action.
SetIfNotExist(k, v, ttl) ==
    /\ cache[k] = None
    /\ cache' = [cache EXCEPT ![k] = v]
    /\ Rearm(k, ttl)
    /\ ResolveOnChange(k, v)

\* updateExpiration keeps the value and always arms a new timer.
UpdateExpiration(k) ==
    /\ cache[k] # None
    /\ \E t \in TimerIds :
         /\ FreshTimer(t)
         /\ timeoutMap' = [timeoutMap EXCEPT ![k] = t]
         /\ timerKey' = [ClearTimeout(k) EXCEPT ![t] = k]
         /\ stale' = stale \ {timeoutMap[k]}
    /\ expires' = expires \cup {k}
    /\ UNCHANGED <<cache, subscribed, waiter, firstSet>>

\* remove deletes the value but leaves its timer scheduled.
Remove(k) ==
    /\ cache[k] # None
    /\ cache' = [cache EXCEPT ![k] = None]
    /\ stale' = StaleAfter(k, timerKey)
    /\ expires' = expires \ {k}
    /\ UNCHANGED <<timeoutMap, timerKey, subscribed, waiter, firstSet>>

\* The callback given to setTimeout: it deletes whatever the key holds now.
Expire(t) ==
    /\ timerKey[t] # None
    /\ cache' = [cache EXCEPT ![timerKey[t]] = None]
    /\ timerKey' = [timerKey EXCEPT ![t] = None]
    /\ stale' = StaleAfter(timerKey[t], timerKey) \ {t}
    /\ expires' = expires \ {timerKey[t]}
    /\ UNCHANGED <<timeoutMap, subscribed, waiter, firstSet>>

\* onChange: joins the promise of the key, creating it if there is none.
OnChange(w, k) ==
    /\ waiter[w].st = "idle"
    /\ waiter' = [waiter EXCEPT ![w] = [st |-> "waiting", key |-> k, val |-> None]]
    /\ subscribed' = subscribed \cup {k}
    /\ firstSet' = [firstSet EXCEPT ![w] = None]
    /\ UNCHANGED store

\* A fault for comparison: the timeout resolves with the key.
WaitTimeoutWithKey(w) ==
    /\ waiter[w].st = "waiting"
    /\ waiter' = [waiter EXCEPT ![w] = [st |-> "timedout", key |-> waiter[w].key,
                                        val |-> waiter[w].key]]
    /\ UNCHANGED <<store, subscribed, firstSet>>

\* The setTimeout inside onChange wins the race and resolves with get().
WaitTimeout(w) ==
    /\ waiter[w].st = "waiting"
    /\ waiter' = [waiter EXCEPT ![w] = [st |-> "timedout", key |-> waiter[w].key,
                                        val |-> cache[waiter[w].key]]]
    /\ UNCHANGED <<store, subscribed, firstSet>>

\* The caller consumes the result of its await and may call again.
Return(w) ==
    /\ waiter[w].st \in {"notified", "timedout"}
    /\ waiter' = [waiter EXCEPT ![w] = Idle]
    /\ firstSet' = [firstSet EXCEPT ![w] = None]
    /\ UNCHANGED <<store, subscribed>>

Next ==
    \/ \E k \in Keys, v \in Values, ttl \in BOOLEAN :
          Set(k, v, ttl) \/ SetIfNotExist(k, v, ttl)
    \/ \E k \in Keys : UpdateExpiration(k) \/ Remove(k)
    \/ \E t \in TimerIds : Expire(t)
    \/ \E w \in Waiters, k \in Keys : OnChange(w, k)
    \/ \E w \in Waiters : WaitTimeout(w) \/ Return(w)

Spec == Init /\ [][Next]_vars

-----------------------------------------------------------------------------
(* Properties *)

\* An expiry callback that is still scheduled never deletes a value other than
\* the one it was armed for: once that value was overwritten or removed, the
\* key is empty until the timer fires or a writer cancels it (memory.ts:162,
\* 189 and 210 clear the old handle, memory.ts:70-86 leaves it running).
TimerSparesNewValues ==
    \A t \in stale : timerKey[t] # None => cache[timerKey[t]] = None

\* A present value expires exactly when its last writer or renewer asked for
\* it: a value given a TTL has a live timer of its own and a value written
\* without one has none, whatever sequence of remove, set and renewals led
\* here (a value without its timer would hold a Transactions or Connections
\* entry for ever).
ExpiryFollowsLastWriter ==
    \A k \in Keys :
        /\ k \in expires => cache[k] # None
        /\ k \in expires <=> \E t \in TimerIds : timerKey[t] = k /\ t \notin stale

\* A running timer is the one _timeoutMap holds for its key, no two keys hold
\* one handle, and only running timers are counted stale: what makes
\* clearTimeout cancel the right timer and no other.
TimersAreTracked ==
    /\ \A j, k \in Keys : timeoutMap[j] = timeoutMap[k] => j = k \/ timeoutMap[k] = None
    /\ \A t \in TimerIds : timerKey[t] # None => timeoutMap[timerKey[t]] = t
    /\ \A t \in stale : timerKey[t] # None

\* No wake-up is lost and none is late: a caller still waiting has missed no
\* set of its key, and one resolved by the subscription got the first value
\* set after it began to wait, although callers share one promise per key
\* that outlives those that time out (memory.ts:97-134, 226-231).
FirstSetWakesWaiter ==
    \A w \in Waiters :
        /\ waiter[w].st = "waiting" => firstSet[w] = None
        /\ waiter[w].st = "notified" => waiter[w].val = firstSet[w]

\* A caller that waits is attached to the promise of a key still subscribed.
WaitersAreSubscribed ==
    \A w \in Waiters : waiter[w].st = "waiting" => waiter[w].key \in subscribed

\* The inductive invariant of the expiry timers and of the subscriptions.
TimerInv == TypeOK /\ TimersAreTracked /\ TimerSparesNewValues
            /\ ExpiryFollowsLastWriter

WaiterInv == TypeOK /\ WaitersAreSubscribed /\ FirstSetWakesWaiter
=============================================================================
