--------------------- MODULE StationConnectionsProofs ---------------------
(***************************************************************************)
(* The bookkeeping of StationConnections is right for any number of        *)
(* stations, sockets and disconnect requests.  Close handling is keyed by  *)
(* the station; what makes it safe is that, as long as no slot runs out, a *)
(* socket with a close listener is the one its station tracks and whose    *)
(* slot it holds.  The count does not need that: it only follows the       *)
(* listeners.                                                              *)
(***************************************************************************)
EXTENDS StationConnections, FiniteSetTheorems, TLAPS

\* The part of TypeOK the argument uses.
TrackingType ==
    /\ pc \in [Sockets -> PcValues]
    /\ closeHandlers \subseteq Sockets
    /\ identifierConnections \in [Stations -> Sockets \cup {None}]
    /\ slot \in [Stations -> Sockets \cup {None}]
    /\ tenantCount \in Nat
    /\ dereg \in [Tasks -> {"none", "offline", "unsubscribe", "cancel", "done"}]

\* A socket with a close listener was established; one in use has a listener.
ListenersLive ==
    \A w \in Sockets :
        /\ w \in closeHandlers => pc[w] \in {"open", "closing"}
        /\ pc[w] = "open" => w \in closeHandlers

\* What a station tracks is a socket of its own with a close listener.
TrackedListens ==
    \A s \in Stations : identifierConnections[s] # None =>
        /\ identifierConnections[s] \in closeHandlers
        /\ StationOf[identifierConnections[s]] = s

\* Where no slot ran out, a socket past the slot holds it, and one with a
\* listener is tracked.
SlotsExclusive ==
    \A w \in Sockets : StationOf[w] \notin lapsed =>
        /\ PastSlot(w) => slot[StationOf[w]] = w
        /\ w \in closeHandlers => identifierConnections[StationOf[w]] = w

TrackingInv ==
    /\ TrackingType
    /\ ListenersLive
    /\ TrackedListens
    /\ SlotsExclusive
    /\ TenantCountExact

USE StationConnectionsAssumption

\* Counting one listener more or less.
LEMMA CountListeners ==
    ASSUME NEW S, S \subseteq Sockets, NEW w \in Sockets
    PROVE  /\ IsFiniteSet(S)
           /\ Cardinality(S) \in Nat
           /\ w \notin S => Cardinality(S \cup {w}) = Cardinality(S) + 1
           /\ w \in S => /\ Cardinality(S \ {w}) = Cardinality(S) - 1
                         /\ Cardinality(S) # 0
<1>1. IsFiniteSet(S) /\ Cardinality(S) \in Nat
  BY FS_Subset, FS_CardinalityType
<1>2. w \notin S => Cardinality(S \cup {w}) = Cardinality(S) + 1
  BY <1>1, FS_AddElement
<1>3. w \in S => Cardinality(S \ {w}) = Cardinality(S) - 1
  BY <1>1, FS_RemoveElement
<1>4. w \in S => Cardinality(S) # 0
  BY <1>1, FS_EmptySet
<1> QED BY <1>1, <1>2, <1>3, <1>4

\* No socket is tracked at the start.
LEMMA InitTracking == Init => TrackingInv
<1> SUFFICES ASSUME Init PROVE TrackingInv
  OBVIOUS
<1>1. TenantCountExact
  BY FS_EmptySet DEF Init, TenantCountExact
<1>2. TrackingType
  BY DEF Init, TrackingType, PcValues
<1>3. ListenersLive /\ TrackedListens /\ SlotsExclusive
  BY DEF Init, ListenersLive, TrackedListens, SlotsExclusive, PastSlot
<1> QED BY <1>1, <1>2, <1>3 DEF TrackingInv

\* _handleWebsocketClose of a socket whose listener goes with it: the count
\* follows.
LEMMA CloseCounts ==
    ASSUME TrackingInv,
           NEW w \in closeHandlers,
           closeHandlers' = closeHandlers \ {w},
           HandleWebsocketClose(w)
    PROVE  /\ TenantCountExact'
           /\ tenantCount' \in Nat
           /\ identifierConnections' \in [Stations -> Sockets \cup {None}]
           /\ slot' \in [Stations -> Sockets \cup {None}]
           /\ dereg' \in [Tasks -> {"none", "offline", "unsubscribe", "cancel", "done"}]
<1>1. /\ Cardinality(closeHandlers \ {w}) = Cardinality(closeHandlers) - 1
      /\ Cardinality(closeHandlers) \in Nat \ {0}
  BY CountListeners DEF TrackingInv, TrackingType
<1>2. TenantCountExact' /\ tenantCount' \in Nat
  BY <1>1 DEF TrackingInv, TenantCountExact, HandleWebsocketClose
<1>3. QED
  BY <1>2 DEF TrackingInv, TrackingType, HandleWebsocketClose, Tasks

\* Every step keeps the bookkeeping.
LEMMA NextTracking == TrackingInv /\ [Next]_vars => TrackingInv'
<1> SUFFICES ASSUME TrackingInv, [Next]_vars PROVE TrackingInv'
  OBVIOUS
<1> USE DEF TrackingInv, TrackingType, PcValues, Tasks, ListenersLive, TrackedListens,
            SlotsExclusive, PastSlot
<1>0. StationOf \in [Tasks -> Stations]
  OBVIOUS
<1>1. ASSUME NEW w \in Sockets, Connect(w) PROVE TrackingInv'
  BY <1>1 DEF Connect, TenantCountExact, tracking, cleanup, history
<1>2. ASSUME NEW w \in Sockets, RefuseUnknown(w) PROVE TrackingInv'
  BY <1>2 DEF RefuseUnknown, TenantCountExact, tracking, cleanup, history
<1>3. ASSUME NEW w \in Sockets, RefuseAtLimit(w) PROVE TrackingInv'
  BY <1>3 DEF RefuseAtLimit, TenantCountExact, tracking, cleanup, history
<1>4. ASSUME NEW w \in Sockets, NothingToReplace(w) PROVE TrackingInv'
  BY <1>4 DEF NothingToReplace, BelowLimit, TenantCountExact, tracking, cleanup, history
<1>5. ASSUME NEW w \in Sockets, ReplaceStale(w) PROVE TrackingInv'
  <2> DEFINE stale == identifierConnections[StationOf[w]]
  <2>1. /\ stale \in closeHandlers
        /\ stale # w
        /\ stale \in Sockets
        /\ StationOf[stale] = StationOf[w]
    BY <1>5 DEF ReplaceStale, BelowLimit
  <2>2. /\ TenantCountExact'
        /\ tenantCount' \in Nat
        /\ identifierConnections' \in [Stations -> Sockets \cup {None}]
        /\ slot' \in [Stations -> Sockets \cup {None}]
        /\ dereg' \in [Tasks -> {"none", "offline", "unsubscribe", "cancel", "done"}]
    BY <1>5, <2>1, CloseCounts DEF ReplaceStale
  <2>3. TrackingType'
    BY <1>5, <2>1, <2>2 DEF ReplaceStale
  <2>4. ListenersLive' /\ TrackedListens'
    BY <1>5, <2>1 DEF ReplaceStale, BelowLimit, HandleWebsocketClose
  <2>5. SlotsExclusive'
    BY <1>5, <2>1 DEF ReplaceStale, BelowLimit, HandleWebsocketClose, history
  <2> QED BY <2>2, <2>3, <2>4, <2>5
<1>6. ASSUME NEW w \in Sockets, StaleCleanedUp(w) PROVE TrackingInv'
  BY <1>6 DEF StaleCleanedUp, TenantCountExact, tracking, cleanup, history
<1>7. ASSUME NEW w \in Sockets, Claim(w) PROVE TrackingInv'
  <2>1. TenantCountExact' /\ TrackingType' /\ ListenersLive' /\ TrackedListens'
    BY <1>7 DEF Claim, TenantCountExact, cleanup
  <2>2. CASE slot[StationOf[w]] # None
    <3>1. SlotsExclusive'
      BY <1>7, <2>2 DEF Claim
    <3> QED BY <2>1, <3>1
  <2>3. CASE slot[StationOf[w]] = None
    <3> DEFINE s == StationOf[w]
               others == {v \in Sockets \ {w} : StationOf[v] = s /\ PastSlot(v)}
    <3>1. /\ slot' = [slot EXCEPT ![s] = w]
          /\ pc' = [pc EXCEPT ![w] = "registering"]
          /\ lapsed' = IF others = {} THEN lapsed \ {s} ELSE lapsed
          /\ UNCHANGED <<closeHandlers, identifierConnections>>
      BY <1>7, <2>3 DEF Claim
    <3>2. w \notin closeHandlers
      BY <1>7 DEF Claim
    <3>3. others # {} => s \in lapsed
      BY <2>3
    <3>4. ASSUME NEW v \in Sockets, StationOf[v] \notin lapsed'
          PROVE  /\ PastSlot(v)' => slot'[StationOf[v]] = v
                 /\ v \in closeHandlers' => identifierConnections'[StationOf[v]] = v
      <4>1. CASE StationOf[v] # s
        BY <3>1, <3>4, <4>1
      <4>2. CASE v = w
        BY <3>1, <3>2, <4>2
      <4>3. CASE StationOf[v] = s /\ v # w
        <5>1. others = {}
          BY <3>1, <3>3, <3>4, <4>3
        <5>2. ~PastSlot(v)
          BY <5>1, <4>3
        <5> QED BY <3>1, <4>3, <5>2
      <4> QED BY <4>1, <4>2, <4>3
    <3>5. SlotsExclusive'
      BY <3>4
    <3> QED BY <2>1, <3>5
  <2> QED BY <2>2, <2>3
<1>8. ASSUME NEW w \in Sockets, RegisterFails(w) PROVE TrackingInv'
  BY <1>8 DEF RegisterFails, TenantCountExact, cleanup
<1>9. ASSUME NEW w \in Sockets, Establish(w) PROVE TrackingInv'
  <2>1. w \notin closeHandlers
    BY <1>9 DEF Establish
  <2>2. TenantCountExact'
    BY <1>9, <2>1, CountListeners DEF Establish, TenantCountExact
  <2> QED BY <1>9, <2>1, <2>2 DEF Establish, cleanup, history
<1>10. ASSUME NEW w \in Sockets, Settle(w) PROVE TrackingInv'
  BY <1>10 DEF Settle, SetOnline, Subscribe, TenantCountExact, tracking, cleanup, history
<1>11. ASSUME NEW w \in Sockets, CloseEvent(w) PROVE TrackingInv'
  <2>1. /\ TenantCountExact'
        /\ tenantCount' \in Nat
        /\ identifierConnections' \in [Stations -> Sockets \cup {None}]
        /\ slot' \in [Stations -> Sockets \cup {None}]
        /\ dereg' \in [Tasks -> {"none", "offline", "unsubscribe", "cancel", "done"}]
    BY <1>11, CloseCounts DEF CloseEvent
  <2>2. ListenersLive' /\ TrackedListens'
    BY <1>11 DEF CloseEvent, HandleWebsocketClose
  <2>3. SlotsExclusive'
    BY <1>11 DEF CloseEvent, HandleWebsocketClose, history
  <2> QED BY <1>11, <2>1, <2>2, <2>3 DEF CloseEvent
<1>12. ASSUME NEW a \in Admins, Disconnect(a) PROVE TrackingInv'
  BY <1>12 DEF Disconnect, TenantCountExact, tracking, history
<1>13. ASSUME NEW t \in Tasks, Deregister(t) PROVE TrackingInv'
  BY <1>13 DEF Deregister, SetOffline, SetOfflineFails, Unsubscribe, CancelConsumers,
               TenantCountExact, sockets, tracking, history
<1>14. CASE Shutdown
  <2> DEFINE tracked == {w \in Sockets : identifierConnections[StationOf[w]] = w}
  <2>1. tracked \subseteq closeHandlers
    OBVIOUS
  <2>2. /\ IsFiniteSet(closeHandlers)
        /\ IsFiniteSet(tracked)
        /\ Cardinality(closeHandlers) \in Nat
        /\ Cardinality(closeHandlers \ tracked) \in Nat
        /\ Cardinality(closeHandlers \ tracked) = Cardinality(closeHandlers) - Cardinality(tracked)
    <3>1. IsFiniteSet(closeHandlers) /\ IsFiniteSet(tracked) /\ IsFiniteSet(closeHandlers \ tracked)
      BY FS_Subset
    <3>2. closeHandlers \cap tracked = tracked
      BY <2>1
    <3>3. Cardinality(closeHandlers \ tracked)
            = Cardinality(closeHandlers) - Cardinality(closeHandlers \cap tracked)
      BY <3>1, FS_Difference
    <3> QED BY <3>1, <3>2, <3>3, FS_CardinalityType
  <2>3. /\ closeHandlers' = closeHandlers \ tracked
        /\ tenantCount' = tenantCount - Cardinality(tracked)
    BY <1>14, Zenon DEF Shutdown
  <2>4. TenantCountExact' /\ tenantCount' \in Nat
    <3> HIDE DEF tracked
    <3> QED BY <2>2, <2>3 DEF TenantCountExact
  <2>5. TrackingType'
    BY <1>14, <2>3, <2>4 DEF Shutdown
  <2>6. ListenersLive' /\ TrackedListens'
    BY <1>14, <2>3 DEF Shutdown
  <2>7. SlotsExclusive'
    <3>1. \A v \in Sockets : v \in closeHandlers' => StationOf[v] \in lapsed
      BY <2>3
    <3>2. UNCHANGED lapsed
      BY <1>14 DEF Shutdown, history
    <3>3. ASSUME NEW v \in Sockets, StationOf[v] \notin lapsed, pc'[v] = "registering"
          PROVE  slot'[StationOf[v]] = v
      <4>1. pc[v] = "registering" /\ slot[StationOf[v]] = v
        BY <1>14, <3>3 DEF Shutdown
      <4>2. identifierConnections[StationOf[v]] = None
        <5> SUFFICES ASSUME identifierConnections[StationOf[v]] # None PROVE FALSE
          OBVIOUS
        <5>1. PICK u \in Sockets : u = identifierConnections[StationOf[v]]
          OBVIOUS
        <5>2. u \in closeHandlers /\ StationOf[u] = StationOf[v] /\ u # v
          BY <4>1, <5>1
        <5> QED BY <3>3, <4>1, <5>2
      <4> QED BY <1>14, <4>1, <4>2 DEF Shutdown
    <3> QED BY <3>1, <3>2, <3>3
  <2> QED BY <2>4, <2>5, <2>6, <2>7
<1>15. ASSUME NEW s \in Stations, ExpireSlot(s) PROVE TrackingInv'
  BY <1>15 DEF ExpireSlot, TenantCountExact, sockets, cleanup
<1>16. ASSUME NEW s \in Stations, SendFindsNoSlot(s) PROVE TrackingInv'
  BY <1>16 DEF SendFindsNoSlot, TenantCountExact, tracking, cleanup, history
<1>17. CASE UNCHANGED vars
  BY <1>17 DEF vars, sockets, tracking, cleanup, history, TenantCountExact
<1> QED
  BY <1>1, <1>2, <1>3, <1>4, <1>5, <1>6, <1>7, <1>8, <1>9, <1>10, <1>11, <1>12, <1>13,
     <1>14, <1>15, <1>16, <1>17 DEF Next, Advance

\* The bookkeeping is an invariant of every behaviour.
THEOREM TrackingSafe == Spec => []TrackingInv
  BY InitTracking, NextTracking, PTL DEF Spec

\* The tenant's connection count is the number of sockets whose close will
\* decrement it, however connects, replacements, closes and shutdown interleave.
THEOREM CountExact == Spec => []TenantCountExact
<1>1. TrackingInv => TenantCountExact
  BY DEF TrackingInv
<1> QED BY <1>1, TrackingSafe, PTL

\* A socket in use is the one sendMessage finds for its station and holds the
\* station's slot, unless a registration of the station outlived its slot and
\* its sockets are not all gone since.
THEOREM OpenReachable == Spec => []OpenIsReachable
<1>1. TrackingInv => OpenIsReachable
  BY DEF TrackingInv, TrackingType, ListenersLive, SlotsExclusive, PastSlot, OpenIsReachable
<1> QED BY <1>1, TrackingSafe, PTL

\* At most one socket of a station gets past the slot, and only a slot that ran
\* out lets a second one through.
THEOREM SingleOwner == Spec => []OneOwner
<1>1. TrackingInv => OneOwner
  BY DEF TrackingInv, ListenersLive, SlotsExclusive, PastSlot, OneOwner
<1> QED BY <1>1, TrackingSafe, PTL

\* Registrations are pending only at a socket that registers, or failed to.
PendingRegisters ==
    \A w \in Sockets : todo[w] # {} => pc[w] \in {"registering", "failed"}

OnlineInv ==
    /\ TrackingInv
    /\ TypeOK
    /\ PendingRegisters
    /\ OnlineIsOwned

\* No station is online at the start.
LEMMA InitOnline == Init => OnlineInv
<1> SUFFICES ASSUME Init PROVE OnlineInv
  OBVIOUS
<1>1. TrackingInv
  BY InitTracking
<1>2. TypeOK
  BY DEF Init, TypeOK, PcValues
<1> QED BY <1>1, <1>2 DEF Init, OnlineInv, PendingRegisters, OnlineIsOwned

\* Every step keeps the types.
LEMMA NextTypes == TrackingInv /\ TrackingInv' /\ TypeOK /\ [Next]_vars => TypeOK'
<1> SUFFICES ASSUME TrackingInv, TrackingInv', TypeOK, [Next]_vars PROVE TypeOK'
  OBVIOUS
<1>0. StationOf \in [Tasks -> Stations]
  BY DEF Tasks
<1>1. /\ pc' \in [Sockets -> PcValues]
      /\ closeHandlers' \subseteq Sockets
      /\ identifierConnections' \in [Stations -> Sockets \cup {None}]
      /\ slot' \in [Stations -> Sockets \cup {None}]
      /\ tenantCount' \in Nat
      /\ dereg' \in [Tasks -> {"none", "offline", "unsubscribe", "cancel", "done"}]
  BY DEF TrackingInv, TrackingType
<1>2. replaces' \in [Sockets -> Sockets \cup {None}]
  BY <1>0 DEF TypeOK, Next, vars, sockets, cleanup, broker, tracking, Connect, RefuseUnknown,
     Advance, RefuseAtLimit, NothingToReplace, ReplaceStale, BelowLimit, StaleCleanedUp, Claim,
     RegisterFails, Establish, Settle, SetOnline, Subscribe, CloseEvent, Disconnect, Deregister,
     SetOffline, SetOfflineFails, Unsubscribe, CancelConsumers, Shutdown, ExpireSlot,
     SendFindsNoSlot, history, Tasks
<1>3. todo' \in [Sockets -> SUBSET Registrations]
  BY DEF TypeOK, Next, vars, sockets, cleanup, broker, tracking, Connect, RefuseUnknown,
     Advance, RefuseAtLimit, NothingToReplace, ReplaceStale, BelowLimit, StaleCleanedUp, Claim,
     RegisterFails, Establish, Settle, SetOnline, Subscribe, CloseEvent, Disconnect, Deregister,
     SetOffline, SetOfflineFails, Unsubscribe, CancelConsumers, Shutdown, ExpireSlot,
     SendFindsNoSlot, history
<1>4. /\ cancels' \in [Tasks -> SUBSET Tags]
      /\ consumerTags' \in [Stations -> SUBSET Tags]
      /\ consumers' \subseteq Tags
  BY <1>0 DEF TypeOK, Next, vars, sockets, cleanup, broker, tracking, Connect, RefuseUnknown,
     Advance, RefuseAtLimit, NothingToReplace, ReplaceStale, BelowLimit, StaleCleanedUp, Claim,
     RegisterFails, Establish, Settle, SetOnline, Subscribe, CloseEvent, Disconnect, Deregister,
     SetOffline, SetOfflineFails, Unsubscribe, CancelConsumers, Shutdown, ExpireSlot,
     SendFindsNoSlot, history, Tasks, Tags, Registrations
<1>5. online' \subseteq Stations
  BY <1>0 DEF TypeOK, Next, vars, sockets, cleanup, broker, tracking, Connect, RefuseUnknown,
     Advance, RefuseAtLimit, NothingToReplace, ReplaceStale, BelowLimit, StaleCleanedUp, Claim,
     RegisterFails, Establish, Settle, SetOnline, Subscribe, CloseEvent, Disconnect, Deregister,
     SetOffline, SetOfflineFails, Unsubscribe, CancelConsumers, Shutdown, ExpireSlot,
     SendFindsNoSlot, history, Tasks
<1>6. running' \in BOOLEAN
  BY Zenon DEF TypeOK, Next, vars, Connect, RefuseUnknown, Advance, RefuseAtLimit,
     NothingToReplace, ReplaceStale, StaleCleanedUp, Claim, RegisterFails, Establish, Settle,
     SetOnline, Subscribe, CloseEvent, Disconnect, Deregister, SetOffline, SetOfflineFails,
     Unsubscribe, CancelConsumers, Shutdown, ExpireSlot, SendFindsNoSlot
<1>7. lapsed' \subseteq Stations
  BY <1>0 DEF TypeOK, Next, vars, history, Connect, RefuseUnknown, Advance, RefuseAtLimit,
     NothingToReplace, ReplaceStale, StaleCleanedUp, Claim, RegisterFails, Establish, Settle,
     SetOnline, Subscribe, CloseEvent, Disconnect, Deregister, SetOffline, SetOfflineFails,
     Unsubscribe, CancelConsumers, Shutdown, ExpireSlot, SendFindsNoSlot
<1>8. leftOnline' \subseteq Stations
  BY <1>0 DEF TypeOK, Next, vars, history, Connect, RefuseUnknown, Advance, RefuseAtLimit,
     NothingToReplace, ReplaceStale, StaleCleanedUp, Claim, RegisterFails, Establish, Settle,
     SetOnline, Subscribe, CloseEvent, Disconnect, Deregister, SetOffline, SetOfflineFails,
     Unsubscribe, CancelConsumers, Shutdown, ExpireSlot, SendFindsNoSlot, Tasks
<1> QED BY <1>1, <1>2, <1>3, <1>4, <1>5, <1>6, <1>7, <1>8 DEF TypeOK

\* Every step leaves pending registrations where they belong.
LEMMA NextPending == OnlineInv /\ [Next]_vars => PendingRegisters'
<1> SUFFICES ASSUME OnlineInv, [Next]_vars PROVE PendingRegisters'
  OBVIOUS
<1> USE DEF OnlineInv, PendingRegisters, TypeOK, PcValues
<1>0. \A s \in Stations : identifierConnections[s] # None =>
        /\ identifierConnections[s] \in Sockets
        /\ pc[identifierConnections[s]] \in {"open", "closing"}
  BY DEF TrackingInv, TrackedListens, ListenersLive
<1>1. ASSUME NEW w \in Sockets, Connect(w) \/ RefuseUnknown(w) \/ CloseEvent(w)
      PROVE  PendingRegisters'
  BY <1>1 DEF Connect, RefuseUnknown, CloseEvent
<1>2. ASSUME NEW w \in Sockets, Advance(w) PROVE PendingRegisters'
  BY <1>0, <1>2 DEF Advance, RefuseAtLimit, NothingToReplace, BelowLimit, StaleCleanedUp, Claim,
     RegisterFails, Establish, ReplaceStale
<1>3. ASSUME NEW w \in Sockets, Settle(w) PROVE PendingRegisters'
  BY <1>3 DEF Settle, SetOnline, Subscribe
<1>4. ASSUME NEW a \in Admins, Disconnect(a) PROVE PendingRegisters'
  BY <1>0, <1>4 DEF Disconnect
<1>5. ASSUME NEW t \in Tasks, Deregister(t) PROVE PendingRegisters'
  BY <1>5 DEF Deregister, SetOffline, SetOfflineFails, Unsubscribe, CancelConsumers, sockets
<1>6. CASE Shutdown
  BY <1>0, <1>6 DEF Shutdown
<1>7. ASSUME NEW s \in Stations, ExpireSlot(s) \/ SendFindsNoSlot(s) PROVE PendingRegisters'
  BY <1>0, <1>7 DEF ExpireSlot, SendFindsNoSlot, sockets
<1>8. CASE UNCHANGED vars
  BY <1>8 DEF vars, sockets
<1> QED BY <1>1, <1>2, <1>3, <1>4, <1>5, <1>6, <1>7, <1>8 DEF Next

\* Every step leaves each station that is online accounted for.
LEMMA NextOnline == OnlineInv /\ [Next]_vars => OnlineIsOwned'
<1> SUFFICES ASSUME OnlineInv, [Next]_vars, NEW s \in online', s \notin leftOnline'
             PROVE  AccountsFor(s)'
  BY DEF OnlineIsOwned
<1> USE DEF OnlineInv, OnlineIsOwned, AccountsFor, TypeOK, PcValues, Tasks
<1>1. ASSUME NEW w \in Sockets, Connect(w) \/ RefuseUnknown(w) PROVE AccountsFor(s)'
  BY <1>1 DEF Connect, RefuseUnknown, tracking, cleanup, history
<1>2. ASSUME NEW w \in Sockets, CloseEvent(w) PROVE AccountsFor(s)'
  BY <1>2 DEF CloseEvent, HandleWebsocketClose, history
<1>3. ASSUME NEW w \in Sockets, ReplaceStale(w) PROVE AccountsFor(s)'
  BY <1>3 DEF ReplaceStale, BelowLimit, HandleWebsocketClose, TrackingInv, TrackedListens,
     ListenersLive, history
<1>4. ASSUME NEW w \in Sockets, Advance(w), ~ReplaceStale(w) PROVE AccountsFor(s)'
  BY <1>4 DEF Advance, RefuseAtLimit, NothingToReplace, BelowLimit, StaleCleanedUp, Claim,
     RegisterFails, Establish, tracking, cleanup, history
<1>5. ASSUME NEW w \in Sockets, Settle(w) PROVE AccountsFor(s)'
  BY <1>5 DEF Settle, SetOnline, Subscribe, PendingRegisters, tracking, cleanup, history
<1>6. ASSUME NEW a \in Admins, Disconnect(a) PROVE AccountsFor(s)'
  BY <1>6 DEF Disconnect, tracking, history, TrackingInv, TrackedListens, ListenersLive
<1>7. ASSUME NEW t \in Tasks, Deregister(t) PROVE AccountsFor(s)'
  BY <1>7 DEF Deregister, SetOffline, SetOfflineFails, Unsubscribe, CancelConsumers, sockets,
     tracking, history
<1>8. CASE Shutdown
  <2>1. s \in online /\ s \notin leftOnline
    BY <1>8 DEF Shutdown, history
  <2>2. ASSUME NEW w \in Sockets, StationOf[w] = s, w \in closeHandlers
        PROVE  w \in closeHandlers' \/ dereg'[w] = "offline"
    BY <1>8, <2>2 DEF Shutdown
  <2>3. ASSUME NEW w \in Sockets, pc[w] = "registering"
        PROVE  pc'[w] = "registering" /\ todo'[w] = todo[w]
    BY <1>8, <2>3 DEF Shutdown, TrackingInv, TrackedListens, ListenersLive
  <2>4. ASSUME NEW t \in Tasks, StationOf[t] = s, dereg[t] = "offline"
        PROVE  dereg'[t] = "offline"
    BY <1>8, <2>4 DEF Shutdown
  <2> QED BY <2>1, <2>2, <2>3, <2>4
<1>9. ASSUME NEW r \in Stations, ExpireSlot(r) \/ SendFindsNoSlot(r) PROVE AccountsFor(s)'
  BY <1>9 DEF ExpireSlot, SendFindsNoSlot, sockets, tracking, cleanup, history, TrackingInv,
     TrackedListens, ListenersLive
<1>10. CASE UNCHANGED vars
  BY <1>10 DEF vars, sockets, tracking, cleanup, history
<1> QED BY <1>1, <1>2, <1>3, <1>4, <1>5, <1>6, <1>7, <1>8, <1>9, <1>10 DEF Next

\* The types, the bookkeeping and the record of who is online hold together.
THEOREM OnlineSafe == Spec => []OnlineInv
<1>1. OnlineInv /\ [Next]_vars => OnlineInv'
  BY NextTracking, NextTypes, NextPending, NextOnline DEF OnlineInv
<1> QED BY InitOnline, <1>1, PTL DEF Spec

\* The variables of the connection lifecycle stay in their types, for any
\* stations, sockets and requests.
THEOREM ConnectionTypes == Spec => []TypeOK
<1>1. OnlineInv => TypeOK
  BY DEF OnlineInv
<1> QED BY <1>1, OnlineSafe, PTL

\* A station recorded online is connected, or the deregistration that records it
\* offline is still to come, for any number of sockets and requests; only a
\* registration that failed or a write that failed leaves one online.
THEOREM OnlineOwned == Spec => []OnlineIsOwned
<1>1. OnlineInv => OnlineIsOwned
  BY DEF OnlineInv
<1> QED BY <1>1, OnlineSafe, PTL

-----------------------------------------------------------------------------
(* What the lost subscription and the exceeded limit come from *)

\* No deregistration of a station has yet to read the station's tags while one
\* of its sockets registers.  The code sees to it for the socket it replaces
\* (WebsocketNetworkConnection.ts:510-524), not for one that closed by itself.
RegistersAlone ==
    \A w \in Sockets, t \in Tasks :
        pc[w] = "registering" /\ StationOf[t] = StationOf[w]
            => dereg[t] \notin {"offline", "unsubscribe"}

\* No slot has run out with sockets of its station left from that time.
NoneLapsed == lapsed = {}

\* A socket in use has no such deregistration against it either.
OpenUndisturbed ==
    \A w \in Sockets, t \in Tasks :
        pc[w] = "open" /\ StationOf[t] = StationOf[w]
            => dereg[t] \notin {"offline", "unsubscribe"}

\* A station's tags are those of its own sockets.
TagsOfStation ==
    \A s \in Stations, w \in Sockets, k \in Kinds :
        <<w, k>> \in consumerTags[s] => StationOf[w] = s

\* A socket that does not register yet has no tags.
NoEarlyTags ==
    \A w \in Sockets, k \in Kinds :
        pc[w] \in {"new", "limit", "replacing", "claiming"} =>
            /\ \A s \in Stations : <<w, k>> \notin consumerTags[s]
            /\ \A t \in Tasks : <<w, k>> \notin cancels[t]

\* The subscriptions a socket has made exist, and nobody is cancelling them.
SubscriptionsStand ==
    \A w \in Sockets, k \in Kinds :
        pc[w] \in {"registering", "open"} =>
            /\ k \notin todo[w] => <<w, k>> \in consumers
            /\ \A t \in Tasks : <<w, k>> \notin cancels[t]

SubscribedInv ==
    OnlineInv /\ OpenUndisturbed /\ TagsOfStation /\ NoEarlyTags /\ SubscriptionsStand

\* A socket that closes or is replaced, and one a request or shutdown takes down,
\* is the one its station has in use.
LEMMA KeepsUndisturbed ==
    SubscribedInv /\ RegistersAlone /\ NoneLapsed /\ [Next]_vars => OpenUndisturbed'
<1> SUFFICES ASSUME SubscribedInv, RegistersAlone, NoneLapsed, [Next]_vars
             PROVE  OpenUndisturbed'
  OBVIOUS
<1> USE DEF SubscribedInv, OnlineInv, TypeOK, PcValues, Tasks, OpenUndisturbed
<1>0. \A w \in Sockets : pc[w] = "open" \/ w \in closeHandlers
                            => identifierConnections[StationOf[w]] = w
  BY DEF TrackingInv, ListenersLive, SlotsExclusive, NoneLapsed
<1>1. ASSUME NEW w \in Sockets, Connect(w) \/ RefuseUnknown(w) \/ Settle(w)
      PROVE  OpenUndisturbed'
  BY <1>1 DEF Connect, RefuseUnknown, Settle, SetOnline, Subscribe, cleanup
<1>2. ASSUME NEW w \in Sockets, Advance(w), ~ReplaceStale(w), ~Establish(w)
      PROVE  OpenUndisturbed'
  BY <1>2 DEF Advance, RefuseAtLimit, NothingToReplace, BelowLimit, StaleCleanedUp, Claim,
     RegisterFails, cleanup
<1>3. ASSUME NEW w \in Sockets, Establish(w) PROVE OpenUndisturbed'
  BY <1>3 DEF Establish, RegistersAlone, cleanup
<1>4. ASSUME NEW w \in Sockets, ReplaceStale(w) PROVE OpenUndisturbed'
  <2> DEFINE stale == identifierConnections[StationOf[w]]
  <2>1. stale \in Sockets /\ StationOf[stale] = StationOf[w] /\ stale # w
    BY <1>4 DEF ReplaceStale, BelowLimit, TrackingInv, TrackedListens,
       ListenersLive
  <2>2. /\ pc' = [pc EXCEPT ![w] = "replacing", ![stale] = "closing"]
        /\ dereg' = [dereg EXCEPT ![stale] = "offline"]
    BY <1>4 DEF ReplaceStale, HandleWebsocketClose
  <2>3. \A v \in Sockets : pc'[v] = "open" => pc[v] = "open" /\ StationOf[v] # StationOf[w]
    BY <1>0, <2>1, <2>2
  <2> QED BY <2>1, <2>2, <2>3
<1>5. ASSUME NEW w \in Sockets, CloseEvent(w) PROVE OpenUndisturbed'
  <2>1. identifierConnections[StationOf[w]] = w
    BY <1>0, <1>5 DEF CloseEvent
  <2>2. \A v \in Sockets : pc'[v] = "open" => pc[v] = "open" /\ StationOf[v] # StationOf[w]
    BY <1>0, <1>5, <2>1 DEF CloseEvent
  <2> QED BY <1>5, <2>2 DEF CloseEvent, HandleWebsocketClose
<1>6. ASSUME NEW a \in Admins, Disconnect(a) PROVE OpenUndisturbed'
  <2>1. \A v \in Sockets : pc'[v] = "open" => pc[v] = "open" /\ StationOf[v] # StationOf[a]
    BY <1>0, <1>6 DEF Disconnect
  <2> QED BY <1>6, <2>1 DEF Disconnect
<1>7. ASSUME NEW t \in Tasks, Deregister(t) PROVE OpenUndisturbed'
  BY <1>7 DEF Deregister, SetOffline, SetOfflineFails, Unsubscribe, CancelConsumers, sockets
<1>8. CASE Shutdown
  <2>1. \A v \in Sockets : pc'[v] # "open"
    BY <1>0, <1>8 DEF Shutdown
  <2> QED BY <2>1
<1>9. ASSUME NEW s \in Stations, ExpireSlot(s) \/ SendFindsNoSlot(s) PROVE OpenUndisturbed'
  BY <1>9 DEF ExpireSlot, SendFindsNoSlot, sockets, cleanup
<1>10. CASE UNCHANGED vars
  BY <1>10 DEF vars, sockets, cleanup
<1> QED BY <1>1, <1>2, <1>3, <1>4, <1>5, <1>6, <1>7, <1>8, <1>9, <1>10 DEF Next

\* Only a socket that registers, or failed to, gains tags.
LEMMA KeepsTags == SubscribedInv /\ [Next]_vars => TagsOfStation' /\ NoEarlyTags'
<1> SUFFICES ASSUME SubscribedInv, [Next]_vars PROVE TagsOfStation' /\ NoEarlyTags'
  OBVIOUS
<1> USE DEF SubscribedInv, OnlineInv, TypeOK, PcValues, Tasks, Tags, TagsOfStation, NoEarlyTags
<1>1. ASSUME NEW w \in Sockets, Connect(w) \/ RefuseUnknown(w) \/ CloseEvent(w)
      PROVE  TagsOfStation' /\ NoEarlyTags'
  BY <1>1 DEF Connect, RefuseUnknown, CloseEvent, cleanup, broker
<1>2. ASSUME NEW w \in Sockets, Advance(w) PROVE TagsOfStation' /\ NoEarlyTags'
  BY <1>2 DEF Advance, RefuseAtLimit, NothingToReplace, BelowLimit, StaleCleanedUp, Claim,
     RegisterFails, Establish, ReplaceStale, cleanup, broker
<1>3. ASSUME NEW w \in Sockets, Settle(w) PROVE TagsOfStation' /\ NoEarlyTags'
  <2>1. CASE SetOnline(w)
    BY <2>1 DEF SetOnline, cleanup, broker
  <2>2. ASSUME NEW k \in Kinds, Subscribe(w, k) PROVE TagsOfStation' /\ NoEarlyTags'
    <3>1. pc[w] \in {"registering", "failed"}
      BY <2>2 DEF Subscribe, PendingRegisters
    <3>2. StationOf[w] \in Stations
      OBVIOUS
    <3>3. /\ UNCHANGED <<pc, cancels>>
          /\ \A s \in Stations : s # StationOf[w] => consumerTags'[s] = consumerTags[s]
          /\ consumerTags'[StationOf[w]] = consumerTags[StationOf[w]] \cup {<<w, k>>}
      BY <2>2, <3>2 DEF Subscribe, cleanup
    <3> HIDE DEF SubscribedInv, OnlineInv, TypeOK, Tags
    <3>4. TagsOfStation'
      <4> SUFFICES ASSUME NEW s \in Stations, NEW v \in Sockets, NEW l \in Kinds,
                          <<v, l>> \in consumerTags'[s]
                   PROVE  StationOf[v] = s
        OBVIOUS
      <4>1. CASE s = StationOf[w] /\ v = w
        BY <4>1
      <4>2. CASE <<v, l>> \in consumerTags[s]
        BY <4>2 DEF SubscribedInv
      <4> QED BY <3>3, <4>1, <4>2
    <3>5. NoEarlyTags'
      <4> SUFFICES ASSUME NEW v \in Sockets, NEW l \in Kinds,
                          pc[v] \in {"new", "limit", "replacing", "claiming"}
                   PROVE  /\ \A s \in Stations : <<v, l>> \notin consumerTags'[s]
                          /\ \A t \in Tasks : <<v, l>> \notin cancels[t]
        BY <3>3
      <4>1. v # w
        BY <3>1
      <4>2. /\ \A s \in Stations : <<v, l>> \notin consumerTags[s]
            /\ \A t \in Tasks : <<v, l>> \notin cancels[t]
        BY DEF SubscribedInv
      <4>3. ASSUME NEW s \in Stations PROVE <<v, l>> \notin consumerTags'[s]
        BY <3>3, <4>1, <4>2
      <4> QED BY <4>2, <4>3
    <3> QED BY <3>4, <3>5
  <2> QED BY <1>3, <2>1, <2>2 DEF Settle
<1>4. ASSUME NEW a \in Admins, Disconnect(a) PROVE TagsOfStation' /\ NoEarlyTags'
  BY <1>4 DEF Disconnect, broker
<1>5. ASSUME NEW t \in Tasks, Deregister(t) PROVE TagsOfStation' /\ NoEarlyTags'
  <2>1. StationOf[t] \in Stations
    BY <1>5
  <2>2. CASE SetOffline(t) \/ SetOfflineFails(t)
    BY <2>2 DEF SetOffline, SetOfflineFails, sockets, broker
  <2>3. CASE Unsubscribe(t)
    BY <2>1, <2>3 DEF Unsubscribe, sockets, broker
  <2>4. CASE CancelConsumers(t)
    <3>1. /\ UNCHANGED pc
          /\ \A s \in Stations : consumerTags'[s] \subseteq consumerTags[s]
          /\ \A u \in Tasks : cancels'[u] \subseteq cancels[u]
      BY <2>1, <2>4 DEF CancelConsumers, sockets
    <3> QED BY <3>1
  <2> QED BY <1>5, <2>2, <2>3, <2>4 DEF Deregister
<1>6. CASE Shutdown
  BY <1>6 DEF Shutdown, broker
<1>7. ASSUME NEW s \in Stations, ExpireSlot(s) \/ SendFindsNoSlot(s)
      PROVE  TagsOfStation' /\ NoEarlyTags'
  BY <1>7 DEF ExpireSlot, SendFindsNoSlot, sockets, cleanup, broker
<1>8. CASE UNCHANGED vars
  BY <1>8 DEF vars, sockets, cleanup, broker
<1> QED BY <1>1, <1>2, <1>3, <1>4, <1>5, <1>6, <1>7, <1>8 DEF Next

\* A deregistration cancels only what it read, and none reads the tags of a
\* socket that registers or is in use.
LEMMA KeepsSubscriptions ==
    SubscribedInv /\ RegistersAlone /\ [Next]_vars => SubscriptionsStand'
<1> SUFFICES ASSUME SubscribedInv, RegistersAlone, [Next]_vars PROVE SubscriptionsStand'
  OBVIOUS
<1> USE DEF SubscribedInv, OnlineInv, TypeOK, PcValues, SubscriptionsStand
<1>1. ASSUME NEW w \in Sockets, Connect(w) \/ RefuseUnknown(w) \/ CloseEvent(w)
      PROVE  SubscriptionsStand'
  BY <1>1 DEF Connect, RefuseUnknown, CloseEvent, cleanup, broker
<1>2. ASSUME NEW w \in Sockets, Claim(w) PROVE SubscriptionsStand'
  <2>1. \A k \in Kinds : k \in Registrations
    BY DEF Registrations
  <2>2. UNCHANGED <<cancels, consumers>>
    BY <1>2 DEF Claim, cleanup, broker
  <2>3. ASSUME NEW v \in Sockets, v # w PROVE pc'[v] = pc[v] /\ todo'[v] = todo[v]
    BY <1>2, <2>3 DEF Claim
  <2>4. pc'[w] = "closed" \/ (pc'[w] = "registering" /\ todo'[w] = Registrations)
    BY <1>2 DEF Claim
  <2>5. \A k \in Kinds, t \in Tasks : <<w, k>> \notin cancels[t]
    BY <1>2 DEF Claim, NoEarlyTags
  <2> QED BY <2>1, <2>2, <2>3, <2>4, <2>5
<1>3. ASSUME NEW w \in Sockets, Advance(w), ~Claim(w) PROVE SubscriptionsStand'
  BY <1>3 DEF Advance, RefuseAtLimit, NothingToReplace, BelowLimit, StaleCleanedUp,
     RegisterFails, Establish, ReplaceStale, cleanup, broker
<1>4. ASSUME NEW w \in Sockets, Settle(w) PROVE SubscriptionsStand'
  <2>1. \A k \in Kinds : k # "Online"
    BY DEF Kinds
  <2>2. CASE SetOnline(w)
    BY <2>1, <2>2 DEF SetOnline, cleanup, broker
  <2>3. ASSUME NEW k \in Kinds, Subscribe(w, k) PROVE SubscriptionsStand'
    BY <2>3 DEF Subscribe, cleanup
  <2> QED BY <1>4, <2>2, <2>3 DEF Settle
<1>5. ASSUME NEW a \in Admins, Disconnect(a) PROVE SubscriptionsStand'
  BY <1>5 DEF Disconnect, broker
<1>6. ASSUME NEW t \in Tasks, SetOffline(t) \/ SetOfflineFails(t) \/ CancelConsumers(t)
      PROVE  SubscriptionsStand'
  <2>1. CASE SetOffline(t) \/ SetOfflineFails(t)
    BY <2>1 DEF SetOffline, SetOfflineFails, sockets, broker
  <2>2. CASE CancelConsumers(t)
    <3>1. /\ UNCHANGED <<pc, todo>>
          /\ \A u \in Tasks : cancels'[u] \subseteq cancels[u]
          /\ consumers' = consumers \ cancels[t]
      BY <2>2 DEF CancelConsumers, sockets
    <3> QED BY <3>1
  <2> QED BY <1>6, <2>1, <2>2
<1>7. ASSUME NEW t \in Tasks, Unsubscribe(t) PROVE SubscriptionsStand'
  <2>1. StationOf[t] \in Stations
    BY <1>7 DEF Tasks
  <2>2. ASSUME NEW w \in Sockets, NEW k \in Kinds, pc[w] \in {"registering", "open"}
        PROVE  <<w, k>> \notin consumerTags[StationOf[t]]
    BY <1>7, <2>1, <2>2 DEF Unsubscribe, RegistersAlone, OpenUndisturbed, TagsOfStation
  <2> QED BY <1>7, <2>2 DEF Unsubscribe, sockets, broker
<1>8. CASE Shutdown
  BY <1>8 DEF Shutdown, broker
<1>9. ASSUME NEW s \in Stations, ExpireSlot(s) \/ SendFindsNoSlot(s) PROVE SubscriptionsStand'
  BY <1>9 DEF ExpireSlot, SendFindsNoSlot, sockets, cleanup, broker
<1>10. CASE UNCHANGED vars
  BY <1>10 DEF vars, sockets, cleanup, broker
<1> QED
  BY <1>1, <1>2, <1>3, <1>4, <1>5, <1>6, <1>7, <1>8, <1>9, <1>10 DEF Next, Deregister

\* Two things in the life of a station's sockets take the subscriptions of one
\* in use away: a deregistration that reads the station's tags after the socket
\* began to register, and a slot that ran out.  Where neither happens every
\* socket in use is subscribed, whatever registrations and deregistrations fail
\* and whatever closes or is replaced.  A broker connection or a channel that
\* is lost takes them away too; that is outside this module (Subscriptions).
THEOREM SubscribedUnlessOverlapped ==
    Spec /\ []RegistersAlone /\ []NoneLapsed => []OpenIsSubscribed
<1>1. Init => SubscribedInv
  <2> SUFFICES ASSUME Init PROVE SubscribedInv
    OBVIOUS
  <2> QED
    BY InitOnline DEF Init, SubscribedInv, OpenUndisturbed, TagsOfStation, NoEarlyTags,
                      SubscriptionsStand
<1>2. OnlineInv /\ [Next]_vars => OnlineInv'
  BY NextTracking, NextTypes, NextPending, NextOnline DEF OnlineInv
<1>3. SubscribedInv /\ RegistersAlone /\ NoneLapsed /\ [Next]_vars => SubscribedInv'
  BY <1>2, KeepsUndisturbed, KeepsTags, KeepsSubscriptions DEF SubscribedInv
<1>4. SubscribedInv => OpenIsSubscribed
  <2> SUFFICES ASSUME SubscribedInv, NEW w \in Sockets, pc[w] = "open", NEW k \in Kinds
               PROVE  <<w, k>> \in consumers
    BY DEF OpenIsSubscribed
  <2>1. todo[w] = {}
    BY DEF SubscribedInv, OnlineInv, PendingRegisters
  <2> QED BY <2>1 DEF SubscribedInv, SubscriptionsStand
<1> QED BY <1>1, <1>3, <1>4, PTL DEF Spec

-----------------------------------------------------------------------------

\* A socket has passed the tenant's limit and is not counted yet.
Admitted(w) == pc[w] \in {"replacing", "claiming", "registering"}

OneAdmitted == \A v, w \in Sockets : Admitted(v) /\ Admitted(w) => v = w

\* The tenant's limit is kept, with room for the socket that was admitted.
WithinLimit ==
    MaxConnections > 0 =>
        /\ tenantCount <= MaxConnections
        /\ (\E w \in Sockets : Admitted(w)) => tenantCount < MaxConnections

\* The tenant's limit can be exceeded only by sockets that are past the check and
\* not counted yet at the same time (WebsocketNetworkConnection.ts:498-577):
\* admitted one by one, they never are more than maxChargingStations.
THEOREM LimitKeptOneByOne == Spec /\ []OneAdmitted => []WithinLimit
<1>1. Init => TypeOK /\ WithinLimit
  BY DEF Init, TypeOK, PcValues, WithinLimit, Admitted
<1>2. ASSUME OnlineInv, WithinLimit, OneAdmitted, [Next]_vars PROVE WithinLimit'
  <2> USE <1>2 DEF OnlineInv, TypeOK, PcValues, WithinLimit, Admitted
  <2>1. ASSUME NEW w \in Sockets, Connect(w) \/ RefuseUnknown(w) \/ Settle(w)
        PROVE  WithinLimit'
    BY <2>1 DEF Connect, RefuseUnknown, Settle, SetOnline, Subscribe, tracking
  <2>2. ASSUME NEW w \in Sockets, Advance(w), ~ReplaceStale(w), ~Establish(w)
        PROVE  WithinLimit'
    BY <2>2 DEF Advance, RefuseAtLimit, NothingToReplace, BelowLimit, StaleCleanedUp, Claim,
       RegisterFails, tracking
  <2>3. ASSUME NEW w \in Sockets, Establish(w) PROVE WithinLimit'
    <3>1. \A v \in Sockets : ~Admitted(v)'
      BY <2>3 DEF Establish, OneAdmitted
    <3> QED BY <2>3, <3>1 DEF Establish
  <2>4. ASSUME NEW w \in Sockets, ReplaceStale(w) PROVE WithinLimit'
    <3>1. tenantCount' <= tenantCount /\ (MaxConnections > 0 => tenantCount < MaxConnections)
      BY <2>4 DEF ReplaceStale, BelowLimit, HandleWebsocketClose
    <3>2. tenantCount' \in Nat
      BY <2>4 DEF ReplaceStale, HandleWebsocketClose
    <3> QED BY <3>1, <3>2
  <2>5. ASSUME NEW w \in Sockets, CloseEvent(w) PROVE WithinLimit'
    <3>1. tenantCount' \in Nat /\ tenantCount' <= tenantCount
      BY <2>5 DEF CloseEvent, HandleWebsocketClose
    <3>2. \A v \in Sockets : Admitted(v)' => Admitted(v)
      BY <2>5 DEF CloseEvent
    <3> QED BY <3>1, <3>2
  <2>6. ASSUME NEW a \in Admins, Disconnect(a) PROVE WithinLimit'
    BY <2>6 DEF Disconnect, tracking
  <2>7. ASSUME NEW t \in Tasks, Deregister(t) PROVE WithinLimit'
    BY <2>7 DEF Deregister, SetOffline, SetOfflineFails, Unsubscribe, CancelConsumers, sockets,
       tracking
  <2>8. CASE Shutdown
    <3> DEFINE tracked == {w \in Sockets : identifierConnections[StationOf[w]] = w}
    <3>1. Cardinality(tracked) \in Nat
      BY FS_Subset, FS_CardinalityType
    <3>2. tenantCount' = tenantCount - Cardinality(tracked)
      BY <2>8, Zenon DEF Shutdown
    <3>3. \A v \in Sockets : Admitted(v)' => Admitted(v)
      BY <2>8 DEF Shutdown
    <3> HIDE DEF tracked
    <3> QED BY <3>1, <3>2, <3>3
  <2>9. ASSUME NEW s \in Stations, ExpireSlot(s) \/ SendFindsNoSlot(s) PROVE WithinLimit'
    BY <2>9 DEF ExpireSlot, SendFindsNoSlot, sockets, tracking
  <2>10. CASE UNCHANGED vars
    BY <2>10 DEF vars, sockets, tracking
  <2> QED BY <2>1, <2>2, <2>3, <2>4, <2>5, <2>6, <2>7, <2>8, <2>9, <2>10 DEF Next
<1> QED BY <1>1, <1>2, OnlineSafe, PTL DEF Spec
=============================================================================
