------------------------ MODULE StationConnections ------------------------
(***************************************************************************)
(* The websocket connections of one tenant's stations on one instance:     *)
(* _onConnection and _handleWebsocketClose of                              *)
(* packages/core/src/util/networkconnection/WebsocketNetworkConnection.ts, *)
(* registerConnection and deregisterConnection of the router (router.ts)   *)
(* and the broker subscriptions these make and undo (receiver.ts, in the   *)
(* mode in which the container builds the router's receiver: one queue per *)
(* station).                                                               *)
(*                                                                         *)
(* Everything but the websocket itself is keyed by the station, not by the *)
(* socket.  A socket is paused until it is established, so that its peer's *)
(* leaving is noticed only afterwards (ws, external).                      *)
(***************************************************************************)
EXTENDS Naturals, FiniteSets

CONSTANTS
    Stations,
    Sockets,         \* websockets the stations open, each used once
    Admins,          \* requests to disconnect a station (API, call timeout)
    StationOf,       \* the station of a socket or of a request
    MaxConnections,  \* the tenant's maxChargingStations
    None

ASSUME StationConnectionsAssumption ==
    /\ IsFiniteSet(Sockets)
    /\ Sockets \cap Admins = {}
    /\ StationOf \in [Sockets \cup Admins -> Stations]
    /\ MaxConnections \in Nat
    /\ None \notin Sockets

Kinds == {"Request", "Response"}

\* The registrations Promise.all waits for that can fail: two subscriptions and
\* the station's isOnline in the database.  The fourth, of the webhook
\* dispatcher, catches its own errors (webhook.dispatcher.ts:76-87): it can
\* only delay the others' outcome, as each of them can.
Registrations == Kinds \cup {"Online"}

\* The deregistrations: one per socket that closes and one per request.
Tasks == Sockets \cup Admins

VARIABLES
    pc,            \* where _onConnection of a socket stands, or what became of it
    replaces,      \* the stale socket whose cleanup a socket awaits
    todo,          \* registrations of a socket that have not settled
    closeHandlers, \* sockets with a close listener
    identifierConnections,  \* station -> its socket
    slot,          \* cache entry in Connections: station -> the socket that claimed it
    tenantCount,   \* _tenantConnectionCounts of the tenant, 0 if absent
    dereg,         \* where a deregistration stands
    cancels,       \* consumer tags a deregistration is cancelling
    consumerTags,  \* _consumerTags: station -> tags
    consumers,     \* consumers that exist at the broker
    online,        \* stations whose isOnline is true in the database
    running,       \* shutdown() was not called
    lapsed,        \* history: stations with sockets left from when a slot ran out
    leftOnline     \* history: stations whose isOnline a failure left for the next writer

sockets   == <<pc, replaces, todo>>
tracking  == <<closeHandlers, identifierConnections, slot, tenantCount>>
cleanup   == <<dereg, cancels>>
broker    == <<consumerTags, consumers>>
history   == <<lapsed, leftOnline>>
vars      == <<sockets, tracking, cleanup, broker, online, running, history>>

PcValues == {"new", "limit", "replacing", "claiming", "registering", "failed",
             "open", "closing", "closed"}

Tags == Sockets \X Kinds

TypeOK ==
    /\ pc \in [Sockets -> PcValues]
    /\ replaces \in [Sockets -> Sockets \cup {None}]
    /\ todo \in [Sockets -> SUBSET Registrations]
    /\ closeHandlers \subseteq Sockets
    /\ identifierConnections \in [Stations -> Sockets \cup {None}]
    /\ slot \in [Stations -> Sockets \cup {None}]
    /\ tenantCount \in Nat
    /\ dereg \in [Tasks -> {"none", "offline", "unsubscribe", "cancel", "done"}]
    /\ cancels \in [Tasks -> SUBSET Tags]
    /\ consumerTags \in [Stations -> SUBSET Tags]
    /\ consumers \subseteq Tags
    /\ online \subseteq Stations
    /\ running \in BOOLEAN
    /\ lapsed \subseteq Stations
    /\ leftOnline \subseteq Stations

Init ==
    /\ pc = [w \in Sockets |-> "new"]
    /\ replaces = [w \in Sockets |-> None]
    /\ todo = [w \in Sockets |-> {}]
    /\ closeHandlers = {}
    /\ identifierConnections = [s \in Stations |-> None]
    /\ slot = [s \in Stations |-> None]
    /\ tenantCount = 0
    /\ dereg = [t \in Tasks |-> "none"]
    /\ cancels = [t \in Tasks |-> {}]
    /\ consumerTags = [s \in Stations |-> {}]
    /\ consumers = {}
    /\ online = {}
    /\ running = TRUE
    /\ lapsed = {}
    /\ leftOnline = {}

-----------------------------------------------------------------------------
(* Connecting *)

\* The upgrade was accepted: _onConnection pauses the socket and looks the
\* station up, which is known or accepted unknown ...
Connect(w) ==
    /\ running
    /\ pc[w] = "new"
    /\ pc' = [pc EXCEPT ![w] = "limit"]
    /\ UNCHANGED <<replaces, todo, tracking, cleanup, broker, online, running, history>>

\* ... or refused.
RefuseUnknown(w) ==
    /\ running
    /\ pc[w] = "new"
    /\ pc' = [pc EXCEPT ![w] = "closed"]
    /\ UNCHANGED <<replaces, todo, tracking, cleanup, broker, online, running, history>>

\* A fault for comparison: the count is not decremented.
CloseWithoutCount(w) ==
    LET s == StationOf[w]
    IN  /\ identifierConnections' = [identifierConnections EXCEPT ![s] = None]
        /\ slot' = [slot EXCEPT ![s] = None]
        /\ UNCHANGED tenantCount
        /\ dereg' = [dereg EXCEPT ![w] = "offline"]

\* _handleWebsocketClose for socket w, up to its first await: everything kept
\* under the station's identifier goes, and its deregistration starts.
HandleWebsocketClose(w) ==
    LET s == StationOf[w]
    IN  /\ identifierConnections' = [identifierConnections EXCEPT ![s] = None]
        /\ slot' = [slot EXCEPT ![s] = None]
        /\ tenantCount' = IF tenantCount = 0 THEN 0 ELSE tenantCount - 1
        /\ dereg' = [dereg EXCEPT ![w] = "offline"]

\* The tenant is at its limit: the socket is refused.
RefuseAtLimit(w) ==
    /\ pc[w] = "limit"
    /\ MaxConnections > 0 /\ tenantCount >= MaxConnections
    /\ pc' = [pc EXCEPT ![w] = "closed"]
    /\ UNCHANGED <<replaces, todo, tracking, cleanup, broker, online, running, history>>

BelowLimit(w) ==
    /\ pc[w] = "limit"
    /\ MaxConnections = 0 \/ tenantCount < MaxConnections

\* The station has no socket in use.
NothingToReplace(w) ==
    /\ BelowLimit(w)
    /\ identifierConnections[StationOf[w]] = None
    /\ pc' = [pc EXCEPT ![w] = "claiming"]
    /\ UNCHANGED <<replaces, todo, tracking, cleanup, broker, online, running, history>>

\* A fault for comparison: the stale socket keeps its close listener.
ReplaceWithListener(w) ==
    LET stale == identifierConnections[StationOf[w]]
    IN  /\ BelowLimit(w)
        /\ stale # None
        /\ pc' = [pc EXCEPT ![w] = "replacing", ![stale] = "closing"]
        /\ replaces' = [replaces EXCEPT ![w] = stale]
        /\ HandleWebsocketClose(stale)
        /\ UNCHANGED <<closeHandlers, todo, cancels, broker, online, running, history>>

\* The station's stale socket loses its close listener and is terminated; its
\* cleanup is awaited.
ReplaceStale(w) ==
    LET stale == identifierConnections[StationOf[w]]
    IN  /\ BelowLimit(w)
        /\ stale # None
        /\ pc' = [pc EXCEPT ![w] = "replacing", ![stale] = "closing"]
        /\ replaces' = [replaces EXCEPT ![w] = stale]
        /\ closeHandlers' = closeHandlers \ {stale}
        /\ HandleWebsocketClose(stale)
        /\ UNCHANGED <<todo, cancels, broker, online, running, history>>

StaleCleanedUp(w) ==
    /\ pc[w] = "replacing"
    /\ dereg[replaces[w]] = "done"
    /\ pc' = [pc EXCEPT ![w] = "claiming"]
    /\ replaces' = [replaces EXCEPT ![w] = None]
    /\ UNCHANGED <<todo, tracking, cleanup, broker, online, running, history>>

\* A fault for comparison: set instead of setIfNotExist.
ClaimAnyway(w) ==
    /\ pc[w] = "claiming"
    /\ slot' = [slot EXCEPT ![StationOf[w]] = w]
    /\ pc' = [pc EXCEPT ![w] = "registering"]
    /\ todo' = [todo EXCEPT ![w] = Registrations]
    /\ UNCHANGED <<replaces, closeHandlers, identifierConnections, tenantCount, cleanup,
                   broker, online, running, history>>

\* Socket v is past the slot: it registers, or its close is still to be handled.
PastSlot(v) == pc[v] = "registering" \/ v \in closeHandlers

\* setIfNotExist on the station's slot; the winner starts registerConnection.
\* With no other socket of the station past the slot, its history is over.
Claim(w) ==
    LET s == StationOf[w]
        others == {v \in Sockets \ {w} : StationOf[v] = s /\ PastSlot(v)}
    IN  /\ pc[w] = "claiming"
        /\ IF slot[s] = None
           THEN /\ slot' = [slot EXCEPT ![s] = w]
                /\ pc' = [pc EXCEPT ![w] = "registering"]
                /\ todo' = [todo EXCEPT ![w] = Registrations]
                /\ lapsed' = IF others = {} THEN lapsed \ {s} ELSE lapsed
           ELSE /\ pc' = [pc EXCEPT ![w] = "closed"]
                /\ UNCHANGED <<slot, todo, lapsed>>
        /\ UNCHANGED <<replaces, closeHandlers, identifierConnections, tenantCount,
                       cleanup, broker, online, running, leftOnline>>

\* The slot's time to live, three ping intervals, runs out.  The pongs of a
\* socket in use renew it in time; nothing does while a socket registers,
\* which waits out an outage of the broker or the database.
ExpireSlot(s) ==
    /\ slot[s] # None
    /\ pc[slot[s]] = "open" => s \in lapsed
    /\ slot' = [slot EXCEPT ![s] = None]
    /\ lapsed' = lapsed \cup {s}
    /\ UNCHANGED <<sockets, closeHandlers, identifierConnections, tenantCount, cleanup,
                   broker, online, running, leftOnline>>

\* A subscription of registerConnection: queue, binding and consumer exist.
Subscribe(w, k) ==
    LET s == StationOf[w]
    IN  /\ k \in todo[w]
        /\ todo' = [todo EXCEPT ![w] = @ \ {k}]
        /\ consumers' = consumers \cup {<<w, k>>}
        /\ consumerTags' = [consumerTags EXCEPT ![s] = @ \cup {<<w, k>>}]
        /\ UNCHANGED <<pc, replaces, tracking, cleanup, online, running, history>>

\* setChargingStationIsOnlineAndOCPPVersion(true) of registerConnection.  After
\* a registration that failed meanwhile nobody will undo it.
SetOnline(w) ==
    LET s == StationOf[w]
    IN  /\ "Online" \in todo[w]
        /\ todo' = [todo EXCEPT ![w] = @ \ {"Online"}]
        /\ online' = online \cup {s}
        /\ leftOnline' = IF pc[w] = "failed" THEN leftOnline \cup {s} ELSE leftOnline \ {s}
        /\ UNCHANGED <<pc, replaces, tracking, cleanup, broker, running, lapsed>>

\* registerConnection is false: the slot is given up and the socket closed.
\* The registrations that did not fail are not undone, and go on.
RegisterFails(w) ==
    LET s == StationOf[w]
    IN  /\ pc[w] = "registering"
        /\ \E r \in todo[w] : todo' = [todo EXCEPT ![w] = @ \ {r}]
        /\ slot' = [slot EXCEPT ![s] = None]
        /\ pc' = [pc EXCEPT ![w] = "failed"]
        /\ leftOnline' = IF "Online" \in todo[w] THEN leftOnline ELSE leftOnline \cup {s}
        /\ UNCHANGED <<replaces, closeHandlers, identifierConnections, tenantCount,
                       cleanup, broker, online, running, lapsed>>

\* registerConnection is true: the socket is tracked, counted, listened to and
\* resumed.
Establish(w) ==
    /\ pc[w] = "registering"
    /\ todo[w] = {}
    /\ identifierConnections' = [identifierConnections EXCEPT ![StationOf[w]] = w]
    /\ tenantCount' = tenantCount + 1
    /\ closeHandlers' = closeHandlers \cup {w}
    /\ pc' = [pc EXCEPT ![w] = "open"]
    /\ UNCHANGED <<replaces, todo, slot, cleanup, broker, online, running, history>>

-----------------------------------------------------------------------------
(* Disconnecting *)

\* The 'close' event of a socket whose listener is still attached, because the
\* station left, a pong did not come, or it was told to close.
CloseEvent(w) ==
    /\ pc[w] \in {"open", "closing"}
    /\ w \in closeHandlers
    /\ pc' = [pc EXCEPT ![w] = "closed"]
    /\ closeHandlers' = closeHandlers \ {w}
    /\ HandleWebsocketClose(w)
    /\ UNCHANGED <<replaces, todo, cancels, broker, online, running, history>>

\* sendMessage() finds no slot for the station: the socket it tracks is
\* terminated.
SendFindsNoSlot(s) ==
    LET w == identifierConnections[s]
    IN  /\ slot[s] = None
        /\ w # None
        /\ pc' = [pc EXCEPT ![w] = "closing"]
        /\ UNCHANGED <<replaces, todo, tracking, cleanup, broker, online, running, history>>

\* disconnect(): the socket, if any, is told to close, and the station is
\* deregistered at once.
Disconnect(a) ==
    LET w == identifierConnections[StationOf[a]]
    IN  /\ dereg[a] = "none"
        /\ dereg' = [dereg EXCEPT ![a] = "offline"]
        /\ pc' = IF w = None THEN pc ELSE [pc EXCEPT ![w] = "closing"]
        /\ UNCHANGED <<replaces, todo, tracking, cancels, broker, online, running, history>>

\* A fault for comparison: shutdown() counts down for sockets never counted.
ShutdownAll ==
    LET tracked == {w \in Sockets : identifierConnections[StationOf[w]] = w}
    IN  /\ running
        /\ running' = FALSE
        /\ closeHandlers' = closeHandlers \ tracked
        /\ pc' = [w \in Sockets |-> IF w \in tracked THEN "closing" ELSE pc[w]]
        /\ identifierConnections' = [s \in Stations |-> None]
        /\ slot' = [s \in Stations |-> None]
        /\ tenantCount' = tenantCount - Cardinality({w \in Sockets : pc[w] # "new"})
        /\ dereg' = [t \in Tasks |-> IF t \in tracked THEN "offline" ELSE dereg[t]]
        /\ UNCHANGED <<replaces, todo, cancels, broker, online, history>>

\* shutdown(): every tracked socket loses its listener and is cleaned up.
Shutdown ==
    LET tracked == {w \in Sockets : identifierConnections[StationOf[w]] = w}
    IN  /\ running
        /\ running' = FALSE
        /\ closeHandlers' = closeHandlers \ tracked
        /\ pc' = [w \in Sockets |-> IF w \in tracked THEN "closing" ELSE pc[w]]
        /\ identifierConnections' = [s \in Stations |-> None]
        /\ slot' = [s \in Stations |->
                      IF identifierConnections[s] # None THEN None ELSE slot[s]]
        /\ tenantCount' = tenantCount - Cardinality(tracked)
        /\ dereg' = [t \in Tasks |-> IF t \in tracked THEN "offline" ELSE dereg[t]]
        /\ UNCHANGED <<replaces, todo, cancels, broker, online, history>>

\* A fault for comparison: isOnline is left as it was.
SkipOffline(t) ==
    /\ dereg[t] = "offline"
    /\ dereg' = [dereg EXCEPT ![t] = "unsubscribe"]
    /\ UNCHANGED <<sockets, tracking, cancels, broker, online, running, history>>

\* deregisterConnection, after two awaited database calls: isOnline is false ...
SetOffline(t) ==
    /\ dereg[t] = "offline"
    /\ dereg' = [dereg EXCEPT ![t] = "unsubscribe"]
    /\ online' = online \ {StationOf[t]}
    /\ leftOnline' = leftOnline \ {StationOf[t]}
    /\ UNCHANGED <<sockets, tracking, cancels, broker, running, lapsed>>

\* ... or the second one throws: the error is logged by _handleWebsocketClose
\* (for disconnect(), it reaches the caller), and nothing is unsubscribed.
SetOfflineFails(t) ==
    /\ dereg[t] = "offline"
    /\ dereg' = [dereg EXCEPT ![t] = "done"]
    /\ leftOnline' = leftOnline \cup {StationOf[t]}
    /\ UNCHANGED <<sockets, tracking, cancels, broker, online, running, lapsed>>

\* unsubscribe(): with a channel in hand it reads the station's tags.
Unsubscribe(t) ==
    LET tags == consumerTags[StationOf[t]]
    IN  /\ dereg[t] = "unsubscribe"
        /\ dereg' = [dereg EXCEPT ![t] = IF tags = {} THEN "done" ELSE "cancel"]
        /\ cancels' = [cancels EXCEPT ![t] = tags]
        /\ UNCHANGED <<sockets, tracking, broker, online, running, history>>

\* The cancellations are confirmed and the station's entry is deleted.
CancelConsumers(t) ==
    /\ dereg[t] = "cancel"
    /\ dereg' = [dereg EXCEPT ![t] = "done"]
    /\ consumers' = consumers \ cancels[t]
    /\ consumerTags' = [consumerTags EXCEPT ![StationOf[t]] = {}]
    /\ cancels' = [cancels EXCEPT ![t] = {}]
    /\ UNCHANGED <<sockets, tracking, online, running, history>>

Settle(w) ==
    \/ SetOnline(w)
    \/ \E k \in Kinds : Subscribe(w, k)

Advance(w) ==
    \/ RefuseAtLimit(w) \/ NothingToReplace(w) \/ ReplaceStale(w)
    \/ StaleCleanedUp(w) \/ Claim(w) \/ RegisterFails(w) \/ Establish(w)

Deregister(t) ==
    SetOffline(t) \/ SetOfflineFails(t) \/ Unsubscribe(t) \/ CancelConsumers(t)

Next ==
    \/ \E w \in Sockets : \/ Connect(w) \/ RefuseUnknown(w)
                         \/ Advance(w) \/ Settle(w) \/ CloseEvent(w)
    \/ \E a \in Admins : Disconnect(a)
    \/ \E t \in Tasks : Deregister(t)
    \/ \E s \in Stations : ExpireSlot(s) \/ SendFindsNoSlot(s)
    \/ Shutdown

Spec == Init /\ [][Next]_vars

-----------------------------------------------------------------------------
(* Properties *)

\* The tenant's count is the number of sockets whose close will decrement it:
\* it neither drifts up, which would lock the tenant out, nor down, whatever
\* replacements, closes and registrations interleave.
TenantCountExact == tenantCount = Cardinality(closeHandlers)

\* A socket in use is the one sendMessage finds: it is tracked for its station
\* and holds the station's slot.  No cleanup of another socket, which is keyed
\* by the station, takes them away, unless the station's slot has run out
\* during a registration and its sockets are not all gone since.
OpenIsReachable ==
    \A w \in Sockets : pc[w] = "open" /\ StationOf[w] \notin lapsed =>
        identifierConnections[StationOf[w]] = w /\ slot[StationOf[w]] = w

\* At most one socket of a station gets past the slot, and only a slot that ran
\* out lets a second one through.
OneOwner ==
    \A v, w \in Sockets :
        /\ StationOf[v] = StationOf[w]
        /\ pc[v] \in {"registering", "open"}
        /\ pc[w] \in {"registering", "open"}
        => v = w \/ StationOf[w] \in lapsed

\* Somebody will still record station s offline: a socket that recorded it
\* online is about to be established, or its close is to be handled, or a
\* deregistration has not written yet.
AccountsFor(s) ==
    \/ \E w \in Sockets : /\ StationOf[w] = s
                          /\ \/ pc[w] = "registering" /\ "Online" \notin todo[w]
                             \/ w \in closeHandlers
    \/ \E t \in Tasks : StationOf[t] = s /\ dereg[t] = "offline"

\* A station recorded online is connected, or the step that records it offline
\* is yet to come: no order of registrations and deregistrations leaves a
\* station that is gone online for good.  The last writer's failure does: what
\* a failed registration wrote is not undone (router.ts:180), and a database
\* error of a deregistration is logged only
\* (WebsocketNetworkConnection.ts:715-717).
OnlineIsOwned == \A s \in online : AccountsFor(s) \/ s \in leftOnline

\* "Detach the close listener so the async close event doesn't race with the
\* new connection's state" (WebsocketNetworkConnection.ts:510): the station of
\* a socket in use, which nobody asked to disconnect, is subscribed.
OpenIsSubscribed ==
    \A w \in Sockets : pc[w] = "open" => {w} \X Kinds \subseteq consumers
=============================================================================
