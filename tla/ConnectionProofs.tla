------------------------- MODULE ConnectionProofs -------------------------
(***************************************************************************)
(* Proofs about ConnectionManager and about Subscriptions, which uses it.  *)
(* With any number of callers and of losses the process has at most one    *)
(* broker connection, and a manager that lost its connection is always on  *)
(* its way back to one, until close() is called.  For any stations, calls, *)
(* losses and channel errors no consumer of the receivers and channels     *)
(* that use it is lost sight of and no subscription is forgotten.          *)
(***************************************************************************)
EXTENDS Subscriptions, TLAPS

-----------------------------------------------------------------------------
(* The connection *)

\* The manager's fields stay in their types and in agreement (ConnectionInv)
\* in the state in which the server starts to connect.
LEMMA InitConnectionInv == Init => ConnectionInv
  BY ConnectionManagerAssumption
     DEF Init, ConnectionInv, TypeOK, NeverTwoConnections, ReconnectIsUnderWay, FlagsAgree

\* A closing connection leaves the manager's fields in agreement.
LEMMA OnCloseKeeps ==
    ASSUME ConnectionInv, OnClose, UNCHANGED <<isConnecting, dialing>>,
           closing' # "awaiting"
    PROVE  /\ NeverTwoConnections' /\ ReconnectIsUnderWay' /\ FlagsAgree'
           /\ open' \in Nat /\ connection' \in {"null", "open"} /\ reconnectTimer' \in {"null", "set"}
           /\ state' = "disconnected"
  BY DEF ConnectionInv, TypeOK, NeverTwoConnections, ReconnectIsUnderWay, FlagsAgree,
         OnClose, HandleReconnect

\* Every step of the callers, the timer, amqplib and close() keeps the
\* inductive invariant.
LEMMA NextConnectionInv == ConnectionInv /\ [Next]_vars => ConnectionInv'
<1> SUFFICES ASSUME ConnectionInv, [Next]_vars
             PROVE  ConnectionInv'
    OBVIOUS
<1> USE ConnectionManagerAssumption
<1> USE DEF ConnectionInv, TypeOK, NeverTwoConnections, ReconnectIsUnderWay, FlagsAgree
<1>1. ASSUME NEW u \in Callers, Connect(u)
      PROVE  ConnectionInv'
  BY <1>1 DEF Connect
<1>2. ASSUME NEW u \in Callers, Return(u)
      PROVE  ConnectionInv'
  BY <1>2 DEF Return
<1>3. CASE AttemptSucceeds
  BY <1>3 DEF AttemptSucceeds
<1>4. CASE AttemptFails
  BY <1>4 DEF AttemptFails, HandleReconnect
<1>5. CASE ConnectionLost
  <2>1. closing' \in {"no", "done"} /\ losses' \in 0 .. MaxLosses
    BY <1>5 DEF ConnectionLost
  <2> QED
    BY <1>5, <2>1, OnCloseKeeps DEF ConnectionLost
<1>6. CASE ReconnectTimerFires
  BY <1>6 DEF ReconnectTimerFires
<1>7. CASE Close
  BY <1>7 DEF Close
<1>8. CASE CloseCompletes
  BY <1>8, OnCloseKeeps DEF CloseCompletes
<1>9. CASE UNCHANGED vars
  BY <1>9 DEF vars
<1> QED
  BY <1>1, <1>2, <1>3, <1>4, <1>5, <1>6, <1>7, <1>8, <1>9 DEF Next

\* However callers, reconnect timer and 'close' events interleave, there are
\* never two broker connections open or being opened (connect()'s two early
\* returns).
THEOREM SingleConnection == Spec => []NeverTwoConnections
<1>1. ConnectionInv => NeverTwoConnections
  BY DEF ConnectionInv
<1> QED
  BY <1>1, InitConnectionInv, NextConnectionInv, PTL DEF Spec

\* A manager without a connection that was not closed always has an attempt
\* under way or a reconnect scheduled (connect()'s catch block and the 'close'
\* handler, through handleReconnect).
THEOREM ReconnectScheduled == Spec => []ReconnectIsUnderWay
<1>1. ConnectionInv => ReconnectIsUnderWay
  BY DEF ConnectionInv
<1> QED
  BY <1>1, InitConnectionInv, NextConnectionInv, PTL DEF Spec

\* The manager's fields stay in their types for any number of callers and of
\* losses.
THEOREM ManagerTypes == Spec => []TypeOK
<1>1. ConnectionInv => TypeOK
  BY DEF ConnectionInv
<1> QED
  BY <1>1, InitConnectionInv, NextConnectionInv, PTL DEF Spec

\* A caller waits only where there is no connection, and unless the manager was
\* closed something is going to emit the 'connected' it waits for.
WaitersAttended ==
    \A u \in Callers : caller[u] = "waiting" =>
        /\ connection = "null"
        /\ closing = "no" => isConnecting = "yes" \/ reconnectTimer = "set"

\* No 'connected' is missed: with any number of callers and losses, none of them
\* goes on waiting beside an open connection (connect()'s once('connected')),
\* and an attempt that fails leaves a timer behind for those that wait.  With
\* this, WaiterGetsConnection needs only that timers fire and the broker answers.
THEOREM WaitersNotStranded == Spec => []WaitersAttended
<1> DEFINE Inv == ConnectionInv /\ \A u \in Callers : caller[u] = "waiting" => connection = "null"
<1>1. Init => Inv
  BY InitConnectionInv DEF Init
<1>2. Inv /\ [Next]_vars => Inv'
  <2> SUFFICES ASSUME Inv, [Next]_vars
               PROVE  \A u \in Callers : caller'[u] = "waiting" => connection' = "null"
    BY NextConnectionInv
  <2> USE DEF ConnectionInv, TypeOK
  <2>1. ASSUME NEW v \in Callers, Connect(v) \/ Return(v)
        PROVE  \A u \in Callers : caller'[u] = "waiting" => connection' = "null"
    BY <2>1 DEF Connect, Return
  <2>2. CASE AttemptSucceeds \/ AttemptFails
    BY <2>2 DEF AttemptSucceeds, AttemptFails
  <2>3. CASE ConnectionLost \/ CloseCompletes
    BY <2>3 DEF ConnectionLost, CloseCompletes, OnClose
  <2>4. CASE ReconnectTimerFires \/ Close \/ UNCHANGED vars
    BY <2>4 DEF ReconnectTimerFires, Close, vars
  <2> QED BY <2>1, <2>2, <2>3, <2>4 DEF Next
<1>3. Inv => WaitersAttended
  BY DEF ConnectionInv, ReconnectIsUnderWay, WaitersAttended
<1> QED BY <1>1, <1>2, <1>3, PTL DEF Spec

-----------------------------------------------------------------------------
(* The subscriptions: the parts of the inductive invariant *)

\* Who works on a channel, or goes through the subscriptions, has a connection.
AtBroker == {"next", "create", "use", "cancel"}

WorkNeedsConnection ==
    /\ \A t \in Tasks : at[t] \in AtBroker => connection = "open"
    /\ \A t \in Callers : at[t] = "connect" /\ caller[t] = "ok" => connection = "open"

\* Without a connection there are no channels and no consumers.
NothingWithout ==
    /\ connection = "null" => alive = {} /\ consumers = {}
    /\ Null \notin alive

ChannelsOK == WorkNeedsConnection /\ NothingWithout /\ MapIsLive

\* What a task works on.
TasksOK ==
    /\ \A b \in Subs : target[b] = b
    /\ at[Restore] # "connect"
    /\ at[Restore] \in {"create", "use"} => target[Restore] \in Subs
    /\ ~InProgress(Restore) => visited = {} /\ captured = {}
    /\ \A t \in Tasks : at[t] \notin {"use", "cancel"} => chan[t] = Null

\* What is recorded for a station is the station's.
RecordsOK ==
    /\ \A s \in Stations : \A b \in moduleSubscriptions[s] : StationOf[b] = s
    /\ \A s \in Stations : \A c \in consumerTags[s] : StationOf[c[1]] = s
    /\ \A u \in Unsubs : \A c \in cancels[u] : StationOf[c[1]] = StationOf[u]

\* What is subscribed while an unsubscribe of the station is under way is marked.
OvertakenMarked ==
    \A u \in Unsubs : InProgress(u) => moduleSubscriptions[StationOf[u]] \subseteq overtaken

\* The subscribe that is making b, and that has not been refused.
Making(b) == InProgress(b) /\ ~(at[b] = "connect" /\ caller[b] = "error")

\* b is recorded for good, and the connection is up.
Owed(b) ==
    /\ b \in moduleSubscriptions[StationOf[b]] \ overtaken
    /\ connection = "open" /\ faulted = "no"

\* NothingForgotten without the help of a subscribe that is about to reject.
NothingLeft == \A b \in Subs : Owed(b) => Served(b) \/ Making(b) \/ ToBeRestored(b)

SubscriptionsInv ==
    /\ SubscriptionsTypeOK
    /\ ConnectionInv
    /\ WorkNeedsConnection
    /\ NothingWithout
    /\ MapIsLive
    /\ TasksOK
    /\ RecordsOK
    /\ ConsumersKnown
    /\ OvertakenMarked
    /\ NothingLeft

\* The invariant holds in the initial states.
LEMMA InitSubscriptionsInv == SubscriptionsInit => SubscriptionsInv
  <1> SUFFICES ASSUME SubscriptionsInit PROVE SubscriptionsInv
    OBVIOUS
  <1> USE SubscriptionsAssumption
  <1>1. SubscriptionsTypeOK
    BY DEF SubscriptionsInit, SubscriptionsTypeOK, Phases, Absent, Null, Tasks
  <1>2. ConnectionInv
    BY InitConnectionInv DEF SubscriptionsInit
  <1>3. WorkNeedsConnection /\ NothingWithout /\ MapIsLive
    BY DEF SubscriptionsInit, WorkNeedsConnection, AtBroker, NothingWithout, MapIsLive,
           Absent, Null, Tasks
  <1>4. TasksOK
    BY DEF SubscriptionsInit, TasksOK, InProgress, Tasks, Null
  <1>5. RecordsOK /\ ConsumersKnown /\ OvertakenMarked
    BY DEF SubscriptionsInit, RecordsOK, ConsumersKnown, OvertakenMarked, InProgress, Tasks
  <1>6. NothingLeft
    BY DEF SubscriptionsInit, Init, NothingLeft, Owed
  <1> QED BY <1>1, <1>2, <1>3, <1>4, <1>5, <1>6 DEF SubscriptionsInv

-----------------------------------------------------------------------------
(* getChannel *)

\* What getChannel does to its task: it has a channel, it creates one, or it
\* waits for the connection, and only then is there none.
LEMMA GetChannelEffect ==
    ASSUME SubscriptionsInv, NEW t \in Tasks, GetChannel(t),
           t \in Callers \/ connection = "open"
    PROVE  /\ \E p \in {"use", "create", "connect"} :
                 /\ at' = [at EXCEPT ![t] = p]
                 /\ p # "connect" => connection = "open"
                 /\ p = "connect" => connection = "null" /\ caller'[t] \in {"waiting", "dialing"}
                 /\ p = "use" => chan' = [chan EXCEPT ![t] = channelMap] /\ channelMap \in Nat
                 /\ p # "use" => chan' = chan
           /\ UNCHANGED connection
           /\ \A d \in Callers \ {t} : caller'[d] = caller[d]
           /\ (UNCHANGED vars \/ Connect(t))
  <1> USE DEF SubscriptionsInv, SubscriptionsTypeOK, ConnectionInv, TypeOK
  <1>1. CASE channelMap > Null
    <2>1. channelMap \in alive /\ channelMap \in Nat
      BY <1>1 DEF MapIsLive, Absent, Null
    <2>2. connection = "open"
      BY <2>1 DEF NothingWithout
    <2> QED BY <1>1, <2>1, <2>2 DEF GetChannel, vars
  <1>2. CASE ~(channelMap > Null)
    BY <1>2 DEF GetChannel, Connect, vars
  <1> QED BY <1>1, <1>2

\* A restoration between two subscriptions has a connection.
LEMMA RestoreHasConnection ==
    ASSUME SubscriptionsInv, at[Restore] = "next" PROVE connection = "open"
  BY DEF SubscriptionsInv, WorkNeedsConnection, AtBroker, Tasks

\* An attempt under way means that there is no connection.
LEMMA AttemptHasNone ==
    ASSUME SubscriptionsInv, dialing > 0 PROVE connection = "null"
  BY DEF SubscriptionsInv, ConnectionInv, TypeOK, FlagsAgree, NeverTwoConnections

\* Every step is a step of the connection or leaves it alone.
LEMMA ConnectionSteps ==
    SubscriptionsInv /\ [SubscriptionsNext]_allVars => [Next]_vars
  <1> SUFFICES ASSUME SubscriptionsInv, [SubscriptionsNext]_allVars PROVE [Next]_vars
    OBVIOUS
  <1> USE SubscriptionsAssumption DEF Next
  <1>1. ASSUME NEW b \in Subs, Subscribe(b) PROVE [Next]_vars
    BY <1>1, GetChannelEffect DEF Subscribe, Tasks
  <1>2. ASSUME NEW u \in Unsubs, Unsubscribe(u) PROVE [Next]_vars
    BY <1>2, GetChannelEffect DEF Unsubscribe, Tasks
  <1>3. ASSUME NEW t \in Tasks, ConnectionObtained(t) \/ ConnectionRefused(t) PROVE [Next]_vars
    BY <1>3 DEF ConnectionObtained, ConnectionRefused
  <1>4. ASSUME NEW t \in Tasks,
               ChannelOpens(t) \/ Consume(t) \/ ReadTags(t) \/ CancelConsumers(t)
        PROVE  [Next]_vars
    BY <1>4 DEF ChannelOpens, Consume, ReadTags, CancelConsumers
  <1>5. CASE RestoreNext
    <2>1. connection = "open"
      BY <1>5 DEF RestoreNext, SubscriptionsInv, WorkNeedsConnection, AtBroker, Tasks
    <2> QED BY <1>5, <2>1 DEF RestoreNext, GetChannel
  <1>6. CASE RestoreStation \/ RestoreDone
    BY <1>6 DEF RestoreStation, RestoreDone
  <1>7. CASE Connected \/ Disconnected \/ ConnectionStep
    BY <1>7 DEF Connected, Disconnected, ConnectionStep
  <1>8. ASSUME NEW c \in alive, ChannelError(c) PROVE [Next]_vars
    BY <1>8 DEF ChannelError
  <1>9. CASE UNCHANGED allVars
    BY <1>9 DEF allVars
  <1> QED
    BY <1>1, <1>2, <1>3, <1>4, <1>5, <1>6, <1>7, <1>8, <1>9 DEF SubscriptionsNext, Advance

-----------------------------------------------------------------------------
(* The inductive steps *)

\* No step takes a variable out of its type.
LEMMA SubscriptionTypesKept ==
    SubscriptionsInv /\ [SubscriptionsNext]_allVars => SubscriptionsTypeOK'
  <1> SUFFICES ASSUME SubscriptionsInv, [SubscriptionsNext]_allVars PROVE SubscriptionsTypeOK'
    OBVIOUS
  <1> USE SubscriptionsAssumption
      DEF SubscriptionsInv, SubscriptionsTypeOK, channels, records, progress, history
  <1>0. /\ Restore \in Tasks /\ Recreate \in Tasks /\ Restore # Recreate
        /\ Subs \subseteq Tasks /\ Unsubs \subseteq Tasks
        /\ Restore \notin Callers /\ Recreate \notin Callers
    BY DEF Tasks, Restore, Recreate
  <1>1. ASSUME NEW b \in Subs, Subscribe(b) PROVE SubscriptionsTypeOK'
    BY <1>0, <1>1, GetChannelEffect DEF Subscribe, Phases
  <1>2. ASSUME NEW u \in Unsubs, Unsubscribe(u) PROVE SubscriptionsTypeOK'
    BY <1>0, <1>2, GetChannelEffect DEF Unsubscribe, Phases
  <1>3. ASSUME NEW t \in Tasks, ConnectionObtained(t) \/ ConnectionRefused(t)
        PROVE  SubscriptionsTypeOK'
    BY <1>3 DEF ConnectionObtained, ConnectionRefused, Rejected, Phases
  <1>4. ASSUME NEW t \in Tasks, ChannelOpens(t) PROVE SubscriptionsTypeOK'
    BY <1>4 DEF ChannelOpens, Phases, Null
  <1>5. ASSUME NEW t \in Tasks, Consume(t) PROVE SubscriptionsTypeOK'
    <2>1. target[t] \in Subs /\ StationOf[target[t]] \in Stations
      BY <1>0, <1>5 DEF Consume, TasksOK
    <2>2. <<target[t], t, chan[t]>> \in Tags
      BY <2>1 DEF Tags
    <2>3. /\ consumers' \in SUBSET Tags
          /\ consumerTags' \in [Stations -> SUBSET Tags]
      BY <1>5, <2>1, <2>2 DEF Consume
    <2>4. at' \in [Tasks -> Phases] /\ chan' \in [Tasks -> Nat]
      BY <1>5 DEF Consume, Phases, Null
    <2> QED BY <1>5, <2>3, <2>4 DEF Consume
  <1>6. ASSUME NEW u \in Unsubs, ReadTags(u) \/ CancelConsumers(u) PROVE SubscriptionsTypeOK'
    <2>1. u \in Tasks /\ StationOf[u] \in Stations
      BY <1>0
    <2>2. CASE ReadTags(u)
      BY <2>1, <2>2 DEF ReadTags, Phases, Null
    <2>3. CASE CancelConsumers(u)
      <3>1. /\ consumers' \in SUBSET Tags
            /\ consumerTags' \in [Stations -> SUBSET Tags]
            /\ cancels' \in [Unsubs -> SUBSET Tags]
        BY <2>1, <2>3 DEF CancelConsumers
      <3>2. at' \in [Tasks -> Phases] /\ chan' \in [Tasks -> Nat]
        BY <2>1, <2>3 DEF CancelConsumers, Phases, Null
      <3> QED BY <2>3, <3>1, <3>2 DEF CancelConsumers
    <2> QED BY <1>6, <2>2, <2>3
  <1>7. CASE RestoreNext
    <2>1. connection = "open"
      BY <1>0, <1>7 DEF RestoreNext, WorkNeedsConnection, AtBroker
    <2> QED BY <1>0, <1>7, <2>1, GetChannelEffect DEF RestoreNext, Phases
  <1>8. CASE RestoreStation \/ RestoreDone
    BY <1>0, <1>8 DEF RestoreStation, RestoreDone, Phases
  <1>9. CASE Connected
    BY <1>0, <1>9 DEF Connected, Phases
  <1>10. CASE Disconnected
    BY <1>10 DEF Disconnected, ChannelsLost, Reject, Rejected, Phases, Absent, Null
  <1>11. CASE ConnectionStep
    BY <1>11 DEF ConnectionStep
  <1>12. ASSUME NEW c \in alive, ChannelError(c) PROVE SubscriptionsTypeOK'
    BY <1>12 DEF ChannelError, Reject, Rejected, Phases, Null
  <1>13. CASE UNCHANGED allVars
    BY <1>13 DEF allVars
  <1> QED
    BY <1>0, <1>1, <1>2, <1>3, <1>4, <1>5, <1>6, <1>7, <1>8, <1>9, <1>10, <1>11, <1>12, <1>13
    DEF SubscriptionsNext, Advance

\* Channels and those that work on them come and go with the connection.
LEMMA ChannelsKept ==
    SubscriptionsInv /\ [SubscriptionsNext]_allVars => ChannelsOK'
  <1> SUFFICES ASSUME SubscriptionsInv, [SubscriptionsNext]_allVars
               PROVE  ChannelsOK'
    OBVIOUS
  <1> USE SubscriptionsAssumption
      DEF SubscriptionsInv, SubscriptionsTypeOK, ChannelsOK, WorkNeedsConnection, AtBroker,
          NothingWithout, MapIsLive, InProgress, Absent, Null,
          vars, channels, records, progress, history
  <1>0. /\ Restore \in Tasks /\ Recreate \in Tasks /\ Restore # Recreate
        /\ Subs \subseteq Tasks /\ Unsubs \subseteq Tasks
        /\ Restore \notin Callers /\ Recreate \notin Callers
    BY DEF Tasks, Restore, Recreate
  <1>1. ASSUME NEW b \in Subs, Subscribe(b) PROVE  ChannelsOK'
    BY <1>0, <1>1, GetChannelEffect DEF Subscribe
  <1>2. ASSUME NEW u \in Unsubs, Unsubscribe(u) PROVE  ChannelsOK'
    BY <1>0, <1>2, GetChannelEffect DEF Unsubscribe
  <1>3. ASSUME NEW t \in Tasks, ConnectionObtained(t) \/ ConnectionRefused(t)
        PROVE  ChannelsOK'
    BY <1>0, <1>3 DEF ConnectionInv, TypeOK, ConnectionObtained, ConnectionRefused, Return, Rejected
  <1>4. ASSUME NEW t \in Tasks, ChannelOpens(t) PROVE  ChannelsOK'
    BY <1>0, <1>4 DEF ChannelOpens
  <1>5. ASSUME NEW t \in Tasks, Consume(t) PROVE  ChannelsOK'
    BY <1>0, <1>5 DEF Consume
  <1>6. ASSUME NEW u \in Unsubs, ReadTags(u) PROVE  ChannelsOK'
    BY <1>0, <1>6 DEF ReadTags
  <1>7. ASSUME NEW u \in Unsubs, CancelConsumers(u) PROVE  ChannelsOK'
    BY <1>0, <1>7 DEF CancelConsumers
  <1>8. ASSUME RestoreNext PROVE  ChannelsOK'
    BY <1>0, <1>8, GetChannelEffect DEF RestoreNext
  <1>9. ASSUME RestoreStation \/ RestoreDone PROVE  ChannelsOK'
    BY <1>0, <1>9 DEF RestoreStation, RestoreDone
  <1>10. ASSUME Connected PROVE  ChannelsOK'
    BY <1>0, <1>10 DEF Connected, AttemptSucceeds
  <1>11. ASSUME Disconnected PROVE  ChannelsOK'
    BY <1>0, <1>11 DEF Disconnected, ConnectionLost, OnClose, ChannelsLost, Reject, Rejected
  <1>12. ASSUME ConnectionStep PROVE  ChannelsOK'
    BY <1>0, <1>12 DEF ConnectionStep, AttemptFails, ReconnectTimerFires
  <1>13. ASSUME NEW c \in alive, ChannelError(c) PROVE  ChannelsOK'
    BY <1>0, <1>13 DEF ChannelError, Reject, Rejected
  <1>14. ASSUME UNCHANGED allVars PROVE  ChannelsOK'
    BY <1>0, <1>14 DEF allVars
  <1> QED
    BY <1>0, <1>1, <1>2, <1>3, <1>4, <1>5, <1>6, <1>7, <1>8,
       <1>9, <1>10, <1>11, <1>12, <1>13, <1>14
    DEF SubscriptionsNext, Advance

\* Tasks keep what they work on until they end.
LEMMA TasksKept ==
    SubscriptionsInv /\ [SubscriptionsNext]_allVars => TasksOK'
  <1> SUFFICES ASSUME SubscriptionsInv, [SubscriptionsNext]_allVars
               PROVE  TasksOK'
    OBVIOUS
  <1> USE SubscriptionsAssumption
      DEF SubscriptionsInv, SubscriptionsTypeOK, TasksOK, InProgress, Null,
          vars, channels, records, progress, history
  <1>0. /\ Restore \in Tasks /\ Recreate \in Tasks /\ Restore # Recreate
        /\ Subs \subseteq Tasks /\ Unsubs \subseteq Tasks
        /\ Restore \notin Callers /\ Recreate \notin Callers
    BY DEF Tasks, Restore, Recreate
  <1>1. ASSUME NEW b \in Subs, Subscribe(b) PROVE  TasksOK'
    BY <1>0, <1>1, GetChannelEffect DEF Subscribe
  <1>2. ASSUME NEW u \in Unsubs, Unsubscribe(u) PROVE  TasksOK'
    BY <1>0, <1>2, GetChannelEffect DEF Unsubscribe
  <1>3. ASSUME NEW t \in Tasks, ConnectionObtained(t) \/ ConnectionRefused(t)
        PROVE  TasksOK'
    BY <1>0, <1>3 DEF ConnectionObtained, ConnectionRefused, Return, Rejected
  <1>4. ASSUME NEW t \in Tasks, ChannelOpens(t) PROVE  TasksOK'
    BY <1>0, <1>4 DEF ChannelOpens
  <1>5. ASSUME NEW t \in Tasks, Consume(t) PROVE  TasksOK'
    BY <1>0, <1>5 DEF Consume
  <1>6. ASSUME NEW u \in Unsubs, ReadTags(u) PROVE  TasksOK'
    BY <1>0, <1>6 DEF ReadTags
  <1>7. ASSUME NEW u \in Unsubs, CancelConsumers(u) PROVE  TasksOK'
    BY <1>0, <1>7 DEF CancelConsumers
  <1>8. ASSUME RestoreNext PROVE  TasksOK'
    <2>1. connection = "open"
      BY <1>8, RestoreHasConnection DEF RestoreNext
    <2> QED BY <1>0, <1>8, <2>1, GetChannelEffect DEF RestoreNext
  <1>9. ASSUME RestoreStation \/ RestoreDone PROVE  TasksOK'
    BY <1>0, <1>9 DEF RestoreStation, RestoreDone
  <1>10. ASSUME Connected PROVE  TasksOK'
    <2>1. connection = "null"
      BY <1>10, AttemptHasNone DEF Connected, AttemptSucceeds
    <2>2. ~InProgress(Restore) /\ at[Recreate] \notin AtBroker
      BY <1>0, <2>1 DEF WorkNeedsConnection, AtBroker
    <2> QED BY <1>0, <1>10, <2>2 DEF Connected, AttemptSucceeds, AtBroker
  <1>11. ASSUME Disconnected PROVE  TasksOK'
    BY <1>0, <1>11 DEF Disconnected, ConnectionLost, OnClose, ChannelsLost, Reject, Rejected
  <1>12. ASSUME ConnectionStep PROVE  TasksOK'
    BY <1>0, <1>12 DEF ConnectionStep, AttemptFails, ReconnectTimerFires
  <1>13. ASSUME NEW c \in alive, ChannelError(c) PROVE  TasksOK'
    BY <1>0, <1>13 DEF ChannelError, Reject, Rejected
  <1>14. ASSUME UNCHANGED allVars PROVE  TasksOK'
    BY <1>0, <1>14 DEF allVars
  <1> QED
    BY <1>0, <1>1, <1>2, <1>3, <1>4, <1>5, <1>6, <1>7, <1>8,
       <1>9, <1>10, <1>11, <1>12, <1>13, <1>14
    DEF SubscriptionsNext, Advance

\* What is recorded for a station stays the station's.
LEMMA RecordsKept ==
    SubscriptionsInv /\ [SubscriptionsNext]_allVars => RecordsOK'
  <1> SUFFICES ASSUME SubscriptionsInv, [SubscriptionsNext]_allVars
               PROVE  RecordsOK'
    OBVIOUS
  <1> USE SubscriptionsAssumption
      DEF SubscriptionsInv, SubscriptionsTypeOK, RecordsOK, TasksOK,
          vars, channels, records, progress, history
  <1>0. /\ Restore \in Tasks /\ Recreate \in Tasks /\ Restore # Recreate
        /\ Subs \subseteq Tasks /\ Unsubs \subseteq Tasks
        /\ Restore \notin Callers /\ Recreate \notin Callers
    BY DEF Tasks, Restore, Recreate
  <1>1. ASSUME NEW b \in Subs, Subscribe(b) PROVE  RecordsOK'
    BY <1>0, <1>1, GetChannelEffect DEF Subscribe
  <1>2. ASSUME NEW u \in Unsubs, Unsubscribe(u) PROVE  RecordsOK'
    BY <1>0, <1>2, GetChannelEffect DEF Unsubscribe
  <1>3. ASSUME NEW t \in Tasks, ConnectionObtained(t) \/ ConnectionRefused(t)
        PROVE  RecordsOK'
    BY <1>0, <1>3 DEF ConnectionObtained, ConnectionRefused, Return, Rejected
  <1>4. ASSUME NEW t \in Tasks, ChannelOpens(t) PROVE  RecordsOK'
    BY <1>0, <1>4 DEF ChannelOpens
  <1>5. ASSUME NEW t \in Tasks, Consume(t) PROVE  RecordsOK'
    BY <1>0, <1>5 DEF Consume
  <1>6. ASSUME NEW u \in Unsubs, ReadTags(u) PROVE  RecordsOK'
    BY <1>0, <1>6 DEF ReadTags
  <1>7. ASSUME NEW u \in Unsubs, CancelConsumers(u) PROVE  RecordsOK'
    BY <1>0, <1>7 DEF CancelConsumers
  <1>8. ASSUME RestoreNext PROVE  RecordsOK'
    BY <1>0, <1>8, GetChannelEffect DEF RestoreNext
  <1>9. ASSUME RestoreStation \/ RestoreDone PROVE  RecordsOK'
    BY <1>0, <1>9 DEF RestoreStation, RestoreDone
  <1>10. ASSUME Connected PROVE  RecordsOK'
    BY <1>0, <1>10 DEF Connected, AttemptSucceeds
  <1>11. ASSUME Disconnected PROVE  RecordsOK'
    BY <1>0, <1>11 DEF Disconnected, ConnectionLost, OnClose, ChannelsLost, Reject, Rejected
  <1>12. ASSUME ConnectionStep PROVE  RecordsOK'
    BY <1>0, <1>12 DEF ConnectionStep, AttemptFails, ReconnectTimerFires
  <1>13. ASSUME NEW c \in alive, ChannelError(c) PROVE  RecordsOK'
    BY <1>0, <1>13 DEF ChannelError, Reject, Rejected
  <1>14. ASSUME UNCHANGED allVars PROVE  RecordsOK'
    BY <1>0, <1>14 DEF allVars
  <1> QED
    BY <1>0, <1>1, <1>2, <1>3, <1>4, <1>5, <1>6, <1>7, <1>8,
       <1>9, <1>10, <1>11, <1>12, <1>13, <1>14
    DEF SubscriptionsNext, Advance

\* A consumer without a recorded tag has an unsubscribe behind it.
LEMMA ConsumersKept ==
    SubscriptionsInv /\ [SubscriptionsNext]_allVars => ConsumersKnown'
  <1> SUFFICES ASSUME SubscriptionsInv, [SubscriptionsNext]_allVars PROVE ConsumersKnown'
    OBVIOUS
  <1> USE SubscriptionsAssumption
      DEF SubscriptionsInv, SubscriptionsTypeOK, ConsumersKnown, KnownConsumer,
          vars, channels, records, progress, history
  <1>0. /\ Restore \in Tasks /\ Recreate \in Tasks /\ Restore # Recreate
        /\ Subs \subseteq Tasks /\ Unsubs \subseteq Tasks
        /\ Restore \notin Callers /\ Recreate \notin Callers
    BY DEF Tasks, Restore, Recreate
  <1>1. ASSUME NEW b \in Subs, Subscribe(b) PROVE ConsumersKnown'
    BY <1>0, <1>1, GetChannelEffect DEF Subscribe
  <1>2. ASSUME NEW u \in Unsubs, Unsubscribe(u) PROVE ConsumersKnown'
    BY <1>0, <1>2, GetChannelEffect DEF Unsubscribe
  <1>3. ASSUME NEW t \in Tasks, ConnectionObtained(t) \/ ConnectionRefused(t)
        PROVE  ConsumersKnown'
    BY <1>0, <1>3 DEF ConnectionObtained, ConnectionRefused, Return, Rejected
  <1>4. ASSUME NEW t \in Tasks, ChannelOpens(t) PROVE ConsumersKnown'
    BY <1>0, <1>4 DEF ChannelOpens
  <1>5. ASSUME NEW t \in Tasks, Consume(t) PROVE ConsumersKnown'
    <2>1. target[t] \in Subs /\ StationOf[target[t]] \in Stations
      BY <1>0, <1>5 DEF Consume, TasksOK
    <2>2. <<target[t], t, chan[t]>>[1] = target[t]
      OBVIOUS
    <2>3. \A s \in Stations : consumerTags[s] \subseteq consumerTags'[s]
      BY <2>1, <1>5 DEF Consume
    <2>4. \A u \in Unsubs : at'[u] = at[u]
      BY <1>0, <1>5 DEF Consume
    <2>5. \A c \in consumers : StationOf[c[1]] \in Stations
      BY DEF Tags
    <2>6. <<target[t], t, chan[t]>> \in consumerTags'[StationOf[target[t]]]
      BY <2>1, <1>5 DEF Consume
    <2>7. consumers' = consumers \cup {<<target[t], t, chan[t]>>}
      BY <1>5 DEF Consume
    <2>8. ASSUME NEW c \in consumers PROVE KnownConsumer(c)'
      BY <2>3, <2>4, <2>5, <2>8
    <2> QED BY <2>2, <2>6, <2>7, <2>8
  <1>6. ASSUME NEW u \in Unsubs, ReadTags(u) PROVE ConsumersKnown'
    BY <1>0, <1>6 DEF ReadTags
  <1>7. ASSUME NEW u \in Unsubs, CancelConsumers(u) PROVE ConsumersKnown'
    BY <1>0, <1>7 DEF CancelConsumers
  <1>8. CASE RestoreNext
    <2>1. connection = "open"
      BY <1>8, RestoreHasConnection DEF RestoreNext
    <2> QED BY <1>0, <1>8, <2>1, GetChannelEffect DEF RestoreNext
  <1>9. CASE RestoreStation \/ RestoreDone
    BY <1>0, <1>9 DEF RestoreStation, RestoreDone
  <1>10. CASE Connected
    <2>1. consumers' = {}
      BY <1>10, AttemptHasNone DEF Connected, AttemptSucceeds, NothingWithout
    <2> QED BY <2>1
  <1>11. CASE Disconnected
    BY <1>0, <1>11 DEF Disconnected, ConnectionLost, OnClose, ChannelsLost, Reject, Rejected
  <1>12. CASE ConnectionStep
    BY <1>0, <1>12 DEF ConnectionStep, AttemptFails, ReconnectTimerFires
  <1>13. ASSUME NEW c \in alive, ChannelError(c) PROVE ConsumersKnown'
    <2>1. ASSUME NEW u \in Unsubs, at[u] = "done" PROVE at'[u] = "done"
      BY <1>0, <1>13, <2>1 DEF ChannelError, Reject, TasksOK, NothingWithout
    <2> QED BY <1>13, <2>1 DEF ChannelError
  <1>14. CASE UNCHANGED allVars
    BY <1>0, <1>14 DEF allVars
  <1> QED
    BY <1>0, <1>1, <1>2, <1>3, <1>4, <1>5, <1>6, <1>7, <1>8,
       <1>9, <1>10, <1>11, <1>12, <1>13, <1>14
    DEF SubscriptionsNext, Advance

\* An unsubscribe under way has seen off the station's earlier subscriptions.
LEMMA OvertakenKept ==
    SubscriptionsInv /\ [SubscriptionsNext]_allVars => OvertakenMarked'
  <1> SUFFICES ASSUME SubscriptionsInv, [SubscriptionsNext]_allVars PROVE OvertakenMarked'
    OBVIOUS
  <1> USE SubscriptionsAssumption
      DEF SubscriptionsInv, SubscriptionsTypeOK, OvertakenMarked, InProgress,
          vars, channels, records, progress, history
  <1>0. /\ Restore \in Tasks /\ Recreate \in Tasks /\ Restore # Recreate
        /\ Subs \subseteq Tasks /\ Unsubs \subseteq Tasks
        /\ Restore \notin Callers /\ Recreate \notin Callers
    BY DEF Tasks, Restore, Recreate
  <1>1. ASSUME NEW b \in Subs, Subscribe(b) PROVE OvertakenMarked'
    BY <1>0, <1>1, GetChannelEffect DEF Subscribe
  <1>2. ASSUME NEW u \in Unsubs, Unsubscribe(u) PROVE OvertakenMarked'
    BY <1>0, <1>2, GetChannelEffect DEF Unsubscribe
  <1>3. ASSUME NEW t \in Tasks, ConnectionObtained(t) \/ ConnectionRefused(t)
        PROVE  OvertakenMarked'
    BY <1>0, <1>3 DEF ConnectionObtained, ConnectionRefused, Return, Rejected
  <1>4. ASSUME NEW t \in Tasks, ChannelOpens(t) PROVE OvertakenMarked'
    BY <1>0, <1>4 DEF ChannelOpens
  <1>5. ASSUME NEW t \in Tasks, Consume(t) PROVE OvertakenMarked'
    BY <1>0, <1>5 DEF Consume
  <1>6. ASSUME NEW u \in Unsubs, ReadTags(u) PROVE OvertakenMarked'
    BY <1>0, <1>6 DEF ReadTags
  <1>7. ASSUME NEW u \in Unsubs, CancelConsumers(u) PROVE OvertakenMarked'
    BY <1>0, <1>7 DEF CancelConsumers
  <1>8. CASE RestoreNext
    <2>1. connection = "open"
      BY <1>8, RestoreHasConnection DEF RestoreNext
    <2> QED BY <1>0, <1>8, <2>1, GetChannelEffect DEF RestoreNext
  <1>9. CASE RestoreStation \/ RestoreDone
    BY <1>0, <1>9 DEF RestoreStation, RestoreDone
  <1>10. CASE Connected
    BY <1>0, <1>10 DEF Connected, AttemptSucceeds
  <1>11. CASE Disconnected
    BY <1>0, <1>11 DEF Disconnected, ConnectionLost, OnClose, ChannelsLost, Reject, Rejected
  <1>12. CASE ConnectionStep
    BY <1>0, <1>12 DEF ConnectionStep, AttemptFails, ReconnectTimerFires
  <1>13. ASSUME NEW c \in alive, ChannelError(c) PROVE OvertakenMarked'
    BY <1>0, <1>13 DEF ChannelError, Reject, Rejected
  <1>14. CASE UNCHANGED allVars
    BY <1>0, <1>14 DEF allVars
  <1> QED
    BY <1>0, <1>1, <1>2, <1>3, <1>4, <1>5, <1>6, <1>7, <1>8,
       <1>9, <1>10, <1>11, <1>12, <1>13, <1>14
    DEF SubscriptionsNext, Advance

\* What is recorded is served, or somebody is on the way to it.
LEMMA NothingLeftKept ==
    SubscriptionsInv /\ [SubscriptionsNext]_allVars => NothingLeft'
  <1> SUFFICES ASSUME SubscriptionsInv, [SubscriptionsNext]_allVars PROVE NothingLeft'
    OBVIOUS
  <1> USE SubscriptionsAssumption
      DEF SubscriptionsInv, SubscriptionsTypeOK, NothingLeft, Owed, Served, Making,
          ToBeRestored, InProgress, TasksOK, RecordsOK,
          vars, channels, records, progress, history
  <1>0. /\ Restore \in Tasks /\ Recreate \in Tasks /\ Restore # Recreate
        /\ Subs \subseteq Tasks /\ Unsubs \subseteq Tasks
        /\ Restore \notin Callers /\ Recreate \notin Callers
    BY DEF Tasks, Restore, Recreate
  <1>1. ASSUME NEW b \in Subs, Subscribe(b) PROVE NothingLeft'
    BY <1>0, <1>1, GetChannelEffect DEF Subscribe
  <1>2. ASSUME NEW u \in Unsubs, Unsubscribe(u) PROVE NothingLeft'
    BY <1>0, <1>2, GetChannelEffect DEF Unsubscribe
  <1>3. ASSUME NEW t \in Tasks, ConnectionObtained(t) \/ ConnectionRefused(t)
        PROVE  NothingLeft'
    BY <1>0, <1>3 DEF ConnectionInv, TypeOK, ConnectionObtained, ConnectionRefused, Return, Rejected
  <1>4. ASSUME NEW t \in Tasks, ChannelOpens(t) PROVE NothingLeft'
    BY <1>0, <1>4 DEF ChannelOpens
  <1>5. ASSUME NEW t \in Tasks, Consume(t) PROVE NothingLeft'
    <2>1. /\ target[t] \in Subs
          /\ consumers' = consumers \cup {<<target[t], t, chan[t]>>}
          /\ t \in Subs => target[t] = t
      BY <1>0, <1>5 DEF Consume
    <2>2. ASSUME NEW b \in Subs, Served(b) \/ b = target[t] PROVE Served(b)'
      <3>1. <<target[t], t, chan[t]>>[1] = target[t]
        OBVIOUS
      <3> QED BY <2>1, <2>2, <3>1
    <2>3. ASSUME NEW b \in Subs, b # target[t], Making(b) PROVE Making(b)'
      BY <1>0, <1>5, <2>1, <2>3 DEF Consume
    <2>4. ASSUME NEW b \in Subs, b # target[t], ToBeRestored(b) PROVE ToBeRestored(b)'
      BY <1>0, <1>5, <2>1, <2>4 DEF Consume
    <2>5. ASSUME NEW b \in Subs, Owed(b)' PROVE Owed(b)
      BY <1>5, <2>5 DEF Consume
    <2> QED BY <2>2, <2>3, <2>4, <2>5 DEF NothingLeft
  <1>6. ASSUME NEW u \in Unsubs, ReadTags(u) PROVE NothingLeft'
    BY <1>0, <1>6 DEF ReadTags
  <1>7. ASSUME NEW u \in Unsubs, CancelConsumers(u) PROVE NothingLeft'
    <2>1. ASSUME NEW b \in Subs, Owed(b), Served(b) PROVE Served(b)'
      <3>1. StationOf[b] # StationOf[u]
        BY <1>7, <2>1 DEF CancelConsumers, OvertakenMarked
      <3>2. PICK c \in consumers : c[1] = b
        BY <2>1
      <3>3. c \notin cancels[u]
        BY <3>1, <3>2
      <3> QED BY <1>7, <3>2, <3>3 DEF CancelConsumers
    <2>2. ASSUME NEW b \in Subs, Owed(b)' PROVE Owed(b)
      BY <1>7, <2>2 DEF CancelConsumers
    <2>3. ASSUME NEW b \in Subs
          PROVE  (Making(b) => Making(b)') /\ (ToBeRestored(b) => ToBeRestored(b)')
      BY <1>0, <1>7 DEF CancelConsumers
    <2> QED BY <2>1, <2>2, <2>3 DEF NothingLeft
  <1>8. CASE RestoreNext
    <2>1. connection = "open"
      BY <1>8, RestoreHasConnection DEF RestoreNext
    <2> QED BY <1>0, <1>8, <2>1, GetChannelEffect DEF RestoreNext
  <1>9. CASE RestoreStation \/ RestoreDone
    BY <1>0, <1>9 DEF RestoreStation, RestoreDone
  <1>10. CASE Connected
    <2>1. connection = "null"
      BY <1>10, AttemptHasNone DEF Connected, AttemptSucceeds
    <2>2. ~InProgress(Restore) /\ visited = {}
      BY <1>0, <2>1 DEF WorkNeedsConnection, AtBroker
    <2> QED BY <1>0, <1>10, <2>2 DEF Connected, AttemptSucceeds, Recorded
  <1>11. CASE Disconnected
    BY <1>0, <1>11 DEF Disconnected, ConnectionLost, OnClose, ChannelsLost, Reject, Rejected
  <1>12. CASE ConnectionStep
    <2>1. CASE AttemptFails
      BY <1>12, <2>1, AttemptHasNone DEF AttemptFails
    <2>2. CASE ReconnectTimerFires
      BY <1>12, <2>2 DEF ConnectionStep, ReconnectTimerFires
    <2> QED BY <1>12, <2>1, <2>2 DEF ConnectionStep
  <1>13. ASSUME NEW c \in alive, ChannelError(c) PROVE NothingLeft'
    BY <1>0, <1>13 DEF ChannelError, Reject, Rejected
  <1>14. CASE UNCHANGED allVars
    BY <1>0, <1>14 DEF allVars
  <1> QED
    BY <1>0, <1>1, <1>2, <1>3, <1>4, <1>5, <1>6, <1>7, <1>8,
       <1>9, <1>10, <1>11, <1>12, <1>13, <1>14
    DEF SubscriptionsNext, Advance

\* The inductive invariant holds of every behaviour.
LEMMA SubscriptionsInvAlways == SubscriptionsSpec => []SubscriptionsInv
  <1>1. SubscriptionsInv /\ [SubscriptionsNext]_allVars => SubscriptionsInv'
    <2> SUFFICES ASSUME SubscriptionsInv, [SubscriptionsNext]_allVars PROVE SubscriptionsInv'
      OBVIOUS
    <2>1. ConnectionInv'
      BY ConnectionSteps, NextConnectionInv DEF SubscriptionsInv
    <2> QED
      BY <2>1, SubscriptionTypesKept, ChannelsKept, TasksKept, RecordsKept, ConsumersKept,
         OvertakenKept, NothingLeftKept
      DEF SubscriptionsInv, ChannelsOK
  <1> QED BY InitSubscriptionsInv, <1>1, PTL DEF SubscriptionsSpec

-----------------------------------------------------------------------------
(* The theorems *)

\* The types of tasks, channels and records.
THEOREM SubscriptionTypes == SubscriptionsSpec => []SubscriptionsTypeOK
  <1>1. SubscriptionsInv => SubscriptionsTypeOK
    BY DEF SubscriptionsInv
  <1> QED BY <1>1, SubscriptionsInvAlways, PTL

\* Every behaviour of the composition is one of ConnectionManager: each of its
\* steps takes one of the manager's or leaves the manager alone.
LEMMA ManagerImplemented == SubscriptionsSpec => Spec
  <1>1. SubscriptionsInit => Init
    BY DEF SubscriptionsInit
  <1> QED
    BY <1>1, ConnectionSteps, SubscriptionsInvAlways, PTL
    DEF SubscriptionsSpec, Spec

\* For any tasks, losses and channel errors: the channel map never leads to a
\* channel that is gone.
THEOREM MapStaysLive == SubscriptionsSpec => []MapIsLive
  <1>1. SubscriptionsInv => MapIsLive
    BY DEF SubscriptionsInv
  <1> QED BY <1>1, SubscriptionsInvAlways, PTL

\* For any tasks, losses and channel errors: a consumer whose tag was lost has an
\* unsubscribe of its station behind it.
THEOREM ConsumersStayKnown == SubscriptionsSpec => []ConsumersKnown
  <1>1. SubscriptionsInv => ConsumersKnown
    BY DEF SubscriptionsInv
  <1> QED BY <1>1, SubscriptionsInvAlways, PTL

\* For any stations, calls and losses: while the connection is up and no channel
\* died alone, every recorded subscription has its consumer or a task that is
\* going to make it.
THEOREM NothingIsForgotten == SubscriptionsSpec => []NothingForgotten
  <1>1. ASSUME SubscriptionsInv PROVE NothingForgotten
    <2>1. ASSUME NEW b \in Recorded \ overtaken, connection = "open", faulted = "no"
          PROVE  b \in Subs /\ Owed(b)
      BY <1>1, <2>1 DEF SubscriptionsInv, SubscriptionsTypeOK, RecordsOK, Recorded, Owed
    <2> QED BY <1>1, <2>1 DEF SubscriptionsInv, NothingLeft, NothingForgotten, Making
  <1>2. SubscriptionsInv => NothingForgotten
    BY <1>1
  <1> QED BY <1>2, SubscriptionsInvAlways, PTL

\* The receivers, channels and restorations of a process never make it open a
\* second broker connection, nor leave it stranded without one or a caller
\* waiting beside one: what is proved of the manager holds of the composition.
THEOREM CompositionInherits ==
    SubscriptionsSpec => [](NeverTwoConnections /\ ReconnectIsUnderWay /\ WaitersAttended)
  BY ManagerImplemented, SingleConnection, ReconnectScheduled, WaitersNotStranded, PTL
=============================================================================
