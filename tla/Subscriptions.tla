--------------------------- MODULE Subscriptions ---------------------------
(***************************************************************************)
(* The subscriptions of a receiver (packages/core/src/util/queue/rabbit-mq/*)
(* receiver.ts, in the mode the container builds: one queue and consumer   *)
(* per subscription) and the channel they share with the other receivers   *)
(* of the process (ChannelManager.ts), over the connection modelled by     *)
(* ConnectionManager.  A task is one asynchronous call: subscribe,         *)
(* unsubscribe, and the restoration and the recreation of the channel that *)
(* a 'connected' event starts.  The latter two never outlive a connection: *)
(* the next 'connected' starts them anew.                                  *)
(*                                                                         *)
(* The broker is external: a channel dies with its connection, or alone on *)
(* an error (an expired acknowledgement, a queue that was deleted), and    *)
(* its consumers die with it.                                              *)
(***************************************************************************)
EXTENDS ConnectionManager, Integers

CONSTANTS
    Stations,
    Subs,              \* calls of subscribe, each used once
    Unsubs,            \* calls of unsubscribe, each used once
    StationOf,         \* the identifier such a call is about
    MaxChannelErrors,  \* bound: channels that die alone
    NoSub

Restore  == "restore"    \* _reinitializeModuleQueues
Recreate == "recreate"   \* recreateChannels

ASSUME SubscriptionsAssumption ==
    /\ Callers = Subs \cup Unsubs
    /\ Subs \cap Unsubs = {}
    /\ {Restore, Recreate} \cap Callers = {}
    /\ StationOf \in [Callers -> Stations]
    /\ MaxChannelErrors \in Nat
    /\ NoSub \notin Subs

Tasks == Callers \cup {Restore, Recreate}

VARIABLES
    at,                   \* where each task stands
    target,               \* the subscription a task is making
    chan,                 \* the channel a task works on
    channelMap,           \* channelMap's entry: Absent, Null or a channel
    alive,                \* channels open at the broker
    created,              \* channels created so far
    moduleSubscriptions,  \* _moduleSubscriptions: station -> subscriptions
    consumerTags,         \* _consumerTags: station -> tags
    consumers,            \* consumers that exist at the broker
    cancels,              \* tags an unsubscribe is cancelling
    visited,              \* stations the restoration has come to
    captured,             \* subscriptions of the station it is at, not yet made
    channelErrors,        \* channels that died alone
    faulted,              \* "yes" if one did since the last 'connected'
    overtaken             \* history: subscribed during an unsubscribe of the station

channels == <<channelMap, alive, created>>
records  == <<moduleSubscriptions, consumerTags, consumers>>
progress == <<cancels, visited, captured>>
history  == <<channelErrors, faulted, overtaken>>
allVars  == <<vars, at, target, chan, channels, records, progress, history>>

Absent == -1
Null   == 0

\* A consumer, which is what its tag stands for: what it serves, who made it
\* and on which channel.
Tags == Subs \X Tasks \X Nat

Phases == {"new", "next", "connect", "create", "use", "cancel", "done", "failed"}

SubscriptionsTypeOK ==
    /\ at \in [Tasks -> Phases]
    /\ target \in [Tasks -> Subs \cup {NoSub}]
    /\ chan \in [Tasks -> Nat]
    /\ channelMap \in Nat \cup {Absent}
    /\ alive \in SUBSET Nat
    /\ created \in Nat
    /\ moduleSubscriptions \in [Stations -> SUBSET Subs]
    /\ consumerTags \in [Stations -> SUBSET Tags]
    /\ consumers \in SUBSET Tags
    /\ cancels \in [Unsubs -> SUBSET Tags]
    /\ visited \in SUBSET Stations
    /\ captured \in SUBSET Subs
    /\ channelErrors \in Nat
    /\ faulted \in {"yes", "no"}
    /\ overtaken \in SUBSET Subs

SubscriptionsInit ==
    /\ Init
    /\ at = [t \in Tasks |-> "new"]
    /\ target = [t \in Tasks |-> IF t \in Subs THEN t ELSE NoSub]
    /\ chan = [t \in Tasks |-> Null]
    /\ channelMap = Absent
    /\ alive = {}
    /\ created = 0
    /\ moduleSubscriptions = [s \in Stations |-> {}]
    /\ consumerTags = [s \in Stations |-> {}]
    /\ consumers = {}
    /\ cancels = [u \in Unsubs |-> {}]
    /\ visited = {}
    /\ captured = {}
    /\ channelErrors = 0
    /\ faulted = "no"
    /\ overtaken = {}

InProgress(t) == at[t] \in {"next", "connect", "create", "use", "cancel"}

\* How a task ends that rejects: an unsubscribe is then told from one that did
\* its work.
Rejected(t) == IF t \in Unsubs THEN "failed" ELSE "done"

-----------------------------------------------------------------------------
(* getChannel *)

\* getChannel up to its first real wait: the channel in the map, or else a new
\* one on the open connection, or else connect().
GetChannel(t) ==
    IF channelMap > Null
    THEN /\ at' = [at EXCEPT ![t] = "use"]
         /\ chan' = [chan EXCEPT ![t] = channelMap]
         /\ UNCHANGED vars
    ELSE /\ UNCHANGED chan
         /\ IF connection = "open"
            THEN at' = [at EXCEPT ![t] = "create"] /\ UNCHANGED vars
            ELSE at' = [at EXCEPT ![t] = "connect"] /\ Connect(t)

\* connect() resolves and createChannel is called, ...
ConnectionObtained(t) ==
    /\ t \in Callers
    /\ at[t] = "connect"
    /\ caller[t] = "ok"
    /\ Return(t)
    /\ at' = [at EXCEPT ![t] = "create"]
    /\ UNCHANGED <<target, chan, channels, records, progress, history>>

\* ... or it rejects, and with it the task.
ConnectionRefused(t) ==
    /\ t \in Callers
    /\ at[t] = "connect"
    /\ caller[t] = "error"
    /\ Return(t)
    /\ at' = [at EXCEPT ![t] = Rejected(t)]
    /\ UNCHANGED <<target, chan, channels, records, progress, history>>

\* createChannel resolves: whatever the map holds by now is replaced.
ChannelOpens(t) ==
    /\ at[t] = "create"
    /\ created' = created + 1
    /\ alive' = alive \cup {created + 1}
    /\ channelMap' = created + 1
    /\ chan' = [chan EXCEPT ![t] = IF t = Recreate THEN Null ELSE created + 1]
    /\ at' = [at EXCEPT ![t] = IF t = Recreate THEN "done" ELSE "use"]
    /\ UNCHANGED <<vars, target, records, progress, history>>

-----------------------------------------------------------------------------
(* Subscribing and unsubscribing *)

\* subscribe(): the subscription is recorded before anything can fail.
Subscribe(b) ==
    LET s == StationOf[b]
    IN  /\ at[b] = "new"
        /\ moduleSubscriptions' = [moduleSubscriptions EXCEPT ![s] = @ \cup {b}]
        /\ GetChannel(b)
        /\ overtaken' = IF \E u \in Unsubs : StationOf[u] = s /\ InProgress(u)
                        THEN overtaken \cup {b} ELSE overtaken
        /\ UNCHANGED <<target, channels, consumerTags, consumers, progress,
                       channelErrors, faulted>>

\* A fault for comparison: a tag replaces the station's earlier ones.
ConsumeReplacing(t) ==
    LET b == target[t]
        tag == <<b, t, chan[t]>>
    IN  /\ t \in Subs \cup {Restore}
        /\ at[t] = "use"
        /\ consumers' = consumers \cup {tag}
        /\ consumerTags' = [consumerTags EXCEPT ![StationOf[b]] = {tag}]
        /\ at' = [at EXCEPT ![t] = IF t \in Subs THEN "done" ELSE "next"]
        /\ chan' = [chan EXCEPT ![t] = Null]
        /\ UNCHANGED <<vars, target, channels, moduleSubscriptions, progress,
                       history>>

\* A fault for comparison: the tag is recorded for the station, not the consumer.
ConsumeForStation(t) ==
    LET b == target[t]
    IN  /\ t \in Subs \cup {Restore}
        /\ at[t] = "use"
        /\ consumers' = consumers \cup {<<b, t, chan[t]>>}
        /\ consumerTags' = [consumerTags EXCEPT ![StationOf[b]] = @ \cup {<<StationOf[b], t, chan[t]>>}]
        /\ at' = [at EXCEPT ![t] = IF t \in Subs THEN "done" ELSE "next"]
        /\ chan' = [chan EXCEPT ![t] = Null]
        /\ UNCHANGED <<vars, target, channels, moduleSubscriptions, progress, history>>

\* _subscribePerIdentifierQueue with its channel: exchange, queue, bindings and
\* consumer, then the tag.
Consume(t) ==
    LET b == target[t]
        tag == <<b, t, chan[t]>>
    IN  /\ t \in Subs \cup {Restore}
        /\ at[t] = "use"
        /\ consumers' = consumers \cup {tag}
        /\ consumerTags' = [consumerTags EXCEPT ![StationOf[b]] = @ \cup {tag}]
        /\ at' = [at EXCEPT ![t] = IF t \in Subs THEN "done" ELSE "next"]
        /\ chan' = [chan EXCEPT ![t] = Null]
        /\ UNCHANGED <<vars, target, channels, moduleSubscriptions, progress,
                       history>>

\* unsubscribe(): the records go first; a restoration under way comes to the
\* station again if it is recorded anew.
Unsubscribe(u) ==
    LET s == StationOf[u]
    IN  /\ at[u] = "new"
        /\ moduleSubscriptions' = [moduleSubscriptions EXCEPT ![s] = {}]
        /\ visited' = visited \ {s}
        /\ GetChannel(u)
        /\ UNCHANGED <<target, channels, consumerTags, consumers, cancels,
                       captured, history>>

\* With a channel in hand, the station's tags are read.
ReadTags(u) ==
    LET tags == consumerTags[StationOf[u]]
    IN  /\ at[u] = "use"
        /\ at' = [at EXCEPT ![u] = IF tags = {} THEN "done" ELSE "cancel"]
        /\ chan' = [chan EXCEPT ![u] = IF tags = {} THEN Null ELSE @]
        /\ cancels' = [cancels EXCEPT ![u] = tags]
        /\ UNCHANGED <<vars, target, channels, records, visited, captured, history>>

\* The cancellations are confirmed, those of tags that this channel does not
\* know too, and the station's entry is deleted.
CancelConsumers(u) ==
    /\ at[u] = "cancel"
    /\ consumers' = {c \in consumers : c \notin cancels[u] \/ c[3] # chan[u]}
    /\ consumerTags' = [consumerTags EXCEPT ![StationOf[u]] = {}]
    /\ cancels' = [cancels EXCEPT ![u] = {}]
    /\ at' = [at EXCEPT ![u] = "done"]
    /\ chan' = [chan EXCEPT ![u] = Null]
    /\ UNCHANGED <<vars, target, channels, moduleSubscriptions, visited, captured, history>>

-----------------------------------------------------------------------------
(* Losing and regaining the connection *)

Recorded == UNION {moduleSubscriptions[s] : s \in Stations}

\* A fault for comparison: nothing restores the subscriptions.
ConnectedForgetful ==
    /\ AttemptSucceeds
    /\ at' = [at EXCEPT ![Recreate] = IF channelMap = Null THEN "create" ELSE @]
    /\ faulted' = "no"
    /\ UNCHANGED <<target, chan, channels, records, progress, channelErrors, overtaken>>

\* 'connected': a channel is created if the map has an entry without one; if
\* anything is recorded, the tags are cleared and a restoration starts.
Connected ==
    /\ AttemptSucceeds
    /\ at' = [at EXCEPT ![Recreate] = IF channelMap = Null THEN "create" ELSE @,
                        ![Restore]  = IF Recorded # {} THEN "next" ELSE @]
    /\ consumerTags' = IF Recorded # {} THEN [s \in Stations |-> {}] ELSE consumerTags
    /\ faulted' = "no"
    /\ UNCHANGED <<target, chan, channels, moduleSubscriptions, consumers, progress,
                   channelErrors, overtaken>>

\* The restoration goes on to the next subscription of the station, ...
RestoreNext ==
    /\ at[Restore] = "next"
    /\ \E b \in captured :
          /\ target' = [target EXCEPT ![Restore] = b]
          /\ captured' = captured \ {b}
    /\ GetChannel(Restore)
    /\ UNCHANGED <<channels, records, cancels, visited, history>>

\* ... to the next station of the live map, ...
RestoreStation ==
    /\ at[Restore] = "next"
    /\ captured = {}
    /\ \E s \in Stations \ visited :
          /\ moduleSubscriptions[s] # {}
          /\ visited' = visited \cup {s}
          /\ captured' = moduleSubscriptions[s]
    /\ UNCHANGED <<vars, at, target, chan, channels, records, cancels, history>>

\* ... or has come to all of them.
RestoreDone ==
    /\ at[Restore] = "next"
    /\ captured = {}
    /\ \A s \in Stations \ visited : moduleSubscriptions[s] = {}
    /\ at' = [at EXCEPT ![Restore] = "done"]
    /\ target' = [target EXCEPT ![Restore] = NoSub]
    /\ visited' = {}
    /\ UNCHANGED <<vars, chan, channels, records, cancels, captured, history>>

\* The calls that a lost connection or channel makes reject, and what they kept.
Reject(ts) ==
    /\ at' = [t \in Tasks |-> IF t \in ts THEN Rejected(t) ELSE at[t]]
    /\ chan' = [t \in Tasks |-> IF t \in ts THEN Null ELSE chan[t]]
    /\ target' = [t \in Tasks |-> IF t \in ts \ Subs THEN NoSub ELSE target[t]]
    /\ cancels' = [u \in Unsubs |-> IF u \in ts THEN {} ELSE cancels[u]]
    /\ visited' = IF Restore \in ts THEN {} ELSE visited
    /\ captured' = IF Restore \in ts THEN {} ELSE captured

\* A fault for comparison: 'disconnected' leaves the map alone.
ChannelsLeftInMap ==
    /\ alive' = {}
    /\ created' = 0
    /\ consumers' = {}
    /\ Reject({t \in Tasks : InProgress(t)})
    /\ UNCHANGED <<channelMap, moduleSubscriptions, consumerTags, history>>

\* The connection is gone: its channels and their consumers are, the map is
\* cleared, and every call that awaits the broker rejects.  The channels of the
\* next connection are numbered from 1 again.
ChannelsLost ==
    /\ alive' = {}
    /\ created' = 0
    /\ consumers' = {}
    /\ channelMap' = IF channelMap = Absent THEN Absent ELSE Null
    /\ Reject({t \in Tasks : InProgress(t)})
    /\ UNCHANGED <<moduleSubscriptions, consumerTags, history>>

Disconnected == ConnectionLost /\ ChannelsLost

\* A channel dies alone: its handlers clear the map's entry, whichever channel
\* that holds.  Nothing subscribes again what it served.
ChannelError(c) ==
    /\ c \in alive
    /\ channelErrors < MaxChannelErrors
    /\ channelErrors' = channelErrors + 1
    /\ faulted' = "yes"
    /\ alive' = alive \ {c}
    /\ channelMap' = Null
    /\ consumers' = {x \in consumers : x[3] # c}
    /\ Reject({t \in Tasks : chan[t] = c})
    /\ UNCHANGED <<vars, created, moduleSubscriptions, consumerTags, overtaken>>

\* The steps of ConnectionManager that touch no channel.  close() is not among
\* them: it ends the process (citrineOSServer.ts).
ConnectionStep ==
    /\ AttemptFails \/ ReconnectTimerFires
    /\ UNCHANGED <<at, target, chan, channels, records, progress, history>>

Advance(t) ==
    \/ ConnectionObtained(t) \/ ConnectionRefused(t) \/ ChannelOpens(t) \/ Consume(t)
    \/ t \in Unsubs /\ (ReadTags(t) \/ CancelConsumers(t))
    \/ t = Restore /\ (RestoreNext \/ RestoreStation \/ RestoreDone)

SubscriptionsNext ==
    \/ \E b \in Subs : Subscribe(b)
    \/ \E u \in Unsubs : Unsubscribe(u)
    \/ \E t \in Tasks : Advance(t)
    \/ Connected \/ Disconnected \/ ConnectionStep
    \/ \E c \in alive : ChannelError(c)

SubscriptionsSpec == SubscriptionsInit /\ [][SubscriptionsNext]_allVars

-----------------------------------------------------------------------------
(* Properties *)

\* getChannel never hands out a channel that is gone: whatever creations, losses
\* and errors interleave, the map holds a channel open at the broker or none.
MapIsLive == channelMap > Null => channelMap \in alive

\* The tag of consumer c is recorded, or an unsubscribe of its station ran.
KnownConsumer(c) ==
    LET s == StationOf[c[1]]
    IN  c \in consumerTags[s] \/ \E u \in Unsubs : StationOf[u] = s /\ at[u] = "done"

\* A consumer at the broker is one that an unsubscribe can find: its tag is
\* recorded, unless an unsubscribe of its station ran meanwhile.  The clearing
\* of the tags on a reconnect never drops one that is in use.
ConsumersKnown == \A c \in consumers : KnownConsumer(c)

Served(b) == \E c \in consumers : c[1] = b

\* The restoration under way is making b or still has to come to it.
ToBeRestored(b) ==
    /\ InProgress(Restore)
    /\ \/ at[Restore] # "next" /\ target[Restore] = b
       \/ b \in captured
       \/ StationOf[b] \notin visited

\* While the connection is up, a recorded subscription has its consumer, or the
\* subscribe or the restoration that will make it is under way: also when
\* subscribe failed, or the connection broke during a restoration.  Exempt is
\* what a channel served that died alone, until the next reconnect, and what an
\* earlier unsubscribe of the same station cancels because it reads tags late.
NothingForgotten ==
    \A b \in Recorded \ overtaken :
        connection = "open" /\ faulted = "no" =>
            Served(b) \/ InProgress(b) \/ ToBeRestored(b)
=============================================================================
