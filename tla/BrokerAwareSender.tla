------------------------- MODULE BrokerAwareSender -------------------------
(***************************************************************************)
(* The decorator that carries a sender over a broker outage                *)
(* (packages/core/src/util/queue/BrokerAwareMessageSender.ts), as the      *)
(* router uses it.  While the broker is down, responses are buffered and   *)
(* replayed at the next 'connected', and a station's Call is swallowed     *)
(* and starts a timer that closes the station's websocket.                 *)
(*                                                                         *)
(* The wrapped sender (rabbit-mq/sender.ts) awaits a channel before it     *)
(* publishes, so a send is two steps.  The loss of the connection rejects  *)
(* that await (amqplib, external) and the rejection is handled long before *)
(* the reconnect timer, a second or more away, can bring the broker back.  *)
(***************************************************************************)
EXTENDS Naturals, Sequences, SequencesExt

CONSTANTS
    NumMessages,     \* bound: responses sent, numbered in the order of sending
    Stations,        \* identifiers of stations (tenantId:ocppConnectionName)
    MaxConnections,  \* bound: websockets a station opens
    MaxOutages       \* bound: losses of the broker connection

ASSUME BrokerAwareSenderAssumption ==
    NumMessages \in Nat /\ MaxConnections \in Nat /\ MaxOutages \in Nat

Messages == 1 .. NumMessages

VARIABLES
    up,            \* connectionManager.isConnected()
    sent,          \* messages handed to send() so far
    buffer,        \* _buffer
    toFlush,       \* what _flushBuffer has left; its head is in inner.send
    direct,        \* messages in inner.send that were sent with the broker up
    published,     \* messages published to the exchange, in order
    confirmed,     \* history: buffered messages, whose senders were told success
    failed,        \* messages whose send() was rejected
    dropped,       \* messages whose replay failed
    discarded,     \* messages shutdown() threw away
    callTimeouts,  \* _callTimeouts: stations with a timer running
    ws,            \* station -> number of its websocket, 0 if it has none
    opened,        \* station -> websockets opened so far
    swallowed,     \* station -> websockets on which a Call was swallowed
    outages,
    running        \* shutdown() was not called

outcomes == <<failed, dropped, discarded>>
messages == <<sent, buffer, toFlush, direct, published, confirmed, outcomes>>
calls    == <<callTimeouts, ws, opened, swallowed>>
vars     == <<up, messages, calls, outages, running>>

TypeOK ==
    /\ up \in BOOLEAN /\ running \in BOOLEAN
    /\ sent \in 0 .. NumMessages
    /\ buffer \in Seq(Messages) /\ toFlush \in Seq(Messages)
    /\ published \in Seq(Messages)
    /\ direct \subseteq Messages /\ confirmed \subseteq Messages
    /\ failed \subseteq Messages /\ dropped \subseteq Messages /\ discarded \subseteq Messages
    /\ callTimeouts \subseteq Stations
    /\ opened \in [Stations -> 0 .. MaxConnections]
    /\ ws \in [Stations -> 0 .. MaxConnections]
    /\ swallowed \in [Stations -> SUBSET (1 .. MaxConnections)]
    /\ outages \in 0 .. MaxOutages

Init ==
    /\ up = TRUE /\ running = TRUE
    /\ sent = 0
    /\ buffer = << >> /\ toFlush = << >> /\ published = << >>
    /\ direct = {} /\ confirmed = {} /\ failed = {} /\ dropped = {} /\ discarded = {}
    /\ callTimeouts = {}
    /\ ws = [s \in Stations |-> 0]
    /\ opened = [s \in Stations |-> 0]
    /\ swallowed = [s \in Stations |-> {}]
    /\ outages = 0

-----------------------------------------------------------------------------
(* Responses *)

\* A fault for comparison: the message of the previous call is passed on.
SendPrevious ==
    /\ running
    /\ sent < NumMessages
    /\ sent' = sent + 1
    /\ IF up
       THEN direct' = direct \cup {sent} /\ UNCHANGED <<buffer, confirmed>>
       ELSE /\ buffer' = Append(buffer, sent)
            /\ confirmed' = confirmed \cup {sent}
            /\ UNCHANGED direct
    /\ UNCHANGED <<up, toFlush, published, outcomes, calls, outages, running>>

\* send() of a response: through the inner sender, or into the buffer, which is
\* confirmed as a success.
SendResponse ==
    /\ running
    /\ sent < NumMessages
    /\ sent' = sent + 1
    /\ IF up
       THEN direct' = direct \cup {sent + 1} /\ UNCHANGED <<buffer, confirmed>>
       ELSE /\ buffer' = Append(buffer, sent + 1)
            /\ confirmed' = confirmed \cup {sent + 1}
            /\ UNCHANGED direct
    /\ UNCHANGED <<up, toFlush, published, outcomes, calls, outages, running>>

\* inner.send gets its channel and publishes; a full write buffer is confirmed
\* with success = false, and the message goes out all the same.
PublishDirect(m) ==
    /\ up
    /\ m \in direct
    /\ direct' = direct \ {m}
    /\ published' = Append(published, m)
    /\ UNCHANGED <<up, sent, buffer, toFlush, confirmed, outcomes, calls, outages, running>>

\* inner.send gets no channel, or one that closed, and rejects: its caller is
\* told.
FailDirect(m) ==
    /\ m \in direct
    /\ direct' = direct \ {m}
    /\ failed' = failed \cup {m}
    /\ UNCHANGED <<up, sent, buffer, toFlush, published, confirmed, dropped, discarded, calls,
                   outages, running>>

\* Faults for comparison: the message just sent is re-buffered too; the rest
\* goes behind what was buffered in the meantime.
RebufferAll(rest) == toFlush \o buffer
RebufferBehind(rest) == buffer \o rest

\* The remainder of a flush goes back in front of the buffer.
Rebuffer(rest) == rest \o buffer

\* _flushBuffer goes on to the next message, or re-buffers the rest when the
\* broker is down again.
ContinueFlush ==
    LET rest == Tail(toFlush)
    IN  IF up \/ rest = << >>
        THEN toFlush' = rest /\ UNCHANGED buffer
        ELSE toFlush' = << >> /\ buffer' = Rebuffer(rest)

FlushPublish ==
    /\ up
    /\ toFlush # << >>
    /\ published' = Append(published, Head(toFlush))
    /\ ContinueFlush
    /\ UNCHANGED <<up, sent, direct, confirmed, outcomes, calls, outages, running>>

\* A fault for comparison: the error of a replay ends the flush, and the rest
\* is lost with it.
FlushAborts ==
    /\ toFlush # << >>
    /\ dropped' = dropped \cup {toFlush[i] : i \in DOMAIN toFlush}
    /\ toFlush' = << >>
    /\ UNCHANGED <<up, sent, buffer, direct, published, confirmed, failed, discarded, calls,
                   outages, running>>

\* A failed replay is logged, and the message is gone, although its sender was
\* told success.
FlushFail ==
    /\ toFlush # << >>
    /\ dropped' = dropped \cup {Head(toFlush)}
    /\ ContinueFlush
    /\ UNCHANGED <<up, sent, direct, published, confirmed, failed, discarded, calls, outages,
                   running>>

-----------------------------------------------------------------------------
(* The broker connection *)

\* Faults for comparison: one message is replayed per reconnect; the
\* reconnect cancels the call timers.
FlushOne ==
    /\ ~up
    /\ toFlush = << >> /\ direct = {}
    /\ up' = TRUE
    /\ toFlush' = IF buffer = << >> THEN << >> ELSE << Head(buffer) >>
    /\ buffer' = IF buffer = << >> THEN buffer ELSE Tail(buffer)
    /\ UNCHANGED <<sent, direct, published, confirmed, outcomes, calls, outages, running>>

ConnectedCancelsTimers ==
    /\ ~up
    /\ toFlush = << >> /\ direct = {}
    /\ up' = TRUE
    /\ toFlush' = buffer
    /\ buffer' = << >>
    /\ callTimeouts' = {}
    /\ UNCHANGED <<sent, direct, published, confirmed, outcomes, ws, opened, swallowed,
                   outages, running>>

\* 'connected': _flushBuffer takes the whole buffer and sends its head.
Connected ==
    /\ ~up
    /\ toFlush = << >> /\ direct = {}
    /\ up' = TRUE
    /\ toFlush' = buffer
    /\ buffer' = << >>
    /\ UNCHANGED <<sent, direct, published, confirmed, outcomes, calls, outages, running>>

Disconnected ==
    /\ up
    /\ outages < MaxOutages
    /\ outages' = outages + 1
    /\ up' = FALSE
    /\ UNCHANGED <<messages, calls, running>>

-----------------------------------------------------------------------------
(* Station Calls *)

\* The router passes a station's Call to send().  With the broker up it is
\* delivered; otherwise _handleDisconnectedCall swallows it and starts a timer
\* unless the station has one.
StationCall(s) ==
    /\ running
    /\ ws[s] # 0
    /\ ~up
    /\ callTimeouts' = callTimeouts \cup {s}
    /\ swallowed' = [swallowed EXCEPT ![s] = @ \cup {ws[s]}]
    /\ UNCHANGED <<up, messages, ws, opened, outages, running>>

\* The timer: onCallTimeout closes whatever websocket the station has now.
CallTimeout(s) ==
    /\ s \in callTimeouts
    /\ callTimeouts' = callTimeouts \ {s}
    /\ ws' = [ws EXCEPT ![s] = 0]
    /\ UNCHANGED <<up, messages, opened, swallowed, outages, running>>

\* A station connects only while the broker is up (upgrades get a 503 before).
StationConnects(s) ==
    /\ up /\ running
    /\ ws[s] = 0
    /\ opened[s] < MaxConnections
    /\ opened' = [opened EXCEPT ![s] = @ + 1]
    /\ ws' = [ws EXCEPT ![s] = opened[s] + 1]
    /\ UNCHANGED <<up, messages, callTimeouts, swallowed, outages, running>>

StationDrops(s) ==
    /\ ws[s] # 0
    /\ ws' = [ws EXCEPT ![s] = 0]
    /\ UNCHANGED <<up, messages, callTimeouts, opened, swallowed, outages,
                   running>>

\* shutdown(): timers and buffer are dropped, the inner sender is shut down.
Shutdown ==
    /\ running
    /\ running' = FALSE
    /\ callTimeouts' = {}
    /\ buffer' = << >>
    /\ discarded' = discarded \cup ToSet(buffer)
    /\ UNCHANGED <<up, sent, toFlush, direct, published, confirmed, failed, dropped, ws,
                   opened, swallowed, outages>>

Next ==
    \/ SendResponse
    \/ \E m \in Messages : PublishDirect(m) \/ FailDirect(m)
    \/ FlushPublish \/ FlushFail
    \/ Connected \/ Disconnected
    \/ \E s \in Stations :
         StationCall(s) \/ CallTimeout(s) \/ StationConnects(s) \/ StationDrops(s)
    \/ Shutdown

\* Promises settle, timers fire, and the connection manager reconnects.
Fairness ==
    /\ WF_vars(Connected)
    /\ WF_vars(FlushPublish \/ FlushFail)
    /\ \A m \in Messages : WF_vars(PublishDirect(m) \/ FailDirect(m))
    /\ \A s \in Stations : WF_vars(CallTimeout(s))

Spec == Init /\ [][Next]_vars

FairSpec == Spec /\ Fairness

-----------------------------------------------------------------------------
(* Properties *)

\* The places a message can be in.
Unsent == {m \in Messages : m > sent}
Places == << Unsent, direct, ToSet(buffer), ToSet(toFlush), ToSet(published),
             dropped, discarded, failed >>

\* However outages, flushes and new messages interleave, every message handed to
\* send() is in one place, once: none is sent twice, and none is lost but those
\* whose sender was told (failed), whose replay failed (dropped) and those that
\* shutdown() threw away.  What was confirmed on being buffered waits, was sent
\* or is one of the latter two; nobody is told success and failure.
Conservation ==
    /\ \A m \in Messages :
         \E i \in DOMAIN Places : /\ m \in Places[i]
                                  /\ \A j \in DOMAIN Places \ {i} : m \notin Places[j]
    /\ IsInjective(buffer) /\ IsInjective(toFlush) /\ IsInjective(published)
    /\ \A m \in confirmed : \E i \in 3 .. 7 : m \in Places[i]

\* A replay that fails costs the one message it was about, which its sender
\* believes sent ("held in an in-memory buffer and replayed in order", lines
\* 28-30): everything that waited behind it, in the flush and in the buffer,
\* still waits, in its order, also if the broker is down again.
FailedReplayCostsOne ==
    [][dropped' # dropped => toFlush' \o buffer' = Tail(toFlush) \o buffer]_vars

\* "replayed in order once the broker reconnects": what waits, waits in the
\* order of sending, and nothing already waiting in the buffer is older than
\* what a flush still holds.
ReplayInOrder ==
    LET waiting == toFlush \o buffer
    IN  \A i, j \in DOMAIN waiting : i < j => waiting[i] < waiting[j]

\* While the broker is up nothing is left behind in the buffer, where only the
\* next reconnect would find it.
NothingStranded == up => buffer = << >>

\* A websocket on which a Call was swallowed does not outlive the timer, also
\* when the broker is back ("they will still close the WS connection because
\* the Call was never delivered to a module", lines 34-35).
SwallowedCallEndsConnection ==
    \A s \in Stations, n \in 1 .. MaxConnections :
        n \in swallowed[s] ~> (ws[s] # n \/ ~running)
=============================================================================
