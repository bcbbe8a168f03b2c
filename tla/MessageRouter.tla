--------------------------- MODULE MessageRouter ---------------------------
(***************************************************************************)
(* The OCPP message router of one charging station                         *)
(* (packages/core/src/modules/OcppRouter/src/module/router.ts), with the   *)
(* broker receiver that feeds it (util/queue/rabbit-mq/receiver.ts) and    *)
(* AbstractRouter.handle between the two.                                  *)
(*                                                                         *)
(* Calls in both directions are correlated through one cache namespace     *)
(* per station, CacheNamespace.Transactions + identifier: an entry is a    *)
(* call in progress and expires after maxCallLengthSeconds.  Every await   *)
(* of a handler is a point where the other handlers of the station run, so *)
(* each handler is a program counter and each step between two awaits one  *)
(* action.  The receiver sets no prefetch limit: any number of messages    *)
(* are in hand at once.                                                    *)
(***************************************************************************)
EXTENDS Naturals

CONSTANTS
    Calls,          \* correlation ids of Calls the CSMS sends (UUIDs)
    AFRRSignals,    \* the Calls whose action is AFRRSignal
    StationCalls,   \* message ids of Calls the station sends
    Actions,        \* actions of station Calls
    MaxAnswers,     \* bound: how many answers the station sends to each Call
    MaxReceptions,  \* bound: Calls of one message id that are handled at once
    MaxFaults,      \* bound: disconnections, broker losses and restarts
    None

ASSUME MessageRouterAssumption ==
    /\ Calls \cap StationCalls = {}
    /\ AFRRSignals \subseteq Calls
    /\ MaxAnswers \in [Calls -> Nat]
    /\ MaxReceptions \in Nat
    /\ MaxFaults \in Nat
    /\ None \notin Actions

\* A reception of a station Call.  The same message id may be sent again, also
\* while an earlier Call with it is handled; a reception that has come to its
\* end makes room for the next, so a station may go on for ever.
Receptions == StationCalls \X (1 .. MaxReceptions)

\* The answers of the station to a CSMS Call: nothing keeps it from several.
Answers == UNION {{c} \X (1 .. MaxAnswers[c]) : c \in Calls}

AnswersTo(c) == {a \in Answers : a[1] = c}

VARIABLES
    pending,      \* Calls that have a Transactions entry
    stEntry,      \* Transactions entry of a station Call: the cached action
    tx,           \* sendCall: where the handler of a CSMS Call stands
    redelivered,  \* AFRRSignals the broker has delivered before
    held,         \* CSMS Calls the station has got on this websocket
    an,           \* _onCallResult: where the handler of an answer stands
    rx,           \* _onCall: where the handler of a reception stands
    act,          \* action of a reception
    rsp,          \* the module's response to a reception
    connected,    \* the station's websocket is open
    faults,       \* number of faults so far
    \* History.
    lapsed,       \* Calls whose entry the TTL took before they were sent
    waiting,      \* station Calls sent and not answered since
    excused,      \* station Calls the router could not be expected to answer
    abandoned     \* entries whose other end a fault took away: left to the TTL

vars == <<pending, stEntry, tx, redelivered, held, an, rx, act, rsp,
          connected, faults, lapsed, waiting, excused, abandoned>>

outgoing == <<tx, redelivered, held, an>>
incoming == <<rx, act, rsp>>
history  == <<waiting, excused>>
env      == <<connected, faults, lapsed, abandoned>>

TxStates == {"none", "queued", "checked", "clear", "sending", "failed", "sent", "done"}
AnStates == {"none", "arrived", "hit", "miss", "done", "late"}
RxStates == {"none", "arrived", "routing", "failed", "errGot", "errSend",
             "errEnd", "refused"}
RspStates == {"none", "owed", "queued", "got", "send"}

TypeOK ==
    /\ pending \in SUBSET Calls
    /\ stEntry \in [StationCalls -> Actions \cup {None}]
    /\ tx \in [Calls -> TxStates]
    /\ redelivered \in SUBSET AFRRSignals
    /\ held \in SUBSET Calls
    /\ an \in [Answers -> AnStates]
    /\ rx \in [Receptions -> RxStates]
    /\ act \in [Receptions -> Actions \cup {None}]
    /\ rsp \in [Receptions -> RspStates]
    /\ connected \in BOOLEAN
    /\ faults \in 0 .. MaxFaults
    /\ lapsed \in SUBSET Calls
    /\ waiting \in SUBSET StationCalls
    /\ excused \in SUBSET StationCalls
    /\ abandoned \in SUBSET (Calls \cup StationCalls)

Init ==
    /\ pending = {}
    /\ stEntry = [m \in StationCalls |-> None]
    /\ tx = [c \in Calls |-> "none"]
    /\ redelivered = {}
    /\ held = {}
    /\ an = [a \in Answers |-> "none"]
    /\ rx = [r \in Receptions |-> "none"]
    /\ act = [r \in Receptions |-> None]
    /\ rsp = [r \in Receptions |-> "none"]
    /\ connected = TRUE
    /\ faults = 0
    /\ lapsed = {}
    /\ waiting = {}
    /\ excused = {}
    /\ abandoned = {}

\* _cache.existsAnyInNamespace(transactionNamespace): the station's own Calls
\* are kept in the same namespace and count as well.
ExistsAnyInNamespace == pending # {} \/ \E m \in StationCalls : stEntry[m] # None

\* The station has the Call and has not answered it.
Unanswered(c) == c \in held /\ \A a \in AnswersTo(c) : an[a] = "none"

\* A Call is in flight while its handler is between set and the end of its
\* send, the station owes the answer, or an answer is still to be processed.
CallInFlight(c) ==
    \/ tx[c] \in {"sending", "failed"}
    \/ Unanswered(c)
    \/ \E a \in AnswersTo(c) : an[a] \in {"arrived", "hit", "miss"}

\* The answer found the entry of its Call.
Accepted(a) == an[a] \in {"hit", "done"}

\* A handler of the reception or a response to it is still about.
InUse(r) == rx[r] # "none" \/ rsp[r] # "none"

\* A reception is in flight while _onCall is routing it or undoing it, or the
\* module's response is still to be processed.
ReceptionInFlight(r) ==
    \/ rx[r] \in {"routing", "failed", "errGot"}
    \/ rsp[r] \in {"owed", "queued", "got"}

-----------------------------------------------------------------------------
(* Calls from the CSMS to the station *)

\* A module or the API publishes a request for the station.
Request(c) ==
    /\ tx[c] = "none"
    /\ tx' = [tx EXCEPT ![c] = "queued"]
    /\ UNCHANGED <<pending, stEntry, redelivered, held, an, incoming, env, history>>

\* handle: the request is invalid or stale, or _sendCallIsAllowed says no; the
\* receiver acks it all the same.
RefuseCall(c) ==
    /\ tx[c] = "queued"
    /\ tx' = [tx EXCEPT ![c] = "done"]
    /\ UNCHANGED <<pending, stEntry, redelivered, held, an, incoming, env, history>>

\* handle: validated, fresh and allowed.
Deliver(c) ==
    /\ tx[c] = "queued"
    /\ tx' = [tx EXCEPT ![c] = "checked"]
    /\ UNCHANGED <<pending, stEntry, redelivered, held, an, incoming, env, history>>

\* sendCall finds the namespace empty...
FindClear(c) ==
    /\ tx[c] = "checked"
    /\ ~ExistsAnyInNamespace
    /\ tx' = [tx EXCEPT ![c] = "clear"]
    /\ UNCHANGED <<pending, stEntry, redelivered, held, an, incoming, env, history>>

\* ... or throws RetryMessageError: the receiver nacks the message back into
\* the queue, except an AFRRSignal that was redelivered once already.
Retry(c) ==
    /\ tx[c] = "checked"
    /\ ExistsAnyInNamespace
    /\ IF c \in AFRRSignals \cap redelivered
       THEN /\ tx' = [tx EXCEPT ![c] = "done"]
            /\ UNCHANGED redelivered
       ELSE /\ tx' = [tx EXCEPT ![c] = "queued"]
            /\ redelivered' = redelivered \cup ({c} \cap AFRRSignals)
    /\ UNCHANGED <<pending, stEntry, held, an, incoming, env, history>>

\* _cache.set(correlationId, ..., maxCallLengthSeconds)
Claim(c) ==
    /\ tx[c] = "clear"
    /\ pending' = pending \cup {c}
    /\ tx' = [tx EXCEPT ![c] = "sending"]
    /\ abandoned' = abandoned \ {c}
    /\ UNCHANGED <<stEntry, redelivered, held, an, incoming, connected, faults, lapsed,
                   history>>

\* _sendMessage: the network hook hands the Call to the open websocket.
SendCall(c) ==
    /\ tx[c] = "sending"
    /\ connected
    /\ tx' = [tx EXCEPT ![c] = "sent"]
    /\ held' = held \cup {c}
    /\ UNCHANGED <<pending, stEntry, redelivered, an, incoming, env, history>>

\* The network hook throws: no websocket for the station.
SendCallFails(c) ==
    /\ tx[c] = "sending"
    /\ ~connected
    /\ tx' = [tx EXCEPT ![c] = "failed"]
    /\ UNCHANGED <<pending, stEntry, redelivered, held, an, incoming, env, history>>

\* A fault for comparison: the entry of a Call that was not sent is kept.
KeepFailedCall(c) ==
    /\ tx[c] = "failed"
    /\ tx' = [tx EXCEPT ![c] = "done"]
    /\ UNCHANGED <<pending, stEntry, redelivered, held, an, incoming, env, history>>

\* sendCall removes the entry of a Call it could not send.
RemoveFailedCall(c) ==
    /\ tx[c] = "failed"
    /\ pending' = pending \ {c}
    /\ tx' = [tx EXCEPT ![c] = "done"]
    /\ UNCHANGED <<stEntry, redelivered, held, an, incoming, env, history>>

\* The station answers with a CallResult or a CallError, perhaps not once.
StationAnswers(a) ==
    /\ a[1] \in held
    /\ connected
    /\ an[a] = "none"
    /\ a[2] > 1 => an[<<a[1], a[2] - 1>>] # "none"
    /\ an' = [an EXCEPT ![a] = "arrived"]
    /\ UNCHANGED <<pending, stEntry, tx, redelivered, held, incoming, env, history>>

\* A fault for comparison: an answer is taken without looking for its entry.
TakeAnyAnswer(a) ==
    /\ an[a] = "arrived"
    /\ an' = [an EXCEPT ![a] = "hit"]
    /\ UNCHANGED <<pending, stEntry, tx, redelivered, held, incoming, env, history>>

\* _onCallResult / _onCallError: _cache.get(messageId)
GetPending(a) ==
    /\ an[a] = "arrived"
    /\ an' = [an EXCEPT ![a] = IF a[1] \in pending THEN "hit" ELSE "miss"]
    /\ UNCHANGED <<pending, stEntry, tx, redelivered, held, incoming, env, history>>

\* An await later the entry is removed, found or not, and whether the removal
\* took anything away is not looked at.  An answer that had an entry is validated
\* and routed to the modules, which touches nothing here; one that had none is an
\* orphan or came too late and goes no further.
RemovePending(a) ==
    /\ an[a] \in {"hit", "miss"}
    /\ pending' = pending \ {a[1]}
    /\ an' = [an EXCEPT ![a] = IF @ = "hit" THEN "done" ELSE "late"]
    /\ UNCHANGED <<stEntry, tx, redelivered, held, incoming, env, history>>

-----------------------------------------------------------------------------
(* Calls from the station to the CSMS *)

\* onMessage -> _onCall: the station sends a Call.  A station that reuses an id
\* for another action forfeits its claim to an answer.
StationCall(r, a) ==
    /\ connected
    /\ ~InUse(r)
    /\ r[2] > 1 => InUse(<<r[1], r[2] - 1>>)
    /\ rx' = [rx EXCEPT ![r] = "arrived"]
    /\ act' = [act EXCEPT ![r] = a]
    /\ excused' = IF \E q \in Receptions : q[1] = r[1] /\ InUse(q) /\ act[q] # a
                  THEN excused \cup {r[1]} ELSE excused
    /\ waiting' = waiting \cup {r[1]}
    /\ UNCHANGED <<pending, stEntry, outgoing, rsp, env>>

\* The action is blacklisted or the Call is malformed: onMessage replies with a
\* CallError of its own and the cache is not touched.
RefuseStationCall(r) ==
    /\ rx[r] = "arrived"
    /\ rx' = [rx EXCEPT ![r] = "refused"]
    /\ UNCHANGED <<pending, stEntry, outgoing, act, rsp, env, history>>

\* A fault for comparison: the entry holds the message id, not the action.
AcceptWithoutAction(r) ==
    /\ rx[r] = "arrived"
    /\ rx' = [rx EXCEPT ![r] = "routing"]
    /\ stEntry' = [stEntry EXCEPT ![r[1]] = r[1]]
    /\ UNCHANGED <<pending, outgoing, act, rsp, env, history>>

\* setIfNotExist is issued without being awaited and the Call is routed; a
\* second Call with the id leaves the entry as it is and is routed anyway.
AcceptStationCall(r) ==
    /\ rx[r] = "arrived"
    /\ rx' = [rx EXCEPT ![r] = "routing"]
    /\ stEntry' = [stEntry EXCEPT ![r[1]] = IF @ = None THEN act[r] ELSE @]
    /\ abandoned' = IF stEntry[r[1]] = None THEN abandoned \ {r[1]} ELSE abandoned
    /\ UNCHANGED <<pending, outgoing, act, rsp, connected, faults, lapsed,
                   history>>

\* _routeCall: the broker took the Call and a module will respond to it.
RouteOk(r) ==
    /\ rx[r] = "routing"
    /\ rx' = [rx EXCEPT ![r] = "none"]
    /\ rsp' = [rsp EXCEPT ![r] = "owed"]
    /\ UNCHANGED <<pending, stEntry, outgoing, act, env, history>>

\* A fault for comparison: a Call that cannot be routed is only logged.
SwallowRouteFailure(r) ==
    /\ rx[r] = "routing"
    /\ rx' = [rx EXCEPT ![r] = "none"]
    /\ UNCHANGED <<pending, stEntry, outgoing, act, rsp, env, history>>

\* _routeCall: the sender threw or reported failure.  channel.publish also
\* reports false when its buffer is full although the message still goes out:
\* then a module responds as well.
RouteFails(r) ==
    /\ rx[r] = "routing"
    /\ rx' = [rx EXCEPT ![r] = "failed"]
    /\ \/ UNCHANGED rsp
       \/ rsp' = [rsp EXCEPT ![r] = "owed"]
    /\ UNCHANGED <<pending, stEntry, outgoing, act, env, history>>

\* sendCallError: _cache.get(correlationId), and the cached action must match;
\* if it does not, only the .finally remains.
ErrorGet(r) ==
    /\ rx[r] = "failed"
    /\ rx' = [rx EXCEPT ![r] = IF stEntry[r[1]] = act[r] THEN "errGot" ELSE "errEnd"]
    /\ UNCHANGED <<pending, stEntry, outgoing, act, rsp, env, history>>

\* Of the Promise.all the removal takes effect first: _sendMessage yields at
\* its first cache read before it reaches the socket.
ErrorRemove(r) ==
    /\ rx[r] = "errGot"
    /\ rx' = [rx EXCEPT ![r] = "errSend"]
    /\ stEntry' = [stEntry EXCEPT ![r[1]] = None]
    /\ UNCHANGED <<pending, outgoing, act, rsp, env, history>>

\* Hands an answer to the station, if its websocket is open.
Transmit(m) == waiting' = IF connected THEN waiting \ {m} ELSE waiting

ErrorSend(r) ==
    /\ rx[r] = "errSend"
    /\ rx' = [rx EXCEPT ![r] = "errEnd"]
    /\ Transmit(r[1])
    /\ UNCHANGED <<pending, stEntry, outgoing, act, rsp, env, excused>>

\* The .finally removes the entry of the id once more, whoever set it: a Call of
\* the same id that arrived since the first removal loses its entry to it.
ErrorEnd(r) ==
    /\ rx[r] = "errEnd"
    /\ rx' = [rx EXCEPT ![r] = "none"]
    /\ stEntry' = [stEntry EXCEPT ![r[1]] = None]
    /\ excused' = IF stEntry[r[1]] # None THEN excused \cup {r[1]} ELSE excused
    /\ UNCHANGED <<pending, outgoing, act, rsp, env, waiting>>

\* onMessage: the CallError for a refused Call.
SendRefusal(r) ==
    /\ rx[r] = "refused"
    /\ rx' = [rx EXCEPT ![r] = "none"]
    /\ Transmit(r[1])
    /\ UNCHANGED <<pending, stEntry, outgoing, act, rsp, env, excused>>

\* The module publishes its CallResult, or a CallError if its handler threw.
ModuleResponds(r) ==
    /\ rsp[r] = "owed"
    /\ rsp' = [rsp EXCEPT ![r] = "queued"]
    /\ UNCHANGED <<pending, stEntry, outgoing, rx, act, env, history>>

\* handle: the response does not pass validateOCPPResponse.  The error that is
\* thrown ends in the receiver, which acks the message; the station is not told
\* and the entry is left to its TTL.
ResponseInvalid(r) ==
    /\ rsp[r] = "queued"
    /\ rsp' = [rsp EXCEPT ![r] = "none"]
    /\ excused' = excused \cup {r[1]}
    /\ abandoned' = abandoned \cup {r[1]}
    /\ UNCHANGED <<pending, stEntry, outgoing, rx, act, connected, faults, lapsed, waiting>>

\* handle -> sendCallResult / sendCallError: without an entry of the same
\* action the response is dropped and the entry left alone.
ResponseGet(r) ==
    /\ rsp[r] = "queued"
    /\ rsp' = [rsp EXCEPT ![r] = IF stEntry[r[1]] = act[r] THEN "got" ELSE "none"]
    /\ UNCHANGED <<pending, stEntry, outgoing, rx, act, env, history>>

ResponseRemove(r) ==
    /\ rsp[r] = "got"
    /\ rsp' = [rsp EXCEPT ![r] = "send"]
    /\ stEntry' = [stEntry EXCEPT ![r[1]] = None]
    /\ UNCHANGED <<pending, outgoing, rx, act, env, history>>

ResponseSend(r) ==
    /\ rsp[r] = "send"
    /\ rsp' = [rsp EXCEPT ![r] = "none"]
    /\ Transmit(r[1])
    /\ UNCHANGED <<pending, stEntry, outgoing, rx, act, env, excused>>

-----------------------------------------------------------------------------
(* Time and faults *)

\* A fault for comparison: entries are set without an expiry.
NeverExpires(c) == c \in pending /\ UNCHANGED vars

\* maxCallLengthSeconds after it was set, the cache drops an entry.
ExpireCall(c) ==
    /\ c \in pending
    /\ pending' = pending \ {c}
    /\ lapsed' = IF tx[c] \in {"sending", "failed"} THEN lapsed \cup {c} ELSE lapsed
    /\ abandoned' = abandoned \ {c}
    /\ UNCHANGED <<stEntry, outgoing, incoming, connected, faults, history>>

ExpireStationCall(m) ==
    /\ stEntry[m] # None
    /\ stEntry' = [stEntry EXCEPT ![m] = None]
    /\ excused' = IF \E r \in Receptions : r[1] = m /\ ReceptionInFlight(r)
                  THEN excused \cup {m} ELSE excused
    /\ abandoned' = abandoned \ {m}
    /\ UNCHANGED <<pending, outgoing, incoming, connected, faults, lapsed, waiting>>

\* A station that comes back does not answer what it was asked before.
Disconnect ==
    /\ connected
    /\ faults < MaxFaults
    /\ faults' = faults + 1
    /\ connected' = FALSE
    /\ held' = {}
    /\ excused' = StationCalls
    /\ abandoned' = abandoned \cup {c \in pending : Unanswered(c)}
    /\ UNCHANGED <<pending, stEntry, tx, redelivered, an, incoming, lapsed, waiting>>

Reconnect ==
    /\ ~connected
    /\ connected' = TRUE
    /\ UNCHANGED <<pending, stEntry, outgoing, incoming, faults, lapsed, abandoned,
                   history>>

\* The AMQP connection drops.  The station's queue is autoDelete and its only
\* consumers are gone, so it vanishes with what it held; handlers run on.
BrokerLoss ==
    /\ faults < MaxFaults
    /\ faults' = faults + 1
    /\ tx' = [c \in Calls |-> IF tx[c] = "queued" THEN "done" ELSE tx[c]]
    /\ rsp' = [r \in Receptions |-> IF rsp[r] = "queued" THEN "none" ELSE rsp[r]]
    /\ excused' = StationCalls
    /\ abandoned' = abandoned \cup {r[1] : r \in {q \in Receptions : rsp[q] = "queued"}}
    /\ UNCHANGED <<pending, stEntry, redelivered, held, an, rx, act, connected, lapsed,
                   waiting>>

\* The router process dies and comes back: handlers, websocket and queue are
\* gone, the entries in the shared cache are not.
Restart ==
    /\ faults < MaxFaults
    /\ faults' = faults + 1
    /\ connected' = FALSE
    /\ tx' = [c \in Calls |-> IF tx[c] \in {"none", "sent"} THEN tx[c] ELSE "done"]
    /\ held' = {}
    /\ an' = [a \in Answers |-> IF an[a] = "none" THEN "none"
                               ELSE IF Accepted(a) THEN "done" ELSE "late"]
    /\ rx' = [r \in Receptions |-> "none"]
    /\ rsp' = [r \in Receptions |-> IF rsp[r] = "owed" THEN "owed" ELSE "none"]
    /\ excused' = StationCalls
    /\ abandoned' = pending \cup {m \in StationCalls : stEntry[m] # None}
    /\ UNCHANGED <<pending, stEntry, redelivered, act, lapsed, waiting>>

-----------------------------------------------------------------------------

\* What the router does on its own for a CSMS Call, once there is one.
CallStep(c) ==
    \/ Deliver(c) \/ FindClear(c) \/ Retry(c) \/ Claim(c)
    \/ SendCall(c) \/ SendCallFails(c) \/ RemoveFailedCall(c)

\* What it does on its own for an answer.
AnswerStep(a) == GetPending(a) \/ RemovePending(a)

\* What the router and the modules do on their own for a reception.
ReceptionStep(r) ==
    \/ AcceptStationCall(r) \/ RouteOk(r) \/ RouteFails(r)
    \/ ErrorGet(r) \/ ErrorRemove(r) \/ ErrorSend(r) \/ ErrorEnd(r)
    \/ SendRefusal(r)

ResponseStep(r) ==
    \/ ModuleResponds(r) \/ ResponseInvalid(r) \/ ResponseGet(r)
    \/ ResponseRemove(r) \/ ResponseSend(r)

Next ==
    \/ \E c \in Calls : Request(c) \/ RefuseCall(c) \/ CallStep(c) \/ ExpireCall(c)
    \/ \E a \in Answers : StationAnswers(a) \/ AnswerStep(a)
    \/ \E r \in Receptions : \/ \E a \in Actions : StationCall(r, a)
                             \/ RefuseStationCall(r)
                             \/ ReceptionStep(r) \/ ResponseStep(r)
    \/ \E m \in StationCalls : ExpireStationCall(m)
    \/ Disconnect \/ Reconnect \/ BrokerLoss \/ Restart

\* Handlers that were started run to their end, the broker delivers, modules
\* respond and entries expire.  Stations, callers and faults owe nothing.
CallFairness == \A c \in Calls : WF_vars(CallStep(c)) /\ WF_vars(ExpireCall(c))

StationFairness ==
    /\ \A r \in Receptions : WF_vars(ReceptionStep(r)) /\ WF_vars(ResponseStep(r))
    /\ \A m \in StationCalls : WF_vars(ExpireStationCall(m))

Spec == Init /\ [][Next]_vars

CallSpec == Spec /\ CallFairness

StationSpec == Spec /\ StationFairness

-----------------------------------------------------------------------------
(* Properties *)

EntryOwned(m) ==
    stEntry[m] # None =>
       \/ m \in abandoned
       \/ \E r \in Receptions :
             r[1] = m /\ act[r] = stEntry[m] /\ ReceptionInFlight(r)

\* The namespace never reports a call in progress when there is none: every
\* entry belongs to a Call, of either side, that is still in flight, unless the
\* handlers died with the process, the answer was lost with the websocket or
\* the broker, or the module's response was thrown away as invalid.  An entry
\* that outlived its Call would turn every later sendCall into a
\* RetryMessageError until the TTL (router.ts:402, 430, 506, 572, 695, 725, 807).
NoOrphanEntry ==
    /\ \A c \in pending : CallInFlight(c) \/ c \in abandoned
    /\ \A m \in StationCalls : EntryOwned(m)

\* Answers, and Calls with the station, are of Calls that were sent; the entry
\* of a Call that is being sent is there or has expired.
CallsInOrder ==
    /\ \A a \in Answers : an[a] # "none" => tx[a[1]] = "sent"
    /\ \A c \in held : tx[c] = "sent"
    /\ \A c \in Calls : tx[c] \in {"sending", "failed"} => c \in pending \cup lapsed

\* The inductive invariant behind NoOrphanEntry.
RouterInv == TypeOK /\ CallsInOrder /\ NoOrphanEntry

\* The stage of the abstract Call that a handler stands for.
CallStatus ==
    [c \in Calls |->
        CASE tx[c] = "none" -> "idle"
          [] tx[c] \in {"queued", "checked", "clear"} -> "open"
          [] tx[c] \in {"sending", "failed"} -> "taken"
          [] tx[c] = "sent" -> "sent"
          [] OTHER -> "over"]

Contract ==
    INSTANCE CallContract WITH status <- CallStatus, live <- pending,
                               accepted <- {a \in Answers : Accepted(a)}

\* The router implements the contract: however retries, expiries, lost
\* websockets, broker losses and restarts fall between the steps of sendCall and
\* _onCallResult, no Call reaches the station twice, or without an entry that
\* only the TTL may have ended, and an answer is accepted only for a Call that
\* was sent and while its entry lives, however often the station answers
\* (router.ts:402-448, 710-781).
ImplementsContract == Contract!Spec

\* sendCall admits a Call only when no other is in progress, as the test
\* "should throw RetryMessageError when call is already in progress" expects
\* (test/modules/OcppRouter/module/MessageRouterImpl.test.ts:573): no two Calls
\* of the CSMS are in progress with the station at once.
OneCallInProgress == \A c, d \in pending : c = d

\* A request that waits for the station's slot is not retried for ever on
\* account of other requests: it is sent, refused, dropped or lost, because
\* every entry, also one whose answer will never come, expires.  Only the
\* station's own Calls, whose entries share the namespace, can hold it up
\* without end, when there is one at every retry (router.ts:402, 649).
QueuedCallLeavesQueue ==
    <>[](\A m \in StationCalls : stEntry[m] = None)
        => \A c \in Calls : tx[c] = "queued" ~> tx[c] \in {"sent", "done"}

\* A station's Call gets a CallResult or a CallError, also when it cannot be
\* routed and when its id is sent again while the first is in progress, unless
\* its entry expired before the response came, the response was thrown away as
\* invalid, the websocket, broker or process failed meanwhile, the station used
\* the id for two actions, or it used the id again just before the failure
\* handler of the earlier Call removed the entry a second time (router.ts:695).
StationCallAnswered ==
    \A m \in StationCalls : m \in waiting ~> (m \notin waiting \/ m \in excused)
=============================================================================
