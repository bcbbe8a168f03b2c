------------------------- MODULE ConnectionManager -------------------------
(***************************************************************************)
(* The AMQP connection of one process                                      *)
(* (packages/core/src/util/queue/rabbit-mq/ConnectionManager.ts): a single *)
(* connection shared by senders and receivers, re-established by a         *)
(* reconnect timer.  amqplib is external: amqp.connect succeeds or fails,  *)
(* an open connection closes on its own or because it was told to, and     *)
(* either way emits 'close'.                                               *)
(***************************************************************************)
EXTENDS Naturals

CONSTANTS
    Callers,     \* users of connect(): channel creation, server start
    MaxLosses    \* bound: connections that break by themselves

ASSUME ConnectionManagerAssumption == MaxLosses \in Nat

VARIABLES
    connection,      \* this.connection
    isConnecting,    \* "yes" or "no"
    state,           \* 'connected', 'disconnected' or 'closed'
    reconnectTimer,  \* a reconnect is scheduled
    dialing,         \* calls of amqp.connect that have not returned
    open,            \* AMQP connections that are open at the broker
    caller,          \* where each connect() call stands
    closing,         \* close(): not called, awaiting connection.close(), done
    losses

vars == <<connection, isConnecting, state, reconnectTimer, dialing, open,
          caller, closing, losses>>

TypeOK ==
    /\ connection \in {"null", "open"}
    /\ isConnecting \in {"yes", "no"}
    /\ state \in {"connected", "disconnected", "closed"}
    /\ reconnectTimer \in {"null", "set"}
    /\ dialing \in Nat
    /\ open \in Nat
    /\ caller \in [Callers -> {"idle", "waiting", "dialing", "ok", "error"}]
    /\ closing \in {"no", "awaiting", "done"}
    /\ losses \in 0 .. MaxLosses

\* The server's start-up calls connect() before anything else does.
Init ==
    /\ connection = "null"
    /\ isConnecting = "yes"
    /\ state = "disconnected"
    /\ reconnectTimer = "null"
    /\ dialing = 1
    /\ open = 0
    /\ caller = [u \in Callers |-> "idle"]
    /\ closing = "no"
    /\ losses = 0

-----------------------------------------------------------------------------

\* A fault for comparison: connect() does not look at isConnecting.
ConnectRegardless(u) ==
    /\ caller[u] = "idle"
    /\ connection = "null"
    /\ caller' = [caller EXCEPT ![u] = "dialing"]
    /\ isConnecting' = "yes"
    /\ dialing' = dialing + 1
    /\ UNCHANGED <<connection, state, reconnectTimer, open, closing, losses>>

\* connect(): the open connection, a share in the attempt under way, or a new
\* attempt.
Connect(u) ==
    /\ caller[u] = "idle"
    /\ \/ /\ connection = "open"
          /\ caller' = [caller EXCEPT ![u] = "ok"]
          /\ UNCHANGED <<isConnecting, dialing>>
       \/ /\ connection = "null" /\ isConnecting = "yes"
          /\ caller' = [caller EXCEPT ![u] = "waiting"]
          /\ UNCHANGED <<isConnecting, dialing>>
       \/ /\ connection = "null" /\ isConnecting = "no"
          /\ caller' = [caller EXCEPT ![u] = "dialing"]
          /\ isConnecting' = "yes"
          /\ dialing' = dialing + 1
    /\ UNCHANGED <<connection, state, reconnectTimer, open, closing, losses>>

\* The caller takes the result and may call connect() again.
Return(u) ==
    /\ caller[u] \in {"ok", "error"}
    /\ caller' = [caller EXCEPT ![u] = "idle"]
    /\ UNCHANGED <<connection, isConnecting, state, reconnectTimer, dialing, open,
                   closing, losses>>

\* A fault for comparison: the test for the closed state is inverted.
ReconnectAfterClose(st) == reconnectTimer' = IF st = "closed" THEN "set" ELSE reconnectTimer

\* handleReconnect with the state st: nothing once closed, and one timer at most.
HandleReconnect(st) == reconnectTimer' = IF st # "closed" THEN "set" ELSE reconnectTimer

\* A fault for comparison: the emit of 'connected' reaches nobody.
AttemptSucceedsQuietly ==
    /\ dialing > 0
    /\ dialing' = dialing - 1
    /\ open' = open + 1
    /\ connection' = "open"
    /\ isConnecting' = "no"
    /\ state' = "connected"
    /\ caller' = [u \in Callers |-> IF caller[u] = "dialing" THEN "ok" ELSE caller[u]]
    /\ UNCHANGED <<reconnectTimer, closing, losses>>

\* amqp.connect resolves; emit('connected') resolves the callers that wait.
AttemptSucceeds ==
    /\ dialing > 0
    /\ dialing' = dialing - 1
    /\ open' = open + 1
    /\ connection' = "open"
    /\ isConnecting' = "no"
    /\ state' = "connected"
    /\ caller' = [u \in Callers |->
                    IF caller[u] \in {"waiting", "dialing"} THEN "ok" ELSE caller[u]]
    /\ UNCHANGED <<reconnectTimer, closing, losses>>

\* amqp.connect rejects: the caller that dialed gets the error; nothing is
\* emitted, so those that wait go on waiting for the next 'connected'.
AttemptFails ==
    /\ dialing > 0
    /\ dialing' = dialing - 1
    /\ isConnecting' = "no"
    /\ HandleReconnect(state)
    /\ caller' = [u \in Callers |-> IF caller[u] = "dialing" THEN "error" ELSE caller[u]]
    /\ UNCHANGED <<connection, state, open, closing, losses>>

\* The 'close' handler of a connection, which runs whoever closed it.
OnClose ==
    /\ open > 0
    /\ open' = open - 1
    /\ connection' = "null"
    /\ state' = "disconnected"
    /\ HandleReconnect("disconnected")

ConnectionLost ==
    /\ losses < MaxLosses
    /\ losses' = losses + 1
    /\ OnClose
    /\ closing' = IF closing = "awaiting" THEN "done" ELSE closing
    /\ UNCHANGED <<isConnecting, dialing, caller>>

\* The reconnect timer: it is forgotten first, then connect() is called.
ReconnectTimerFires ==
    /\ reconnectTimer = "set"
    /\ reconnectTimer' = "null"
    /\ IF connection = "open" \/ isConnecting = "yes"
       THEN UNCHANGED <<isConnecting, dialing>>
       ELSE isConnecting' = "yes" /\ dialing' = dialing + 1
    /\ UNCHANGED <<connection, state, open, caller, closing, losses>>

\* A fault for comparison: close() records that it waits for a connection as
\* its state.
CloseAsState ==
    /\ closing = "no"
    /\ state' = IF connection = "open" THEN "closing" ELSE "closed"
    /\ reconnectTimer' = "null"
    /\ closing' = IF connection = "open" THEN "awaiting" ELSE "done"
    /\ UNCHANGED <<connection, isConnecting, dialing, open, caller, losses>>

\* close(): marks the manager closed, cancels the timer, and asks an open
\* connection to close.
Close ==
    /\ closing = "no"
    /\ state' = "closed"
    /\ reconnectTimer' = "null"
    /\ closing' = IF connection = "open" THEN "awaiting" ELSE "done"
    /\ UNCHANGED <<connection, isConnecting, dialing, open, caller, losses>>

\* connection.close() completes: its 'close' event runs first, then close()
\* forgets the connection.
CloseCompletes ==
    /\ closing = "awaiting"
    /\ OnClose
    /\ closing' = "done"
    /\ UNCHANGED <<isConnecting, dialing, caller, losses>>

Next ==
    \/ \E u \in Callers : Connect(u) \/ Return(u)
    \/ AttemptSucceeds \/ AttemptFails \/ ConnectionLost
    \/ ReconnectTimerFires \/ Close \/ CloseCompletes

\* A scheduled timer fires, amqp.connect returns, and a broker that is dialed
\* again and again answers in the end.
Fairness ==
    /\ WF_vars(ReconnectTimerFires)
    /\ WF_vars(AttemptSucceeds \/ AttemptFails)
    /\ SF_vars(AttemptSucceeds)

Spec == Init /\ [][Next]_vars

FairSpec == Spec /\ Fairness

-----------------------------------------------------------------------------
(* Properties *)

\* The process never holds two broker connections, nor dials a second one
\* while it has one or is dialing: "this should wait for it to complete rather
\* than opening a second one" (IConnectionManager.ts:24), whoever of the
\* callers, the timer and the 'close' handler gets there first.
NeverTwoConnections == open + dialing <= 1

\* A manager that is not connected, and whose close() was not called, is never
\* stranded: an attempt is under way or a reconnect is scheduled.  Nothing is
\* said of a manager after close(): that it "prevents automatic reconnection"
\* (IConnectionManager.ts:29) the 'close' handler undoes, which makes the state
\* 'disconnected' and schedules one.
ReconnectIsUnderWay ==
    connection = "null" /\ closing = "no" =>
        isConnecting = "yes" \/ reconnectTimer = "set"

\* The flags agree with what they stand for.
FlagsAgree ==
    /\ open = (IF connection = "open" THEN 1 ELSE 0)
    /\ dialing = (IF isConnecting = "yes" THEN 1 ELSE 0)
    /\ closing = "awaiting" => connection = "open"
    /\ state = "closed" => closing # "no"

\* The inductive invariant.
ConnectionInv == TypeOK /\ NeverTwoConnections /\ ReconnectIsUnderWay /\ FlagsAgree

\* A caller that waits for somebody else's attempt gets the connection in the
\* end, also when that attempt fails, unless the manager is closed.
WaiterGetsConnection ==
    \A u \in Callers : caller[u] = "waiting" ~> (caller[u] # "waiting" \/ closing # "no")
=============================================================================
