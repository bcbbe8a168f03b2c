---------------------------- MODULE CallContract ----------------------------
(***************************************************************************)
(* What the router promises to whoever requests a Call, whatever happens   *)
(* to brokers, websockets and processes: the Call is handed to the station *)
(* at most once, under a correlation of its own that nothing but its time  *)
(* limit has ended by then; and an answer is accepted only for a Call that *)
(* was handed over and while its correlation lives.  A correlation never   *)
(* comes back.  It may outlive the first answer by a moment, so a station  *)
(* that answers twice in a row may have both accepted.  Requests and       *)
(* answers may be lost.                                                    *)
(*                                                                         *)
(* MessageRouter implements this specification (IMessageRouter of          *)
(* packages/base is the interface it stands for).                          *)
(***************************************************************************)
CONSTANTS
    Calls,
    Answers   \* pairs of a Call and a number

VARIABLES
    status,   \* how far a Call has come
    live,     \* the Calls that have a correlation
    lapsed,   \* the Calls whose correlation ran out of time before they were sent
    accepted  \* the answers that were accepted

contract == <<status, live, lapsed, accepted>>

\* "open": requested; "taken": correlated, may be sent; "sent": the station got
\* it; "over": it will not be sent.
Statuses == {"idle", "open", "taken", "sent", "over"}

Init ==
    /\ status = [c \in Calls |-> "idle"]
    /\ live = {}
    /\ lapsed = {}
    /\ accepted = {}

Move(c, from, to) ==
    /\ status[c] = from
    /\ status' = [status EXCEPT ![c] = to]

Submit(c) == Move(c, "idle", "open") /\ UNCHANGED <<live, lapsed, accepted>>

Take(c) == Move(c, "open", "taken") /\ live' = live \cup {c} /\ UNCHANGED <<lapsed, accepted>>

Send(c) ==
    /\ c \in live \cup lapsed
    /\ Move(c, "taken", "sent")
    /\ UNCHANGED <<live, lapsed, accepted>>

\* The Call could not be sent.
Fail(c) == Move(c, "taken", "over") /\ live' = live \ {c} /\ UNCHANGED <<lapsed, accepted>>

Answer(a) ==
    /\ status[a[1]] = "sent"
    /\ a[1] \in live
    /\ accepted' = accepted \cup {a}
    /\ UNCHANGED <<status, live, lapsed>>

\* A correlation ends with an answer, accepted or not...
Release(c) ==
    /\ status[c] = "sent"
    /\ live' = live \ {c}
    /\ UNCHANGED <<status, lapsed, accepted>>

\* ... or by itself.
Lapse(c) ==
    /\ live' = live \ {c}
    /\ lapsed' = IF status[c] = "taken" THEN lapsed \cup {c} ELSE lapsed
    /\ UNCHANGED <<status, accepted>>

\* Calls are refused or lost before they are sent, several when a fault strikes.
Lose(lost) ==
    /\ \A c \in lost : status[c] \in {"open", "taken"}
    /\ status' = [c \in Calls |-> IF c \in lost THEN "over" ELSE status[c]]
    /\ UNCHANGED <<live, lapsed, accepted>>

Next ==
    \/ \E c \in Calls : \/ Submit(c) \/ Take(c) \/ Send(c) \/ Fail(c)
                        \/ Release(c) \/ Lapse(c)
    \/ \E a \in Answers : Answer(a)
    \/ \E lost \in SUBSET Calls : Lose(lost)

Spec == Init /\ [][Next]_contract
=============================================================================
