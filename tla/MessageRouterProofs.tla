------------------------ MODULE MessageRouterProofs ------------------------
(***************************************************************************)
(* Proofs about MessageRouter, for any number of calls, receptions and     *)
(* faults: every Transactions entry belongs to a call in flight, the       *)
(* router implements CallContract, two Calls in progress or two answers to *)
(* one Call come only from handlers that overlap, and a station's Call has *)
(* somebody at work on its answer.                                         *)
(***************************************************************************)
EXTENDS MessageRouter, TLAPS

LEMMA AnswerCall == \A a \in Answers : a[1] \in Calls
BY DEF Answers

LEMMA ReceptionId == \A r \in Receptions : r[1] \in StationCalls
BY DEF Receptions

\* The state components hold values of their types throughout.
LEMMA NextTypeOK == TypeOK /\ [Next]_vars => TypeOK'
<1> SUFFICES ASSUME TypeOK, [Next]_vars PROVE TypeOK'
  OBVIOUS
<1> USE MessageRouterAssumption, ReceptionId, AnswerCall
        DEF TypeOK, TxStates, AnStates, RxStates, RspStates,
            outgoing, incoming, history, env
<1>1. ASSUME NEW c \in Calls, Request(c) \/ RefuseCall(c) \/ Deliver(c) \/ FindClear(c)
                              \/ Retry(c) \/ Claim(c)
      PROVE  TypeOK'
  BY <1>1 DEF Request, RefuseCall, Deliver, FindClear, Retry, Claim
<1>2. ASSUME NEW c \in Calls, SendCall(c) \/ SendCallFails(c) \/ RemoveFailedCall(c)
                              \/ ExpireCall(c)
      PROVE  TypeOK'
  BY <1>2 DEF SendCall, SendCallFails, RemoveFailedCall, ExpireCall
<1>3. ASSUME NEW a \in Answers, StationAnswers(a) \/ GetPending(a) \/ RemovePending(a)
      PROVE  TypeOK'
  BY <1>3 DEF StationAnswers, GetPending, RemovePending
<1>4. ASSUME NEW r \in Receptions, NEW a \in Actions, StationCall(r, a)
      PROVE  TypeOK'
  BY <1>4 DEF StationCall
<1>5. ASSUME NEW r \in Receptions, RefuseStationCall(r) \/ AcceptStationCall(r)
                                   \/ RouteOk(r) \/ RouteFails(r)
      PROVE  TypeOK'
  BY <1>5 DEF RefuseStationCall, AcceptStationCall, RouteOk, RouteFails
<1>6. ASSUME NEW r \in Receptions, ErrorGet(r) \/ ErrorRemove(r) \/ ErrorSend(r)
                                   \/ ErrorEnd(r) \/ SendRefusal(r)
      PROVE  TypeOK'
  BY <1>6 DEF ErrorGet, ErrorRemove, ErrorSend, ErrorEnd, SendRefusal, Transmit
<1>7. ASSUME NEW r \in Receptions, ResponseStep(r)
      PROVE  TypeOK'
  BY <1>7 DEF ResponseStep, ModuleResponds, ResponseInvalid, ResponseGet, ResponseRemove,
              ResponseSend, Transmit
<1>8. ASSUME NEW m \in StationCalls, ExpireStationCall(m) PROVE TypeOK'
  BY <1>8 DEF ExpireStationCall
<1>9. CASE Disconnect
  <2>1. faults' \in 0 .. MaxFaults
    BY <1>9 DEF Disconnect
  <2>2. abandoned' \in SUBSET (Calls \cup StationCalls)
    BY <1>9 DEF Disconnect
  <2>3. connected' \in BOOLEAN
    BY <1>9, Zenon DEF Disconnect
  <2> QED BY <1>9, <2>1, <2>2, <2>3 DEF Disconnect
<1>10. CASE BrokerLoss
  BY <1>10 DEF BrokerLoss
<1>11. CASE Restart
  <2>1. faults' \in 0 .. MaxFaults
    BY <1>11 DEF Restart
  <2>2. /\ tx' \in [Calls -> TxStates]
        /\ an' \in [Answers -> AnStates]
    BY <1>11 DEF Restart
  <2>3. /\ rx' \in [Receptions -> RxStates]
        /\ rsp' \in [Receptions -> RspStates]
    BY <1>11 DEF Restart
  <2>4. abandoned' \in SUBSET (Calls \cup StationCalls)
    BY <1>11 DEF Restart
  <2>5. connected' \in BOOLEAN
    BY <1>11, Zenon DEF Restart
  <2> QED BY <1>11, <2>1, <2>2, <2>3, <2>4, <2>5 DEF Restart
<1>12. CASE UNCHANGED vars
  BY <1>12 DEF vars
<1>13. CASE Reconnect
  <2>1. connected' \in BOOLEAN
    BY <1>13, Zenon DEF Reconnect
  <2> QED BY <1>13, <2>1 DEF Reconnect
<1> QED
  BY <1>1, <1>2, <1>3, <1>4, <1>5, <1>6, <1>7, <1>8, <1>9, <1>10, <1>11, <1>12,
     <1>13
     DEF Next, CallStep, AnswerStep, ReceptionStep

LEMMA InitTypeOK == Init => TypeOK
BY MessageRouterAssumption
   DEF Init, TypeOK, TxStates, AnStates, RxStates, RspStates

\* The type invariant of the router: its handlers only ever stand at the
\* points the code has, and the namespace maps ids to actions.
THEOREM TypeCorrect == Spec => []TypeOK
BY InitTypeOK, NextTypeOK, PTL DEF Spec

-----------------------------------------------------------------------------
(* Entries and their owners *)

\* Calls are claimed, sent and answered in that order.
LEMMA KeepsCallsInOrder == TypeOK /\ CallsInOrder /\ [Next]_vars => CallsInOrder'
<1> SUFFICES ASSUME TypeOK, CallsInOrder, [Next]_vars PROVE CallsInOrder'
  OBVIOUS
<1> USE AnswerCall DEF TypeOK, CallsInOrder, outgoing, incoming, env
<1>1. ASSUME NEW c \in Calls, Request(c) \/ RefuseCall(c) \/ CallStep(c) \/ ExpireCall(c)
      PROVE  CallsInOrder'
  BY <1>1 DEF CallStep, Request, RefuseCall, ExpireCall, Deliver,
              FindClear, Retry, Claim, SendCall, SendCallFails, RemoveFailedCall
<1>2. ASSUME NEW a \in Answers, StationAnswers(a) \/ AnswerStep(a) PROVE CallsInOrder'
  <2>1. an[a] # "none" \/ a[1] \in held
    BY <1>2 DEF StationAnswers, AnswerStep, GetPending, RemovePending
  <2>2. tx[a[1]] = "sent"
    BY <2>1
  <2> QED BY <1>2, <2>2 DEF StationAnswers, AnswerStep, GetPending, RemovePending
<1>3. CASE Disconnect
  BY <1>3 DEF Disconnect
<1>4. CASE BrokerLoss
  BY <1>4 DEF BrokerLoss
<1>5. CASE Restart
  BY <1>5 DEF Restart
<1>6. CASE UNCHANGED <<pending, tx, held, an, lapsed>>
  BY <1>6
<1>7. ASSUME NEW r \in Receptions,
             \/ \E a \in Actions : StationCall(r, a)
             \/ RefuseStationCall(r) \/ ReceptionStep(r) \/ ResponseStep(r)
      PROVE  UNCHANGED <<pending, tx, held, an, lapsed>>
  BY <1>7 DEF StationCall, RefuseStationCall, ReceptionStep, ResponseStep,
              AcceptStationCall, RouteOk, RouteFails, ErrorGet, ErrorRemove, ErrorSend, ErrorEnd,
              SendRefusal, ModuleResponds, ResponseInvalid, ResponseGet, ResponseRemove, ResponseSend
<1>8. ASSUME NEW m \in StationCalls, ExpireStationCall(m)
      PROVE  UNCHANGED <<pending, tx, held, an, lapsed>>
  BY <1>8 DEF ExpireStationCall
<1>9. CASE Reconnect \/ UNCHANGED vars
  BY <1>9 DEF Reconnect, vars
<1> QED BY <1>1, <1>2, <1>3, <1>4, <1>5, <1>6, <1>7, <1>8, <1>9 DEF Next

\* A step that leaves the station's Calls alone keeps their entries owned.
LEMMA IncomingUntouched ==
    ASSUME RouterInv, UNCHANGED <<stEntry, rx, act, rsp>>,
           \A m \in StationCalls : m \in abandoned => m \in abandoned'
    PROVE  \A m \in StationCalls : EntryOwned(m)'
BY DEF RouterInv, NoOrphanEntry, EntryOwned, ReceptionInFlight

\* A step that leaves the CSMS's Calls alone keeps their entries owned.
LEMMA OutgoingUntouched ==
    ASSUME RouterInv, UNCHANGED <<pending, tx, held, an>>,
           \A c \in Calls : c \in abandoned => c \in abandoned'
    PROVE  \A c \in pending' : CallInFlight(c)' \/ c \in abandoned'
BY DEF RouterInv, TypeOK, NoOrphanEntry, CallInFlight, Unanswered

\* A step on one CSMS Call.
LEMMA CallKeepsOwners ==
    ASSUME RouterInv, NEW c \in Calls,
           Request(c) \/ RefuseCall(c) \/ CallStep(c) \/ ExpireCall(c)
    PROVE  NoOrphanEntry'
<1> USE MessageRouterAssumption DEF RouterInv, TypeOK, outgoing, incoming, history, env
<1>1. /\ UNCHANGED <<stEntry, rx, act, rsp>>
      /\ \A m \in StationCalls : m \in abandoned /\ m # c => m \in abandoned'
  BY DEF CallStep, Request, RefuseCall, ExpireCall, Deliver, FindClear,
         Retry, Claim, SendCall, SendCallFails, RemoveFailedCall
<1>2. \A m \in StationCalls : m \in abandoned => m \in abandoned'
  BY <1>1, MessageRouterAssumption
<1>3. \A d \in pending' : CallInFlight(d)' \/ d \in abandoned'
  <2> USE DEF NoOrphanEntry, CallInFlight, Unanswered
  <2>1. CASE Request(c) \/ RefuseCall(c) \/ Deliver(c) \/ FindClear(c) \/ Retry(c)
    BY <2>1 DEF Request, RefuseCall, Deliver, FindClear, Retry
  <2>2. CASE Claim(c)
    BY <2>2 DEF Claim
  <2>3. CASE SendCall(c)
    BY <2>3 DEF SendCall, CallsInOrder, AnswersTo
  <2>4. CASE SendCallFails(c) \/ RemoveFailedCall(c)
    BY <2>4 DEF SendCallFails, RemoveFailedCall
  <2>5. CASE ExpireCall(c)
    BY <2>5 DEF ExpireCall
  <2> QED BY <2>1, <2>2, <2>3, <2>4, <2>5 DEF CallStep
<1> QED BY <1>1, <1>2, <1>3, IncomingUntouched DEF NoOrphanEntry

\* A step on one answer of the station.
LEMMA AnswerKeepsOwners ==
    ASSUME RouterInv, NEW a \in Answers, StationAnswers(a) \/ AnswerStep(a)
    PROVE  NoOrphanEntry'
<1> USE MessageRouterAssumption, AnswerCall
        DEF RouterInv, TypeOK, outgoing, incoming, history, env
<1>1. UNCHANGED <<stEntry, rx, act, rsp, abandoned>>
  BY DEF AnswerStep, StationAnswers, GetPending, RemovePending
<1>2. \A d \in pending' : CallInFlight(d)' \/ d \in abandoned'
  <2> SUFFICES ASSUME NEW d \in pending' PROVE CallInFlight(d)' \/ d \in abandoned'
    OBVIOUS
  <2>1. d \in pending /\ (CallInFlight(d) \/ d \in abandoned) /\ tx' = tx /\ held' = held
    BY DEF AnswerStep, StationAnswers, GetPending, RemovePending, NoOrphanEntry
  <2>2. ASSUME NEW b \in Answers, b # a PROVE an'[b] = an[b]
    BY <2>2 DEF AnswerStep, StationAnswers, GetPending, RemovePending
  <2>3. CASE d = a[1]
    <3>1. an'[a] \in {"arrived", "hit", "miss"}
      BY <2>3 DEF AnswerStep, StationAnswers, GetPending, RemovePending
    <3> QED BY <2>3, <3>1 DEF CallInFlight, AnswersTo
  <2>4. CASE d # a[1]
    BY <1>1, <2>1, <2>2, <2>4 DEF CallInFlight, Unanswered, AnswersTo
  <2> QED BY <2>3, <2>4
<1> QED BY <1>1, <1>2, IncomingUntouched DEF NoOrphanEntry

\* A step on one reception of a station Call, or on the response to it.
LEMMA ReceptionKeepsOwners ==
    ASSUME RouterInv, NEW r \in Receptions,
           \/ \E a \in Actions : StationCall(r, a)
           \/ RefuseStationCall(r) \/ ReceptionStep(r) \/ ResponseStep(r)
    PROVE  NoOrphanEntry'
<1> USE MessageRouterAssumption, ReceptionId
        DEF RouterInv, TypeOK, outgoing, incoming, history, env
<1>1. /\ UNCHANGED <<pending, tx, held, an>>
      /\ \A c \in Calls : c \in abandoned /\ c # r[1] => c \in abandoned'
  BY DEF StationCall, RefuseStationCall, ReceptionStep, ResponseStep, AcceptStationCall,
         RouteOk, RouteFails, ErrorGet, ErrorRemove, ErrorSend, ErrorEnd, SendRefusal,
         ModuleResponds, ResponseInvalid, ResponseGet, ResponseRemove, ResponseSend
<1>2. \A c \in pending' : CallInFlight(c)' \/ c \in abandoned'
  BY <1>1, OutgoingUntouched, MessageRouterAssumption
<1>3. ASSUME NEW m \in StationCalls PROVE EntryOwned(m)'
  <2> USE DEF NoOrphanEntry, EntryOwned, ReceptionInFlight
  <2>1. ASSUME NEW a \in Actions, StationCall(r, a) PROVE EntryOwned(m)'
    BY <2>1 DEF StationCall, InUse
  <2>2. CASE RefuseStationCall(r) \/ SendRefusal(r)
    BY <2>2 DEF RefuseStationCall, SendRefusal
  <2>3. CASE AcceptStationCall(r)
    BY <2>3 DEF AcceptStationCall
  <2>4. CASE RouteOk(r) \/ RouteFails(r)
    BY <2>4 DEF RouteOk, RouteFails
  <2>5. CASE ErrorGet(r)
    BY <2>5 DEF ErrorGet
  <2>6. CASE ErrorRemove(r) \/ ErrorSend(r) \/ ErrorEnd(r)
    BY <2>6 DEF ErrorRemove, ErrorSend, ErrorEnd
  <2>7. CASE ModuleResponds(r) \/ ResponseInvalid(r)
    BY <2>7 DEF ModuleResponds, ResponseInvalid
  <2>8. CASE ResponseGet(r)
    BY <2>8 DEF ResponseGet
  <2>9. CASE ResponseRemove(r) \/ ResponseSend(r)
    BY <2>9 DEF ResponseRemove, ResponseSend
  <2> QED BY <2>1, <2>2, <2>3, <2>4, <2>5, <2>6, <2>7, <2>8, <2>9
             DEF ReceptionStep, ResponseStep
<1> QED BY <1>2, <1>3 DEF NoOrphanEntry

\* A disconnection, a broker loss, a restart or the TTL: what they strand is
\* recorded as abandoned.
LEMMA FaultKeepsOwners ==
    ASSUME RouterInv,
           \/ \E m \in StationCalls : ExpireStationCall(m)
           \/ Disconnect \/ Reconnect \/ BrokerLoss \/ Restart
    PROVE  NoOrphanEntry'
<1> USE MessageRouterAssumption, ReceptionId
        DEF RouterInv, TypeOK, outgoing, incoming, history, env, NoOrphanEntry,
            EntryOwned, ReceptionInFlight
<1>1. ASSUME NEW m \in StationCalls, ExpireStationCall(m) PROVE NoOrphanEntry'
  BY <1>1 DEF ExpireStationCall, CallInFlight, Unanswered
<1>2. CASE Disconnect
  <2>1. \A c \in pending' : CallInFlight(c)' \/ c \in abandoned'
    BY <1>2 DEF Disconnect, CallInFlight, Unanswered
  <2>2. \A m \in StationCalls : EntryOwned(m)'
    BY <1>2 DEF Disconnect
  <2> QED BY <2>1, <2>2
<1>3. CASE Reconnect
  BY <1>3 DEF Reconnect, CallInFlight, Unanswered
<1>4. CASE BrokerLoss
  <2>1. \A c \in pending' : CallInFlight(c)' \/ c \in abandoned'
    BY <1>4 DEF BrokerLoss, CallInFlight, Unanswered
  <2>2. \A m \in StationCalls : EntryOwned(m)'
    BY <1>4 DEF BrokerLoss
  <2> QED BY <2>1, <2>2
<1>5. CASE Restart
  BY <1>5 DEF Restart
<1> QED BY <1>1, <1>2, <1>3, <1>4, <1>5

\* The inductive invariant.
LEMMA RouterInvKept == (Init => RouterInv) /\ (RouterInv /\ [Next]_vars => RouterInv')
<1>1. Init => RouterInv
  BY InitTypeOK DEF Init, RouterInv, CallsInOrder, NoOrphanEntry, EntryOwned
<1>2. RouterInv /\ [Next]_vars => RouterInv'
  <2> SUFFICES ASSUME RouterInv, [Next]_vars PROVE NoOrphanEntry'
    BY NextTypeOK, KeepsCallsInOrder DEF RouterInv
  <2>1. CASE UNCHANGED vars
    BY <2>1 DEF vars, RouterInv, NoOrphanEntry, EntryOwned, CallInFlight, Unanswered,
                ReceptionInFlight
  <2> QED
    BY <2>1, CallKeepsOwners, AnswerKeepsOwners, ReceptionKeepsOwners, FaultKeepsOwners
    DEF Next
<1> QED BY <1>1, <1>2

\* Every entry of the Transactions namespace belongs to a Call, of either
\* side, that is still in flight, unless a fault or an invalid response took its
\* other end away: the router never refuses a Call on account of one that has
\* ended in any other way.
THEOREM EntriesOwned == Spec => []NoOrphanEntry
<1>1. RouterInv => NoOrphanEntry
  BY DEF RouterInv
<1> QED BY <1>1, RouterInvKept, PTL DEF Spec

-----------------------------------------------------------------------------
(* The contract of a Call *)

\* Every step of the router is a step of the contract or leaves it alone.
LEMMA StepKeepsContract ==
    TypeOK /\ CallsInOrder /\ [Next]_vars => [Contract!Next]_(Contract!contract)
<1> DEFINE Taken == {a \in Answers : Accepted(a)}
           Same == UNCHANGED <<CallStatus, pending, lapsed, Taken>>
<1> SUFFICES ASSUME TypeOK, CallsInOrder, [Next]_vars PROVE Contract!Next \/ Same
  BY DEF Contract!contract
<1> USE AnswerCall DEF TypeOK, CallsInOrder, outgoing, incoming, env, CallStatus, Accepted
<1>1. ASSUME NEW c \in Calls, Request(c) PROVE Contract!Submit(c)
  BY <1>1 DEF Request, Contract!Submit, Contract!Move
<1>2. ASSUME NEW c \in Calls, RefuseCall(c) PROVE Contract!Lose({c})
  BY <1>2 DEF RefuseCall, Contract!Lose
<1>3. ASSUME NEW c \in Calls, Retry(c) PROVE Contract!Lose({c}) \/ Same
  BY <1>3 DEF Retry, Contract!Lose
<1>4. ASSUME NEW c \in Calls, Deliver(c) \/ FindClear(c) \/ SendCallFails(c) PROVE Same
  BY <1>4 DEF Deliver, FindClear, SendCallFails
<1>5. ASSUME NEW c \in Calls, Claim(c) PROVE Contract!Take(c)
  BY <1>5 DEF Claim, Contract!Take, Contract!Move
<1>6. ASSUME NEW c \in Calls, SendCall(c) PROVE Contract!Send(c)
  BY <1>6 DEF SendCall, Contract!Send, Contract!Move
<1>7. ASSUME NEW c \in Calls, RemoveFailedCall(c) PROVE Contract!Fail(c)
  BY <1>7 DEF RemoveFailedCall, Contract!Fail, Contract!Move
<1>8. ASSUME NEW c \in Calls, ExpireCall(c) PROVE Contract!Lapse(c)
  BY <1>8 DEF ExpireCall, Contract!Lapse
<1>9. ASSUME NEW a \in Answers, StationAnswers(a) PROVE Same
  BY <1>9 DEF StationAnswers
<1>10. ASSUME NEW a \in Answers, GetPending(a) PROVE Contract!Answer(a) \/ Same
  <2>1. tx[a[1]] = "sent" /\ tx' = tx /\ pending' = pending /\ lapsed' = lapsed
    BY <1>10 DEF GetPending
  <2>2. CASE a[1] \in pending
    <3>1. Taken' = Taken \cup {a}
      BY <1>10, <2>2 DEF GetPending
    <3> QED BY <2>1, <2>2, <3>1 DEF Contract!Answer
  <2>3. CASE a[1] \notin pending
    <3>1. Taken' = Taken
      BY <1>10, <2>3 DEF GetPending
    <3> QED BY <2>1, <3>1
  <2> QED BY <2>2, <2>3
<1>11. ASSUME NEW a \in Answers, RemovePending(a) PROVE Contract!Release(a[1])
  <2>1. Taken' = Taken
    BY <1>11 DEF RemovePending
  <2> QED BY <1>11, <2>1 DEF RemovePending, Contract!Release
<1>12. CASE Disconnect
  BY <1>12 DEF Disconnect
<1>13. CASE BrokerLoss
  <2>1. PICK lost \in SUBSET Calls : lost = {c \in Calls : tx[c] = "queued"}
    OBVIOUS
  <2>2. Contract!Lose(lost)
    BY <1>13, <2>1 DEF BrokerLoss, Contract!Lose
  <2> QED BY <2>2 DEF Contract!Next
<1>14. CASE Restart
  <2>1. PICK lost \in SUBSET Calls : lost = {c \in Calls : tx[c] \notin {"none", "sent", "done"}}
    OBVIOUS
  <2>2. Taken' = Taken
    BY <1>14 DEF Restart
  <2>3. CallStatus' = [c \in Calls |-> IF c \in lost THEN "over" ELSE CallStatus[c]]
    BY <1>14, <2>1 DEF Restart, TxStates
  <2>4. \A c \in lost : CallStatus[c] \in {"open", "taken"}
    BY <2>1 DEF TxStates
  <2>5. Contract!Lose(lost)
    BY <1>14, <2>2, <2>3, <2>4 DEF Restart, Contract!Lose
  <2> QED BY <2>5 DEF Contract!Next
<1>15. ASSUME NEW r \in Receptions,
             \/ \E a \in Actions : StationCall(r, a)
             \/ RefuseStationCall(r) \/ ReceptionStep(r) \/ ResponseStep(r)
      PROVE  Same
  BY <1>15 DEF StationCall, RefuseStationCall, ReceptionStep, ResponseStep,
              AcceptStationCall, RouteOk, RouteFails, ErrorGet, ErrorRemove, ErrorSend, ErrorEnd,
              SendRefusal, ModuleResponds, ResponseInvalid, ResponseGet, ResponseRemove, ResponseSend
<1>16. CASE \/ \E m \in StationCalls : ExpireStationCall(m)
            \/ Reconnect \/ UNCHANGED vars
  BY <1>16 DEF ExpireStationCall, Reconnect, vars
<1>17. \A c \in Calls : {c} \in SUBSET Calls
  OBVIOUS
<1> HIDE DEF Same, CallStatus
<1>18. CASE \E c \in Calls : Request(c) \/ RefuseCall(c) \/ CallStep(c) \/ ExpireCall(c)
  BY <1>1, <1>2, <1>3, <1>4, <1>5, <1>6, <1>7, <1>8, <1>17, <1>18 DEF CallStep, Contract!Next
<1>19. CASE \E a \in Answers : StationAnswers(a) \/ AnswerStep(a)
  BY <1>9, <1>10, <1>11, <1>19 DEF AnswerStep, Contract!Next
<1> QED
  BY <1>12, <1>13, <1>14, <1>15, <1>16, <1>18, <1>19 DEF Next

\* The router refines the contract of a Call, for any number of Calls, answers
\* and faults: a Call goes out at most once, under its own entry unless that has
\* expired, and an answer reaches the modules only while the entry lives.
THEOREM RouterKeepsContract == Spec => ImplementsContract
<1>1. Init => Contract!Init
  BY DEF Init, Contract!Init, CallStatus, Accepted
<1>2. Init => CallsInOrder
  BY DEF Init, CallsInOrder
<1> QED
  BY <1>1, <1>2, InitTypeOK, NextTypeOK, KeepsCallsInOrder, StepKeepsContract, PTL
     DEF Spec, ImplementsContract, Contract!Spec

\* At most one answer to a Call stands between its look at the cache and its
\* removal of the entry (router.ts:720-725).
OneLookup ==
    \A a, b \in Answers : a[1] = b[1] /\ an[a] = "hit" /\ an[b] = "hit" => a = b

\* At most one answer to a Call is accepted.
AnsweredOnce ==
    \A a, b \in Answers : a[1] = b[1] /\ Accepted(a) /\ Accepted(b) => a = b

\* Once an accepted answer has been dealt with, no other can find the entry: it
\* is gone, or those who might look died with the process.
AcceptedIsLast ==
    \A a \in Answers : an[a] = "done" =>
        \/ a[1] \notin pending
        \/ a[1] \notin held /\ \A b \in AnswersTo(a[1]) : an[b] \notin {"arrived", "hit"}

\* Two answers that look before either removes the entry are the only way to two
\* accepted answers: where their handlers never overlap there, no expiry, retry,
\* reconnection or restart lets a second one through.
THEOREM AnswersOverlapIsOnlyCause == Spec /\ []OneLookup => []AnsweredOnce
<1> DEFINE Inv == TypeOK /\ CallsInOrder /\ AcceptedIsLast /\ AnsweredOnce
<1>1. Init => Inv
  BY InitTypeOK DEF Init, CallsInOrder, AcceptedIsLast, AnsweredOnce, Accepted
<1>2. Inv /\ OneLookup /\ OneLookup' /\ [Next]_vars => Inv'
  <2> SUFFICES ASSUME Inv, OneLookup, OneLookup', [Next]_vars
               PROVE  AcceptedIsLast' /\ AnsweredOnce'
    BY NextTypeOK, KeepsCallsInOrder
  <2> USE AnswerCall DEF TypeOK, AcceptedIsLast, AnsweredOnce, Accepted, AnswersTo, outgoing
  <2>1. ASSUME NEW c \in Calls, Request(c) \/ RefuseCall(c) \/ CallStep(c) \/ ExpireCall(c)
        PROVE  AcceptedIsLast' /\ AnsweredOnce'
    <3>1. an' = an
      BY <2>1 DEF CallStep, Request, RefuseCall, ExpireCall, Deliver, FindClear, Retry, Claim,
                  SendCall, SendCallFails, RemoveFailedCall
    <3>2. \A a \in Answers : an[a] = "done" => tx[a[1]] = "sent"
      BY DEF CallsInOrder
    <3>3. \A d \in Calls : tx[d] = "sent" => (d \in pending' => d \in pending)
                                           /\ (d \in held' => d \in held)
      BY <2>1 DEF CallStep, Request, RefuseCall, ExpireCall, Deliver, FindClear, Retry, Claim,
                  SendCall, SendCallFails, RemoveFailedCall
    <3> QED BY <3>1, <3>2, <3>3
  <2>2. ASSUME NEW a \in Answers, StationAnswers(a) PROVE AcceptedIsLast' /\ AnsweredOnce'
    BY <2>2 DEF StationAnswers
  <2>3. ASSUME NEW a \in Answers, GetPending(a) PROVE AcceptedIsLast' /\ AnsweredOnce'
    <3>1. AcceptedIsLast'
      BY <2>3 DEF GetPending
    <3>2. AnsweredOnce'
      BY <2>3 DEF GetPending, OneLookup
    <3> QED BY <3>1, <3>2
  <2>4. ASSUME NEW a \in Answers, RemovePending(a) PROVE AcceptedIsLast' /\ AnsweredOnce'
    BY <2>4 DEF RemovePending
  <2>5. CASE Disconnect
    BY <2>5 DEF Disconnect
  <2>6. CASE Restart
    BY <2>6 DEF Restart
  <2>7. CASE UNCHANGED <<pending, held, an>>
    BY <2>7
  <2>8. ASSUME NEW r \in Receptions,
               \/ \E a \in Actions : StationCall(r, a)
               \/ RefuseStationCall(r) \/ ReceptionStep(r) \/ ResponseStep(r)
        PROVE  UNCHANGED <<pending, held, an>>
    BY <2>8 DEF StationCall, RefuseStationCall, ReceptionStep, ResponseStep,
         AcceptStationCall, RouteOk, RouteFails, ErrorGet, ErrorRemove, ErrorSend, ErrorEnd,
         SendRefusal, ModuleResponds, ResponseInvalid, ResponseGet, ResponseRemove, ResponseSend
  <2>9. CASE \/ \E m \in StationCalls : ExpireStationCall(m)
             \/ BrokerLoss \/ Reconnect \/ UNCHANGED vars
    <3>1. UNCHANGED <<pending, held, an>>
      BY <2>9 DEF ExpireStationCall, BrokerLoss, Reconnect, vars
    <3> QED BY <3>1, <2>7
  <2> QED BY <2>1, <2>2, <2>3, <2>4, <2>5, <2>6, <2>7, <2>8, <2>9 DEF Next, AnswerStep
<1>3. Inv => AnsweredOnce
  OBVIOUS
<1> QED BY <1>1, <1>2, <1>3, PTL DEF Spec

-----------------------------------------------------------------------------
(* One Call in progress *)

\* At most one handler of a CSMS Call stands between its look at the namespace
\* and its claim (router.ts:402-409).
OneClear == \A c, d \in Calls : tx[c] = "clear" /\ tx[d] = "clear" => c = d

\* Nothing is in progress while a handler is about to claim.
ClearIsFree == \A c \in Calls : tx[c] = "clear" => pending = {}

\* Two handlers that look before either claims are the only way to two Calls in
\* progress: where deliveries never overlap there, neither a fault nor an
\* expiry, an answer or a retry at any other point breaks OneCallInProgress.
THEOREM OverlapIsOnlyCause == Spec /\ []OneClear => []OneCallInProgress
<1> DEFINE Inv == TypeOK /\ ClearIsFree /\ OneCallInProgress
<1>1. Init => Inv
  BY InitTypeOK DEF Init, ClearIsFree, OneCallInProgress
<1>2. Inv /\ OneClear /\ [Next]_vars => Inv'
  <2> SUFFICES ASSUME Inv, OneClear, [Next]_vars
               PROVE  ClearIsFree' /\ OneCallInProgress'
    BY NextTypeOK
  <2> USE DEF ClearIsFree, OneCallInProgress, OneClear, TypeOK
  <2>1. ASSUME NEW c \in Calls,
               Request(c) \/ RefuseCall(c) \/ CallStep(c) \/ ExpireCall(c)
        PROVE  ClearIsFree' /\ OneCallInProgress'
    <3>1. CASE Claim(c)
      <4>1. pending' = {c} /\ \A d \in Calls : tx'[d] # "clear"
        BY <3>1 DEF Claim
      <4> QED BY <4>1
    <3>2. CASE FindClear(c)
      BY <3>2 DEF FindClear, ExistsAnyInNamespace
    <3>3. CASE ~Claim(c) /\ ~FindClear(c)
      <4>1. pending' \subseteq pending /\ \A d \in Calls : tx'[d] = "clear" => tx[d] = "clear"
        BY <2>1, <3>3 DEF CallStep, Request, RefuseCall, ExpireCall, Deliver,
             Retry, SendCall, SendCallFails, RemoveFailedCall, outgoing
      <4> QED BY <4>1
    <3> QED BY <3>1, <3>2, <3>3
  <2>2. CASE Disconnect \/ BrokerLoss \/ Restart
    <3>1. pending' = pending /\ \A d \in Calls : tx'[d] = "clear" => tx[d] = "clear"
      BY <2>2 DEF Disconnect, BrokerLoss, Restart
    <3> QED BY <3>1
  <2>3. ASSUME NEW r \in Receptions,
               \/ \E a \in Actions : StationCall(r, a)
               \/ RefuseStationCall(r) \/ ReceptionStep(r) \/ ResponseStep(r)
        PROVE  UNCHANGED <<pending, tx>>
    BY <2>3 DEF StationCall, RefuseStationCall, ReceptionStep, ResponseStep,
         AcceptStationCall, RouteOk, RouteFails, ErrorGet, ErrorRemove, ErrorSend, ErrorEnd, SendRefusal,
         ModuleResponds, ResponseInvalid, ResponseGet, ResponseRemove, ResponseSend, outgoing
  <2>4. CASE (\E m \in StationCalls : ExpireStationCall(m)) \/ Reconnect \/ UNCHANGED vars
    <3>1. UNCHANGED <<pending, tx>>
      BY <2>4 DEF ExpireStationCall, Reconnect, vars, outgoing
    <3> QED BY <3>1
  <2>5. CASE UNCHANGED <<pending, tx>>
    BY <2>5
  <2>6. ASSUME NEW a \in Answers, StationAnswers(a) \/ AnswerStep(a)
        PROVE  ClearIsFree' /\ OneCallInProgress'
    <3>1. pending' \subseteq pending /\ tx' = tx
      BY <2>6 DEF StationAnswers, AnswerStep, GetPending, RemovePending
    <3> QED BY <3>1
  <2> QED BY <2>1, <2>2, <2>3, <2>4, <2>5, <2>6 DEF Next
<1>3. Inv => OneCallInProgress
  OBVIOUS
<1> QED BY <1>1, <1>2, <1>3, PTL DEF Spec

-----------------------------------------------------------------------------
(* Somebody is working on the answer *)

\* A reception that will end in an answer to the station: its handler or its
\* response has the answer in hand, or is on the way to a lookup in the cache
\* that will find the entry.
Answering(r) ==
    \/ rx[r] \in {"arrived", "refused", "errGot", "errSend"}
    \/ rsp[r] \in {"got", "send"}
    \/ stEntry[r[1]] = act[r] /\ ReceptionInFlight(r)

\* Every Call of the station that is owed an answer has a reception that will
\* give it: no repetition of its id, failed routing or late response leaves it
\* with nobody.  What excuses the router is recorded, a response that handle
\* threw away as invalid (ResponseInvalid) with the rest.  With this,
\* StationCallAnswered needs only that handlers and modules go on and that the
\* response, which may still be found invalid, is not.
AnswerUnderWay ==
    \A m \in waiting \ excused : \E r \in Receptions : r[1] = m /\ Answering(r)

\* What a Call that is not excused has been spared.
NoFault == \A m \in StationCalls \ excused : connected /\ m \notin abandoned

\* Receptions have actions, those of an id that is not excused the same one.
ActionsAgree ==
    /\ \A r \in Receptions : InUse(r) => act[r] # None
    /\ \A r, q \in Receptions :
          r[1] = q[1] /\ r[1] \notin excused /\ InUse(r) /\ InUse(q) => act[r] = act[q]

\* No module responds to a reception before _onCall has tried to route it.
RoutedFirst ==
    \A r \in Receptions : rx[r] \in {"arrived", "routing"} => rsp[r] = "none"

AnswerInv == RouterInv /\ NoFault /\ ActionsAgree /\ RoutedFirst /\ AnswerUnderWay

\* The entry of a Call that is not excused holds the action of its receptions.
LEMMA EntryAgrees ==
    ASSUME AnswerInv, NEW r \in Receptions, r[1] \notin excused, InUse(r),
           stEntry[r[1]] # None
    PROVE  stEntry[r[1]] = act[r]
<1>1. PICK q \in Receptions : q[1] = r[1] /\ act[q] = stEntry[r[1]] /\ InUse(q)
  BY ReceptionId
  DEF AnswerInv, RouterInv, NoOrphanEntry, EntryOwned, NoFault, ReceptionInFlight, InUse
<1> QED BY <1>1 DEF AnswerInv, ActionsAgree

\* A step that touches neither receptions nor entries.
LEMMA AnswersUntouched ==
    ASSUME AnswerInv, UNCHANGED <<stEntry, rx, act, rsp, waiting, excused>>,
           connected => connected',
           \A m \in StationCalls : m \in abandoned' => m \in abandoned
    PROVE  NoFault' /\ ActionsAgree' /\ RoutedFirst' /\ AnswerUnderWay'
BY DEF AnswerInv, NoFault, ActionsAgree, RoutedFirst, AnswerUnderWay, Answering,
       ReceptionInFlight, InUse

\* A step on one reception of a station Call, or on the response to it.
LEMMA ReceptionKeepsAnswer ==
    ASSUME AnswerInv, NEW r \in Receptions,
           \/ \E a \in Actions : StationCall(r, a)
           \/ RefuseStationCall(r) \/ ReceptionStep(r) \/ ResponseStep(r)
    PROVE  NoFault' /\ ActionsAgree' /\ RoutedFirst' /\ AnswerUnderWay'
<1> USE MessageRouterAssumption, ReceptionId
<1>1. NoFault'
  BY DEF AnswerInv, RouterInv, TypeOK, NoFault, outgoing, incoming, history, env,
         StationCall, RefuseStationCall, ReceptionStep, ResponseStep, AcceptStationCall,
         RouteOk, RouteFails, ErrorGet, ErrorRemove, ErrorSend, ErrorEnd, SendRefusal,
         ModuleResponds, ResponseInvalid, ResponseGet, ResponseRemove, ResponseSend
<1>2. ActionsAgree'
  <2>1. ASSUME NEW a \in Actions, StationCall(r, a) PROVE ActionsAgree'
    BY <2>1 DEF StationCall, AnswerInv, RouterInv, TypeOK, ActionsAgree, InUse
  <2>2. CASE RefuseStationCall(r) \/ ReceptionStep(r) \/ ResponseStep(r)
    <3>1. act' = act /\ excused \subseteq excused' /\ \A q \in Receptions : InUse(q)' => InUse(q)
      BY <2>2 DEF AnswerInv, RouterInv, TypeOK, InUse, outgoing, incoming, history,
         RefuseStationCall, ReceptionStep, ResponseStep, AcceptStationCall,
         RouteOk, RouteFails, ErrorGet, ErrorRemove, ErrorSend, ErrorEnd, SendRefusal,
         ModuleResponds, ResponseInvalid, ResponseGet, ResponseRemove, ResponseSend
    <3> QED BY <3>1 DEF AnswerInv, ActionsAgree
  <2> QED BY <2>1, <2>2
<1>3. RoutedFirst'
  BY DEF InUse, AnswerInv, RouterInv, TypeOK, RoutedFirst, outgoing, incoming, history,
         StationCall, RefuseStationCall, ReceptionStep, ResponseStep, AcceptStationCall,
         RouteOk, RouteFails, ErrorGet, ErrorRemove, ErrorSend, ErrorEnd, SendRefusal,
         ModuleResponds, ResponseInvalid, ResponseGet, ResponseRemove, ResponseSend
<1>4. ASSUME NEW m \in waiting' \ excused'
      PROVE  \E q \in Receptions : q[1] = m /\ Answering(q)'
  <2> USE DEF AnswerInv, RouterInv, TypeOK, outgoing, incoming, history, env
  <2>1. ASSUME NEW a \in Actions, StationCall(r, a)
        PROVE  \E q \in Receptions : q[1] = m /\ Answering(q)'
    <3>1. CASE m = r[1]
      BY <2>1, <3>1 DEF StationCall, Answering
    <3>2. CASE m # r[1]
      BY <1>4, <2>1, <3>2 DEF StationCall, AnswerUnderWay, Answering, ReceptionInFlight
    <3> QED BY <3>1, <3>2
  <2>2. m \in waiting \ excused \/ \E a \in Actions : StationCall(r, a)
    BY <1>4 DEF RefuseStationCall, ReceptionStep, ResponseStep, AcceptStationCall,
         RouteOk, RouteFails, ErrorGet, ErrorRemove, ErrorSend, ErrorEnd, SendRefusal,
         ModuleResponds, ResponseInvalid, ResponseGet, ResponseRemove, ResponseSend, Transmit
  <2>3. ASSUME m \in waiting \ excused PROVE \E q \in Receptions : q[1] = m /\ Answering(q)
    BY <2>3 DEF AnswerUnderWay
  <2>4. ASSUME m \in waiting \ excused, m # r[1],
               RefuseStationCall(r) \/ ReceptionStep(r) \/ ResponseStep(r)
        PROVE  \E q \in Receptions : q[1] = m /\ Answering(q)'
    <3>1. PICK q \in Receptions : q[1] = m /\ Answering(q)
      BY <2>3, <2>4
    <3>2. rx'[q] = rx[q] /\ rsp'[q] = rsp[q] /\ act'[q] = act[q] /\ stEntry'[q[1]] = stEntry[q[1]]
      BY <2>4, <3>1 DEF RefuseStationCall, ReceptionStep, ResponseStep, AcceptStationCall,
         RouteOk, RouteFails, ErrorGet, ErrorRemove, ErrorSend, ErrorEnd, SendRefusal,
         ModuleResponds, ResponseInvalid, ResponseGet, ResponseRemove, ResponseSend
    <3> QED BY <3>1, <3>2 DEF Answering, ReceptionInFlight
  <2>5. ASSUME m \in waiting \ excused, m = r[1], AcceptStationCall(r)
        PROVE  Answering(r)'
    <3>1. stEntry[r[1]] = None \/ stEntry[r[1]] = act[r]
      BY <2>5, EntryAgrees DEF AcceptStationCall, InUse
    <3> QED BY <2>5, <3>1 DEF AcceptStationCall, Answering, ReceptionInFlight
  <2>6. ASSUME m \in waiting \ excused, m = r[1], RefuseStationCall(r) \/ ErrorRemove(r)
        PROVE  Answering(r)'
    BY <2>6 DEF RefuseStationCall, ErrorRemove, Answering
  <2>7. ASSUME m \in waiting \ excused, m = r[1], RouteOk(r) \/ RouteFails(r) \/ ModuleResponds(r)
        PROVE  \E q \in Receptions : q[1] = m /\ Answering(q)'
    <3>1. PICK q \in Receptions : q[1] = m /\ Answering(q)
      BY <2>3, <2>7
    <3>2. CASE q = r
      BY <2>7, <3>1, <3>2
      DEF RouteOk, RouteFails, ModuleResponds, Answering, ReceptionInFlight, RoutedFirst
    <3>3. CASE q # r
      BY <2>7, <3>1, <3>3 DEF RouteOk, RouteFails, ModuleResponds, Answering, ReceptionInFlight
    <3> QED BY <3>2, <3>3
  <2>8. ASSUME m \in waiting \ excused, m = r[1], ErrorGet(r)
        PROVE  \E q \in Receptions : q[1] = m /\ Answering(q)'
    <3>1. PICK q \in Receptions : q[1] = m /\ Answering(q)
      BY <2>3, <2>8
    <3>2. stEntry[r[1]] = None \/ stEntry[r[1]] = act[r]
      BY <2>8, EntryAgrees DEF ErrorGet, InUse
    <3>3. stEntry' = stEntry
      BY <2>8 DEF ErrorGet
    <3>4. CASE stEntry[r[1]] = act[r]
      BY <2>8, <3>4 DEF ErrorGet, Answering
    <3>5. CASE stEntry[r[1]] # act[r]
      BY <2>8, <3>1, <3>3, <3>5 DEF ErrorGet, Answering, ReceptionInFlight
    <3> QED BY <3>4, <3>5
  <2>9. ASSUME m \in waiting \ excused, m = r[1], ResponseGet(r)
        PROVE  \E q \in Receptions : q[1] = m /\ Answering(q)'
    <3>1. PICK q \in Receptions : q[1] = m /\ Answering(q)
      BY <2>3, <2>9
    <3>2. CASE stEntry[r[1]] = act[r]
      BY <2>9, <3>2 DEF ResponseGet, Answering
    <3>3. CASE stEntry[r[1]] # act[r]
      BY <2>9, <3>1, <3>3 DEF ResponseGet, Answering, ReceptionInFlight
    <3> QED BY <3>2, <3>3
  <2>10. ASSUME m \in waiting \ excused, m = r[1], ResponseRemove(r)
         PROVE  Answering(r)'
    BY <2>10 DEF ResponseRemove, Answering
  <2>11. ASSUME m \in waiting \ excused, m = r[1], ErrorSend(r) \/ SendRefusal(r) \/ ResponseSend(r)
         PROVE  FALSE
    BY <1>4, <2>11 DEF ErrorSend, SendRefusal, ResponseSend, Transmit, NoFault
  <2>12. ASSUME m \in waiting \ excused, m = r[1], ResponseInvalid(r) PROVE FALSE
    BY <1>4, <2>12 DEF ResponseInvalid
  <2>13. ASSUME m \in waiting \ excused, m = r[1], ErrorEnd(r)
         PROVE  \E q \in Receptions : q[1] = m /\ Answering(q)'
    <3>1. stEntry[m] = None /\ stEntry'[m] = None
      BY <1>4, <2>13 DEF ErrorEnd
    <3>2. PICK q \in Receptions : q[1] = m /\ Answering(q)
      BY <2>3, <2>13
    <3>3. CASE q = r
      BY <2>13, <3>1, <3>2, <3>3 DEF ErrorEnd, Answering, ActionsAgree, InUse
    <3>4. CASE q # r
      BY <2>13, <3>1, <3>2, <3>4 DEF ErrorEnd, Answering, ReceptionInFlight
    <3> QED BY <3>3, <3>4
  <2> QED
    BY <2>1, <2>2, <2>4, <2>5, <2>6, <2>7, <2>8, <2>9, <2>10, <2>11, <2>12, <2>13
    DEF ReceptionStep, ResponseStep
<1> QED BY <1>1, <1>2, <1>3, <1>4 DEF AnswerUnderWay

\* A step on one CSMS Call, the TTL, a fault, or none.
LEMMA OthersKeepAnswer ==
    ASSUME AnswerInv,
           \/ \E c \in Calls : Request(c) \/ RefuseCall(c) \/ CallStep(c) \/ ExpireCall(c)
           \/ \E a \in Answers : StationAnswers(a) \/ AnswerStep(a)
           \/ \E m \in StationCalls : ExpireStationCall(m)
           \/ Disconnect \/ Reconnect \/ BrokerLoss \/ Restart
           \/ UNCHANGED vars
    PROVE  NoFault' /\ ActionsAgree' /\ RoutedFirst' /\ AnswerUnderWay'
<1> USE MessageRouterAssumption, ReceptionId
<1>1. ASSUME NEW c \in Calls,
             Request(c) \/ RefuseCall(c) \/ CallStep(c) \/ ExpireCall(c)
      PROVE  NoFault' /\ ActionsAgree' /\ RoutedFirst' /\ AnswerUnderWay'
  <2>1. /\ UNCHANGED <<stEntry, rx, act, rsp, waiting, excused, connected>>
        /\ abandoned' \subseteq abandoned
    BY <1>1 DEF CallStep, Request, RefuseCall, ExpireCall, Deliver,
           FindClear, Retry, Claim, SendCall, SendCallFails, RemoveFailedCall,
           incoming, history, env
  <2> QED BY <2>1, AnswersUntouched
<1>2. ASSUME NEW m \in StationCalls, ExpireStationCall(m)
      PROVE  NoFault' /\ ActionsAgree' /\ RoutedFirst' /\ AnswerUnderWay'
  <2> USE <1>2 DEF ExpireStationCall, AnswerInv, RouterInv, TypeOK, incoming, env
  <2>1. NoFault' /\ ActionsAgree' /\ RoutedFirst'
    BY DEF NoFault, ActionsAgree, RoutedFirst, InUse
  <2>2. ASSUME NEW n \in waiting' \ excused'
        PROVE  \E q \in Receptions : q[1] = n /\ Answering(q)'
    <3>1. PICK q \in Receptions : q[1] = n /\ Answering(q)
      BY <2>2 DEF AnswerUnderWay
    <3>2. CASE n = m
      <4>1. ~ReceptionInFlight(q)
        BY <2>2, <3>1, <3>2
      <4> QED BY <3>1, <4>1 DEF Answering
    <3>3. CASE n # m
      BY <3>1, <3>3 DEF Answering, ReceptionInFlight
    <3> QED BY <3>2, <3>3
  <2> QED BY <2>1, <2>2 DEF AnswerUnderWay
<1>3. CASE Disconnect \/ BrokerLoss \/ Restart
  <2>1. excused' = StationCalls /\ UNCHANGED <<waiting, act>>
    BY <1>3 DEF Disconnect, BrokerLoss, Restart, incoming
  <2>2. \A r \in Receptions : InUse(r)' => InUse(r)
    BY <1>3 DEF Disconnect, BrokerLoss, Restart, incoming, AnswerInv, RouterInv, TypeOK, InUse
  <2>3. RoutedFirst'
    BY <1>3 DEF Disconnect, BrokerLoss, Restart, incoming, AnswerInv, RouterInv, TypeOK,
                RoutedFirst
  <2> QED
    BY <2>1, <2>2, <2>3
    DEF AnswerInv, RouterInv, TypeOK, NoFault, ActionsAgree, AnswerUnderWay
<1>4. CASE Reconnect \/ UNCHANGED vars
  <2>1. /\ UNCHANGED <<stEntry, rx, act, rsp, waiting, excused, abandoned>>
        /\ connected => connected'
    <3>1. CASE Reconnect
      BY <3>1 DEF Reconnect, incoming, history
    <3>2. CASE UNCHANGED vars
      BY <3>2 DEF vars
    <3> QED BY <1>4, <3>1, <3>2
  <2> QED BY <2>1, AnswersUntouched
<1>5. ASSUME NEW a \in Answers, StationAnswers(a) \/ AnswerStep(a)
      PROVE  NoFault' /\ ActionsAgree' /\ RoutedFirst' /\ AnswerUnderWay'
  <2>1. UNCHANGED <<stEntry, rx, act, rsp, waiting, excused, connected, abandoned>>
    BY <1>5 DEF StationAnswers, AnswerStep, GetPending, RemovePending, incoming, history, env
  <2> QED BY <2>1, AnswersUntouched
<1> QED BY <1>1, <1>2, <1>3, <1>4, <1>5

\* Every Call of the station that is owed an answer, and whose response was not
\* thrown away as invalid, has a reception at work on it, for any number of ids,
\* repetitions and faults.
THEOREM AnswersUnderWay == Spec => []AnswerUnderWay
<1>1. Init => AnswerInv
  BY RouterInvKept, MessageRouterAssumption
  DEF Init, AnswerInv, NoFault, ActionsAgree, RoutedFirst, AnswerUnderWay, InUse
<1>2. AnswerInv /\ [Next]_vars => AnswerInv'
  <2> SUFFICES ASSUME AnswerInv, [Next]_vars
               PROVE  NoFault' /\ ActionsAgree' /\ RoutedFirst' /\ AnswerUnderWay'
    BY RouterInvKept DEF AnswerInv
  <2> QED BY ReceptionKeepsAnswer, OthersKeepAnswer DEF Next
<1>3. AnswerInv => AnswerUnderWay
  BY DEF AnswerInv
<1> QED BY <1>1, <1>2, <1>3, PTL DEF Spec
=============================================================================
