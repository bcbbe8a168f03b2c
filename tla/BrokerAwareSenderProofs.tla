---------------------- MODULE BrokerAwareSenderProofs ----------------------
(***************************************************************************)
(* Responses that wait for the broker wait in the order in which they were *)
(* sent, for any number of messages and outages.  The argument follows     *)
(* what is waiting, the rest of a flush and then the buffer: every step    *)
(* leaves it alone, appends the newest message, drops the head, or drops   *)
(* the buffer.  The same steps move messages between places, and lose or   *)
(* double none.                                                            *)
(***************************************************************************)
EXTENDS BrokerAwareSender, SequenceTheorems, TLAPS

waiting == toFlush \o buffer

Ascending(q) == \A i, j \in DOMAIN q : i < j => q[i] < q[j]

\* The inductive invariant: the order, and that nothing waiting is newer than
\* the last message sent.
WaitingInv ==
    /\ sent \in Nat
    /\ toFlush \in Seq(Nat)
    /\ buffer \in Seq(Nat)
    /\ Ascending(waiting)
    /\ \A i \in DOMAIN waiting : waiting[i] <= sent

\* Appending a message newer than all others keeps the order.
LEMMA AppendNewest ==
    ASSUME NEW q \in Seq(Nat), NEW n \in Nat, Ascending(q),
           \A i \in DOMAIN q : q[i] <= n
    PROVE  /\ Ascending(Append(q, n + 1))
           /\ \A i \in DOMAIN Append(q, n + 1) : Append(q, n + 1)[i] <= n + 1
<1> DEFINE r == Append(q, n + 1)
<1>1. /\ DOMAIN r = 1 .. Len(q) + 1
      /\ DOMAIN q = 1 .. Len(q)
      /\ Len(q) \in Nat
      /\ \A i \in 1 .. Len(q) : r[i] = q[i] /\ q[i] \in Nat
      /\ r[Len(q) + 1] = n + 1
  OBVIOUS
<1> HIDE DEF r
<1>2. ASSUME NEW i \in 1 .. Len(q) PROVE r[i] = q[i] /\ r[i] \in Nat /\ r[i] <= n
  BY <1>1
<1>3. ASSUME NEW i \in DOMAIN r, NEW j \in DOMAIN r, i < j PROVE r[i] < r[j]
  <2>1. i \in 1 .. Len(q)
    BY <1>1, <1>3
  <2>2. CASE j \in 1 .. Len(q)
    BY <1>1, <1>2, <1>3, <2>1, <2>2 DEF Ascending
  <2>3. CASE j = Len(q) + 1
    BY <1>1, <1>2, <2>1, <2>3
  <2> QED BY <1>1, <2>2, <2>3
<1>4. \A i \in DOMAIN r : r[i] <= n + 1
  BY <1>1, <1>2
<1> QED BY <1>3, <1>4 DEF r, Ascending

\* Dropping the head keeps the order.
LEMMA TailAscending ==
    ASSUME NEW q \in Seq(Nat), q # << >>, NEW n \in Nat, Ascending(q),
           \A i \in DOMAIN q : q[i] <= n
    PROVE  Ascending(Tail(q)) /\ \A i \in DOMAIN Tail(q) : Tail(q)[i] <= n
<1> DEFINE r == Tail(q)
<1>1. /\ DOMAIN r = 1 .. Len(q) - 1
      /\ DOMAIN q = 1 .. Len(q)
      /\ Len(q) \in Nat
      /\ \A i \in 1 .. Len(q) - 1 : r[i] = q[i + 1]
  BY HeadTailProperties
<1> HIDE DEF r
<1>2. \A i \in DOMAIN r : i + 1 \in DOMAIN q /\ r[i] = q[i + 1] /\ i \in Nat
  BY <1>1
<1>3. ASSUME NEW i \in DOMAIN r, NEW j \in DOMAIN r, i < j PROVE r[i] < r[j]
  <2>1. i + 1 < j + 1
    BY <1>2, <1>3
  <2> QED BY <1>2, <2>1 DEF Ascending
<1>4. Ascending(r)
  BY <1>3 DEF Ascending
<1>5. \A i \in DOMAIN r : r[i] <= n
  BY <1>2
<1> QED BY <1>4, <1>5 DEF r

\* What a concatenation is made of.
LEMMA Concat ==
    ASSUME NEW p \in Seq(Nat), NEW q \in Seq(Nat), NEW n \in Nat
    PROVE  /\ p \o q \in Seq(Nat)
           /\ p \o Append(q, n) = Append(p \o q, n)
           /\ p # << >> => /\ Tail(p) \o q = Tail(p \o q)
                           /\ p \o q # << >>
                           /\ Tail(p) \in Seq(Nat)
           /\ << >> \o p = p
           /\ p \o << >> = p
<1>1. p \o q \in Seq(Nat)
  OBVIOUS
<1>2. p \o Append(q, n) = Append(p \o q, n)
  OBVIOUS
<1>3. ASSUME p # << >> PROVE Tail(p) \o q = Tail(p \o q)
  BY <1>3, SMTT(40)
<1>4. ASSUME p # << >> PROVE p \o q # << >> /\ Tail(p) \in Seq(Nat)
  BY <1>4
<1>5. << >> \o p = p /\ p \o << >> = p
  OBVIOUS
<1> QED BY <1>1, <1>2, <1>3, <1>4, <1>5

\* Nothing waits at the start.
LEMMA InitWaiting == Init => WaitingInv
  BY DEF Init, WaitingInv, waiting, Ascending

\* One message of a flush is done with: the head of what waits goes, whether
\* the rest of the flush goes on or back into the buffer.
LEMMA ContinueKeepsOrder ==
    ASSUME WaitingInv, toFlush # << >>, ContinueFlush, sent' = sent
    PROVE  WaitingInv'
<1> DEFINE rest == Tail(toFlush)
<1>1. \/ toFlush' = rest /\ buffer' = buffer
      \/ toFlush' = << >> /\ buffer' = rest \o buffer
  BY Zenon DEF ContinueFlush, Rebuffer
<1>2. /\ rest \in Seq(Nat)
      /\ rest \o buffer \in Seq(Nat)
      /\ rest \o buffer = Tail(waiting)
      /\ waiting \in Seq(Nat) /\ waiting # << >>
  BY Concat, 0 \in Nat DEF WaitingInv, waiting
<1>3. waiting' = Tail(waiting) /\ toFlush' \in Seq(Nat) /\ buffer' \in Seq(Nat)
  <2>1. CASE toFlush' = rest /\ buffer' = buffer
    BY <1>2, <2>1 DEF waiting, WaitingInv
  <2>2. CASE toFlush' = << >> /\ buffer' = rest \o buffer
    <3> DEFINE back == rest \o buffer
    <3>1. back \in Seq(Nat) /\ back = Tail(waiting)
      BY <1>2
    <3>2. waiting' = << >> \o back /\ buffer' = back
      BY <2>2 DEF waiting
    <3> HIDE DEF back
    <3>3. << >> \o back = back /\ << >> \in Seq(Nat)
      BY <3>1
    <3> QED BY <2>2, <3>1, <3>2, <3>3, Zenon
  <2> QED BY <1>1, <2>1, <2>2
<1>4. Ascending(Tail(waiting)) /\ \A i \in DOMAIN Tail(waiting) : Tail(waiting)[i] <= sent
  BY <1>2, TailAscending DEF WaitingInv
<1> QED BY <1>3, <1>4 DEF WaitingInv, Ascending

\* Every step keeps the order.
LEMMA NextWaiting == WaitingInv /\ [Next]_vars => WaitingInv'
<1> SUFFICES ASSUME WaitingInv, [Next]_vars PROVE WaitingInv'
  OBVIOUS
<1>1. CASE SendResponse
  <2>1. sent' = sent + 1 /\ toFlush' = toFlush
    BY <1>1 DEF SendResponse
  <2>2. buffer' = buffer \/ buffer' = Append(buffer, sent + 1)
    BY <1>1, Zenon DEF SendResponse
  <2>3. CASE buffer' = buffer
    <3>1. waiting' = waiting /\ waiting \in Seq(Nat)
      BY <2>1, <2>3 DEF waiting, WaitingInv
    <3>2. \A i \in DOMAIN waiting : waiting[i] <= sent + 1
      <4>1. \A i \in DOMAIN waiting : waiting[i] \in Nat /\ waiting[i] <= sent
        BY <3>1 DEF WaitingInv
      <4>2. sent \in Nat
        BY DEF WaitingInv
      <4> HIDE DEF waiting
      <4> QED BY <4>1, <4>2
    <3>3. Ascending(waiting)' /\ sent' \in Nat
      BY <2>1, <3>1 DEF WaitingInv, Ascending
    <3> HIDE DEF waiting
    <3> QED BY <2>1, <2>3, <3>1, <3>2, <3>3 DEF WaitingInv
  <2>4. CASE buffer' = Append(buffer, sent + 1)
    <3>1. waiting' = Append(waiting, sent + 1) /\ waiting \in Seq(Nat)
      BY <2>1, <2>4, Concat, sent + 1 \in Nat DEF waiting, WaitingInv
    <3>2. buffer' \in Seq(Nat) /\ toFlush' \in Seq(Nat) /\ sent' \in Nat
      BY <2>1, <2>4 DEF WaitingInv
    <3>3. /\ Ascending(Append(waiting, sent + 1))
          /\ \A i \in DOMAIN Append(waiting, sent + 1) :
               Append(waiting, sent + 1)[i] <= sent + 1
      BY <3>1, AppendNewest DEF WaitingInv
    <3> QED BY <2>1, <3>1, <3>2, <3>3 DEF WaitingInv, Ascending
  <2> QED BY <2>2, <2>3, <2>4
<1>2. CASE FlushPublish
  BY <1>2, ContinueKeepsOrder DEF FlushPublish
<1>3. CASE FlushFail
  BY <1>3, ContinueKeepsOrder DEF FlushFail
<1>4. CASE Connected
  <2>1. toFlush = << >> /\ toFlush' = buffer /\ buffer' = << >> /\ sent' = sent
    BY <1>4 DEF Connected
  <2>2. waiting' = waiting
    BY <2>1, Concat, 0 \in Nat DEF waiting, WaitingInv
  <2> QED BY <2>1, <2>2 DEF WaitingInv, Ascending
<1>5. CASE Shutdown
  <2>1. toFlush' = toFlush /\ buffer' = << >> /\ sent' = sent
    BY <1>5 DEF Shutdown
  <2>2. waiting' = toFlush
    BY <2>1, Concat, 0 \in Nat DEF waiting, WaitingInv
  <2>3. /\ \A i \in DOMAIN toFlush : i \in DOMAIN waiting /\ waiting[i] = toFlush[i]
        /\ toFlush \in Seq(Nat)
    BY DEF waiting, WaitingInv
  <2>4. Ascending(toFlush) /\ \A i \in DOMAIN toFlush : toFlush[i] <= sent
    BY <2>3 DEF WaitingInv, Ascending
  <2> QED BY <2>1, <2>2, <2>3, <2>4 DEF WaitingInv, Ascending
<1>6. ASSUME UNCHANGED <<sent, toFlush, buffer>> PROVE WaitingInv'
  BY <1>6 DEF WaitingInv, waiting, Ascending
<1>7. ASSUME NEW m \in Messages, PublishDirect(m) \/ FailDirect(m) PROVE WaitingInv'
  BY <1>6, <1>7 DEF PublishDirect, FailDirect
<1>8. CASE Disconnected
  BY <1>6, <1>8 DEF Disconnected, messages
<1>9. ASSUME NEW s \in Stations,
             StationCall(s) \/ CallTimeout(s) \/ StationConnects(s) \/ StationDrops(s)
      PROVE  WaitingInv'
  BY <1>6, <1>9 DEF StationCall, CallTimeout, StationConnects, StationDrops, messages
<1>10. CASE UNCHANGED vars
  BY <1>6, <1>10 DEF vars, messages
<1> QED
  BY <1>1, <1>2, <1>3, <1>4, <1>5, <1>7, <1>8, <1>9, <1>10 DEF Next

\* A reconnect never replays a younger response before an older one: what waits
\* is in the order of sending, through any outages in the middle of a flush.
THEOREM OrderKept == Spec => []ReplayInOrder
<1>1. WaitingInv => ReplayInOrder
  BY DEF WaitingInv, waiting, Ascending, ReplayInOrder
<1> QED BY <1>1, InitWaiting, NextWaiting, PTL DEF Spec

\* While the broker is up nothing is left in the buffer, where only the next
\* reconnect would find it.
THEOREM NoneStranded == Spec => []NothingStranded
<1>1. Init => NothingStranded
  BY Zenon DEF Init, NothingStranded
<1>2. NothingStranded /\ [Next]_vars => NothingStranded'
  <2> SUFFICES ASSUME NothingStranded, [Next]_vars PROVE NothingStranded'
    OBVIOUS
  <2>1. CASE SendResponse
    BY <2>1, Zenon DEF SendResponse, NothingStranded
  <2>2. CASE FlushPublish \/ FlushFail
    BY <2>2, Zenon DEF FlushPublish, FlushFail, ContinueFlush, NothingStranded
  <2>3. CASE Connected \/ Shutdown
    BY <2>3, Zenon DEF Connected, Shutdown, NothingStranded
  <2>4. CASE Disconnected
    BY <2>4, Zenon DEF Disconnected, NothingStranded
  <2>5. ASSUME UNCHANGED <<up, buffer>> PROVE NothingStranded'
    BY <2>5, Zenon DEF NothingStranded
  <2>6. ASSUME NEW m \in Messages, PublishDirect(m) \/ FailDirect(m) PROVE NothingStranded'
    BY <2>5, <2>6, Zenon DEF PublishDirect, FailDirect
  <2>7. ASSUME NEW s \in Stations,
               StationCall(s) \/ CallTimeout(s) \/ StationConnects(s) \/ StationDrops(s)
        PROVE  NothingStranded'
    BY <2>5, <2>7, Zenon
    DEF StationCall, CallTimeout, StationConnects, StationDrops, messages
  <2>8. CASE UNCHANGED vars
    BY <2>5, <2>8, Zenon DEF vars, messages
  <2> QED
    BY <2>1, <2>2, <2>3, <2>4, <2>6, <2>7, <2>8, Zenon DEF Next
<1> QED BY <1>1, <1>2, PTL DEF Spec

-----------------------------------------------------------------------------
(* Types *)

\* The part of TypeOK about messages, and the part about Calls.
MessageTypes ==
    /\ sent \in 0 .. NumMessages
    /\ buffer \in Seq(Messages) /\ toFlush \in Seq(Messages)
    /\ published \in Seq(Messages)
    /\ direct \subseteq Messages /\ confirmed \subseteq Messages
    /\ failed \subseteq Messages /\ dropped \subseteq Messages /\ discarded \subseteq Messages

CallTypes ==
    /\ callTimeouts \subseteq Stations
    /\ opened \in [Stations -> 0 .. MaxConnections]
    /\ ws \in [Stations -> 0 .. MaxConnections]
    /\ swallowed \in [Stations -> SUBSET (1 .. MaxConnections)]
    /\ outages \in 0 .. MaxOutages

SwitchTypes == up \in BOOLEAN /\ running \in BOOLEAN

\* One message of a flush is done with.
LEMMA ContinueKeepsTypes ==
    ASSUME MessageTypes, toFlush # << >>, ContinueFlush
    PROVE  toFlush' \in Seq(Messages) /\ buffer' \in Seq(Messages)
<1>1. \/ toFlush' = Tail(toFlush) /\ buffer' = buffer
      \/ toFlush' = << >> /\ buffer' = Tail(toFlush) \o buffer
  BY Zenon DEF ContinueFlush, Rebuffer
<1>2. /\ Tail(toFlush) \in Seq(Messages)
      /\ Tail(toFlush) \o buffer \in Seq(Messages)
      /\ buffer \in Seq(Messages)
      /\ << >> \in Seq(Messages)
  BY DEF MessageTypes
<1> QED BY <1>1, <1>2, Zenon

\* Every step keeps the types of the messages.
LEMMA NextMessageTypes == MessageTypes /\ [Next]_vars => MessageTypes'
<1> SUFFICES ASSUME MessageTypes, [Next]_vars PROVE MessageTypes'
  OBVIOUS
<1> USE BrokerAwareSenderAssumption
<1>1. CASE SendResponse
  <2>1. /\ sent < NumMessages /\ sent' = sent + 1
        /\ UNCHANGED <<toFlush, published, failed, dropped, discarded>>
    BY <1>1 DEF SendResponse, outcomes
  <2>2. /\ confirmed' \subseteq confirmed \cup {sent + 1}
        /\ \/ direct' = direct \cup {sent + 1} /\ buffer' = buffer
           \/ buffer' = Append(buffer, sent + 1) /\ direct' = direct
    BY <1>1, Zenon DEF SendResponse
  <2>3. sent + 1 \in Messages
    BY <2>1 DEF MessageTypes, Messages
  <2>4. sent' \in 0 .. NumMessages
    BY <2>1 DEF MessageTypes
  <2>5. Append(buffer, sent + 1) \in Seq(Messages)
    BY <2>3 DEF MessageTypes
  <2> QED BY <2>1, <2>2, <2>3, <2>4, <2>5 DEF MessageTypes
<1>2. CASE FlushPublish
  <2>1. Head(toFlush) \in Messages
    BY <1>2 DEF FlushPublish, MessageTypes
  <2>2. published' \in Seq(Messages)
    BY <1>2, <2>1 DEF FlushPublish, MessageTypes
  <2> QED BY <1>2, <2>2, ContinueKeepsTypes DEF FlushPublish, MessageTypes, outcomes
<1>3. CASE FlushFail
  <2>1. Head(toFlush) \in Messages
    BY <1>3 DEF FlushFail, MessageTypes
  <2> QED BY <1>3, <2>1, ContinueKeepsTypes DEF FlushFail, MessageTypes
<1>4. CASE Connected
  BY <1>4 DEF Connected, MessageTypes, outcomes
<1>5. CASE Shutdown
  <2>1. ToSet(buffer) \subseteq Messages
    BY DEF MessageTypes, ToSet
  <2> QED BY <1>5, <2>1 DEF Shutdown, MessageTypes
<1>6. ASSUME NEW m \in Messages, PublishDirect(m) \/ FailDirect(m) PROVE MessageTypes'
  <2>1. Append(published, m) \in Seq(Messages)
    BY DEF MessageTypes
  <2>2. /\ published' \in {published, Append(published, m)}
        /\ direct' \subseteq direct /\ failed' \subseteq failed \cup {m}
        /\ UNCHANGED <<sent, buffer, toFlush, confirmed, dropped, discarded>>
    BY <1>6, Zenon DEF PublishDirect, FailDirect, outcomes
  <2> QED BY <2>1, <2>2 DEF MessageTypes
<1>7. ASSUME UNCHANGED messages PROVE MessageTypes'
  BY <1>7 DEF messages, outcomes, MessageTypes
<1> QED
  BY <1>1, <1>2, <1>3, <1>4, <1>5, <1>6, <1>7
  DEF Next, Disconnected, StationCall, CallTimeout, StationConnects, StationDrops, vars

\* Every step keeps the types of what belongs to Calls and websockets.
LEMMA NextCallTypes == CallTypes /\ [Next]_vars => CallTypes'
<1> SUFFICES ASSUME CallTypes, [Next]_vars PROVE CallTypes'
  OBVIOUS
<1> USE BrokerAwareSenderAssumption DEF CallTypes
<1>1. CASE Disconnected
  BY <1>1 DEF Disconnected, calls
<1>2. ASSUME NEW s \in Stations, StationCall(s) PROVE CallTypes'
  <2>1. ws[s] \in 1 .. MaxConnections
    BY <1>2 DEF StationCall
  <2> QED BY <1>2, <2>1 DEF StationCall
<1>3. ASSUME NEW s \in Stations, CallTimeout(s) \/ StationDrops(s) PROVE CallTypes'
  BY <1>3 DEF CallTimeout, StationDrops
<1>4. ASSUME NEW s \in Stations, StationConnects(s) PROVE CallTypes'
  <2>1. opened[s] + 1 \in 0 .. MaxConnections
    BY <1>4 DEF StationConnects
  <2> QED BY <1>4, <2>1 DEF StationConnects
<1>5. CASE Shutdown
  BY <1>5 DEF Shutdown
<1>6. ASSUME UNCHANGED <<calls, outages>> PROVE CallTypes'
  BY <1>6 DEF calls
<1> QED
  BY <1>1, <1>2, <1>3, <1>4, <1>5, <1>6
  DEF Next, SendResponse, PublishDirect, FailDirect, FlushPublish, FlushFail, Connected, vars

\* What the sender holds stays in its types, for any numbers of messages,
\* stations and outages.
THEOREM SenderTypes == Spec => []TypeOK
<1>1. Init => MessageTypes /\ CallTypes /\ SwitchTypes
  <2> SUFFICES ASSUME Init PROVE MessageTypes /\ CallTypes /\ SwitchTypes
    OBVIOUS
  <2>1. MessageTypes
    BY BrokerAwareSenderAssumption DEF Init, MessageTypes
  <2>2. CallTypes
    BY BrokerAwareSenderAssumption DEF Init, CallTypes
  <2>3. SwitchTypes
    BY Zenon DEF Init, SwitchTypes
  <2> QED BY <2>1, <2>2, <2>3
<1>2. SwitchTypes /\ [Next]_vars => SwitchTypes'
  BY Zenon DEF SwitchTypes, Next, SendResponse, PublishDirect, FailDirect, FlushPublish,
     FlushFail, Connected, Disconnected, StationCall, CallTimeout, StationConnects,
     StationDrops, Shutdown, vars
<1>3. MessageTypes /\ CallTypes /\ SwitchTypes => TypeOK
  BY DEF MessageTypes, CallTypes, SwitchTypes, TypeOK
<1> QED BY <1>1, <1>2, <1>3, NextMessageTypes, NextCallTypes, PTL DEF Spec

-----------------------------------------------------------------------------
(* Every message is in one place, once *)

\* One place out of seven holds m.
InOnePlace(P, m) ==
    \E i \in 1 .. 8 : m \in P[i] /\ \A j \in 1 .. 8 \ {i} : m \notin P[j]

\* What a step does to the places: X moves from place i to place j.
Moved(P, Q, X, i, j) ==
    /\ X \subseteq P[i]
    /\ Q[i] = P[i] \ X
    /\ Q[j] = P[j] \cup X
    /\ \A k \in 1 .. 8 \ {i, j} : Q[k] = P[k]

\* Moving messages from one place to another leaves each in one place.
LEMMA MoveKeepsOnePlace ==
    ASSUME NEW P, NEW Q, NEW X, NEW i \in 1 .. 8, NEW j \in 1 .. 8, i # j,
           NEW m, InOnePlace(P, m), Moved(P, Q, X, i, j)
    PROVE  InOnePlace(Q, m)
<1>1. PICK h \in 1 .. 8 : m \in P[h] /\ \A k \in 1 .. 8 \ {h} : m \notin P[k]
  BY DEF InOnePlace
<1>2. CASE m \in X
  <2>1. h = i
    BY <1>1, <1>2 DEF Moved
  <2>2. m \in Q[j] /\ m \notin Q[i]
    BY <1>2 DEF Moved
  <2>3. ASSUME NEW k \in 1 .. 8 \ {j} PROVE m \notin Q[k]
    BY <1>1, <2>1, <2>2 DEF Moved
  <2> QED BY <2>2, <2>3 DEF InOnePlace
<1>3. CASE m \notin X
  <2>1. \A k \in 1 .. 8 : m \in Q[k] <=> m \in P[k]
    BY <1>3 DEF Moved
  <2> QED BY <1>1, <2>1 DEF InOnePlace
<1> QED BY <1>2, <1>3

\* What the elements of a sequence are after the sequence operations used here,
\* and when a sequence without repetitions stays one.
LEMMA AppendElements ==
    ASSUME NEW S, NEW q \in Seq(S), NEW x \in S
    PROVE  /\ ToSet(Append(q, x)) = ToSet(q) \cup {x}
           /\ IsInjective(q) /\ x \notin ToSet(q) => IsInjective(Append(q, x))
<1> DEFINE r == Append(q, x)
<1>1. /\ DOMAIN r = 1 .. Len(q) + 1
      /\ DOMAIN q = 1 .. Len(q)
      /\ Len(q) \in Nat
      /\ \A i \in 1 .. Len(q) : r[i] = q[i]
      /\ r[Len(q) + 1] = x
  OBVIOUS
<1> HIDE DEF r
<1>2. DOMAIN r = DOMAIN q \cup {Len(q) + 1} /\ Len(q) + 1 \notin DOMAIN q
  BY <1>1
<1>3. ToSet(r) = ToSet(q) \cup {x}
  BY <1>1, <1>2 DEF ToSet
<1>4. IsInjective(q) /\ x \notin ToSet(q) => IsInjective(r)
  BY <1>1, <1>2 DEF ToSet, IsInjective
<1> QED BY <1>3, <1>4 DEF r

LEMMA TailElements ==
    ASSUME NEW S, NEW q \in Seq(S), q # << >>, IsInjective(q)
    PROVE  /\ ToSet(Tail(q)) = ToSet(q) \ {Head(q)}
           /\ Head(q) \in ToSet(q)
           /\ IsInjective(Tail(q))
<1> DEFINE r == Tail(q)
<1>1. /\ DOMAIN r = 1 .. Len(q) - 1
      /\ DOMAIN q = 1 .. Len(q)
      /\ Len(q) \in Nat \ {0}
      /\ \A i \in 1 .. Len(q) - 1 : r[i] = q[i + 1]
      /\ Head(q) = q[1]
  BY HeadTailProperties
<1> HIDE DEF r
<1>2. 1 \in DOMAIN q /\ \A i \in DOMAIN r : i + 1 \in DOMAIN q /\ i + 1 # 1 /\ r[i] = q[i + 1]
  BY <1>1
<1>3. \A i \in DOMAIN q \ {1} : i - 1 \in DOMAIN r /\ r[i - 1] = q[i]
  BY <1>1
<1>4. Head(q) \in ToSet(q)
  BY <1>1, <1>2 DEF ToSet
<1>5. ToSet(r) \subseteq ToSet(q) \ {Head(q)}
  BY <1>1, <1>2 DEF ToSet, IsInjective
<1>6. ToSet(q) \ {Head(q)} \subseteq ToSet(r)
  BY <1>1, <1>3 DEF ToSet
<1>7. IsInjective(r)
  <2> SUFFICES ASSUME NEW a \in DOMAIN r, NEW b \in DOMAIN r, r[a] = r[b] PROVE a = b
    BY DEF IsInjective
  <2>1. a + 1 = b + 1
    BY <1>2 DEF IsInjective
  <2> QED BY <1>1, <2>1
<1> QED BY <1>4, <1>5, <1>6, <1>7 DEF r

LEMMA ConcatElements ==
    ASSUME NEW S, NEW p \in Seq(S), NEW q \in Seq(S)
    PROVE  /\ ToSet(p \o q) = ToSet(p) \cup ToSet(q)
           /\ IsInjective(p) /\ IsInjective(q) /\ ToSet(p) \cap ToSet(q) = {}
                => IsInjective(p \o q)
<1> DEFINE r == p \o q
<1>1. /\ DOMAIN r = 1 .. Len(p) + Len(q)
      /\ DOMAIN p = 1 .. Len(p)
      /\ DOMAIN q = 1 .. Len(q)
      /\ Len(p) \in Nat /\ Len(q) \in Nat
      /\ \A i \in 1 .. Len(p) : r[i] = p[i]
      /\ \A i \in 1 .. Len(q) : r[Len(p) + i] = q[i]
  OBVIOUS
<1> HIDE DEF r
<1>2. \A i \in DOMAIN r \ DOMAIN p : i - Len(p) \in DOMAIN q /\ r[i] = q[i - Len(p)]
  <2> TAKE i \in DOMAIN r \ DOMAIN p
  <2>1. i - Len(p) \in 1 .. Len(q) /\ Len(p) + (i - Len(p)) = i
    BY <1>1
  <2> QED BY <1>1, <2>1
<1>3. \A i \in DOMAIN q : Len(p) + i \in DOMAIN r /\ r[Len(p) + i] = q[i]
  BY <1>1
<1>4. \A i \in DOMAIN p : i \in DOMAIN r /\ r[i] = p[i]
  BY <1>1
<1>5. ToSet(r) = ToSet(p) \cup ToSet(q)
  BY <1>2, <1>3, <1>4 DEF ToSet
<1>6. ASSUME IsInjective(p), IsInjective(q), ToSet(p) \cap ToSet(q) = {} PROVE IsInjective(r)
  <2> SUFFICES ASSUME NEW a \in DOMAIN r, NEW b \in DOMAIN r, r[a] = r[b] PROVE a = b
    BY DEF IsInjective
  <2>1. \A i \in DOMAIN p, j \in DOMAIN q : p[i] # q[j]
    BY <1>6 DEF ToSet
  <2>2. CASE a \in DOMAIN p /\ b \in DOMAIN p
    BY <1>4, <1>6, <2>2 DEF IsInjective
  <2>3. CASE a \notin DOMAIN p /\ b \notin DOMAIN p
    <3>1. a - Len(p) = b - Len(p)
      BY <1>2, <1>6, <2>3 DEF IsInjective
    <3> QED BY <1>1, <3>1
  <2> QED BY <1>2, <1>4, <2>1, <2>2, <2>3
<1> QED BY <1>5, <1>6 DEF r

\* The places by number, before and after a step.
LEMMA PlacesAre ==
    /\ DOMAIN Places = 1 .. 8 /\ DOMAIN Places' = 1 .. 8
    /\ Places[1] = Unsent /\ Places[2] = direct /\ Places[3] = ToSet(buffer)
    /\ Places[4] = ToSet(toFlush) /\ Places[5] = ToSet(published)
    /\ Places[6] = dropped /\ Places[7] = discarded /\ Places[8] = failed
    /\ Places'[1] = Unsent' /\ Places'[2] = direct' /\ Places'[3] = ToSet(buffer')
    /\ Places'[4] = ToSet(toFlush') /\ Places'[5] = ToSet(published')
    /\ Places'[6] = dropped' /\ Places'[7] = discarded' /\ Places'[8] = failed'
  BY DEF Places

NoRepetitions == IsInjective(buffer) /\ IsInjective(toFlush) /\ IsInjective(published)

EachInOnePlace == \A m \in Messages : InOnePlace(Places, m)

ConfirmedKept == \A m \in confirmed : \E i \in 3 .. 7 : m \in Places[i]

LEMMA ConservationParts ==
    /\ Conservation <=> EachInOnePlace /\ NoRepetitions /\ ConfirmedKept
    /\ Conservation' <=> EachInOnePlace' /\ NoRepetitions' /\ ConfirmedKept'
<1>1. DOMAIN Places = 1 .. 8 /\ DOMAIN Places' = 1 .. 8
  BY PlacesAre
<1>2. Conservation <=> EachInOnePlace /\ NoRepetitions /\ ConfirmedKept
  BY <1>1, Zenon DEF Conservation, EachInOnePlace, InOnePlace, NoRepetitions, ConfirmedKept
<1>3. Conservation' <=> EachInOnePlace' /\ NoRepetitions' /\ ConfirmedKept'
  BY <1>1, Zenon DEF Conservation, EachInOnePlace, InOnePlace, NoRepetitions, ConfirmedKept
<1> QED BY <1>2, <1>3

\* A message that is in one place is in no other.
LEMMA OtherPlaces ==
    ASSUME EachInOnePlace, NEW m \in Messages, NEW i \in 1 .. 8, m \in Places[i]
    PROVE  \A j \in 1 .. 8 \ {i} : m \notin Places[j]
  BY DEF EachInOnePlace, InOnePlace

\* A step that moves messages from one place to another conserves them.
LEMMA MoveConserves ==
    ASSUME EachInOnePlace, NEW X, NEW i \in 1 .. 8, NEW j \in 1 .. 8, i # j,
           Moved(Places, Places', X, i, j)
    PROVE  EachInOnePlace'
  BY MoveKeepsOnePlace DEF EachInOnePlace

\* One message of a flush that is done with goes to place j, the published or
\* the dropped ones; the rest stays in the flush or goes back to the buffer.
LEMMA ContinueConserves ==
    ASSUME MessageTypes, EachInOnePlace, NoRepetitions, toFlush # << >>, ContinueFlush,
           UNCHANGED <<sent, direct, discarded, failed>>,
           NEW j \in {5, 6},
           Places'[j] = Places[j] \cup {Head(toFlush)},
           \A k \in {5, 6} \ {j} : Places'[k] = Places[k]
    PROVE  /\ EachInOnePlace'
           /\ IsInjective(buffer') /\ IsInjective(toFlush')
<1> DEFINE x == Head(toFlush)
           rest == Tail(toFlush)
           Q == << Unsent, direct, ToSet(buffer), ToSet(rest), Places'[5], Places'[6], discarded,
                 failed >>
<1>1. /\ toFlush \in Seq(Messages) /\ buffer \in Seq(Messages)
      /\ rest \in Seq(Messages)
  BY DEF MessageTypes
<1>2. /\ ToSet(rest) = ToSet(toFlush) \ {x}
      /\ x \in ToSet(toFlush)
      /\ IsInjective(rest)
  BY <1>1, TailElements DEF NoRepetitions
<1>3. /\ Q[1] = Unsent /\ Q[2] = direct /\ Q[3] = ToSet(buffer) /\ Q[4] = ToSet(rest)
      /\ Q[5] = Places'[5] /\ Q[6] = Places'[6] /\ Q[7] = discarded /\ Q[8] = failed
  OBVIOUS
<1>4. Unsent' = Unsent
  BY DEF Unsent
<1> HIDE DEF Q, rest, x
<1>5. \A k \in 1 .. 8 \ {4, j} : Q[k] = Places[k]
  BY <1>3, PlacesAre
<1>6. Moved(Places, Q, {x}, 4, j)
  BY <1>2, <1>3, <1>5, PlacesAre DEF Moved, x
<1>7. \A m \in Messages : InOnePlace(Q, m)
  BY <1>6, MoveKeepsOnePlace DEF EachInOnePlace
<1>8. \/ toFlush' = rest /\ buffer' = buffer
      \/ toFlush' = << >> /\ buffer' = rest \o buffer
  BY Zenon DEF ContinueFlush, Rebuffer, rest
<1>9. CASE toFlush' = rest /\ buffer' = buffer
  <2>1. \A k \in 1 .. 8 : Places'[k] = Q[k]
    BY <1>3, <1>4, <1>9, PlacesAre
  <2>2. EachInOnePlace'
    BY <1>7, <2>1 DEF EachInOnePlace, InOnePlace
  <2> QED BY <1>2, <1>9, <2>2 DEF NoRepetitions
<1>10. CASE toFlush' = << >> /\ buffer' = rest \o buffer
  <2>1. ToSet(rest \o buffer) = ToSet(rest) \cup ToSet(buffer)
    BY <1>1, ConcatElements
  <2>2. ToSet(rest) \cap ToSet(buffer) = {}
    <3> SUFFICES ASSUME NEW m \in ToSet(rest), m \in ToSet(buffer) PROVE FALSE
      OBVIOUS
    <3>1. m \in Messages
      BY <1>1 DEF ToSet
    <3> QED BY <1>2, <3>1, OtherPlaces, PlacesAre
  <2>3. IsInjective(rest \o buffer)
    BY <1>1, <1>2, <2>2, ConcatElements DEF NoRepetitions
  <2>4. ToSet(<< >>) = {} /\ IsInjective(<< >>)
    BY DEF ToSet, IsInjective
  <2>5. Moved(Q, Places', ToSet(rest), 4, 3)
    BY <1>3, <1>4, <1>10, <2>1, <2>4, PlacesAre DEF Moved
  <2>6. EachInOnePlace'
    BY <1>7, <2>5, MoveKeepsOnePlace DEF EachInOnePlace
  <2> QED BY <1>10, <2>3, <2>4, <2>6
<1> QED BY <1>8, <1>9, <1>10

\* Every step conserves the messages.
LEMMA NextConserves ==
    MessageTypes /\ EachInOnePlace /\ NoRepetitions /\ [Next]_vars
        => EachInOnePlace' /\ NoRepetitions'
<1> SUFFICES ASSUME MessageTypes, EachInOnePlace, NoRepetitions, [Next]_vars
             PROVE  EachInOnePlace' /\ NoRepetitions'
  OBVIOUS
<1> USE BrokerAwareSenderAssumption
<1>0. /\ sent \in 0 .. NumMessages
      /\ buffer \in Seq(Messages) /\ toFlush \in Seq(Messages) /\ published \in Seq(Messages)
  BY DEF MessageTypes
<1>10. sent' = sent => Unsent' = Unsent
  BY Zenon DEF Unsent
<1>1. CASE SendResponse
  <2> DEFINE x == sent + 1
  <2>1. /\ sent < NumMessages /\ sent' = x
        /\ UNCHANGED <<toFlush, published, failed, dropped, discarded>>
    BY <1>1 DEF SendResponse, outcomes
  <2>2. \/ direct' = direct \cup {x} /\ buffer' = buffer
        \/ buffer' = Append(buffer, x) /\ direct' = direct
    BY <1>1, Zenon DEF SendResponse
  <2>3. x \in Messages /\ x \in Unsent
    BY <1>0, <2>1 DEF Messages, Unsent
  <2>4. Unsent' = Unsent \ {x}
    BY <1>0, <2>1 DEF Messages, Unsent
  <2>5. x \notin ToSet(buffer)
    BY <2>3, OtherPlaces, PlacesAre
  <2> HIDE DEF x
  <2>6. CASE direct' = direct \cup {x} /\ buffer' = buffer
    <3>1. Moved(Places, Places', {x}, 1, 2)
      BY <2>1, <2>3, <2>4, <2>6, PlacesAre DEF Moved
    <3> QED BY <2>1, <2>6, <3>1, MoveConserves DEF NoRepetitions
  <2>7. CASE buffer' = Append(buffer, x) /\ direct' = direct
    <3>1. ToSet(buffer') = ToSet(buffer) \cup {x} /\ IsInjective(buffer')
      BY <1>0, <2>3, <2>5, <2>7, AppendElements DEF NoRepetitions
    <3>2. Moved(Places, Places', {x}, 1, 3)
      BY <2>1, <2>3, <2>4, <2>7, <3>1, PlacesAre DEF Moved
    <3> QED BY <2>1, <3>1, <3>2, MoveConserves DEF NoRepetitions
  <2> QED BY <2>2, <2>6, <2>7
<1>2. ASSUME NEW m \in Messages, PublishDirect(m)
      PROVE  EachInOnePlace' /\ NoRepetitions'
  <2>1. /\ m \in direct /\ direct' = direct \ {m} /\ published' = Append(published, m)
        /\ UNCHANGED <<sent, buffer, toFlush, failed, dropped, discarded>>
    BY <1>2 DEF PublishDirect, outcomes
  <2>2. m \notin ToSet(published)
    BY <2>1, OtherPlaces, PlacesAre
  <2>3. ToSet(published') = ToSet(published) \cup {m} /\ IsInjective(published')
    BY <1>0, <2>1, <2>2, AppendElements DEF NoRepetitions
  <2>4. Moved(Places, Places', {m}, 2, 5)
    BY <1>10, <2>1, <2>3, PlacesAre DEF Moved
  <2> QED BY <2>1, <2>3, <2>4, MoveConserves DEF NoRepetitions
<1>3. ASSUME NEW m \in Messages, FailDirect(m)
      PROVE  EachInOnePlace' /\ NoRepetitions'
  <2>1. /\ m \in direct /\ direct' = direct \ {m} /\ failed' = failed \cup {m}
        /\ UNCHANGED <<sent, buffer, toFlush, published, dropped, discarded>>
    BY <1>3 DEF FailDirect
  <2>2. Moved(Places, Places', {m}, 2, 8)
    BY <1>10, <2>1, PlacesAre DEF Moved
  <2> QED BY <2>1, <2>2, MoveConserves DEF NoRepetitions
<1>4. CASE FlushPublish
  <2> DEFINE x == Head(toFlush)
  <2>1. /\ toFlush # << >> /\ ContinueFlush /\ published' = Append(published, x)
        /\ UNCHANGED <<sent, direct, failed, dropped, discarded>>
    BY <1>4 DEF FlushPublish, outcomes
  <2>2. x \in Messages /\ x \in ToSet(toFlush)
    BY <1>0, <2>1, TailElements DEF NoRepetitions
  <2>3. x \notin ToSet(published)
    BY <2>2, OtherPlaces, PlacesAre
  <2>4. ToSet(published') = ToSet(published) \cup {x} /\ IsInjective(published')
    BY <1>0, <2>1, <2>2, <2>3, AppendElements DEF NoRepetitions
  <2>5. EachInOnePlace' /\ IsInjective(buffer') /\ IsInjective(toFlush')
    BY <2>1, <2>4, PlacesAre, ContinueConserves
  <2> QED BY <2>4, <2>5 DEF NoRepetitions
<1>5. CASE FlushFail
  <2>1. /\ toFlush # << >> /\ ContinueFlush /\ dropped' = dropped \cup {Head(toFlush)}
        /\ UNCHANGED <<sent, direct, published, failed, discarded>>
    BY <1>5 DEF FlushFail
  <2>2. EachInOnePlace' /\ IsInjective(buffer') /\ IsInjective(toFlush')
    BY <2>1, PlacesAre, ContinueConserves
  <2> QED BY <2>1, <2>2 DEF NoRepetitions
<1>6. ToSet(<< >>) = {} /\ IsInjective(<< >>)
  BY DEF ToSet, IsInjective
<1>7. CASE Connected
  <2>1. /\ toFlush = << >> /\ toFlush' = buffer /\ buffer' = << >>
        /\ UNCHANGED <<sent, direct, published, failed, dropped, discarded>>
    BY <1>7 DEF Connected, outcomes
  <2>2. Moved(Places, Places', ToSet(buffer), 3, 4)
    BY <1>6, <1>10, <2>1, PlacesAre DEF Moved
  <2> QED BY <1>6, <2>1, <2>2, MoveConserves DEF NoRepetitions
<1>8. CASE Shutdown
  <2>1. /\ buffer' = << >> /\ discarded' = discarded \cup ToSet(buffer)
        /\ UNCHANGED <<sent, toFlush, direct, published, failed, dropped>>
    BY <1>8 DEF Shutdown
  <2>2. Moved(Places, Places', ToSet(buffer), 3, 7)
    BY <1>6, <1>10, <2>1, PlacesAre DEF Moved
  <2> QED BY <1>6, <2>1, <2>2, MoveConserves DEF NoRepetitions
<1>9. ASSUME UNCHANGED messages PROVE EachInOnePlace' /\ NoRepetitions'
  <2>1. \A k \in 1 .. 8 : Places'[k] = Places[k]
    BY <1>9, <1>10, PlacesAre DEF messages, outcomes
  <2> QED BY <1>9, <2>1 DEF messages, EachInOnePlace, InOnePlace, NoRepetitions
<1> QED
  BY <1>1, <1>2, <1>3, <1>4, <1>5, <1>7, <1>8, <1>9
  DEF Next, Disconnected, StationCall, CallTimeout, StationConnects, StationDrops, vars

\* What is in the places 3 to 7 stays there, and what is confirmed is put there.
LEMMA NextConfirmed ==
    MessageTypes /\ NoRepetitions /\ ConfirmedKept /\ [Next]_vars => ConfirmedKept'
<1> DEFINE kept == ToSet(buffer) \cup ToSet(toFlush) \cup ToSet(published)
                     \cup dropped \cup discarded
<1>1. /\ ConfirmedKept <=> confirmed \subseteq kept
      /\ ConfirmedKept' <=> confirmed' \subseteq kept'
  <2>1. 3 .. 7 = {3, 4, 5, 6, 7}
    OBVIOUS
  <2> QED BY <2>1, PlacesAre, Zenon DEF ConfirmedKept
<1> SUFFICES ASSUME MessageTypes, NoRepetitions, confirmed \subseteq kept, [Next]_vars
             PROVE  confirmed' \subseteq kept'
  BY <1>1
<1>0. /\ sent \in 0 .. NumMessages /\ NumMessages \in Nat
      /\ buffer \in Seq(Messages) /\ toFlush \in Seq(Messages) /\ published \in Seq(Messages)
  BY BrokerAwareSenderAssumption DEF MessageTypes
<1>2. CASE SendResponse
  <2>1. sent + 1 \in Messages
    BY <1>0, <1>2 DEF SendResponse, Messages
  <2>2. ToSet(Append(buffer, sent + 1)) = ToSet(buffer) \cup {sent + 1}
    BY <1>0, <2>1, AppendElements
  <2>3. \/ confirmed' = confirmed /\ buffer' = buffer
        \/ confirmed' = confirmed \cup {sent + 1} /\ buffer' = Append(buffer, sent + 1)
    BY <1>2, Zenon DEF SendResponse
  <2>4. UNCHANGED <<toFlush, published, dropped, discarded>>
    BY <1>2, Zenon DEF SendResponse, outcomes
  <2> QED BY <2>2, <2>3, <2>4
<1>3. ASSUME NEW m \in Messages, PublishDirect(m) \/ FailDirect(m)
      PROVE  confirmed' \subseteq kept'
  <2>1. ToSet(Append(published, m)) = ToSet(published) \cup {m}
    BY <1>0, AppendElements
  <2>2. /\ published' \in {published, Append(published, m)}
        /\ UNCHANGED <<buffer, toFlush, confirmed, dropped, discarded>>
    BY <1>3, Zenon DEF PublishDirect, FailDirect, outcomes
  <2> QED BY <2>1, <2>2
<1>4. CASE FlushPublish \/ FlushFail
  <2> DEFINE x == Head(toFlush)
             rest == Tail(toFlush)
  <2>1. toFlush # << >> /\ ContinueFlush /\ UNCHANGED <<confirmed, discarded>>
    BY <1>4, Zenon DEF FlushPublish, FlushFail, outcomes
  <2>2. /\ ToSet(toFlush) = ToSet(rest) \cup {x} /\ x \in Messages
        /\ rest \in Seq(Messages)
    <3>1. ToSet(rest) = ToSet(toFlush) \ {x} /\ x \in ToSet(toFlush)
      BY <1>0, <2>1, TailElements DEF NoRepetitions
    <3>2. x \in Messages /\ rest \in Seq(Messages)
      BY <1>0, <2>1
    <3> QED BY <3>1, <3>2
  <2>3. \/ toFlush' = rest /\ buffer' = buffer
        \/ toFlush' = << >> /\ buffer' = rest \o buffer
    BY <2>1, Zenon DEF ContinueFlush, Rebuffer
  <2>4. ToSet(rest \o buffer) = ToSet(rest) \cup ToSet(buffer)
    <3>1. rest \in Seq(Messages) /\ buffer \in Seq(Messages)
      BY <1>0, <2>2
    <3> HIDE DEF rest
    <3> QED BY <3>1, ConcatElements
  <2>5. ToSet(Append(published, x)) = ToSet(published) \cup {x}
    BY <1>0, <2>2, AppendElements
  <2>6. \/ published' = Append(published, x) /\ dropped' = dropped
        \/ published' = published /\ dropped' = dropped \cup {x}
    BY <1>4, Zenon DEF FlushPublish, FlushFail, outcomes
  <2>7. x \in ToSet(published') \cup dropped'
    BY <2>5, <2>6
  <2>8. ToSet(published) \subseteq ToSet(published') /\ dropped \subseteq dropped'
    BY <2>5, <2>6
  <2>9. ToSet(rest) \cup ToSet(buffer) \subseteq ToSet(toFlush') \cup ToSet(buffer')
    BY <2>3, <2>4
  <2>10. ASSUME NEW m \in confirmed'
         PROVE  m \in kept'
    <3>1. m \in kept
      BY <2>1
    <3>2. \/ m \in ToSet(rest) \cup ToSet(buffer)
          \/ m = x
          \/ m \in ToSet(published) \cup dropped \cup discarded
      BY <2>2, <3>1
    <3>3. \/ m \in ToSet(toFlush') \cup ToSet(buffer')
          \/ m \in ToSet(published') \cup dropped'
          \/ m \in discarded'
      BY <2>1, <2>7, <2>8, <2>9, <3>2
    <3> QED BY <3>3
  <2> QED BY <2>10
<1>5. CASE Connected
  <2>1. /\ toFlush = << >> /\ toFlush' = buffer
        /\ UNCHANGED <<published, confirmed, dropped, discarded>>
    BY <1>5 DEF Connected, outcomes
  <2>2. ToSet(<< >>) = {}
    BY DEF ToSet
  <2> QED BY <2>1, <2>2
<1>6. CASE Shutdown
  BY <1>6 DEF Shutdown
<1>7. ASSUME UNCHANGED messages PROVE confirmed' \subseteq kept'
  BY <1>7 DEF messages, outcomes
<1> QED
  BY <1>2, <1>3, <1>4, <1>5, <1>6, <1>7
  DEF Next, Disconnected, StationCall, CallTimeout, StationConnects, StationDrops, vars

\* For any numbers of messages, stations and outages: each message handed to
\* send() is in exactly one place, once, and one that was confirmed waits, was
\* published, or was dropped by a failed replay or discarded by shutdown().
THEOREM MessagesConserved == Spec => []Conservation
<1> DEFINE Inv == MessageTypes /\ EachInOnePlace /\ NoRepetitions /\ ConfirmedKept
<1>1. Init => Inv
  <2> SUFFICES ASSUME Init PROVE Inv
    OBVIOUS
  <2>1. MessageTypes
    BY BrokerAwareSenderAssumption DEF Init, MessageTypes
  <2>2. /\ ToSet(<< >>) = {} /\ IsInjective(<< >>)
        /\ Unsent = Messages
    BY BrokerAwareSenderAssumption DEF Init, ToSet, IsInjective, Unsent, Messages
  <2>3. /\ Places[1] = Messages
        /\ \A k \in 2 .. 8 : Places[k] = {}
    BY <2>2, PlacesAre DEF Init
  <2>4. ConfirmedKept
    BY DEF Init, ConfirmedKept
  <2> QED BY <2>1, <2>2, <2>3, <2>4 DEF Init, EachInOnePlace, InOnePlace, NoRepetitions
<1>2. Inv /\ [Next]_vars => Inv'
  BY NextMessageTypes, NextConserves, NextConfirmed
<1>3. Inv => Conservation
  BY ConservationParts
<1> QED BY <1>1, <1>2, <1>3, PTL DEF Spec

\* For any numbers of messages and outages, a replay that fails costs the one
\* message it was about.
THEOREM FailedReplays == Spec => FailedReplayCostsOne
<1>1. Init => MessageTypes
  BY BrokerAwareSenderAssumption DEF Init, MessageTypes
<1>2. MessageTypes /\ [Next]_vars
        => [dropped' # dropped => toFlush' \o buffer' = Tail(toFlush) \o buffer]_vars
  <2> SUFFICES ASSUME MessageTypes, [Next]_vars, dropped' # dropped
               PROVE  toFlush' \o buffer' = Tail(toFlush) \o buffer
    OBVIOUS
  <2>1. FlushFail
    BY Zenon DEF Next, SendResponse, PublishDirect, FailDirect, FlushPublish, Connected, Disconnected,
       StationCall, CallTimeout, StationConnects, StationDrops, Shutdown, vars, messages, outcomes
  <2>2. \/ toFlush' = Tail(toFlush) /\ buffer' = buffer
        \/ toFlush' = << >> /\ buffer' = Tail(toFlush) \o buffer
    BY <2>1, Zenon DEF FlushFail, ContinueFlush, Rebuffer
  <2>3. Tail(toFlush) \o buffer \in Seq(Messages)
    BY <2>1 DEF FlushFail, MessageTypes
  <2>4. << >> \o (Tail(toFlush) \o buffer) = Tail(toFlush) \o buffer
    BY <2>3
  <2> QED BY <2>2, <2>4, Zenon
<1> QED BY <1>1, <1>2, NextMessageTypes, PTL DEF Spec, FailedReplayCostsOne

-----------------------------------------------------------------------------
(* Swallowed Calls *)

\* A websocket in use on which a Call was swallowed has a timer that will close
\* it: neither a reconnect of the broker, nor a timer started for an earlier
\* websocket of the station, nor the station's coming and going takes it away.
\* With this, SwallowedCallEndsConnection needs only that timers fire.
SwallowedHasTimer ==
    running => \A s \in Stations : ws[s] \in swallowed[s] => s \in callTimeouts

\* Websockets are numbered in the order of opening, so that a new one is none on
\* which a Call was swallowed before.
Numbered ==
    \A s \in Stations : ws[s] <= opened[s] /\ swallowed[s] \subseteq 1 .. opened[s]

\* Every step leaves the timers where they are needed.
LEMMA NextTimers ==
    CallTypes /\ Numbered /\ SwallowedHasTimer /\ [Next]_vars
        => Numbered' /\ SwallowedHasTimer'
<1> SUFFICES ASSUME CallTypes, Numbered, SwallowedHasTimer, [Next]_vars
             PROVE  Numbered' /\ SwallowedHasTimer'
  OBVIOUS
<1> USE BrokerAwareSenderAssumption DEF CallTypes, Numbered, SwallowedHasTimer
<1>1. ASSUME NEW s \in Stations, StationCall(s) PROVE Numbered' /\ SwallowedHasTimer'
  BY <1>1 DEF StationCall
<1>2. ASSUME NEW s \in Stations, CallTimeout(s) \/ StationDrops(s)
      PROVE  Numbered' /\ SwallowedHasTimer'
  BY <1>2 DEF CallTimeout, StationDrops
<1>3. ASSUME NEW s \in Stations, StationConnects(s) PROVE Numbered' /\ SwallowedHasTimer'
  BY <1>3 DEF StationConnects
<1>4. CASE Shutdown
  BY <1>4 DEF Shutdown
<1>5. ASSUME UNCHANGED <<calls, running>> PROVE Numbered' /\ SwallowedHasTimer'
  BY <1>5 DEF calls
<1> QED
  BY <1>1, <1>2, <1>3, <1>4, <1>5
  DEF Next, SendResponse, PublishDirect, FailDirect, FlushPublish, FlushFail, Connected,
      Disconnected, vars

\* A websocket on which a Call was swallowed keeps its timer until it is gone,
\* for any numbers of stations, websockets and outages.
THEOREM SwallowedTimed == Spec => []SwallowedHasTimer
<1>1. Init => CallTypes /\ Numbered /\ SwallowedHasTimer
  BY BrokerAwareSenderAssumption DEF Init, CallTypes, Numbered, SwallowedHasTimer
<1> QED BY <1>1, NextCallTypes, NextTimers, PTL DEF Spec
=============================================================================
