------------------------- MODULE OcpiCommandsProofs -------------------------
(***************************************************************************)
(* Proofs about OcpiCommands.  The result of a command is decided by two   *)
(* marks that are kept apart, the cache entry and the wait.  The inductive *)
(* invariant says what either still promises: while a command waits, or    *)
(* its entry holds the URL, no result was posted.                          *)
(***************************************************************************)
EXTENDS OcpiCommands, TLAPS

\* While the wait lasts, nothing was posted.
WaitIsOpen == \A c \in Commands : watcher[c] = "waiting" => posted[c] = <<>>

\* While the entry holds the URL, nothing was posted.
UrlIsOpen == \A c \in Commands : entry[c] = "url" => posted[c] = <<>>

\* Nothing is posted for a command before its request is prepared.
NotYetPosted == \A c \in Commands : at[c] \in {"new", "accepted"} => posted[c] = <<>>

\* The wait begins after the URL was stored.
WaitBegins == \A c \in Commands : watcher[c] = "waiting" => at[c] \notin {"new", "accepted"}

\* A callback reads the entry only after the request was sent.
CallbackAfterSend ==
    \A k \in Callbacks : callback[k] = "read" => at[CommandOf[k]] \in {"sent", "done"}

\* A callback that holds the URL read it before any result.
HoldersAreEarly ==
    \A k \in Callbacks : callback[k] = "read" /\ url[k] = "url" => k \in early

\* A request ends once.
RequestsEndOnce == \A c \in Commands : delivered[c] + lost[c] <= Len(posted[c])

IInv ==
    /\ TypeOK
    /\ RequestsEndOnce
    /\ WaitIsOpen
    /\ UrlIsOpen
    /\ NotYetPosted
    /\ WaitBegins
    /\ CallbackAfterSend
    /\ HoldersAreEarly
    /\ TimeoutIsFirst

\* The steps of the execution of a command that post nothing and leave the
\* entry alone.
Quiet(c) == Refuse(c) \/ Prepare(c) \/ Send(c) \/ SendSucceeds(c)

\* A result keeps the invariant: FAILED and ANSWER anywhere in the sequence,
\* TIMEOUT only as the first.
LEMMA PostKeepsResults ==
    ASSUME TypeOK, RequestsEndOnce, WaitIsOpen, UrlIsOpen, TimeoutIsFirst, UNCHANGED requests,
           NEW c \in Commands, NEW result \in Results,
           result = "TIMEOUT" => posted[c] = <<>>,
           PostCommandResult(c, result)
    PROVE  /\ entry' \in [Commands -> {"none", "url", "resolved"}]
           /\ watcher' \in [Commands -> {"none", "waiting", "settled"}]
           /\ posted' \in [Commands -> Seq(Results)]
           /\ \A d \in Commands \ {c} : posted'[d] = posted[d]
           /\ \A d \in Commands : watcher'[d] = "waiting" => watcher[d] = "waiting"
           /\ RequestsEndOnce'
           /\ WaitIsOpen'
           /\ UrlIsOpen'
           /\ TimeoutIsFirst'
  <1>1. /\ entry' \in [Commands -> {"none", "url", "resolved"}]
        /\ watcher' \in [Commands -> {"none", "waiting", "settled"}]
        /\ \A d \in Commands : watcher'[d] = "waiting" => watcher[d] = "waiting"
    BY DEF TypeOK, PostCommandResult
  <1>2. /\ posted[c] \in Seq(Results)
        /\ Append(posted[c], result) \in Seq(Results)
    BY DEF TypeOK
  <1>3. posted' \in [Commands -> Seq(Results)]
    BY <1>2 DEF TypeOK, PostCommandResult
  <1>4. /\ \A d \in Commands \ {c} : posted'[d] = posted[d]
        /\ posted'[c] = Append(posted[c], result)
    BY DEF TypeOK, PostCommandResult
  <1>5. WaitIsOpen'
    BY <1>4 DEF WaitIsOpen, PostCommandResult, TypeOK
  <1>6. UrlIsOpen'
    BY <1>4 DEF UrlIsOpen, PostCommandResult, TypeOK
  <1>7. TimeoutIsFirst'
    <2>1. ASSUME NEW i \in DOMAIN posted'[c], posted'[c][i] = "TIMEOUT"
          PROVE  i = 1
      <3>1. CASE result = "TIMEOUT"
        BY <1>2, <1>4, <2>1, <3>1
      <3>2. CASE result # "TIMEOUT"
        BY <1>2, <1>4, <2>1, <3>2 DEF TimeoutIsFirst
      <3> QED BY <3>1, <3>2
    <2> QED BY <1>4, <2>1 DEF TimeoutIsFirst
  <1>8. RequestsEndOnce'
    <2>1. Len(Append(posted[c], result)) = Len(posted[c]) + 1
      BY <1>2
    <2>2. /\ Len(posted[c]) \in Nat
          /\ delivered[c] \in Nat /\ lost[c] \in Nat
      BY <1>2 DEF TypeOK
    <2>3. delivered' = delivered /\ lost' = lost
      BY DEF requests
    <2>4. delivered[c] + lost[c] <= Len(posted'[c])
      BY <1>4, <2>1, <2>2 DEF RequestsEndOnce
    <2> QED BY <1>4, <2>3, <2>4 DEF RequestsEndOnce
  <1> QED BY <1>1, <1>3, <1>4, <1>5, <1>6, <1>7, <1>8

\* The invariant holds in the initial states.
LEMMA InitIInv == Init => IInv
  <1> SUFFICES ASSUME Init PROVE IInv
    OBVIOUS
  <1>0. << >> \in Seq(Results)
    OBVIOUS
  <1>1. TypeOK
    BY <1>0 DEF Init, TypeOK
  <1> QED
    BY <1>1 DEF Init, IInv, WaitIsOpen, UrlIsOpen, NotYetPosted, WaitBegins, CallbackAfterSend,
                HoldersAreEarly, TimeoutIsFirst, RequestsEndOnce

\* Every step keeps the invariant.
LEMMA NextIInv == IInv /\ [Next]_vars => IInv'
  <1> SUFFICES ASSUME IInv, [Next]_vars PROVE IInv'
    OBVIOUS
  <1> USE OcpiCommandsAssumption
  <1>1. ASSUME NEW c \in Commands, Quiet(c)
        PROVE  IInv'
    <2>1. UNCHANGED <<entry, watcher, callback, url, posted, delivered, lost, early>>
      BY <1>1 DEF requests, Quiet, Refuse, Prepare, Send, SendSucceeds
    <2>2. PICK next \in {"refused", "send", "sent", "done"} :
              /\ at' = [at EXCEPT ![c] = next]
              /\ at[c] = "sent" => next = "done"
              /\ at[c] # "done"
      BY <1>1 DEF Quiet, Refuse, Prepare, Send, SendSucceeds
    <2>3. TypeOK'
      BY <2>1, <2>2 DEF IInv, TypeOK
    <2>4. RequestsEndOnce' /\ WaitIsOpen' /\ UrlIsOpen' /\ HoldersAreEarly' /\ TimeoutIsFirst'
      BY <2>1 DEF IInv, RequestsEndOnce, WaitIsOpen, UrlIsOpen, HoldersAreEarly, TimeoutIsFirst
    <2>5. NotYetPosted' /\ WaitBegins' /\ CallbackAfterSend'
      BY <2>1, <2>2 DEF IInv, TypeOK, NotYetPosted, WaitBegins, CallbackAfterSend
    <2> QED BY <2>3, <2>4, <2>5 DEF IInv
  <1>2. ASSUME NEW c \in Commands, Accept(c)
        PROVE  IInv'
    BY <1>2 DEF Accept, requests, IInv, TypeOK, RequestsEndOnce, WaitIsOpen, UrlIsOpen, NotYetPosted,
                WaitBegins, CallbackAfterSend, HoldersAreEarly, TimeoutIsFirst
  <1>3. ASSUME NEW c \in Commands, Watch(c)
        PROVE  IInv'
    BY <1>3 DEF Watch, requests, IInv, TypeOK, RequestsEndOnce, WaitIsOpen, UrlIsOpen, NotYetPosted,
                WaitBegins, CallbackAfterSend, HoldersAreEarly, TimeoutIsFirst
  <1>4. ASSUME NEW c \in Commands, EntryExpires(c)
        PROVE  IInv'
    BY <1>4 DEF EntryExpires, requests, IInv, TypeOK, RequestsEndOnce, WaitIsOpen, UrlIsOpen, NotYetPosted,
                WaitBegins, CallbackAfterSend, HoldersAreEarly, TimeoutIsFirst
  <1>5. ASSUME NEW c \in Commands, CannotSend(c) \/ SendFails(c)
        PROVE  IInv'
    <2>1. PostCommandResult(c, "FAILED") /\ "FAILED" \in Results /\ UNCHANGED requests
      BY <1>5 DEF CannotSend, SendFails, Results
    <2>2. /\ entry' \in [Commands -> {"none", "url", "resolved"}]
          /\ watcher' \in [Commands -> {"none", "waiting", "settled"}]
          /\ posted' \in [Commands -> Seq(Results)]
          /\ \A d \in Commands \ {c} : posted'[d] = posted[d]
          /\ \A d \in Commands : watcher'[d] = "waiting" => watcher[d] = "waiting"
          /\ RequestsEndOnce' /\ WaitIsOpen' /\ UrlIsOpen' /\ TimeoutIsFirst'
      BY <2>1, PostKeepsResults DEF IInv
    <2>3. /\ UNCHANGED <<callback, url, early>>
          /\ at' = [at EXCEPT ![c] = "done"]
      BY <1>5 DEF CannotSend, SendFails
    <2>4. TypeOK'
      BY <2>1, <2>2, <2>3 DEF IInv, TypeOK, requests
    <2>5. NotYetPosted' /\ WaitBegins' /\ CallbackAfterSend' /\ HoldersAreEarly'
      BY <2>2, <2>3 DEF IInv, TypeOK, NotYetPosted, WaitBegins, CallbackAfterSend, HoldersAreEarly
    <2> QED BY <2>2, <2>4, <2>5 DEF IInv
  <1>6. ASSUME NEW c \in Commands, WatchTimesOut(c)
        PROVE  IInv'
    <2>1. /\ PostCommandResult(c, "TIMEOUT") /\ "TIMEOUT" \in Results
          /\ posted[c] = <<>> /\ UNCHANGED requests
      BY <1>6 DEF WatchTimesOut, Results, IInv, WaitIsOpen
    <2>2. /\ entry' \in [Commands -> {"none", "url", "resolved"}]
          /\ watcher' \in [Commands -> {"none", "waiting", "settled"}]
          /\ posted' \in [Commands -> Seq(Results)]
          /\ \A d \in Commands \ {c} : posted'[d] = posted[d]
          /\ \A d \in Commands : watcher'[d] = "waiting" => watcher[d] = "waiting"
          /\ RequestsEndOnce' /\ WaitIsOpen' /\ UrlIsOpen' /\ TimeoutIsFirst'
      BY <2>1, PostKeepsResults DEF IInv
    <2>3. UNCHANGED <<at, callback, url, early>>
      BY <1>6 DEF WatchTimesOut
    <2>4. at[c] \notin {"new", "accepted"}
      BY <1>6 DEF WatchTimesOut, IInv, WaitBegins
    <2>5. TypeOK'
      BY <2>1, <2>2, <2>3 DEF IInv, TypeOK, requests
    <2>6. NotYetPosted' /\ WaitBegins' /\ CallbackAfterSend' /\ HoldersAreEarly'
      BY <2>2, <2>3, <2>4 DEF IInv, TypeOK, NotYetPosted, WaitBegins, CallbackAfterSend, HoldersAreEarly
    <2> QED BY <2>2, <2>5, <2>6 DEF IInv
  <1>7. ASSUME NEW k \in Callbacks, CallbackReads(k)
        PROVE  IInv'
    BY <1>7 DEF CallbackReads, requests, IInv, TypeOK, RequestsEndOnce, WaitIsOpen, UrlIsOpen, NotYetPosted, WaitBegins,
                CallbackAfterSend, HoldersAreEarly, TimeoutIsFirst
  <1>8. ASSUME NEW k \in Callbacks, CallbackGivesUp(k)
        PROVE  IInv'
    BY <1>8 DEF CallbackGivesUp, requests, IInv, TypeOK, RequestsEndOnce, WaitIsOpen, UrlIsOpen, NotYetPosted, WaitBegins,
                CallbackAfterSend, HoldersAreEarly, TimeoutIsFirst
  <1>9. ASSUME NEW k \in Callbacks, CallbackPosts(k)
        PROVE  IInv'
    <2> DEFINE c == CommandOf[k]
    <2>1. /\ c \in Commands
          /\ PostCommandResult(c, "ANSWER") /\ "ANSWER" \in Results /\ UNCHANGED requests
      BY <1>9 DEF CallbackPosts, Results
    <2>2. /\ entry' \in [Commands -> {"none", "url", "resolved"}]
          /\ watcher' \in [Commands -> {"none", "waiting", "settled"}]
          /\ posted' \in [Commands -> Seq(Results)]
          /\ \A d \in Commands \ {c} : posted'[d] = posted[d]
          /\ \A d \in Commands : watcher'[d] = "waiting" => watcher[d] = "waiting"
          /\ RequestsEndOnce' /\ WaitIsOpen' /\ UrlIsOpen' /\ TimeoutIsFirst'
      BY <2>1, PostKeepsResults DEF IInv
    <2>3. /\ UNCHANGED <<at, url, early>>
          /\ callback' = [callback EXCEPT ![k] = "done"]
      BY <1>9 DEF CallbackPosts
    <2>4. at[c] \notin {"new", "accepted"}
      BY <1>9 DEF CallbackPosts, IInv, CallbackAfterSend
    <2>5. TypeOK'
      BY <2>1, <2>2, <2>3 DEF IInv, TypeOK, requests
    <2>6. NotYetPosted' /\ WaitBegins' /\ CallbackAfterSend' /\ HoldersAreEarly'
      BY <2>2, <2>3, <2>4 DEF IInv, TypeOK, NotYetPosted, WaitBegins, CallbackAfterSend, HoldersAreEarly
    <2> QED BY <2>1, <2>2, <2>5, <2>6 DEF IInv
  <1>10. ASSUME NEW k \in Callbacks, CallbackPostsNowhere(k)
         PROVE  IInv'
    BY <1>10 DEF CallbackPostsNowhere, requests, IInv, TypeOK, RequestsEndOnce, WaitIsOpen, UrlIsOpen, NotYetPosted,
                 WaitBegins, CallbackAfterSend, HoldersAreEarly, TimeoutIsFirst
  <1>12. ASSUME NEW c \in Commands, Request(c)
         PROVE  IInv'
    <2>1. UNCHANGED <<at, entry, watcher, callback, url, posted, early>>
      BY <1>12 DEF Request, RequestSucceeds, RequestFails
    <2>2. /\ delivered[c] \in Nat /\ lost[c] \in Nat /\ Len(posted[c]) \in Nat
          /\ delivered \in [Commands -> Nat] /\ lost \in [Commands -> Nat]
      BY DEF IInv, TypeOK
    <2>3. /\ Len(posted[c]) - delivered[c] - lost[c] > 0
          /\ \/ delivered' = [delivered EXCEPT ![c] = @ + 1] /\ lost' = lost
             \/ lost' = [lost EXCEPT ![c] = @ + 1] /\ delivered' = delivered
      BY <1>12 DEF Request, RequestSucceeds, RequestFails, Open
    <2>4. TypeOK'
      <3>1. delivered[c] + 1 \in Nat /\ lost[c] + 1 \in Nat
        BY <2>2
      <3>2. delivered' \in [Commands -> Nat] /\ lost' \in [Commands -> Nat]
        <4>1. CASE delivered' = [delivered EXCEPT ![c] = @ + 1] /\ lost' = lost
          BY <2>2, <3>1, <4>1
        <4>2. CASE lost' = [lost EXCEPT ![c] = @ + 1] /\ delivered' = delivered
          BY <2>2, <3>1, <4>2
        <4> QED BY <2>3, <4>1, <4>2
      <3> QED BY <2>1, <3>2 DEF IInv, TypeOK
    <2>5. RequestsEndOnce'
      <3>1. delivered'[c] + lost'[c] <= Len(posted[c])
        BY <2>2, <2>3
      <3>2. \A d \in Commands \ {c} : delivered'[d] = delivered[d] /\ lost'[d] = lost[d]
        BY <2>2, <2>3
      <3> QED BY <2>1, <3>1, <3>2 DEF IInv, RequestsEndOnce
    <2> QED BY <2>1, <2>4, <2>5 DEF IInv, WaitIsOpen, UrlIsOpen, NotYetPosted, WaitBegins,
                              CallbackAfterSend, HoldersAreEarly, TimeoutIsFirst
  <1>11. CASE UNCHANGED vars
    BY <1>11 DEF vars, requests, IInv, TypeOK, RequestsEndOnce, WaitIsOpen, UrlIsOpen, NotYetPosted, WaitBegins,
                 CallbackAfterSend, HoldersAreEarly, TimeoutIsFirst
  <1> QED
    BY <1>1, <1>2, <1>3, <1>4, <1>5, <1>6, <1>7, <1>8, <1>9, <1>10, <1>11, <1>12
    DEF Next, Execute, Callback, Quiet

\* The inductive invariant holds of every behaviour.
LEMMA IInvAlways == Spec => []IInv
  <1> QED BY InitIInv, NextIInv, PTL DEF Spec

\* The types of the state of commands and callbacks.
THEOREM CommandTypes == Spec => []TypeOK
  <1>1. IInv => TypeOK
    BY DEF IInv
  <1> QED BY <1>1, IInvAlways, PTL

\* For any commands and callbacks: TIMEOUT is the first result or none.
THEOREM TimeoutComesFirst == Spec => []TimeoutIsFirst
  <1>1. IInv => TimeoutIsFirst
    BY DEF IInv
  <1> QED BY <1>1, IInvAlways, PTL

\* For any commands and callbacks: after a result, no callback gets hold of the
\* partner's URL.
THEOREM LateCallbacksHaveNoUrl == Spec => []LateCallbackHasNoUrl
  <1>1. IInv => LateCallbackHasNoUrl
    BY DEF IInv, HoldersAreEarly, LateCallbackHasNoUrl, Holders
  <1> QED BY <1>1, IInvAlways, PTL

-----------------------------------------------------------------------------
(* Somebody will post a result *)

\* A command whose execution has begun has a request with a result, or its wait
\* is on and will make one: nothing, not even a callback that takes the mark
\* 'resolved' for a URL, ends the wait without a request.
RequestUnderWay ==
    \A c \in Commands :
        at[c] \notin {"new", "refused", "accepted"} => posted[c] # <<>> \/ watcher[c] = "waiting"

\* What that means for the partner: it was told a result, it will be if the
\* requests still open or the one the wait will make succeed, or a request to it
\* failed.  With this, AcceptedGetsResult needs only that the execution begins,
\* that the time-out fires and that requests end.
ResultUnderWay ==
    \A c \in Commands :
        at[c] \notin {"new", "refused", "accepted"} =>
            delivered[c] > 0 \/ lost[c] > 0 \/ Open(c) > 0 \/ watcher[c] = "waiting"

\* The mark 'resolved', in the cache or in the hand of a callback, stands for a
\* result.
MarkMeansResult ==
    /\ \A c \in Commands : entry[c] = "resolved" => posted[c] # <<>>
    /\ \A k \in Callbacks : url[k] = "resolved" => posted[CommandOf[k]] # <<>>

\* A result that is posted is a result.
LEMMA PostIsResult ==
    ASSUME TypeOK, MarkMeansResult, RequestUnderWay,
           NEW c \in Commands, NEW result \in Results, PostCommandResult(c, result)
    PROVE  /\ posted'[c] # <<>>
           /\ \A d \in Commands : posted[d] # <<>> => posted'[d] # <<>>
           /\ \A d \in Commands : entry'[d] = "resolved" => posted'[d] # <<>>
           /\ \A d \in Commands \ {c} : watcher'[d] = watcher[d]
<1>1. posted[c] \in Seq(Results)
  BY DEF TypeOK
<1>2. Append(posted[c], result) # <<>>
  BY <1>1
<1>3. /\ posted'[c] = Append(posted[c], result)
      /\ \A d \in Commands \ {c} : /\ posted'[d] = posted[d]
                                   /\ watcher'[d] = watcher[d]
                                   /\ entry'[d] = entry[d]
  BY DEF TypeOK, PostCommandResult
<1> QED BY <1>2, <1>3 DEF MarkMeansResult

\* Every step keeps a result under way.
LEMMA NextResult ==
    IInv /\ MarkMeansResult /\ RequestUnderWay /\ [Next]_vars
        => MarkMeansResult' /\ RequestUnderWay'
<1> SUFFICES ASSUME TypeOK, MarkMeansResult, RequestUnderWay, [Next]_vars
             PROVE  MarkMeansResult' /\ RequestUnderWay'
  BY DEF IInv
<1> USE OcpiCommandsAssumption
<1>1. ASSUME NEW c \in Commands, CannotSend(c) \/ SendFails(c) \/ WatchTimesOut(c)
      PROVE  MarkMeansResult' /\ RequestUnderWay'
  <2>1. /\ PostCommandResult(c, "FAILED") \/ PostCommandResult(c, "TIMEOUT")
        /\ {"FAILED", "TIMEOUT"} \subseteq Results
        /\ UNCHANGED url
        /\ \A d \in Commands \ {c} : at'[d] = at[d]
    BY <1>1 DEF CannotSend, SendFails, WatchTimesOut, Results, TypeOK
  <2>2. /\ posted'[c] # <<>>
        /\ \A d \in Commands : posted[d] # <<>> => posted'[d] # <<>>
        /\ \A d \in Commands : entry'[d] = "resolved" => posted'[d] # <<>>
        /\ \A d \in Commands \ {c} : watcher'[d] = watcher[d]
    BY <2>1, PostIsResult
  <2> QED BY <2>1, <2>2 DEF MarkMeansResult, RequestUnderWay
<1>2. ASSUME NEW k \in Callbacks, CallbackPosts(k)
      PROVE  MarkMeansResult' /\ RequestUnderWay'
  <2> DEFINE c == CommandOf[k]
  <2>1. /\ PostCommandResult(c, "ANSWER") /\ c \in Commands /\ "ANSWER" \in Results
        /\ UNCHANGED <<url, at>>
    BY <1>2 DEF CallbackPosts, Results
  <2> HIDE DEF c
  <2>2. /\ posted'[c] # <<>>
        /\ \A d \in Commands : posted[d] # <<>> => posted'[d] # <<>>
        /\ \A d \in Commands : entry'[d] = "resolved" => posted'[d] # <<>>
        /\ \A d \in Commands \ {c} : watcher'[d] = watcher[d]
    BY <2>1, PostIsResult
  <2> QED BY <2>1, <2>2 DEF MarkMeansResult, RequestUnderWay
<1>3. ASSUME NEW k \in Callbacks, CallbackPostsNowhere(k)
      PROVE  MarkMeansResult' /\ RequestUnderWay'
  BY <1>3 DEF CallbackPostsNowhere, TypeOK, MarkMeansResult, RequestUnderWay
<1>4. ASSUME NEW k \in Callbacks, CallbackReads(k) \/ CallbackGivesUp(k)
      PROVE  MarkMeansResult' /\ RequestUnderWay'
  BY <1>4 DEF CallbackReads, CallbackGivesUp, TypeOK, MarkMeansResult, RequestUnderWay
<1>5. ASSUME NEW c \in Commands, Refuse(c) \/ Accept(c) \/ EntryExpires(c)
      PROVE  MarkMeansResult' /\ RequestUnderWay'
  <2>1. MarkMeansResult'
    BY <1>5 DEF Refuse, Accept, EntryExpires, TypeOK, MarkMeansResult
  <2>2. RequestUnderWay'
    BY <1>5 DEF Refuse, Accept, EntryExpires, TypeOK, RequestUnderWay
  <2> QED BY <2>1, <2>2
<1>7. ASSUME NEW c \in Commands, Watch(c) \/ Prepare(c) \/ Send(c) \/ SendSucceeds(c)
      PROVE  MarkMeansResult' /\ RequestUnderWay'
  <2>1. MarkMeansResult'
    BY <1>7 DEF Watch, Prepare, Send, SendSucceeds, MarkMeansResult
  <2>2. RequestUnderWay'
    BY <1>7 DEF Watch, Prepare, Send, SendSucceeds, TypeOK, RequestUnderWay
  <2> QED BY <2>1, <2>2
<1>8. ASSUME NEW c \in Commands, Request(c)
      PROVE  MarkMeansResult' /\ RequestUnderWay'
  BY <1>8 DEF Request, RequestSucceeds, RequestFails, MarkMeansResult, RequestUnderWay
<1>6. CASE UNCHANGED vars
  BY <1>6 DEF vars, MarkMeansResult, RequestUnderWay
<1> QED
  BY <1>1, <1>2, <1>3, <1>4, <1>5, <1>6, <1>7, <1>8 DEF Next, Execute, Callback

\* For any commands and callbacks: once its execution has begun, the partner was
\* told a result, or a request or a running wait may still tell it one, or a
\* request to the partner failed.
THEOREM ResultsUnderWay == Spec => []ResultUnderWay
<1>1. Init => MarkMeansResult /\ RequestUnderWay
  BY OcpiCommandsAssumption DEF Init, MarkMeansResult, RequestUnderWay
<1>2. IInv /\ RequestUnderWay => ResultUnderWay
  <2> SUFFICES ASSUME IInv, RequestUnderWay,
                      NEW c \in Commands, at[c] \notin {"new", "refused", "accepted"},
                      watcher[c] # "waiting"
               PROVE  delivered[c] > 0 \/ lost[c] > 0 \/ Open(c) > 0
    BY DEF ResultUnderWay
  <2>1. posted[c] \in Seq(Results) /\ posted[c] # <<>>
    BY DEF RequestUnderWay, IInv, TypeOK
  <2>2. Len(posted[c]) > 0 /\ Len(posted[c]) \in Nat
    BY <2>1
  <2>3. delivered[c] \in Nat /\ lost[c] \in Nat
    BY DEF IInv, TypeOK
  <2> QED BY <2>2, <2>3 DEF Open
<1> QED BY <1>1, <1>2, NextResult, IInvAlways, PTL DEF Spec
=============================================================================
