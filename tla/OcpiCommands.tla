---------------------------- MODULE OcpiCommands ----------------------------
(***************************************************************************)
(* The commands an OCPI partner sends (start and stop a session, unlock a  *)
(* connector) and the one asynchronous result it waits for:                *)
(* packages/ocpi-base/src/services/CommandsService.ts,                     *)
(* util/CommandExecutor.ts, util/ocppCommandHandlers and                   *)
(* trigger/CommandsClientApi.ts.  Three parties may post the result of a   *)
(* command: its sender when the OCPP request fails, the callback that      *)
(* brings the station's answer, and the time-out.  A cache entry keeps the *)
(* partner's URL and then the mark 'resolved'.                             *)
(*                                                                         *)
(* The CSMS that is asked to call the station back is external: it calls   *)
(* back late, more than once, or not at all.                               *)
(***************************************************************************)
EXTENDS Naturals, Sequences

CONSTANTS
    Commands,
    Callbacks,   \* requests to the callback endpoint
    CommandOf    \* the command a callback is about

ASSUME OcpiCommandsAssumption == CommandOf \in [Callbacks -> Commands]

VARIABLES
    at,        \* where the execution of a command stands
    entry,     \* cache entry of the command: nothing, the URL or 'resolved'
    watcher,   \* its onChange, whose time-out posts TIMEOUT
    callback,  \* where a callback stands
    url,       \* what it read from the entry
    posted,    \* command -> the results whose requests were made, in order
    delivered, \* how many of these requests the partner answered ...
    lost,      \* ... and how many failed
    early      \* history: callbacks that read the entry before any result

requests == <<delivered, lost>>

vars == <<at, entry, watcher, callback, url, posted, requests, early>>

Results == {"TIMEOUT", "FAILED", "ANSWER"}

TypeOK ==
    /\ at \in [Commands -> {"new", "refused", "accepted", "prepare", "send", "sent", "done"}]
    /\ entry \in [Commands -> {"none", "url", "resolved"}]
    /\ watcher \in [Commands -> {"none", "waiting", "settled"}]
    /\ callback \in [Callbacks -> {"new", "read", "done"}]
    /\ url \in [Callbacks -> {"none", "url", "resolved"}]
    /\ posted \in [Commands -> Seq(Results)]
    /\ delivered \in [Commands -> Nat]
    /\ lost \in [Commands -> Nat]
    /\ early \subseteq Callbacks

Init ==
    /\ at = [c \in Commands |-> "new"]
    /\ entry = [c \in Commands |-> "none"]
    /\ watcher = [c \in Commands |-> "none"]
    /\ callback = [k \in Callbacks |-> "new"]
    /\ url = [k \in Callbacks |-> "none"]
    /\ posted = [c \in Commands |-> <<>>]
    /\ delivered = [c \in Commands |-> 0]
    /\ lost = [c \in Commands |-> 0]
    /\ early = {}

-----------------------------------------------------------------------------
(* The result *)

\* A fault for comparison: the wait ends but the URL stays in the cache.
PostUnmarked(c, result) ==
    /\ watcher' = [watcher EXCEPT ![c] = IF @ = "waiting" THEN "settled" ELSE @]
    /\ posted' = [posted EXCEPT ![c] = Append(@, result)]
    /\ UNCHANGED entry

\* A fault for comparison: the entry keeps the result instead of the mark.
PostKeepingResult(c, result) ==
    /\ entry' = [entry EXCEPT ![c] = result]
    /\ watcher' = [watcher EXCEPT ![c] = IF @ = "waiting" THEN "settled" ELSE @]
    /\ posted' = [posted EXCEPT ![c] = Append(@, result)]

\* postCommandResult: the entry becomes 'resolved', which settles the onChange of
\* the command, and then the request to the URL is made.
PostCommandResult(c, result) ==
    /\ entry' = [entry EXCEPT ![c] = "resolved"]
    /\ watcher' = [watcher EXCEPT ![c] = IF @ = "waiting" THEN "settled" ELSE @]
    /\ posted' = [posted EXCEPT ![c] = Append(@, result)]

Open(c) == Len(posted[c]) - delivered[c] - lost[c]

\* The request reaches the partner, ...
RequestSucceeds(c) ==
    /\ Open(c) > 0
    /\ delivered' = [delivered EXCEPT ![c] = @ + 1]
    /\ UNCHANGED <<at, entry, watcher, callback, url, posted, lost, early>>

\* ... or fails: every caller logs the error or passes it on, and none repeats
\* the request, although the entry says 'resolved' and the wait has ended.
RequestFails(c) ==
    /\ Open(c) > 0
    /\ lost' = [lost EXCEPT ![c] = @ + 1]
    /\ UNCHANGED <<at, entry, watcher, callback, url, posted, delivered, early>>

-----------------------------------------------------------------------------
(* The command *)

\* CommandsService refuses the command, and no result follows, ...
Refuse(c) ==
    /\ at[c] = "new"
    /\ at' = [at EXCEPT ![c] = "refused"]
    /\ UNCHANGED <<entry, watcher, callback, url, posted, requests, early>>

\* ... or accepts it: generateCommandId stores the partner's URL ...
Accept(c) ==
    /\ at[c] = "new"
    /\ at' = [at EXCEPT ![c] = "accepted"]
    /\ entry' = [entry EXCEPT ![c] = "url"]
    /\ UNCHANGED <<watcher, callback, url, posted, requests, early>>

\* A fault for comparison: nothing waits for the entry to change.
SkipWatch(c) ==
    /\ at[c] = "accepted"
    /\ at' = [at EXCEPT ![c] = "prepare"]
    /\ UNCHANGED <<entry, watcher, callback, url, posted, requests, early>>

\* ... and waits for the entry to change, before anything is sent.
Watch(c) ==
    /\ at[c] = "accepted"
    /\ watcher' = [watcher EXCEPT ![c] = "waiting"]
    /\ at' = [at EXCEPT ![c] = "prepare"]
    /\ UNCHANGED <<entry, callback, url, posted, requests, early>>

\* The request is prepared; a database error ends the execution without a
\* result.
Prepare(c) ==
    /\ at[c] = "prepare"
    /\ \E next \in {"send", "done"} : at' = [at EXCEPT ![c] = next]
    /\ UNCHANGED <<entry, watcher, callback, url, posted, requests, early>>

\* The station's protocol is not supported, or the connector is not known.
CannotSend(c) ==
    /\ at[c] = "prepare"
    /\ at' = [at EXCEPT ![c] = "done"]
    /\ PostCommandResult(c, "FAILED")
    /\ UNCHANGED <<callback, url, requests, early>>

\* sendOCPPMessage: from here on the station may have the request.
Send(c) ==
    /\ at[c] = "send"
    /\ at' = [at EXCEPT ![c] = "sent"]
    /\ UNCHANGED <<entry, watcher, callback, url, posted, requests, early>>

SendSucceeds(c) ==
    /\ at[c] = "sent"
    /\ at' = [at EXCEPT ![c] = "done"]
    /\ UNCHANGED <<entry, watcher, callback, url, posted, requests, early>>

\* The confirmation is negative or does not come: FAILED is posted, whatever
\* was posted before.
SendFails(c) ==
    /\ at[c] = "sent"
    /\ at' = [at EXCEPT ![c] = "done"]
    /\ PostCommandResult(c, "FAILED")
    /\ UNCHANGED <<callback, url, requests, early>>

\* A fault for comparison: the time-out does not end the wait.
TimeOutAgain(c) ==
    /\ watcher[c] = "waiting"
    /\ posted' = [posted EXCEPT ![c] = Append(@, "TIMEOUT")]
    /\ Len(posted[c]) < 3
    /\ UNCHANGED <<at, entry, watcher, callback, url, requests, early>>

\* onChange times out: the value is not 'resolved', so TIMEOUT is posted.
WatchTimesOut(c) ==
    /\ watcher[c] = "waiting"
    /\ PostCommandResult(c, "TIMEOUT")
    /\ UNCHANGED <<at, callback, url, requests, early>>

\* The entry's time to live ends, the URL's with the time-out of the command,
\* that of 'resolved' after a few seconds.
EntryExpires(c) ==
    /\ entry[c] # "none"
    /\ entry' = [entry EXCEPT ![c] = "none"]
    /\ UNCHANGED <<at, watcher, callback, url, posted, requests, early>>

-----------------------------------------------------------------------------
(* The callback *)

\* handleAsyncCommandResponse reads the entry: without one there is nothing to
\* answer to.
CallbackReads(k) ==
    LET c == CommandOf[k]
    IN  /\ callback[k] = "new"
        /\ at[c] \in {"sent", "done"}
        /\ callback' = [callback EXCEPT ![k] = IF entry[c] = "none" THEN "done" ELSE "read"]
        /\ url' = [url EXCEPT ![k] = entry[c]]
        /\ early' = IF posted[c] = <<>> THEN early \cup {k} ELSE early
        /\ UNCHANGED <<at, entry, watcher, posted, requests>>

\* The partner is not found, or the answer is not valid.
CallbackGivesUp(k) ==
    /\ callback[k] = "read"
    /\ callback' = [callback EXCEPT ![k] = "done"]
    /\ UNCHANGED <<at, entry, watcher, url, posted, requests, early>>

\* The partner was looked up and the station's answer is posted to what was
\* read: the URL, ...
CallbackPosts(k) ==
    /\ callback[k] = "read"
    /\ url[k] = "url"
    /\ callback' = [callback EXCEPT ![k] = "done"]
    /\ PostCommandResult(CommandOf[k], "ANSWER")
    /\ UNCHANGED <<at, url, requests, early>>

\* ... or 'resolved', which is no URL: the mark is renewed and the request goes
\* nowhere.
CallbackPostsNowhere(k) ==
    LET c == CommandOf[k]
    IN  /\ callback[k] = "read"
        /\ url[k] = "resolved"
        /\ callback' = [callback EXCEPT ![k] = "done"]
        /\ entry' = [entry EXCEPT ![c] = "resolved"]
        /\ watcher' = [watcher EXCEPT ![c] = IF @ = "waiting" THEN "settled" ELSE @]
        /\ UNCHANGED <<at, url, posted, requests, early>>

Execute(c) ==
    \/ Watch(c) \/ Prepare(c) \/ CannotSend(c) \/ Send(c) \/ SendSucceeds(c) \/ SendFails(c)

Request(c) == RequestSucceeds(c) \/ RequestFails(c)

Callback(k) ==
    CallbackReads(k) \/ CallbackGivesUp(k) \/ CallbackPosts(k) \/ CallbackPostsNowhere(k)

Next ==
    \/ \E c \in Commands : \/ Refuse(c) \/ Accept(c) \/ Execute(c)
                           \/ WatchTimesOut(c) \/ EntryExpires(c) \/ Request(c)
    \/ \E k \in Callbacks : Callback(k)

\* The execution goes on, timers fire and HTTP requests come to an end, in an
\* answer or an error.  No station has to answer and no request has to succeed.
Fairness ==
    \A c \in Commands :
        /\ WF_vars(Execute(c))
        /\ WF_vars(WatchTimesOut(c))
        /\ WF_vars(Request(c))

Spec == Init /\ [][Next]_vars

FairSpec == Spec /\ Fairness

-----------------------------------------------------------------------------
(* Properties *)

\* TIMEOUT is posted only for a command without any other result, and once:
\* the first result, whoever posts it, settles the wait before its request is
\* even sent.
TimeoutIsFirst ==
    \A c \in Commands : \A i \in DOMAIN posted[c] : posted[c][i] = "TIMEOUT" => i = 1

\* Who may still post to the partner's URL: callbacks that read it.
Holders(c) == {k \in Callbacks : CommandOf[k] = c /\ callback[k] = "read" /\ url[k] = "url"}

\* A callback that comes after a result, TIMEOUT too, has no URL to post to: a
\* second result comes only from one that read the URL before the first was
\* posted.
LateCallbackHasNoUrl == \A c \in Commands : Holders(c) \subseteq early

\* The partner of a command that was accepted is told a result in the end,
\* whether or not the station answers or can be reached, unless a request to its
\* own URL failed: then nothing is repeated, and it may never be told any.
AcceptedGetsResult ==
    \A c \in Commands : at[c] = "accepted" ~> delivered[c] > 0 \/ lost[c] > 0
=============================================================================
