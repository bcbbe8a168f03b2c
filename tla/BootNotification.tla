-------------------------- MODULE BootNotification --------------------------
(***************************************************************************)
(* The boot of one OCPP 2 charging station:                                *)
(* packages/core/src/handlers/requests/2/BootNotificationRequestOcpp2Handler.ts *)
(* with modules/Configuration/src/module/BootNotificationService.ts and    *)
(* NotifyReportRequestOcpp2Handler.ts.  Each BootNotification has a handler *)
(* run of its own, which answers and then, if the answer was Pending,      *)
(* configures the station: base report, variables, decision.  Runs share   *)
(* the station's boot record and its cache entries, and interleave at      *)
(* every await.                                                            *)
(*                                                                         *)
(* The base report always has request id 0: one cache entry serves all.    *)
(***************************************************************************)
EXTENDS Naturals

CONSTANTS
    Boots,        \* BootNotifications, each with its handler run
    Configs,      \* the system configurations to consider
    MaxMessages,  \* bound: SetVariables messages of a run
    MaxParts,     \* bound: NotifyReport requests the station sends
    MaxEdits      \* bound: changes of the boot record by an operator

Statuses == {"Accepted", "Pending", "Rejected"}
YesNo    == {"yes", "no"}

AllConfigs == [unknownChargerStatus : Statuses,
               getBaseReportOnPending : YesNo,
               autoAccept : YesNo,
               bootWithRejectedVariables : YesNo]

ASSUME BootNotificationAssumption ==
    /\ Configs \subseteq AllConfigs
    /\ MaxMessages \in Nat \ {0}
    /\ MaxParts \in Nat
    /\ MaxEdits \in Nat

VARIABLES
    config,      \* the system configuration
    db,          \* the station's boot record; status "none" without one
    bootStatus,  \* cache entry BOOT_STATUS of the station
    blacklist,   \* its blacklisted actions
    report,      \* its cache entry '0': the state of the base report
    at,          \* where each handler run stands
    status,      \* the status it answered
    cached,      \* the BOOT_STATUS it read
    boot,        \* its bootConfigDbEntity, without the status, which it only writes
    left,        \* SetVariables messages it has yet to send
    watching,    \* its onChange for the answer: not called, waiting or timed out
    flight,      \* its SetVariables is at the station
    got,         \* its onChange resolved with the answer
    outcome,     \* which of rejectedSetVariable and rebootSetVariable are set
    reported,    \* history: was a last part stored since its 'ongoing'
    answered,    \* history: the answer was stored before onChange timed out
    parts, edits

cacheVars == <<bootStatus, blacklist, report>>
setVars   == <<left, watching, flight, got, outcome, answered>>
bounds    == <<parts, edits>>
vars      == <<config, db, cacheVars, at, status, cached, boot, setVars, reported, bounds>>

BlacklistActions == {"NotifyReport", "others"}

Records  == [status : Statuses \cup {"none"}, report : YesNo \cup {"unset"}, variables : YesNo]
Entities == [report : YesNo \cup {"unset"}, variables : YesNo]

Phases == {"new", "cache", "blacklist", "whitelist", "forget", "respond", "remember",
           "update", "create", "stamp", "unlist", "request", "sendReport", "waitReport",
           "renewWait", "saveReport", "variables", "watch", "send", "sending", "waitAnswer",
           "decide", "reset",
           "done", "failed", "unanswered"}

TypeOK ==
    /\ config \in AllConfigs
    /\ db \in Records
    /\ bootStatus \in {"none", "Pending", "Rejected"}
    /\ blacklist \in SUBSET BlacklistActions
    /\ report \in {"none", "ongoing", "complete"}
    /\ at \in [Boots -> Phases]
    /\ status \in [Boots -> Statuses \cup {"none"}]
    /\ cached \in [Boots -> {"none", "Pending", "Rejected"}]
    /\ boot \in [Boots -> Entities]
    /\ left \in [Boots -> 0 .. MaxMessages]
    /\ watching \in [Boots -> YesNo \cup {"timedOut"}]
    /\ flight \in [Boots -> YesNo]
    /\ got \in [Boots -> YesNo]
    /\ outcome \in [Boots -> SUBSET {"rejected", "reboot"}]
    /\ reported \in [Boots -> YesNo \cup {"unasked"}]
    /\ answered \in [Boots -> YesNo]
    /\ parts \in 0 .. MaxParts
    /\ edits \in 0 .. MaxEdits

NoRecord == [status |-> "none", report |-> "unset", variables |-> "no"]

Entity(record) == [report |-> record.report, variables |-> record.variables]

\* The station has no record, or one that leaves everything to be done.
Init ==
    /\ config \in Configs
    /\ db \in {NoRecord, [status |-> "Pending", report |-> "unset", variables |-> "yes"]}
    /\ bootStatus = "none"
    /\ blacklist = {}
    /\ report = "none"
    /\ at = [b \in Boots |-> "new"]
    /\ status = [b \in Boots |-> "none"]
    /\ cached = [b \in Boots |-> "none"]
    /\ boot = [b \in Boots |-> Entity(NoRecord)]
    /\ left = [b \in Boots |-> 0]
    /\ watching = [b \in Boots |-> "no"]
    /\ flight = [b \in Boots |-> "no"]
    /\ got = [b \in Boots |-> "no"]
    /\ outcome = [b \in Boots |-> {}]
    /\ reported = [b \in Boots |-> "unasked"]
    /\ answered = [b \in Boots |-> "no"]
    /\ parts = 0
    /\ edits = 0

Ended(b) == at[b] \in {"done", "failed", "unanswered"}

Goto(b, phase) == at' = [at EXCEPT ![b] = phase]

-----------------------------------------------------------------------------
(* Answering *)

\* The record's getBaseReportOnPending, or the system's where it is unset.
NeedsReport(record) ==
    IF record.report # "unset" THEN record.report = "yes"
                               ELSE config.getBaseReportOnPending = "yes"

\* determineBootStatus: a Pending station with nothing left to do is accepted
\* if the system accepts by itself.
DetermineBootStatus(record) ==
    LET s == IF record.status = "none" THEN config.unknownChargerStatus ELSE record.status
    IN  IF /\ s = "Pending"
           /\ ~NeedsReport(record) /\ record.variables = "no"
           /\ config.autoAccept = "yes"
        THEN "Accepted" ELSE s

\* createBootNotificationResponse.
ReadBoot(b) ==
    /\ at[b] = "new"
    /\ status' = [status EXCEPT ![b] = DetermineBootStatus(db)]
    /\ Goto(b, "cache")
    /\ UNCHANGED <<config, db, cacheVars, cached, boot, setVars, reported, bounds>>

\* The cached boot status, and what cacheChargerActionsPermissions makes of it.
ReadCache(b) ==
    /\ at[b] = "cache"
    /\ cached' = [cached EXCEPT ![b] = bootStatus]
    /\ Goto(b, IF status[b] = "Accepted"
               THEN IF bootStatus = "none" THEN "respond" ELSE "whitelist"
               ELSE IF bootStatus = "none" THEN "blacklist" ELSE "respond")
    /\ UNCHANGED <<config, db, cacheVars, status, boot, setVars, reported, bounds>>

Blacklist(b) ==
    /\ at[b] = "blacklist"
    /\ blacklist' = BlacklistActions
    /\ Goto(b, "respond")
    /\ UNCHANGED <<config, db, bootStatus, report, status, cached, boot, setVars,
                   reported, bounds>>

Whitelist(b) ==
    /\ at[b] = "whitelist"
    /\ blacklist' = {}
    /\ Goto(b, "forget")
    /\ UNCHANGED <<config, db, bootStatus, report, status, cached, boot, setVars,
                   reported, bounds>>

ForgetStatus(b) ==
    /\ at[b] = "forget"
    /\ bootStatus' = "none"
    /\ Goto(b, "respond")
    /\ UNCHANGED <<config, db, blacklist, report, status, cached, boot, setVars,
                   reported, bounds>>

\* A fault for comparison: every new status is cached, Accepted too.
RespondRemembering(b) ==
    /\ at[b] = "respond"
    /\ Goto(b, IF status[b] # cached[b] THEN "remember" ELSE "update") \/ Goto(b, "failed")
    /\ UNCHANGED <<config, db, cacheVars, status, cached, boot, setVars, reported, bounds>>

\* sendCallResultWithMessage.
Respond(b) ==
    /\ at[b] = "respond"
    /\ \/ Goto(b, IF status[b] # "Accepted" /\ status[b] # cached[b]
                  THEN "remember" ELSE "update")
       \/ Goto(b, "failed")
    /\ UNCHANGED <<config, db, cacheVars, status, cached, boot, setVars, reported, bounds>>

\* The status is cached.
Remember(b) ==
    /\ at[b] = "remember"
    /\ bootStatus' = status[b]
    /\ Goto(b, "update")
    /\ UNCHANGED <<config, db, blacklist, report, status, cached, boot, setVars,
                   reported, bounds>>

\* updateBootConfig reads the record, ...
UpdateBootConfig(b) ==
    /\ at[b] = "update"
    /\ boot' = [boot EXCEPT ![b] = Entity(db)]
    /\ Goto(b, IF db.status = "none" THEN "create" ELSE "stamp")
    /\ UNCHANGED <<config, db, cacheVars, status, cached, setVars, reported, bounds>>

\* ... or creates it: createOrUpdateByKey sets the status of a record that
\* another run or an operator has created since.
CreateBoot(b) ==
    /\ at[b] = "create"
    /\ db' = [db EXCEPT !.status = status[b]]
    /\ boot' = [boot EXCEPT ![b] = Entity(db')]
    /\ Goto(b, "stamp")
    /\ UNCHANGED <<config, cacheVars, status, cached, setVars, reported, bounds>>

\* lastBootTime is saved; the save may throw.  Only a run that answered Pending,
\* and found no Pending in the cache, goes on to configure, with the record it
\* read.
SaveBootTime(b) ==
    /\ at[b] = "stamp"
    /\ \/ Goto(b, IF status[b] # "Pending" \/ cached[b] = "Pending" THEN "done"
                  ELSE IF NeedsReport(boot[b]) THEN "unlist" ELSE "variables")
       \/ Goto(b, "failed")
    /\ UNCHANGED <<config, db, cacheVars, status, cached, boot, setVars, reported, bounds>>

-----------------------------------------------------------------------------
(* The base report *)

\* NotifyReport is taken off the blacklist.
AllowReport(b) ==
    /\ at[b] = "unlist"
    /\ blacklist' = blacklist \ {"NotifyReport"}
    /\ Goto(b, "request")
    /\ UNCHANGED <<config, db, bootStatus, report, status, cached, boot, setVars,
                   reported, bounds>>

\* A fault for comparison: the entry is not reset before the request.
CreateRequestOnly(b) ==
    /\ at[b] = "request"
    /\ reported' = [reported EXCEPT ![b] = "no"]
    /\ Goto(b, "sendReport")
    /\ UNCHANGED <<config, db, cacheVars, status, cached, boot, setVars, bounds>>

\* Where the runs go that wait for the entry to change when it is written:
\* 'ongoing' makes them wait again.
Woken(phase) == [c \in Boots |-> IF at[c] = "waitReport" THEN phase ELSE at[c]]

\* createGetBaseReportRequest: '0' is 'ongoing', with a time to live.
CreateGetBaseReportRequest(b) ==
    /\ at[b] = "request"
    /\ report' = "ongoing"
    /\ reported' = [reported EXCEPT ![b] = "no"]
    /\ at' = [Woken("renewWait") EXCEPT ![b] = "sendReport"]
    /\ UNCHANGED <<config, db, bootStatus, blacklist, status, cached, boot, setVars, bounds>>

\* sendCall, whose confirmation confirmGetBaseReportSuccess looks at.
SendGetBaseReport(b) ==
    /\ at[b] = "sendReport"
    /\ Goto(b, "waitReport") \/ Goto(b, "failed")
    /\ UNCHANGED <<config, db, cacheVars, status, cached, boot, setVars, reported, bounds>>

\* NotifyReport with tbc: 'ongoing' for another time to live.
NotifyReportMore ==
    /\ parts < MaxParts
    /\ parts' = parts + 1
    /\ report' = "ongoing"
    /\ at' = Woken("renewWait")
    /\ UNCHANGED <<config, db, bootStatus, blacklist, status, cached, boot, setVars,
                   reported, edits>>

\* The last NotifyReport: 'complete', which stays, wakes the runs that wait.  A run
\* about to wait again does not see it before its next time-out.
NotifyReportLast ==
    /\ parts < MaxParts
    /\ parts' = parts + 1
    /\ report' = "complete"
    /\ at' = Woken("saveReport")
    /\ reported' = [b \in Boots |-> IF at[b] \in {"sendReport", "waitReport", "renewWait"}
                                    THEN "yes" ELSE reported[b]]
    /\ UNCHANGED <<config, db, bootStatus, blacklist, status, cached, boot, setVars, edits>>

\* A fault for comparison: 'ongoing' never expires.
ReportStays ==
    /\ report = "ongoing"
    /\ UNCHANGED vars

\* The time to live of 'ongoing' ends.
ReportExpires ==
    /\ report = "ongoing"
    /\ report' = "none"
    /\ UNCHANGED <<config, db, bootStatus, blacklist, at, status, cached, boot, setVars,
                   reported, bounds>>

\* onChange times out with the value the entry has: 'complete' ends the wait,
\* 'ongoing' renews it, no value is an error.
ReportWaitTimesOut(b) ==
    /\ at[b] = "waitReport"
    /\ Goto(b, CASE report = "complete" -> "saveReport"
                 [] report = "ongoing"  -> "renewWait"
                 [] report = "none"     -> "failed")
    /\ UNCHANGED <<config, db, cacheVars, status, cached, boot, setVars, reported, bounds>>

\* The loop calls onChange again, for as long as it is told 'ongoing'.
RenewWait(b) ==
    /\ at[b] = "renewWait"
    /\ Goto(b, "waitReport")
    /\ UNCHANGED <<config, db, cacheVars, status, cached, boot, setVars, reported, bounds>>

\* getBaseReportOnPending = false is saved.
SaveReportDone(b) ==
    /\ at[b] = "saveReport"
    /\ boot' = [boot EXCEPT ![b].report = "no"]
    /\ db' = [db EXCEPT !.report = "no"]
    /\ Goto(b, "variables")
    /\ UNCHANGED <<config, cacheVars, status, cached, setVars, reported, bounds>>

-----------------------------------------------------------------------------
(* The variables *)

\* The record's pending variables are read and divided into messages; there may
\* be none to set after all.
ReadVariables(b) ==
    /\ at[b] = "variables"
    /\ IF boot[b].variables = "yes"
       THEN \E n \in 0 .. MaxMessages :
               /\ left' = [left EXCEPT ![b] = n]
               /\ Goto(b, IF n = 0 THEN "decide" ELSE "watch")
       ELSE UNCHANGED left /\ Goto(b, "decide")
    /\ UNCHANGED <<config, db, cacheVars, status, cached, boot, watching, flight, got,
                   outcome, answered, reported, bounds>>

\* A fault for comparison: nothing waits for the answer when it is stored.
SkipWatch(b) ==
    /\ at[b] = "watch"
    /\ answered' = [answered EXCEPT ![b] = "no"]
    /\ Goto(b, "send")
    /\ UNCHANGED <<config, db, cacheVars, status, cached, boot, left, watching, flight,
                   got, outcome, reported, bounds>>

\* onChange for the correlation id of the next message, before it is sent.
Watch(b) ==
    /\ at[b] = "watch"
    /\ watching' = [watching EXCEPT ![b] = "yes"]
    /\ answered' = [answered EXCEPT ![b] = "no"]
    /\ Goto(b, "send")
    /\ UNCHANGED <<config, db, cacheVars, status, cached, boot, left, flight, got, outcome,
                   reported, bounds>>

\* sendCall: the message is on its way to the station, or nothing is, ...
SendSetVariables(b) ==
    /\ at[b] = "send"
    /\ \E sent \in YesNo : flight' = [flight EXCEPT ![b] = sent]
    /\ Goto(b, "sending")
    /\ UNCHANGED <<config, db, cacheVars, status, cached, boot, left, watching, got,
                   outcome, answered, reported, bounds>>

\* ... and later it returns; nothing looks at its confirmation.
SendReturns(b) ==
    /\ at[b] = "sending"
    /\ Goto(b, "waitAnswer")
    /\ UNCHANGED <<config, db, cacheVars, status, cached, boot, setVars, reported, bounds>>

\* The station's answer is stored under the correlation id, before or after
\* sendCall returns, and resolves an onChange that waits for it.
StationAnswers(b) ==
    /\ flight[b] = "yes"
    /\ flight' = [flight EXCEPT ![b] = "no"]
    /\ got' = [got EXCEPT ![b] = IF watching[b] = "yes" THEN "yes" ELSE @]
    /\ answered' = [answered EXCEPT ![b] = IF /\ at[b] \in {"sending", "waitAnswer"}
                                              /\ watching[b] # "timedOut"
                                           THEN "yes" ELSE @]
    /\ UNCHANGED <<config, db, cacheVars, at, status, cached, boot, left, watching,
                   outcome, reported, bounds>>

\* The results in the answer are looked at, and the next message is due or none
\* is left.
TakeAnswer(b) ==
    /\ at[b] = "waitAnswer"
    /\ got[b] = "yes"
    /\ watching' = [watching EXCEPT ![b] = "no"]
    /\ \E found \in SUBSET {"rejected", "reboot"} :
          outcome' = [outcome EXCEPT ![b] = @ \cup found]
    /\ left' = [left EXCEPT ![b] = @ - 1]
    /\ got' = [got EXCEPT ![b] = "no"]
    /\ Goto(b, IF left[b] = 1 THEN "decide" ELSE "watch")
    /\ UNCHANGED <<config, db, cacheVars, status, cached, boot, flight, answered,
                   reported, bounds>>

\* onChange times out without a value, while sendCall may still be under way.
AnswerTimesOut(b) ==
    /\ watching[b] = "yes"
    /\ got[b] = "no"
    /\ watching' = [watching EXCEPT ![b] = "timedOut"]
    /\ UNCHANGED <<config, db, cacheVars, at, status, cached, boot, left, flight, got,
                   outcome, answered, reported, bounds>>

\* The run finds no answer and throws.
AnswerNotFound(b) ==
    /\ at[b] = "waitAnswer"
    /\ watching[b] # "yes"
    /\ got[b] = "no"
    /\ Goto(b, "unanswered")
    /\ UNCHANGED <<config, db, cacheVars, status, cached, boot, setVars, reported, bounds>>

-----------------------------------------------------------------------------
(* The decision *)

Refused(b) == "rejected" \in outcome[b] /\ config.bootWithRejectedVariables = "no"

\* The decision is taken: the flags are not read again.
Decided(b) ==
    /\ outcome' = [outcome EXCEPT ![b] = {}]
    /\ UNCHANGED <<config, cacheVars, status, cached, boot, left, watching, flight, got,
                   answered, reported, bounds>>

\* Rejected variables: the record is Rejected, and there is no more to do.
RejectBoot(b) ==
    /\ at[b] = "decide"
    /\ Refused(b)
    /\ db' = [db EXCEPT !.status = "Rejected"]
    /\ Goto(b, "done")
    /\ Decided(b)

\* The record is Accepted if the system accepts by itself.
FinishConfiguration(b) ==
    /\ at[b] = "decide"
    /\ ~Refused(b)
    /\ db' = IF config.autoAccept = "yes" THEN [db EXCEPT !.status = "Accepted"] ELSE db
    /\ Goto(b, IF "reboot" \in outcome[b] THEN "reset" ELSE "done")
    /\ Decided(b)

\* The Reset is sent, whatever becomes of it.
SendReset(b) ==
    /\ at[b] = "reset"
    /\ Goto(b, "done")
    /\ UNCHANGED <<config, db, cacheVars, status, cached, boot, setVars, reported, bounds>>

\* An operator writes the boot record.
Operator ==
    /\ edits < MaxEdits
    /\ edits' = edits + 1
    /\ \E s \in Statuses \ {db.status} : db' = [db EXCEPT !.status = s]
    /\ UNCHANGED <<config, cacheVars, at, status, cached, boot, setVars, reported, parts>>

Answer(b) ==
    \/ ReadCache(b) \/ Blacklist(b) \/ Whitelist(b) \/ ForgetStatus(b)
    \/ Respond(b) \/ Remember(b) \/ UpdateBootConfig(b) \/ CreateBoot(b) \/ SaveBootTime(b)

Configure(b) ==
    \/ AllowReport(b) \/ CreateGetBaseReportRequest(b) \/ SendGetBaseReport(b)
    \/ ReportWaitTimesOut(b) \/ RenewWait(b) \/ SaveReportDone(b)
    \/ ReadVariables(b) \/ Watch(b) \/ SendSetVariables(b) \/ SendReturns(b)
    \/ TakeAnswer(b) \/ AnswerNotFound(b)
    \/ RejectBoot(b) \/ FinishConfiguration(b) \/ SendReset(b)

Next ==
    \/ \E b \in Boots : ReadBoot(b) \/ Answer(b) \/ Configure(b)
                       \/ StationAnswers(b) \/ AnswerTimesOut(b)
    \/ NotifyReportMore \/ NotifyReportLast \/ ReportExpires
    \/ Operator

\* Awaited calls settle, waits time out and values expire.  The station need
\* not answer or report.
Fairness ==
    /\ \A b \in Boots :
          WF_vars(Answer(b)) /\ WF_vars(Configure(b)) /\ WF_vars(AnswerTimesOut(b))
    /\ WF_vars(ReportExpires)

Spec == Init /\ [][Next]_vars

FairSpec == Spec /\ Fairness

-----------------------------------------------------------------------------
(* Properties *)

\* The run has come past the base report.
PastReport(b) ==
    at[b] \in {"saveReport", "variables", "watch", "send", "sending", "waitAnswer",
               "decide", "reset"}

\* A run that asked for the base report goes on only after a last part was
\* stored since it asked: the 'complete' that an earlier boot left behind does
\* not count, although all requests have the id 0, nor does a time-out.
ReportIsFresh == \A b \in Boots : PastReport(b) => reported[b] # "no"

\* A run gives up on SetVariables only if the station's answer was not stored
\* before the wait for it timed out: an answer that overtakes the return of
\* sendCall is not missed.
AnswerNotMissed == \A b \in Boots : at[b] = "unanswered" => answered[b] = "no"

\* Every boot is dealt with in the end, whatever the station leaves unanswered:
\* the wait that renews itself ends, because 'ongoing' expires.
HandlerEnds == \A b \in Boots : at[b] = "cache" ~> Ended(b)
=============================================================================
