----------------------- MODULE BootNotificationProofs -----------------------
(***************************************************************************)
(* Proofs about BootNotification.  The invariant is a statement about each *)
(* handler run at the phase it is in; the only state of others that it     *)
(* looks at is the cache entry of the base report, which all runs share.   *)
(***************************************************************************)
EXTENDS BootNotification, TLAPS

\* The phases of a run that configures the station.
Configuring ==
    {"unlist", "request", "sendReport", "waitReport", "renewWait", "saveReport", "variables",
     "watch", "send", "sending", "waitAnswer", "decide", "reset"}

\* What was answered: only a run that answered Pending configures, and Accepted
\* is never cached.
StatusOK ==
    \A b \in Boots :
        /\ at[b] # "new" => status[b] \in Statuses
        /\ at[b] = "remember" => status[b] # "Accepted"
        /\ at[b] \in Configuring => status[b] = "Pending"

\* A run whose report has not come is at the report, and then the entry it reset
\* is not 'complete'.
ReportOK ==
    \A b \in Boots : reported[b] = "no" =>
        /\ at[b] \in {"sendReport", "waitReport", "renewWait", "failed"}
        /\ at[b] # "failed" => report # "complete"

\* A run watches for an answer from before the message is sent until it takes the
\* answer or the time-out comes, so that it has every answer that was stored
\* before.
AnswerOK ==
    \A b \in Boots :
        /\ at[b] \in {"send", "sending", "waitAnswer"} => watching[b] # "no"
        /\ at[b] = "send" => answered[b] = "no"
        /\ at[b] \in {"sending", "waitAnswer"} => got[b] = "yes" \/ answered[b] = "no"
        /\ at[b] = "unanswered" => answered[b] = "no"

\* Messages are left exactly while the variables are being set.
LeftOK ==
    \A b \in Boots :
        /\ at[b] \in {"watch", "send", "sending", "waitAnswer"} => left[b] # 0
        /\ at[b] \notin {"watch", "send", "sending", "waitAnswer", "unanswered"} => left[b] = 0

IInv == TypeOK /\ StatusOK /\ ReportOK /\ AnswerOK /\ LeftOK

\* determineBootStatus returns a status, whatever record and configuration.
LEMMA StatusIsKnown ==
    ASSUME TypeOK PROVE DetermineBootStatus(db) \in Statuses
  BY DEF TypeOK, Records, AllConfigs, Statuses, DetermineBootStatus

\* A request for the base report sends the runs that wait for one to wait again.
LEMMA RequestMoves ==
    ASSUME NEW b \in Boots, CreateGetBaseReportRequest(b)
    PROVE  /\ at[b] = "request" /\ report' = "ongoing"
           /\ at'[b] = "sendReport"
           /\ \A c \in Boots \ {b} :
                 at'[c] = at[c] \/ (at[c] = "waitReport" /\ at'[c] = "renewWait")
           /\ reported' = [reported EXCEPT ![b] = "no"]
           /\ UNCHANGED <<status, setVars>>
  <1> DEFINE woken == Woken("renewWait")
  <1>1. at' = [woken EXCEPT ![b] = "sendReport"]
    BY DEF CreateGetBaseReportRequest
  <1>2. /\ DOMAIN woken = Boots
        /\ \A c \in Boots : woken[c] = IF at[c] = "waitReport" THEN "renewWait" ELSE at[c]
    BY DEF Woken
  <1> HIDE DEF woken
  <1>3. at'[b] = "sendReport" /\ \A c \in Boots \ {b} : at'[c] = woken[c]
    BY <1>1, <1>2
  <1>4. /\ at[b] = "request" /\ report' = "ongoing"
        /\ reported' = [reported EXCEPT ![b] = "no"]
        /\ UNCHANGED <<status, setVars>>
    BY DEF CreateGetBaseReportRequest
  <1>5. \A c \in Boots \ {b} : at'[c] = at[c] \/ (at[c] = "waitReport" /\ at'[c] = "renewWait")
    BY <1>2, <1>3
  <1> QED BY <1>3, <1>4, <1>5

\* The invariant holds in the initial states.
LEMMA InitIInv == Init => IInv
  <1> SUFFICES ASSUME Init PROVE IInv
    OBVIOUS
  <1>1. TypeOK
    <2>1. config \in AllConfigs
      BY BootNotificationAssumption DEF Init
    <2>2. Entity(NoRecord) \in Entities /\ db \in Records
      BY DEF Init, NoRecord, Records, Entity, Entities, Statuses, YesNo
    <2> QED
      BY <2>1, <2>2, BootNotificationAssumption
      DEF Init, TypeOK, Statuses, YesNo, Phases, BlacklistActions
  <1> QED
    BY <1>1 DEF Init, IInv, StatusOK, ReportOK, AnswerOK, LeftOK, Configuring

\* No step takes a variable out of its type.
LEMMA TypesKept == IInv /\ [Next]_vars => TypeOK'
  <1> SUFFICES ASSUME IInv, [Next]_vars PROVE TypeOK'
    OBVIOUS
  <1> USE BootNotificationAssumption DEF IInv, cacheVars, setVars, bounds, Goto
  <1>1. ASSUME NEW b \in Boots, ReadBoot(b) PROVE TypeOK'
    BY <1>1, StatusIsKnown DEF ReadBoot, TypeOK, Phases
  <1>2. ASSUME NEW b \in Boots, ReadCache(b) PROVE TypeOK'
    BY <1>2 DEF ReadCache, TypeOK, Phases
  <1>3. ASSUME NEW b \in Boots, Blacklist(b) PROVE TypeOK'
    BY <1>3 DEF Blacklist, TypeOK, Phases
  <1>4. ASSUME NEW b \in Boots, Whitelist(b) PROVE TypeOK'
    BY <1>4 DEF Whitelist, TypeOK, Phases
  <1>5. ASSUME NEW b \in Boots, ForgetStatus(b) PROVE TypeOK'
    BY <1>5 DEF ForgetStatus, TypeOK, Phases
  <1>6. ASSUME NEW b \in Boots, Respond(b) PROVE TypeOK'
    BY <1>6 DEF Respond, TypeOK, Phases
  <1>7. ASSUME NEW b \in Boots, Remember(b) PROVE TypeOK'
    BY <1>7 DEF Remember, TypeOK, Phases, StatusOK, Statuses
  <1>8. ASSUME NEW b \in Boots, UpdateBootConfig(b) PROVE TypeOK'
    <2>1. Entity(db) \in Entities
      BY DEF TypeOK, Records, Entity, Entities
    <2> QED BY <1>8, <2>1 DEF UpdateBootConfig, TypeOK, Phases
  <1>28. ASSUME NEW b \in Boots, CreateBoot(b) PROVE TypeOK'
    <2>1. status[b] \in Statuses
      BY <1>28 DEF CreateBoot, StatusOK
    <2>2. db' \in Records
      BY <1>28, <2>1 DEF CreateBoot, TypeOK, Records
    <2>3. Entity(db') \in Entities
      BY <2>2 DEF Records, Entity, Entities
    <2> QED BY <1>28, <2>2, <2>3 DEF CreateBoot, TypeOK, Phases
  <1>29. ASSUME NEW b \in Boots, SaveBootTime(b) PROVE TypeOK'
    BY <1>29 DEF SaveBootTime, TypeOK, Phases
  <1>30. ASSUME NEW b \in Boots, RenewWait(b) PROVE TypeOK'
    BY <1>30 DEF RenewWait, TypeOK, Phases
  <1>31. ASSUME NEW b \in Boots, SendReturns(b) PROVE TypeOK'
    BY <1>31 DEF SendReturns, TypeOK, Phases
  <1>32. ASSUME NEW b \in Boots, AnswerNotFound(b) PROVE TypeOK'
    BY <1>32 DEF AnswerNotFound, TypeOK, Phases
  <1>9. ASSUME NEW b \in Boots, AllowReport(b) PROVE TypeOK'
    BY <1>9 DEF AllowReport, TypeOK, Phases
  <1>10. ASSUME NEW b \in Boots, CreateGetBaseReportRequest(b) PROVE TypeOK'
    BY <1>10 DEF CreateGetBaseReportRequest, Woken, TypeOK, Phases, YesNo
  <1>11. ASSUME NEW b \in Boots, SendGetBaseReport(b) PROVE TypeOK'
    BY <1>11 DEF SendGetBaseReport, TypeOK, Phases
  <1>12. ASSUME NEW b \in Boots, ReportWaitTimesOut(b) PROVE TypeOK'
    BY <1>12 DEF ReportWaitTimesOut, TypeOK, Phases
  <1>13. ASSUME NEW b \in Boots, SaveReportDone(b) PROVE TypeOK'
    <2>1. ASSUME NEW r \in Entities PROVE [r EXCEPT !.report = "no"] \in Entities
      BY DEF Entities, YesNo
    <2>2. db' \in Records
      BY <1>13 DEF SaveReportDone, TypeOK, Records, YesNo
    <2>3. boot' = [boot EXCEPT ![b] = [boot[b] EXCEPT !.report = "no"]]
      BY <1>13 DEF SaveReportDone
    <2>4. boot' \in [Boots -> Entities]
      BY <2>1, <2>3 DEF TypeOK
    <2> QED BY <1>13, <2>2, <2>4 DEF SaveReportDone, TypeOK, Phases
  <1>14. ASSUME NEW b \in Boots, ReadVariables(b) PROVE TypeOK'
    BY <1>14 DEF ReadVariables, TypeOK, Phases
  <1>15. ASSUME NEW b \in Boots, Watch(b) PROVE TypeOK'
    BY <1>15 DEF Watch, TypeOK, Phases, YesNo
  <1>16. ASSUME NEW b \in Boots, SendSetVariables(b) PROVE TypeOK'
    BY <1>16 DEF SendSetVariables, TypeOK, Phases, YesNo
  <1>17. ASSUME NEW b \in Boots, TakeAnswer(b) PROVE TypeOK'
    <2>1. PICK found \in SUBSET {"rejected", "reboot"} :
              outcome' = [outcome EXCEPT ![b] = @ \cup found]
      BY <1>17 DEF TakeAnswer
    <2>2. outcome' \in [Boots -> SUBSET {"rejected", "reboot"}]
      BY <2>1 DEF TypeOK
    <2>3. left' \in [Boots -> 0 .. MaxMessages]
      BY <1>17 DEF TakeAnswer, TypeOK, LeftOK
    <2> QED BY <1>17, <2>2, <2>3 DEF TakeAnswer, TypeOK, Phases, YesNo
  <1>18. ASSUME NEW b \in Boots, AnswerTimesOut(b) PROVE TypeOK'
    BY <1>18 DEF AnswerTimesOut, TypeOK, Phases, YesNo
  <1>19. ASSUME NEW b \in Boots, RejectBoot(b) PROVE TypeOK'
    <2>1. db' \in Records
      BY <1>19 DEF RejectBoot, TypeOK, Records, Statuses
    <2> QED BY <1>19, <2>1 DEF RejectBoot, Decided, TypeOK, Phases
  <1>20. ASSUME NEW b \in Boots, FinishConfiguration(b) PROVE TypeOK'
    <2>1. db' \in Records
      BY <1>20 DEF FinishConfiguration, TypeOK, Records, Statuses
    <2> QED BY <1>20, <2>1 DEF FinishConfiguration, Decided, TypeOK, Phases
  <1>21. ASSUME NEW b \in Boots, SendReset(b) PROVE TypeOK'
    BY <1>21 DEF SendReset, TypeOK, Phases
  <1>22. ASSUME NEW b \in Boots, StationAnswers(b) PROVE TypeOK'
    BY <1>22 DEF StationAnswers, TypeOK, Phases, YesNo
  <1>23. CASE NotifyReportMore
    BY <1>23 DEF NotifyReportMore, Woken, TypeOK, Phases, YesNo
  <1>24. CASE NotifyReportLast
    BY <1>24 DEF NotifyReportLast, Woken, TypeOK, Phases, YesNo
  <1>25. CASE ReportExpires
    BY <1>25 DEF ReportExpires, TypeOK, Phases, YesNo
  <1>26. CASE Operator
    <2>1. db' \in Records
      BY <1>26 DEF Operator, TypeOK, Records, Statuses
    <2> QED BY <1>26, <2>1 DEF Operator, TypeOK
  <1>27. CASE UNCHANGED vars
    BY <1>27 DEF vars, TypeOK
  <1> QED
    BY <1>1, <1>2, <1>3, <1>4, <1>5, <1>6, <1>7, <1>8, <1>9, <1>10, <1>11, <1>12, <1>13,
       <1>14, <1>15, <1>16, <1>17, <1>18, <1>19, <1>20, <1>21, <1>22, <1>23, <1>24, <1>25, <1>26, <1>27,
       <1>28, <1>29, <1>30, <1>31, <1>32
    DEF Next, Answer, Configure

\* A run goes on to configure only with the answer Pending.
LEMMA StatusKept == IInv /\ [Next]_vars => StatusOK'
  <1> SUFFICES ASSUME IInv, [Next]_vars PROVE StatusOK'
    OBVIOUS
  <1> USE DEF IInv, TypeOK, StatusOK, Configuring, Statuses, cacheVars, setVars, bounds, Goto
  <1>1. ASSUME NEW b \in Boots, ReadBoot(b)
        PROVE  StatusOK'
    BY <1>1, StatusIsKnown DEF ReadBoot
  <1>2. ASSUME NEW b \in Boots, ReadCache(b) \/ Blacklist(b) \/ Whitelist(b) \/ ForgetStatus(b)
        PROVE  StatusOK'
    BY <1>2 DEF ReadCache, Blacklist, Whitelist, ForgetStatus
  <1>3. ASSUME NEW b \in Boots, Respond(b) \/ Remember(b) \/ UpdateBootConfig(b)
                                \/ CreateBoot(b) \/ SaveBootTime(b)
        PROVE  StatusOK'
    BY <1>3 DEF Respond, Remember, UpdateBootConfig, CreateBoot, SaveBootTime
  <1>4. ASSUME NEW b \in Boots,
               AllowReport(b) \/ CreateGetBaseReportRequest(b) \/ SendGetBaseReport(b)
        PROVE  StatusOK'
    <2>1. CASE AllowReport(b) \/ SendGetBaseReport(b)
      BY <2>1 DEF AllowReport, SendGetBaseReport
    <2>2. CASE CreateGetBaseReportRequest(b)
      BY <2>2, RequestMoves
    <2> QED BY <1>4, <2>1, <2>2
  <1>5. ASSUME NEW b \in Boots, ReportWaitTimesOut(b) \/ RenewWait(b) \/ SaveReportDone(b)
        PROVE  StatusOK'
    BY <1>5 DEF ReportWaitTimesOut, RenewWait, SaveReportDone
  <1>6. ASSUME NEW b \in Boots, ReadVariables(b) \/ Watch(b) \/ SendSetVariables(b) \/ SendReturns(b)
        PROVE  StatusOK'
    BY <1>6 DEF ReadVariables, Watch, SendSetVariables, SendReturns
  <1>7. ASSUME NEW b \in Boots, TakeAnswer(b) \/ AnswerTimesOut(b) \/ AnswerNotFound(b)
                                \/ StationAnswers(b)
        PROVE  StatusOK'
    BY <1>7 DEF TakeAnswer, AnswerTimesOut, AnswerNotFound, StationAnswers
  <1>8. ASSUME NEW b \in Boots, RejectBoot(b) \/ FinishConfiguration(b) \/ SendReset(b)
        PROVE  StatusOK'
    BY <1>8 DEF RejectBoot, FinishConfiguration, Decided, SendReset
  <1>9. CASE NotifyReportMore \/ NotifyReportLast \/ ReportExpires \/ Operator
    BY <1>9 DEF NotifyReportMore, NotifyReportLast, Woken, ReportExpires, Operator
  <1>10. CASE UNCHANGED vars
    BY <1>10 DEF vars
  <1> QED
    BY <1>1, <1>2, <1>3, <1>4, <1>5, <1>6, <1>7, <1>8, <1>9, <1>10
    DEF Next, Answer, Configure

\* Whichever run resets or completes the shared entry, the others' view stays right.
LEMMA ReportKept == IInv /\ [Next]_vars => ReportOK'
  <1> SUFFICES ASSUME IInv, [Next]_vars PROVE ReportOK'
    OBVIOUS
  <1> USE DEF IInv, TypeOK, ReportOK, cacheVars, setVars, bounds, Goto
  <1>1. ASSUME NEW b \in Boots, ReadBoot(b)
        PROVE  ReportOK'
    BY <1>1 DEF ReadBoot
  <1>2. ASSUME NEW b \in Boots, ReadCache(b) \/ Blacklist(b) \/ Whitelist(b) \/ ForgetStatus(b)
        PROVE  ReportOK'
    BY <1>2 DEF ReadCache, Blacklist, Whitelist, ForgetStatus
  <1>3. ASSUME NEW b \in Boots, Respond(b) \/ Remember(b) \/ UpdateBootConfig(b)
                                \/ CreateBoot(b) \/ SaveBootTime(b)
        PROVE  ReportOK'
    BY <1>3 DEF Respond, Remember, UpdateBootConfig, CreateBoot, SaveBootTime
  <1>4. ASSUME NEW b \in Boots,
               AllowReport(b) \/ CreateGetBaseReportRequest(b) \/ SendGetBaseReport(b)
        PROVE  ReportOK'
    <2>1. CASE AllowReport(b) \/ SendGetBaseReport(b)
      BY <2>1 DEF AllowReport, SendGetBaseReport
    <2>2. CASE CreateGetBaseReportRequest(b)
      BY <2>2, RequestMoves
    <2> QED BY <1>4, <2>1, <2>2
  <1>5. ASSUME NEW b \in Boots, ReportWaitTimesOut(b) \/ RenewWait(b) \/ SaveReportDone(b)
        PROVE  ReportOK'
    BY <1>5 DEF ReportWaitTimesOut, RenewWait, SaveReportDone
  <1>6. ASSUME NEW b \in Boots, ReadVariables(b) \/ Watch(b) \/ SendSetVariables(b) \/ SendReturns(b)
        PROVE  ReportOK'
    BY <1>6 DEF ReadVariables, Watch, SendSetVariables, SendReturns
  <1>7. ASSUME NEW b \in Boots, TakeAnswer(b) \/ AnswerTimesOut(b) \/ AnswerNotFound(b)
                                \/ StationAnswers(b)
        PROVE  ReportOK'
    BY <1>7 DEF TakeAnswer, AnswerTimesOut, AnswerNotFound, StationAnswers
  <1>8. ASSUME NEW b \in Boots, RejectBoot(b) \/ FinishConfiguration(b) \/ SendReset(b)
        PROVE  ReportOK'
    BY <1>8 DEF RejectBoot, FinishConfiguration, Decided, SendReset
  <1>9. CASE NotifyReportMore \/ NotifyReportLast \/ ReportExpires \/ Operator
    BY <1>9 DEF NotifyReportMore, NotifyReportLast, Woken, ReportExpires, Operator
  <1>10. CASE UNCHANGED vars
    BY <1>10 DEF vars
  <1> QED
    BY <1>1, <1>2, <1>3, <1>4, <1>5, <1>6, <1>7, <1>8, <1>9, <1>10
    DEF Next, Answer, Configure

\* An answer reaches the run that waits for it.
LEMMA AnswerKept == IInv /\ [Next]_vars => AnswerOK'
  <1> SUFFICES ASSUME IInv, [Next]_vars PROVE AnswerOK'
    OBVIOUS
  <1> USE DEF IInv, TypeOK, AnswerOK, YesNo, cacheVars, setVars, bounds, Goto
  <1>1. ASSUME NEW b \in Boots, ReadBoot(b)
        PROVE  AnswerOK'
    BY <1>1 DEF ReadBoot
  <1>2. ASSUME NEW b \in Boots, ReadCache(b) \/ Blacklist(b) \/ Whitelist(b) \/ ForgetStatus(b)
        PROVE  AnswerOK'
    BY <1>2 DEF ReadCache, Blacklist, Whitelist, ForgetStatus
  <1>3. ASSUME NEW b \in Boots, Respond(b) \/ Remember(b) \/ UpdateBootConfig(b)
                                \/ CreateBoot(b) \/ SaveBootTime(b)
        PROVE  AnswerOK'
    BY <1>3 DEF Respond, Remember, UpdateBootConfig, CreateBoot, SaveBootTime
  <1>4. ASSUME NEW b \in Boots,
               AllowReport(b) \/ CreateGetBaseReportRequest(b) \/ SendGetBaseReport(b)
        PROVE  AnswerOK'
    <2>1. CASE AllowReport(b) \/ SendGetBaseReport(b)
      BY <2>1 DEF AllowReport, SendGetBaseReport
    <2>2. CASE CreateGetBaseReportRequest(b)
      BY <2>2, RequestMoves
    <2> QED BY <1>4, <2>1, <2>2
  <1>5. ASSUME NEW b \in Boots, ReportWaitTimesOut(b) \/ RenewWait(b) \/ SaveReportDone(b)
        PROVE  AnswerOK'
    BY <1>5 DEF ReportWaitTimesOut, RenewWait, SaveReportDone
  <1>6. ASSUME NEW b \in Boots, ReadVariables(b) \/ Watch(b) \/ SendSetVariables(b) \/ SendReturns(b)
        PROVE  AnswerOK'
    BY <1>6 DEF ReadVariables, Watch, SendSetVariables, SendReturns
  <1>7. ASSUME NEW b \in Boots, TakeAnswer(b) \/ AnswerTimesOut(b) \/ AnswerNotFound(b)
                                \/ StationAnswers(b)
        PROVE  AnswerOK'
    BY <1>7 DEF TakeAnswer, AnswerTimesOut, AnswerNotFound, StationAnswers
  <1>8. ASSUME NEW b \in Boots, RejectBoot(b) \/ FinishConfiguration(b) \/ SendReset(b)
        PROVE  AnswerOK'
    BY <1>8 DEF RejectBoot, FinishConfiguration, Decided, SendReset
  <1>9. CASE NotifyReportMore \/ NotifyReportLast \/ ReportExpires \/ Operator
    BY <1>9 DEF NotifyReportMore, NotifyReportLast, Woken, ReportExpires, Operator
  <1>10. CASE UNCHANGED vars
    BY <1>10 DEF vars
  <1> QED
    BY <1>1, <1>2, <1>3, <1>4, <1>5, <1>6, <1>7, <1>8, <1>9, <1>10
    DEF Next, Answer, Configure

\* The count of messages follows the phases.
LEMMA LeftKept == IInv /\ [Next]_vars => LeftOK'
  <1> SUFFICES ASSUME IInv, [Next]_vars PROVE LeftOK'
    OBVIOUS
  <1> USE DEF IInv, TypeOK, LeftOK, cacheVars, setVars, bounds, Goto
  <1>1. ASSUME NEW b \in Boots, ReadBoot(b)
        PROVE  LeftOK'
    BY <1>1 DEF ReadBoot
  <1>2. ASSUME NEW b \in Boots, ReadCache(b) \/ Blacklist(b) \/ Whitelist(b) \/ ForgetStatus(b)
        PROVE  LeftOK'
    BY <1>2 DEF ReadCache, Blacklist, Whitelist, ForgetStatus
  <1>3. ASSUME NEW b \in Boots, Respond(b) \/ Remember(b) \/ UpdateBootConfig(b)
                                \/ CreateBoot(b) \/ SaveBootTime(b)
        PROVE  LeftOK'
    BY <1>3 DEF Respond, Remember, UpdateBootConfig, CreateBoot, SaveBootTime
  <1>4. ASSUME NEW b \in Boots,
               AllowReport(b) \/ CreateGetBaseReportRequest(b) \/ SendGetBaseReport(b)
        PROVE  LeftOK'
    <2>1. CASE AllowReport(b) \/ SendGetBaseReport(b)
      BY <2>1 DEF AllowReport, SendGetBaseReport
    <2>2. CASE CreateGetBaseReportRequest(b)
      BY <2>2, RequestMoves
    <2> QED BY <1>4, <2>1, <2>2
  <1>5. ASSUME NEW b \in Boots, ReportWaitTimesOut(b) \/ RenewWait(b) \/ SaveReportDone(b)
        PROVE  LeftOK'
    BY <1>5 DEF ReportWaitTimesOut, RenewWait, SaveReportDone
  <1>6. ASSUME NEW b \in Boots, ReadVariables(b) \/ Watch(b) \/ SendSetVariables(b) \/ SendReturns(b)
        PROVE  LeftOK'
    BY <1>6 DEF ReadVariables, Watch, SendSetVariables, SendReturns
  <1>7. ASSUME NEW b \in Boots, TakeAnswer(b) \/ AnswerTimesOut(b) \/ AnswerNotFound(b)
                                \/ StationAnswers(b)
        PROVE  LeftOK'
    BY <1>7 DEF TakeAnswer, AnswerTimesOut, AnswerNotFound, StationAnswers
  <1>8. ASSUME NEW b \in Boots, RejectBoot(b) \/ FinishConfiguration(b) \/ SendReset(b)
        PROVE  LeftOK'
    BY <1>8 DEF RejectBoot, FinishConfiguration, Decided, SendReset
  <1>9. CASE NotifyReportMore \/ NotifyReportLast \/ ReportExpires \/ Operator
    BY <1>9 DEF NotifyReportMore, NotifyReportLast, Woken, ReportExpires, Operator
  <1>10. CASE UNCHANGED vars
    BY <1>10 DEF vars
  <1> QED
    BY <1>1, <1>2, <1>3, <1>4, <1>5, <1>6, <1>7, <1>8, <1>9, <1>10
    DEF Next, Answer, Configure

\* The inductive invariant holds of every behaviour.
LEMMA IInvAlways == Spec => []IInv
  <1>1. IInv /\ [Next]_vars => IInv'
    BY TypesKept, StatusKept, ReportKept, AnswerKept, LeftKept DEF IInv
  <1> QED BY InitIInv, <1>1, PTL DEF Spec

\* The types of the runs, the boot record and the cache entries; among them that
\* Accepted is never cached as BOOT_STATUS.
THEOREM BootTypes == Spec => []TypeOK
  <1>1. IInv => TypeOK
    BY DEF IInv
  <1> QED BY <1>1, IInvAlways, PTL

\* For any number of boots that share the entry of request 0: a run goes on only
\* after a report that was completed since it asked.
THEOREM ReportsAreFresh == Spec => []ReportIsFresh
  <1>1. IInv => ReportIsFresh
    BY DEF IInv, ReportOK, ReportIsFresh, PastReport
  <1> QED BY <1>1, IInvAlways, PTL

\* For any number of boots and messages: no answer that came in time is missed.
THEOREM AnswersAreNotMissed == Spec => []AnswerNotMissed
  <1>1. IInv => AnswerNotMissed
    BY DEF IInv, AnswerOK, AnswerNotMissed
  <1> QED BY <1>1, IInvAlways, PTL

=============================================================================
