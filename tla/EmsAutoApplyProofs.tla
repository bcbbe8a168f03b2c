-------------------------- MODULE EmsAutoApplyProofs --------------------------
(***************************************************************************)
(* Proofs about EmsAutoApply: for any intents, stations and applications   *)
(* the in-flight mark is owned, and a recorded fingerprint is what was     *)
(* last published for the station unless one of the named ways put it in   *)
(* doubt.  The inductive invariant follows a station through the steps of  *)
(* the application that has it to itself.                                  *)
(***************************************************************************)
EXTENDS EmsAutoApply, TLAPS

\* The steps of an application that deals with a station.
AtStation == {"check"} \cup Changing

\* An application at a station has a plan and a station.
PlanOK ==
    \A a \in Appliers : at[a] \in AtStation => plan[a] \in Intents /\ station[a] \in Stations

\* Those that are alone have their station to themselves, ...
LoneOK ==
    \A a \in alone : \A b \in Appliers :
        at[a] \in Changing /\ at[b] \in Changing /\ station[a] = station[b] => a = b

\* ... whoever changes a station that is not in doubt is alone, ...
DoubtOK ==
    \A a \in Appliers : at[a] \in Changing /\ station[a] \notin doubtful => a \in alone

\* ... a profile set by one that is alone is still there when it is recorded, ...
SentOK ==
    \A a \in alone : at[a] = "record" => profile[station[a]] = LimitOf[plan[a]]

\* ... and a station not in doubt has the recorded profile or none before that.
StepOK ==
    \A a \in Appliers : station[a] \notin doubtful =>
        /\ at[a] = "clear" => profile[station[a]] = fingerprint[station[a]]
        /\ at[a] \in {"send", "recordUnsent"} =>
              profile[station[a]] \in {0, fingerprint[station[a]]}

\* FingerprintIsProfile, without the set of those that are busy.
SettledOK ==
    \A s \in Stations \ doubtful :
        (\A a \in Appliers : at[a] \in Changing => station[a] # s) => fingerprint[s] = profile[s]

StationsOK == LoneOK /\ DoubtOK /\ SentOK /\ StepOK /\ SettledOK

IInv == TypeOK /\ PlanOK /\ InFlightIsOwned /\ StationsOK

\* The invariant holds in the initial states.
LEMMA InitIInv == Init => IInv
  <1> SUFFICES ASSUME Init PROVE IInv
    OBVIOUS
  <1> USE EmsAssumption
  <1>1. TypeOK
    BY DEF Init, TypeOK, Steps
  <1>2. InFlightIsOwned
    BY DEF Init, InFlightIsOwned, Appliers
  <1>3. PlanOK /\ StationsOK
    BY DEF Init, PlanOK, StationsOK, LoneOK, DoubtOK, SentOK, StepOK, SettledOK, AtStation,
           Changing
  <1> QED BY <1>1, <1>2, <1>3 DEF IInv

-----------------------------------------------------------------------------
(* The end of a station *)

\* Where an application goes after a station: it is no longer changing one, and
\* has a plan and a station if it goes on.
LEMMA AdvanceEffect ==
    ASSUME IInv, NEW a \in Appliers, at[a] \in AtStation, Advance(a)
    PROVE  /\ at' \in [Appliers -> Steps]
           /\ plan' \in [Appliers -> Intents \cup {0}]
           /\ station' \in [Appliers -> Stations \cup {0}]
           /\ inFlight' \in {"yes", "no"}
           /\ PlanOK'
           /\ InFlightIsOwned'
           /\ at'[a] \notin Changing
           /\ \A b \in Appliers \ {a} :
                 at'[b] = at[b] /\ plan'[b] = plan[b] /\ station'[b] = station[b]
  <1> USE EmsAssumption DEF IInv, TypeOK, Steps, AtStation, Changing
  <1>0. "auto" \in Appliers
    BY DEF Appliers
  <1>1. CASE NextStation(station[a]) = 0
    BY <1>0, <1>1 DEF Advance, Finish, PlanOK, InFlightIsOwned
  <1>2. CASE NextStation(station[a]) # 0
    <2>1. NextStation(station[a]) \in Stations
      BY <1>2 DEF NextStation
    <2> QED BY <1>0, <1>2, <2>1 DEF Advance, PlanOK, InFlightIsOwned
  <1> QED BY <1>1, <1>2

\* The same for an application that ends.
LEMMA FinishEffect ==
    ASSUME IInv, NEW a \in Appliers, Finish(a)
    PROVE  /\ at' \in [Appliers -> Steps]
           /\ plan' \in [Appliers -> Intents \cup {0}]
           /\ station' \in [Appliers -> Stations \cup {0}]
           /\ inFlight' \in {"yes", "no"}
           /\ PlanOK'
           /\ InFlightIsOwned'
           /\ at'[a] \notin Changing
           /\ \A b \in Appliers \ {a} :
                 at'[b] = at[b] /\ plan'[b] = plan[b] /\ station'[b] = station[b]
  <1>0. "auto" \in Appliers
    BY DEF Appliers
  <1> QED
    BY <1>0, EmsAssumption
    DEF IInv, TypeOK, Steps, AtStation, Changing, Finish, PlanOK, InFlightIsOwned

\* An application that leaves its station, or was not changing one.  The station
\* is then in doubt or its fingerprint is its profile; and it comes out of doubt
\* only if the application was alone there.
LEMMA LeavingKeeps ==
    ASSUME IInv, NEW a \in Appliers,
           at' \in [Appliers -> Steps], station' \in [Appliers -> Stations \cup {0}],
           at'[a] \notin Changing,
           \A b \in Appliers \ {a} :
              at'[b] = at[b] /\ plan'[b] = plan[b] /\ station'[b] = station[b],
           alone \ {a} \subseteq alone', alone' \subseteq alone,
           \A s \in Stations : s # station[a] =>
              /\ fingerprint'[s] = fingerprint[s] /\ profile'[s] = profile[s]
              /\ s \in doubtful => s \in doubtful',
           at[a] \in Changing =>
              /\ station[a] \in doubtful' \/ fingerprint'[station[a]] = profile'[station[a]]
              /\ station[a] \in doubtful => station[a] \in doubtful' \/ a \in alone,
           at[a] \notin Changing => UNCHANGED <<fingerprint, profile, doubtful>>
    PROVE  StationsOK'
  <1> USE EmsAssumption DEF IInv, TypeOK
  <1>0. ASSUME NEW b \in Appliers, at'[b] \in Changing
        PROVE  /\ b # a /\ at'[b] = at[b] /\ plan'[b] = plan[b] /\ station'[b] = station[b]
               /\ station[b] \in Stations
    BY <1>0 DEF PlanOK, AtStation
  <1>1. LoneOK'
    BY <1>0 DEF StationsOK, LoneOK
  \* Another that changes the station of a is not alone, and nor is a.
  <1>2. ASSUME NEW b \in Appliers, at'[b] \in Changing,
               b \in alone' \/ station'[b] \notin doubtful'
        PROVE  /\ b \in alone' \/ station[b] \notin doubtful
               /\ fingerprint'[station[b]] = fingerprint[station[b]]
               /\ profile'[station[b]] = profile[station[b]]
    <2>1. /\ b # a /\ at[b] \in Changing /\ station'[b] = station[b] /\ station[b] \in Stations
      BY <1>0, <1>2
    <2>2. CASE at[a] \in Changing /\ station[a] = station[b]
      <3>1. a \notin alone /\ b \notin alone
        BY <2>1, <2>2 DEF StationsOK, LoneOK
      <3>2. station[a] \in doubtful
        BY <2>2, <3>1 DEF StationsOK, DoubtOK
      <3>3. station[b] \in doubtful'
        BY <2>2, <3>1, <3>2
      <3> QED BY <1>2, <2>1, <3>1, <3>3
    <2>3. CASE station[a] # station[b]
      BY <1>2, <2>1, <2>3
    <2>4. CASE at[a] \notin Changing
      BY <1>2, <2>1, <2>4
    <2> QED BY <2>2, <2>3, <2>4
  <1>3. DoubtOK'
    <2> SUFFICES ASSUME NEW b \in Appliers, at'[b] \in Changing, station'[b] \notin doubtful'
                 PROVE  b \in alone'
      BY DEF DoubtOK
    <2>1. b \in alone' \/ station[b] \notin doubtful
      BY <1>2
    <2>2. b # a /\ at[b] \in Changing
      BY <1>0
    <2> QED BY <2>1, <2>2 DEF StationsOK, DoubtOK
  <1>4. SentOK'
    <2> SUFFICES ASSUME NEW b \in alone', at'[b] = "record"
                 PROVE  profile'[station'[b]] = LimitOf[plan'[b]]
      BY DEF SentOK
    <2>1. b \in alone /\ b \in Appliers /\ at'[b] \in Changing
      BY DEF Changing
    <2> QED BY <1>0, <1>2, <2>1 DEF StationsOK, SentOK
  <1>5. StepOK'
    <2> SUFFICES ASSUME NEW b \in Appliers, station'[b] \notin doubtful', at'[b] \in Changing
                 PROVE  /\ at'[b] = "clear" => profile'[station'[b]] = fingerprint'[station'[b]]
                        /\ at'[b] \in {"send", "recordUnsent"} =>
                              profile'[station'[b]] \in {0, fingerprint'[station'[b]]}
      BY DEF StepOK, Changing
    <2>1. b \in alone'
      BY <1>3 DEF DoubtOK
    <2>2. station[b] \notin doubtful
      <3>1. at[b] \in Changing /\ b # a /\ station'[b] = station[b] /\ station[b] \in Stations
        BY <1>0
      <3>2. b \in alone
        BY <2>1
      <3>3. at[a] \in Changing => station[a] # station[b]
        BY <3>1, <3>2 DEF StationsOK, LoneOK
      <3>4. station[b] \notin doubtful'
        BY <3>1
      <3> HIDE DEF IInv, TypeOK
      <3>5. CASE at[a] \in Changing
        BY <3>1, <3>3, <3>4, <3>5
      <3>6. CASE at[a] \notin Changing
        BY <3>4, <3>6
      <3> QED BY <3>5, <3>6
    <2> QED BY <1>0, <1>2, <2>1, <2>2 DEF StationsOK, StepOK
  <1>6. SettledOK'
    <2> SUFFICES ASSUME NEW s \in Stations \ doubtful',
                        \A b \in Appliers : at'[b] \in Changing => station'[b] # s
                 PROVE  fingerprint'[s] = profile'[s]
      BY DEF SettledOK
    <2>1. CASE at[a] \in Changing /\ station[a] = s
      BY <2>1
    <2>2. CASE ~(at[a] \in Changing /\ station[a] = s)
      <3>1. s \notin doubtful /\ fingerprint'[s] = fingerprint[s] /\ profile'[s] = profile[s]
        BY <2>2
      <3>2. \A b \in Appliers : at[b] \in Changing => station[b] # s
        BY <2>2
      <3> QED BY <3>1, <3>2 DEF StationsOK, SettledOK
    <2> QED BY <2>1, <2>2
  <1> QED BY <1>1, <1>3, <1>4, <1>5, <1>6 DEF StationsOK

-----------------------------------------------------------------------------
(* The steps *)

\* Intents, timers and configuration do not touch a station.
LEMMA IntentSteps ==
    ASSUME IInv,
           \/ \E i \in Intents : \/ StoreIntent(i) \/ RejectIntent(i)
                                 \/ MaybeAutoApply(i) \/ IntentExpires(i)
           \/ EditConfig \/ TimerFiresInFlight
    PROVE  IInv'
  <1>1. UNCHANGED <<inFlight, at, plan, station, fingerprint, profile, doubtful, alone>>
    BY DEF StoreIntent, RejectIntent, MaybeAutoApply, IntentExpires, EditConfig,
           TimerFiresInFlight, profiles
  <1>2. /\ handler' \in [Intents -> {"new", "stored", "notified", "rejected"}]
        /\ active' \subseteq Intents /\ timer' \in {"none", "set"}
        /\ considered' \subseteq Intents /\ dropped' \subseteq Intents
    BY DEF IInv, TypeOK, StoreIntent, RejectIntent, MaybeAutoApply, IntentExpires, EditConfig,
           TimerFiresInFlight, Notified
  <1>3. config' \in {"on", "off"} /\ edits' \in 0..MaxEdits
    BY EmsAssumption
    DEF IInv, TypeOK, StoreIntent, RejectIntent, MaybeAutoApply, IntentExpires, EditConfig,
        TimerFiresInFlight
  <1>4. TypeOK'
    BY <1>1, <1>2, <1>3 DEF IInv, TypeOK
  <1>5. PlanOK' /\ InFlightIsOwned' /\ StationsOK'
    BY <1>1 DEF IInv, PlanOK, InFlightIsOwned, StationsOK, LoneOK, DoubtOK, SentOK, StepOK,
                SettledOK
  <1> QED BY <1>4, <1>5 DEF IInv

\* An application starts.
LEMMA StartSteps ==
    ASSUME IInv, TimerFires \/ \E m \in Manuals : ManualApply(m)
    PROVE  IInv'
  <1> USE EmsAssumption
  <1>0. "auto" \in Appliers /\ \A m \in Manuals : m \in Appliers /\ m # "auto"
    BY DEF Appliers
  <1>1. PICK a \in Appliers :
            /\ at[a] = "idle"
            /\ at' = [at EXCEPT ![a] = "derive"]
            /\ UNCHANGED <<plan, station, fingerprint, profile, doubtful, alone>>
            /\ a = "auto" => inFlight' = "yes"
            /\ a # "auto" => UNCHANGED inFlight
    BY <1>0 DEF IInv, InFlightIsOwned, TimerFires, ManualApply, profiles
  <1>2. TypeOK'
    BY <1>1 DEF IInv, TypeOK, TimerFires, ManualApply, intents, Steps
  <1>3. InFlightIsOwned'
    BY <1>0, <1>1 DEF IInv, TypeOK, InFlightIsOwned
  <1>4. PlanOK'
    BY <1>1 DEF IInv, TypeOK, PlanOK, AtStation, Changing
  <1>5. StationsOK'
    BY <1>1, <1>2, LeavingKeeps DEF IInv, TypeOK, Changing
  <1> QED BY <1>2, <1>3, <1>4, <1>5 DEF IInv

\* An application derives its plan, or ends without one.
LEMMA DeriveSteps ==
    ASSUME IInv, NEW a \in Appliers, Derive(a) \/ DeriveNone(a)
    PROVE  IInv'
  <1> USE EmsAssumption
  <1>0. at[a] = "derive" /\ at[a] \notin Changing
    BY DEF Derive, DeriveNone, Changing
  <1>1. CASE Derive(a)
    <2>1. PICK i \in Intents : plan' = [plan EXCEPT ![a] = i]
      BY <1>1 DEF Derive, IInv, TypeOK
    <2>2. /\ at' = [at EXCEPT ![a] = "check"] /\ station' = [station EXCEPT ![a] = 1]
          /\ UNCHANGED <<inFlight, fingerprint, profile, doubtful, alone>>
      BY <1>1 DEF Derive, profiles
    <2>3. TypeOK'
      BY <1>1, <2>1, <2>2 DEF Derive, IInv, TypeOK, Steps, intents
    <2>4. PlanOK' /\ InFlightIsOwned'
      BY <1>0, <2>1, <2>2 DEF IInv, TypeOK, PlanOK, InFlightIsOwned, AtStation
    <2>5. StationsOK'
      BY <1>0, <2>1, <2>2, <2>3, LeavingKeeps DEF IInv, TypeOK, Changing
    <2> QED BY <2>3, <2>4, <2>5 DEF IInv
  <1>2. CASE DeriveNone(a)
    <2>1. /\ Finish(a) /\ UNCHANGED <<fingerprint, profile, doubtful, alone>>
      BY <1>2 DEF DeriveNone, profiles
    <2>2. TypeOK'
      BY <1>2, <2>1, FinishEffect DEF DeriveNone, IInv, TypeOK, intents
    <2>3. StationsOK'
      BY <1>0, <2>1, FinishEffect, LeavingKeeps
    <2> QED BY <2>1, <2>2, <2>3, FinishEffect DEF IInv
  <1> QED BY <1>1, <1>2

\* An application ends with an error: a station it may have left cleared or
\* changed is in doubt.
LEMMA FailStep ==
    ASSUME IInv, NEW a \in Appliers, ApplyFails(a)
    PROVE  IInv'
  <1> USE EmsAssumption
  <1>1. /\ Finish(a) /\ UNCHANGED <<fingerprint, profile>>
        /\ doubtful \subseteq doubtful' /\ alone' = alone \ {a}
    BY DEF ApplyFails
  <1>2. at[a] \in Changing => station[a] \in Stations
    BY DEF IInv, PlanOK, Changing, AtStation
  <1>3. doubtful' \subseteq Stations
    BY <1>2 DEF ApplyFails, IInv, TypeOK, Changing
  <1>4. TypeOK'
    BY <1>1, <1>3, FinishEffect DEF ApplyFails, IInv, TypeOK, intents, Notified
  <1>5. /\ at[a] \in Changing =>
              station[a] \in doubtful' \/ fingerprint'[station[a]] = profile'[station[a]]
        /\ at[a] \notin Changing => UNCHANGED doubtful
    BY <1>1 DEF ApplyFails, IInv, StationsOK, StepOK, Changing
  <1>6. StationsOK'
    BY <1>1, <1>5, FinishEffect, LeavingKeeps
  <1> QED BY <1>1, <1>4, <1>6, FinishEffect DEF IInv

\* A station is skipped.
LEMMA SkipSteps ==
    ASSUME IInv, NEW a \in Appliers, SkipIneligible(a) \/ SkipUnchanged(a)
    PROVE  IInv'
  <1>1. /\ at[a] = "check" /\ Advance(a)
        /\ UNCHANGED <<intents, fingerprint, profile, doubtful, alone, considered, dropped>>
    BY DEF SkipIneligible, SkipUnchanged, profiles
  <1>2. at[a] \in AtStation /\ at[a] \notin Changing
    BY <1>1 DEF AtStation, Changing
  <1>3. TypeOK'
    BY <1>1, <1>2, AdvanceEffect DEF IInv, TypeOK, intents
  <1>4. StationsOK'
    BY <1>1, <1>2, AdvanceEffect, LeavingKeeps
  <1> QED BY <1>1, <1>2, <1>3, <1>4, AdvanceEffect DEF IInv

\* A request is refused or not confirmed, or its confirmation is recorded.
LEMMA LeaveSteps ==
    ASSUME IInv, NEW a \in Appliers,
           SendRefused(a) \/ SendUnconfirmed(a) \/ RecordFingerprint(a)
    PROVE  IInv'
  <1> USE EmsAssumption
  <1>1. /\ at[a] \in Changing /\ at[a] \in AtStation /\ Advance(a)
        /\ UNCHANGED <<intents, considered, dropped>> /\ alone' = alone \ {a}
    BY DEF SendRefused, SendUnconfirmed, RecordFingerprint, Changing, AtStation
  <1>2. station[a] \in Stations /\ plan[a] \in Intents /\ LimitOf[plan[a]] \in Limits
    BY <1>1 DEF IInv, PlanOK, Limits
  <1>3. /\ fingerprint' \in [Stations -> Limits \cup {0}]
        /\ profile' \in [Stations -> Limits \cup {0}]
        /\ doubtful' \subseteq Stations
    BY <1>2 DEF SendRefused, SendUnconfirmed, RecordFingerprint, IInv, TypeOK
  <1>4. \A s \in Stations : s # station[a] =>
              /\ fingerprint'[s] = fingerprint[s] /\ profile'[s] = profile[s]
              /\ s \in doubtful => s \in doubtful'
    BY <1>2 DEF SendRefused, SendUnconfirmed, RecordFingerprint, IInv, TypeOK
  <1>5. TypeOK'
    BY <1>1, <1>3, AdvanceEffect DEF IInv, TypeOK, intents
  <1>6. /\ station[a] \in doubtful' \/ fingerprint'[station[a]] = profile'[station[a]]
        /\ station[a] \in doubtful => station[a] \in doubtful' \/ a \in alone
    <2>1. CASE SendRefused(a) \/ SendUnconfirmed(a)
      BY <1>2, <2>1 DEF SendRefused, SendUnconfirmed, IInv, TypeOK, StationsOK, StepOK
    <2>2. CASE RecordFingerprint(a)
      <3>1. fingerprint'[station[a]] = LimitOf[plan[a]] /\ UNCHANGED profile
        BY <1>2, <2>2 DEF RecordFingerprint, IInv, TypeOK
      <3>2. CASE at[a] = "recordUnsent"
        BY <2>2, <3>2 DEF RecordFingerprint
      <3>3. CASE at[a] = "record"
        <4>1. a \in alone => fingerprint'[station[a]] = profile[station[a]]
          BY <3>1, <3>3 DEF IInv, StationsOK, SentOK
        <4>2. a \notin alone => station[a] \in doubtful
          BY <1>1 DEF IInv, StationsOK, DoubtOK
        <4>3. a \notin alone => UNCHANGED doubtful
          BY <2>2, <3>3 DEF RecordFingerprint
        <4> QED BY <3>1, <4>1, <4>2, <4>3
      <3> QED BY <2>2, <3>2, <3>3 DEF RecordFingerprint
    <2> QED BY <2>1, <2>2
  <1>7. StationsOK'
    BY <1>1, <1>4, <1>6, AdvanceEffect, LeavingKeeps
  <1> QED BY <1>1, <1>5, <1>7, AdvanceEffect DEF IInv

\* An application begins to change a station.
LEMMA BeginStep ==
    ASSUME IInv, NEW a \in Appliers, BeginStation(a)
    PROVE  IInv'
  <1> USE EmsAssumption DEF IInv
  <1>1. /\ at[a] = "check" /\ at[a] \notin Changing
        /\ UNCHANGED <<intents, inFlight, plan, station, fingerprint, profile, considered, dropped>>
        /\ station[a] \in Stations /\ plan[a] \in Intents
    BY DEF BeginStation, PlanOK, AtStation, Changing
  <1>2. PICK next \in {"clear", "send"} : at' = [at EXCEPT ![a] = next]
    BY DEF BeginStation
  <1>3. /\ at' \in [Appliers -> Steps] /\ at'[a] = next /\ next \in Changing
        /\ \A b \in Appliers \ {a} : at'[b] = at[b]
    BY <1>2 DEF TypeOK, Steps, Changing
  <1>4. alone' \subseteq Appliers /\ doubtful' \subseteq Stations
    <2>1. alone' \subseteq alone \cup {a} /\ doubtful' \subseteq doubtful \cup {station[a]}
      BY DEF BeginStation
    <2> QED BY <1>1, <2>1 DEF TypeOK
  <1>5. TypeOK'
    BY <1>1, <1>3, <1>4 DEF TypeOK, intents
  <1>6. PlanOK' /\ InFlightIsOwned'
    BY <1>1, <1>2 DEF TypeOK, PlanOK, InFlightIsOwned, AtStation, Changing
  <1>7. CASE Rivals(a) = {}
    <2>1. \A b \in Appliers \ {a} : at[b] \in Changing => station[b] # station[a]
      BY <1>7 DEF Rivals
    <2>2. UNCHANGED doubtful /\ alone' = alone \cup {a}
      BY <1>7 DEF BeginStation
    <2>3. station[a] \notin doubtful => fingerprint[station[a]] = profile[station[a]]
      BY <1>1, <2>1 DEF StationsOK, SettledOK
    <2>4. LoneOK'
      BY <1>1, <1>3, <2>1, <2>2 DEF TypeOK, StationsOK, LoneOK
    <2>5. DoubtOK'
      BY <1>1, <1>3, <2>2 DEF TypeOK, StationsOK, DoubtOK
    <2>6. SentOK'
      BY <1>1, <1>3, <2>2 DEF TypeOK, StationsOK, SentOK
    <2>7. StepOK'
      BY <1>1, <1>3, <2>2, <2>3 DEF TypeOK, StationsOK, StepOK
    <2>8. SettledOK'
      BY <1>1, <1>3, <2>2 DEF TypeOK, StationsOK, SettledOK
    <2> QED BY <1>5, <1>6, <2>4, <2>5, <2>6, <2>7, <2>8 DEF StationsOK
  <1>8. CASE Rivals(a) # {}
    <2>1. /\ doubtful' = doubtful \cup {station[a]}
          /\ alone' = alone \ (Rivals(a) \cup {a})
      BY <1>8 DEF BeginStation
    <2>2. \A b \in alone' : b # a /\ (at[b] \in Changing => station[b] # station[a])
      BY <2>1 DEF TypeOK, Rivals
    <2>3. LoneOK'
      BY <1>1, <1>3, <2>1, <2>2 DEF TypeOK, StationsOK, LoneOK
    <2>4. DoubtOK'
      <3> SUFFICES ASSUME NEW b \in Appliers, at'[b] \in Changing, station[b] \notin doubtful'
                   PROVE  b \in alone'
        BY <1>1 DEF DoubtOK
      <3>1. b # a /\ station[b] # station[a] /\ at[b] \in Changing /\ station[b] \notin doubtful
        BY <1>3, <2>1
      <3>2. b \in alone /\ b \notin Rivals(a)
        BY <3>1 DEF StationsOK, DoubtOK, Rivals
      <3> QED BY <2>1, <3>1, <3>2
    <2>5. SentOK'
      BY <1>1, <1>3, <2>1, <2>2 DEF TypeOK, StationsOK, SentOK
    <2>6. StepOK'
      BY <1>1, <1>3, <2>1 DEF TypeOK, StationsOK, StepOK
    <2>7. SettledOK'
      BY <1>1, <1>3, <2>1 DEF TypeOK, StationsOK, SettledOK
    <2> QED BY <1>5, <1>6, <2>3, <2>4, <2>5, <2>6, <2>7 DEF StationsOK
  <1> QED BY <1>7, <1>8

\* The profile of a station is cleared or set, or its Call is swallowed.
LEMMA ChangeSteps ==
    ASSUME IInv, NEW a \in Appliers, ClearProfile(a) \/ SendProfile(a) \/ SendSwallowed(a)
    PROVE  IInv'
  <1> USE EmsAssumption DEF IInv
  <1>1. /\ at[a] \in Changing
        /\ UNCHANGED <<intents, inFlight, plan, station, fingerprint, doubtful, alone,
                       considered, dropped>>
        /\ station[a] \in Stations /\ plan[a] \in Intents
    BY DEF ClearProfile, SendProfile, SendSwallowed, PlanOK, AtStation, Changing, profiles
  <1>2. PICK next \in Changing : at' = [at EXCEPT ![a] = next]
    BY DEF ClearProfile, SendProfile, SendSwallowed, Changing
  <1>3. /\ at' \in [Appliers -> Steps] /\ at'[a] = next
        /\ \A b \in Appliers \ {a} : at'[b] = at[b]
    BY <1>2 DEF TypeOK, Steps, Changing
  <1>4. LimitOf[plan[a]] \in Limits
    BY <1>1 DEF Limits
  <1>5. /\ profile' \in [Stations -> Limits \cup {0}]
        /\ \A s \in Stations : s # station[a] => profile'[s] = profile[s]
    BY <1>1, <1>4 DEF TypeOK, ClearProfile, SendProfile, SendSwallowed, profiles
  <1>6. TypeOK'
    BY <1>1, <1>3, <1>5 DEF TypeOK, intents
  <1>7. PlanOK' /\ InFlightIsOwned'
    BY <1>1, <1>2 DEF TypeOK, PlanOK, InFlightIsOwned, AtStation, Changing
  <1>8. LoneOK' /\ DoubtOK'
    BY <1>1, <1>3 DEF TypeOK, StationsOK, LoneOK, DoubtOK
  \* Another that is alone, or changes a station not in doubt, is elsewhere.
  <1>9. ASSUME NEW b \in Appliers \ {a}, at[b] \in Changing,
               b \in alone \/ station[b] \notin doubtful
        PROVE  profile'[station[b]] = profile[station[b]]
    <2>1. b \in alone
      BY <1>9 DEF StationsOK, DoubtOK
    <2>2. station[b] # station[a] /\ station[b] \in Stations
      BY <1>1, <1>9, <2>1 DEF StationsOK, LoneOK, PlanOK, AtStation
    <2> QED BY <1>5, <2>2
  <1>10. SentOK'
    <2> SUFFICES ASSUME NEW b \in alone, at'[b] = "record"
                 PROVE  profile'[station[b]] = LimitOf[plan[b]]
      BY <1>1 DEF SentOK
    <2>1. CASE b = a
      <3>1. SendProfile(a)
        BY <2>1 DEF ClearProfile, SendProfile, SendSwallowed, TypeOK
      <3> QED BY <1>1, <2>1, <3>1 DEF SendProfile, TypeOK
    <2>2. CASE b # a
      <3>1. b \in Appliers /\ at[b] = "record" /\ at[b] \in Changing
        BY <1>3, <2>2 DEF TypeOK, Changing
      <3> QED BY <1>9, <2>2, <3>1 DEF StationsOK, SentOK
    <2> QED BY <2>1, <2>2
  <1>11. StepOK'
    <2> SUFFICES ASSUME NEW b \in Appliers, station[b] \notin doubtful, at'[b] \in Changing
                 PROVE  /\ at'[b] = "clear" => profile'[station[b]] = fingerprint[station[b]]
                        /\ at'[b] \in {"send", "recordUnsent"} =>
                              profile'[station[b]] \in {0, fingerprint[station[b]]}
      BY <1>1 DEF StepOK, Changing
    <2>1. CASE b = a
      BY <1>1, <1>2, <2>1
      DEF ClearProfile, SendProfile, SendSwallowed, TypeOK, StationsOK, StepOK, profiles
    <2>2. CASE b # a
      <3>1. at'[b] = at[b] /\ at[b] \in Changing
        BY <1>3, <2>2
      <3> QED BY <1>9, <2>2, <3>1 DEF StationsOK, StepOK
    <2> QED BY <2>1, <2>2
  <1>12. SettledOK'
    <2> SUFFICES ASSUME NEW s \in Stations \ doubtful,
                        \A b \in Appliers : at'[b] \in Changing => station[b] # s
                 PROVE  fingerprint[s] = profile'[s]
      BY <1>1 DEF SettledOK
    <2>1. s # station[a]
      BY <1>3
    <2>2. \A b \in Appliers : at[b] \in Changing => station[b] # s
      BY <1>3, <2>1
    <2> QED BY <1>5, <2>1, <2>2 DEF StationsOK, SettledOK
  <1> QED BY <1>6, <1>7, <1>8, <1>10, <1>11, <1>12 DEF StationsOK

\* The inductive invariant holds of every behaviour.
LEMMA IInvAlways == Spec => []IInv
  <1>1. IInv /\ [Next]_vars => IInv'
    <2> SUFFICES ASSUME IInv, [Next]_vars PROVE IInv'
      OBVIOUS
    <2>1. CASE UNCHANGED vars
      BY <2>1 DEF vars, IInv, TypeOK, PlanOK, InFlightIsOwned, StationsOK, LoneOK, DoubtOK,
                  SentOK, StepOK, SettledOK
    <2>2. ASSUME NEW a \in Appliers, Apply(a) PROVE IInv'
      BY <2>2, DeriveSteps, FailStep, SkipSteps, BeginStep, LeaveSteps,
         ChangeSteps DEF Apply
    <2> QED BY <2>1, <2>2, IntentSteps, StartSteps DEF Next
  <1> QED BY InitIInv, <1>1, PTL DEF Spec

\* The types of intents, applications and stations; among them that every
\* application is at a station of the site or at none.
THEOREM EmsTypes == Spec => []TypeOK
  <1>1. IInv => TypeOK
    BY DEF IInv
  <1> QED BY <1>1, IInvAlways, PTL

\* For any intents, stations and manual applications: the in-flight mark is set
\* exactly while the timer's application runs.
THEOREM InFlightOwned == Spec => []InFlightIsOwned
  <1>1. IInv => InFlightIsOwned
    BY DEF IInv
  <1> QED BY <1>1, IInvAlways, PTL

\* For any intents, stations and manual applications: the fingerprint of a
\* station that is not in doubt and not being changed is the limit published for
\* it last.  A station gets into doubt when a swallowed Call is recorded, when one
\* that was or may have been published is not, when a clear is not followed by a
\* set, and when applications meet there; an application that has the station to
\* itself and publishes its Call ends the doubt.
THEOREM FingerprintsAreProfiles == Spec => []FingerprintIsProfile
  <1>1. IInv => FingerprintIsProfile
    <2> SUFFICES ASSUME IInv, NEW s \in Stations \ doubtful, Busy(s) = {}
                 PROVE  fingerprint[s] = profile[s]
      BY DEF FingerprintIsProfile
    <2>1. \A a \in Appliers : at[a] \in Changing => station[a] # s
      BY DEF Busy, Changing
    <2> QED BY <2>1 DEF IInv, StationsOK, SettledOK
  <1> QED BY <1>1, IInvAlways, PTL

-----------------------------------------------------------------------------
(* No intent is forgotten *)

\* An intent whose handler is through was taken into account, is recorded as
\* dropped, or somebody will come to it: the timer is set, or the application it
\* started has yet to read the intents.  With this, StoredIsConsidered needs only
\* that timers fire and applications go on.
NotifiedUnderWay ==
    \A i \in Intents : handler[i] = "notified" =>
        i \in considered \cup dropped \/ timer = "set" \/ at["auto"] = "derive"

\* Every step leaves each intent with somebody to come to it.
LEMMA NextNotified == IInv /\ NotifiedUnderWay /\ [Next]_vars => NotifiedUnderWay'
  <1> SUFFICES ASSUME TypeOK, InFlightIsOwned, NotifiedUnderWay, [Next]_vars
               PROVE  NotifiedUnderWay'
    BY DEF IInv
  <1> USE EmsAssumption DEF TypeOK, NotifiedUnderWay
  <1>0. "auto" \in Appliers /\ \A m \in Manuals : m \in Appliers /\ m # "auto"
    BY DEF Appliers
  <1>1. ASSUME NEW i \in Intents, StoreIntent(i) \/ RejectIntent(i) \/ IntentExpires(i)
        PROVE  NotifiedUnderWay'
    BY <1>1 DEF StoreIntent, RejectIntent, IntentExpires
  <1>2. ASSUME NEW i \in Intents, MaybeAutoApply(i) PROVE NotifiedUnderWay'
    BY <1>2 DEF MaybeAutoApply
  <1>3. CASE EditConfig
    BY <1>3 DEF EditConfig
  <1>4. CASE TimerFires
    BY <1>0, <1>4 DEF TimerFires
  <1>5. CASE TimerFiresInFlight
    BY <1>5 DEF TimerFiresInFlight, Notified
  <1>6. ASSUME NEW m \in Manuals, ManualApply(m) PROVE NotifiedUnderWay'
    BY <1>0, <1>6 DEF ManualApply, intents
  <1>7. ASSUME NEW a \in Appliers, Derive(a) \/ DeriveNone(a) PROVE NotifiedUnderWay'
    BY <1>7 DEF Derive, DeriveNone, intents
  <1>8. ASSUME NEW a \in Appliers, ApplyFails(a) PROVE NotifiedUnderWay'
    BY <1>0, <1>8 DEF ApplyFails, Finish, Notified, intents
  <1>9. ASSUME NEW a \in Appliers,
               \/ SkipIneligible(a) \/ SkipUnchanged(a) \/ BeginStation(a)
               \/ ClearProfile(a) \/ SendProfile(a) \/ SendSwallowed(a) \/ SendUnconfirmed(a)
               \/ SendRefused(a) \/ RecordFingerprint(a)
        PROVE  NotifiedUnderWay'
    <2>1. /\ UNCHANGED <<handler, timer, considered, dropped>>
          /\ at[a] # "derive"
      BY <1>9 DEF SkipIneligible, SkipUnchanged, BeginStation, ClearProfile, SendProfile,
                  SendSwallowed, SendUnconfirmed, SendRefused, RecordFingerprint, intents
    <2>2. \A b \in Appliers \ {a} : at'[b] = at[b]
      BY <1>9 DEF SkipIneligible, SkipUnchanged, BeginStation, ClearProfile, SendProfile,
                  SendSwallowed, SendUnconfirmed, SendRefused, RecordFingerprint, Advance, Finish
    <2> QED BY <1>0, <2>1, <2>2
  <1>10. CASE UNCHANGED vars
    BY <1>10 DEF vars
  <1> QED
    BY <1>1, <1>2, <1>3, <1>4, <1>5, <1>6, <1>7, <1>8, <1>9, <1>10 DEF Next, Apply

\* For any intents and applications: no intent is left that neither a plan took
\* into account nor a timer or an application will come to, but those recorded
\* as dropped.
THEOREM NoIntentForgotten == Spec => []NotifiedUnderWay
  <1>1. Init => NotifiedUnderWay
    BY DEF Init, NotifiedUnderWay
  <1> QED BY <1>1, NextNotified, IInvAlways, PTL DEF Spec
=============================================================================
