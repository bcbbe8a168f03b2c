---------------------------- MODULE EmsAutoApply ----------------------------
(***************************************************************************)
(* How the limits an energy manager sends for a site reach its stations:   *)
(* packages/core/src/modules/EMS/src/module/MqttBridge.ts (handleMessage)  *)
(* and module.ts (maybeAutoApply, _runAutoApply, applyChargingPlan).  An   *)
(* intent is stored and starts a debounce timer, one per site; the timer   *)
(* starts an application of the latest active intent, unless one is in     *)
(* flight; an operator may start applications of his own at any time.      *)
(*                                                                         *)
(* One site: timers, the in-flight mark and configurations are kept per    *)
(* site.  The database and the queue to the stations are external: a read  *)
(* or a write is one step that may fail.  The sender is the module's       *)
(* BrokerAwareMessageSender, which confirms a Call without sending it      *)
(* while the broker is down.  What a plan computes from an intent          *)
(* (deriveChargingPlan) is abstracted to one limit per intent.             *)
(***************************************************************************)
EXTENDS Naturals, FiniteSets

CONSTANTS
    Intents,      \* a set of positive numbers, in the order of intentCreatedAt
    LimitOf,      \* intent -> the limit a plan derives from it
    Stations,     \* 1..n: the stations of the site, in the plan's order
    Manuals,      \* applications an operator starts through the API
    ClearsFirst,  \* "yes" for the purpose ChargingStationMaxProfile
    MaxEdits      \* bound: changes of the auto-apply configuration

ASSUME EmsAssumption ==
    /\ Intents \subseteq Nat \ {0}
    /\ Stations \subseteq Nat \ {0}
    /\ 1 \in Stations
    /\ LimitOf \in [Intents -> Nat \ {0}]
    /\ "auto" \notin Manuals
    /\ ClearsFirst \in {"yes", "no"}
    /\ MaxEdits \in Nat

VARIABLES
    handler,     \* where handleMessage stands for an intent
    active,      \* intents the database holds as active
    config,      \* auto-apply configuration of the site: "on" or "off"
    edits,       \* changes of it so far
    timer,       \* the site's entry in _autoApplyDebounceTimers
    inFlight,    \* the site's mark in _autoApplyInFlight
    at,          \* where an application stands
    plan,        \* the intent its plan was derived from
    station,     \* the station it deals with
    fingerprint, \* _lastAppliedFingerprints: station -> limit, 0 without one
    profile,     \* external: the limit last published for a station, 0 after a clear
    considered,  \* history: intents some plan was derived after
    dropped,     \* history: intents whose application was skipped or failed
    doubtful,    \* history: stations whose last change went wrong in a way named
                 \*   below, until one application changes it undisturbed
    alone        \* history: those changing a station that no other has met there

vars == <<handler, active, config, edits, timer, inFlight, at, plan, station,
          fingerprint, profile, considered, dropped, doubtful, alone>>

Appliers == Manuals \cup {"auto"}

Limits == {LimitOf[i] : i \in Intents}

Steps == {"idle", "derive", "check", "clear", "send", "record", "recordUnsent", "done"}

TypeOK ==
    /\ handler \in [Intents -> {"new", "stored", "notified", "rejected"}]
    /\ active \subseteq Intents
    /\ config \in {"on", "off"}
    /\ edits \in 0..MaxEdits
    /\ timer \in {"none", "set"}
    /\ inFlight \in {"yes", "no"}
    /\ at \in [Appliers -> Steps]
    /\ plan \in [Appliers -> Intents \cup {0}]
    /\ station \in [Appliers -> Stations \cup {0}]
    /\ fingerprint \in [Stations -> Limits \cup {0}]
    /\ profile \in [Stations -> Limits \cup {0}]
    /\ considered \subseteq Intents
    /\ dropped \subseteq Intents
    /\ doubtful \subseteq Stations
    /\ alone \subseteq Appliers

Init ==
    /\ handler = [i \in Intents |-> "new"]
    /\ active = {}
    /\ config = "off"
    /\ edits = 0
    /\ timer = "none"
    /\ inFlight = "no"
    /\ at = [a \in Appliers |-> "idle"]
    /\ plan = [a \in Appliers |-> 0]
    /\ station = [a \in Appliers |-> 0]
    /\ fingerprint = [s \in Stations |-> 0]
    /\ profile = [s \in Stations |-> 0]
    /\ considered = {}
    /\ dropped = {}
    /\ doubtful = {}
    /\ alone = {}

intents == <<handler, active, config, edits, timer>>
profiles == <<fingerprint, profile, doubtful, alone>>

-----------------------------------------------------------------------------
(* Intents *)

\* handleMessage stores an intent, ...
StoreIntent(i) ==
    /\ handler[i] = "new"
    /\ handler' = [handler EXCEPT ![i] = "stored"]
    /\ active' = active \cup {i}
    /\ UNCHANGED <<config, edits, timer, inFlight, at, plan, station, profiles,
                   considered, dropped>>

\* ... or rejects it: not valid, known already, or not written.
RejectIntent(i) ==
    /\ handler[i] = "new"
    /\ handler' = [handler EXCEPT ![i] = "rejected"]
    /\ UNCHANGED <<active, config, edits, timer, inFlight, at, plan, station, profiles,
                   considered, dropped>>

\* A fault for comparison: an application in flight is taken to cover the
\* intent.
NotifyUnlessBusy(i) ==
    /\ handler[i] = "stored"
    /\ handler' = [handler EXCEPT ![i] = "notified"]
    /\ timer' = IF config = "on" /\ inFlight = "no" THEN "set" ELSE timer
    /\ dropped' = IF config = "on" THEN dropped ELSE dropped \cup {i}
    /\ UNCHANGED <<active, config, edits, inFlight, at, plan, station, profiles, considered>>

\* After the acknowledgement was published and the outcome written,
\* maybeAutoApply: without a configuration the intent only waits in the
\* database; a timer that is set already will do for this intent too.
MaybeAutoApply(i) ==
    /\ handler[i] = "stored"
    /\ handler' = [handler EXCEPT ![i] = "notified"]
    /\ timer' = IF config = "on" THEN "set" ELSE timer
    /\ dropped' = IF config = "on" THEN dropped ELSE dropped \cup {i}
    /\ UNCHANGED <<active, config, edits, inFlight, at, plan, station, profiles, considered>>

\* The validity of an intent ends, or a later write replaces it as active.
IntentExpires(i) ==
    /\ i \in active
    /\ active' = active \ {i}
    /\ UNCHANGED <<handler, config, edits, timer, inFlight, at, plan, station, profiles,
                   considered, dropped>>

\* setAutoApplyConfig and removeAutoApplyConfig: a timer that is set stays set.
EditConfig ==
    /\ edits < MaxEdits
    /\ edits' = edits + 1
    /\ config' = IF config = "on" THEN "off" ELSE "on"
    /\ UNCHANGED <<handler, active, timer, inFlight, at, plan, station, profiles,
                   considered, dropped>>

-----------------------------------------------------------------------------
(* Starting an application *)

Notified == {i \in Intents : handler[i] = "notified"}

\* The timer fires and _runAutoApply starts an application, ...
TimerFires ==
    /\ timer = "set"
    /\ inFlight = "no"
    /\ timer' = "none"
    /\ inFlight' = "yes"
    /\ at' = [at EXCEPT !["auto"] = "derive"]
    /\ UNCHANGED <<handler, active, config, edits, plan, station, profiles, considered, dropped>>

\* ... or finds one in flight and does nothing: nobody comes back to the
\* intents that waited for the timer.
TimerFiresInFlight ==
    /\ timer = "set"
    /\ inFlight = "yes"
    /\ timer' = "none"
    /\ dropped' = dropped \cup (Notified \ considered)
    /\ UNCHANGED <<handler, active, config, edits, inFlight, at, plan, station, profiles,
                   considered>>

\* An operator applies the plan through the API: nothing guards this.
ManualApply(m) ==
    /\ at[m] = "idle"
    /\ at' = [at EXCEPT ![m] = "derive"]
    /\ UNCHANGED <<intents, inFlight, plan, station, profiles, considered, dropped>>

-----------------------------------------------------------------------------
(* applyChargingPlan *)

\* The end of an application; that of the timer clears the mark (finally), and
\* may start again.
Finish(a) ==
    /\ at' = [at EXCEPT ![a] = IF a = "auto" THEN "idle" ELSE "done"]
    /\ inFlight' = IF a = "auto" THEN "no" ELSE inFlight
    /\ plan' = [plan EXCEPT ![a] = 0]
    /\ station' = [station EXCEPT ![a] = 0]

\* A fault for comparison: one step past the last station.
StationPastEnd(s) == IF s \in Stations THEN s + 1 ELSE 0

\* The station after s, 0 at the end.
NextStation(s) == IF s + 1 \in Stations THEN s + 1 ELSE 0

\* On to the next station of the plan, or to the end.
Advance(a) ==
    IF NextStation(station[a]) = 0
    THEN Finish(a)
    ELSE /\ at' = [at EXCEPT ![a] = "check"]
         /\ station' = [station EXCEPT ![a] = NextStation(station[a])]
         /\ UNCHANGED <<inFlight, plan>>

\* deriveChargingPlan reads the latest active intent.
Derive(a) ==
    /\ at[a] = "derive"
    /\ \E i \in active : /\ \A j \in active : j <= i
                         /\ plan' = [plan EXCEPT ![a] = i]
    /\ at' = [at EXCEPT ![a] = "check"]
    /\ station' = [station EXCEPT ![a] = 1]
    /\ considered' = considered \cup {i \in Intents : handler[i] \in {"stored", "notified"}}
    /\ UNCHANGED <<intents, inFlight, profiles, dropped>>

\* There is no active intent: the application ends.
DeriveNone(a) ==
    /\ at[a] = "derive"
    /\ active = {}
    /\ considered' = considered \cup {i \in Intents : handler[i] \in {"stored", "notified"}}
    /\ Finish(a)
    /\ UNCHANGED <<intents, profiles, dropped>>

\* A fault for comparison: the mark outlives an application that throws.
FailMarked(a) ==
    /\ at[a] \notin {"idle", "done"}
    /\ at' = [at EXCEPT ![a] = IF a = "auto" THEN "idle" ELSE "done"]
    /\ plan' = [plan EXCEPT ![a] = 0]
    /\ station' = [station EXCEPT ![a] = 0]
    /\ UNCHANGED <<intents, inFlight, profiles, considered, dropped>>

\* A database call or the request to the station throws, the request perhaps
\* after it went out: the rest of the plan is left.
ApplyFails(a) ==
    /\ at[a] \notin {"idle", "done"}
    /\ Finish(a)
    /\ dropped' = IF at[a] = "derive" /\ a = "auto" THEN dropped \cup (Notified \ considered)
                  ELSE dropped
    /\ doubtful' = IF \/ at[a] = "record"
                      \/ at[a] \in {"send", "recordUnsent"} /\ profile[station[a]] = 0
                   THEN doubtful \cup {station[a]}
                   ELSE doubtful
    /\ alone' = alone \ {a}
    /\ UNCHANGED <<intents, fingerprint, profile, considered>>

\* The station is not eligible or speaks another protocol.
SkipIneligible(a) ==
    /\ at[a] = "check"
    /\ Advance(a)
    /\ UNCHANGED <<intents, profiles, considered, dropped>>

\* The limit is the one recorded for the station.
SkipUnchanged(a) ==
    /\ at[a] = "check"
    /\ fingerprint[station[a]] = LimitOf[plan[a]]
    /\ Advance(a)
    /\ UNCHANGED <<intents, profiles, considered, dropped>>

\* Changing the profile of a station.
Changing == {"clear", "send", "record", "recordUnsent"}

\* Others that are about to change the profile of the station.
Rivals(a) == {b \in Appliers \ {a} : station[b] = station[a] /\ at[b] \in Changing}

\* The limit differs: identifiers are taken, and the profile is cleared first if
\* its purpose asks for it.
BeginStation(a) ==
    /\ at[a] = "check"
    /\ fingerprint[station[a]] # LimitOf[plan[a]]
    /\ at' = [at EXCEPT ![a] = IF ClearsFirst = "yes" THEN "clear" ELSE "send"]
    /\ IF Rivals(a) = {}
       THEN alone' = alone \cup {a} /\ UNCHANGED doubtful
       ELSE alone' = alone \ (Rivals(a) \cup {a}) /\ doubtful' = doubtful \cup {station[a]}
    /\ UNCHANGED <<intents, inFlight, plan, station, fingerprint, profile, considered, dropped>>

\* ClearChargingProfile is sent, and the application waits a moment; a failure
\* to send it is ignored.
ClearProfile(a) ==
    /\ at[a] = "clear"
    /\ at' = [at EXCEPT ![a] = "send"]
    /\ \/ profile' = [profile EXCEPT ![station[a]] = 0]
       \/ UNCHANGED profile
    /\ UNCHANGED <<intents, inFlight, plan, station, fingerprint, doubtful, alone,
                   considered, dropped>>

\* SetChargingProfile is published and will be confirmed, ...
SendProfile(a) ==
    /\ at[a] = "send"
    /\ at' = [at EXCEPT ![a] = "record"]
    /\ profile' = [profile EXCEPT ![station[a]] = LimitOf[plan[a]]]
    /\ UNCHANGED <<intents, inFlight, plan, station, fingerprint, doubtful, alone,
                   considered, dropped>>

\* ... or, while the broker is down, confirmed without being published, ...
SendSwallowed(a) ==
    /\ at[a] = "send"
    /\ at' = [at EXCEPT ![a] = "recordUnsent"]
    /\ UNCHANGED <<intents, inFlight, plan, station, profiles, considered, dropped>>

\* ... or published and not confirmed: publish returned false for a full
\* channel, and nothing is recorded, ...
SendUnconfirmed(a) ==
    /\ at[a] = "send"
    /\ profile' = [profile EXCEPT ![station[a]] = LimitOf[plan[a]]]
    /\ doubtful' = doubtful \cup {station[a]}
    /\ alone' = alone \ {a}
    /\ Advance(a)
    /\ UNCHANGED <<intents, fingerprint, considered, dropped>>

\* A fault for comparison: the fingerprint is recorded before the outcome is
\* known.
RecordUnsent(a) ==
    /\ at[a] = "send"
    /\ fingerprint' = [fingerprint EXCEPT ![station[a]] = LimitOf[plan[a]]]
    /\ alone' = alone \ {a}
    /\ Advance(a)
    /\ UNCHANGED <<intents, profile, doubtful, considered, dropped>>

\* ... or neither: nothing is recorded, the station may be left cleared.
SendRefused(a) ==
    /\ at[a] = "send"
    /\ doubtful' = IF profile[station[a]] = 0 THEN doubtful \cup {station[a]} ELSE doubtful
    /\ alone' = alone \ {a}
    /\ Advance(a)
    /\ UNCHANGED <<intents, fingerprint, profile, considered, dropped>>

\* The confirmation comes back and the fingerprint is recorded, whether or not
\* the Call was published; then the profile and the decision are written.
RecordFingerprint(a) ==
    /\ at[a] \in {"record", "recordUnsent"}
    /\ fingerprint' = [fingerprint EXCEPT ![station[a]] = LimitOf[plan[a]]]
    /\ doubtful' = CASE at[a] = "recordUnsent" -> doubtful \cup {station[a]}
                     [] at[a] = "record" /\ a \in alone -> doubtful \ {station[a]}
                     [] OTHER -> doubtful
    /\ alone' = alone \ {a}
    /\ Advance(a)
    /\ UNCHANGED <<intents, profile, considered, dropped>>

Apply(a) ==
    \/ Derive(a) \/ DeriveNone(a) \/ ApplyFails(a)
    \/ SkipIneligible(a) \/ SkipUnchanged(a) \/ BeginStation(a)
    \/ ClearProfile(a) \/ SendProfile(a) \/ SendSwallowed(a) \/ SendUnconfirmed(a)
    \/ SendRefused(a) \/ RecordFingerprint(a)

Next ==
    \/ \E i \in Intents : \/ StoreIntent(i) \/ RejectIntent(i)
                          \/ MaybeAutoApply(i) \/ IntentExpires(i)
    \/ EditConfig
    \/ TimerFires
    \/ TimerFiresInFlight
    \/ \E m \in Manuals : ManualApply(m)
    \/ \E a \in Appliers : Apply(a)

\* Timers fire, and calls to the database and to the queue return or throw; of
\* an operator's applications nothing is assumed.
Fairness ==
    /\ \A i \in Intents : WF_vars(MaybeAutoApply(i))
    /\ WF_vars(TimerFires \/ TimerFiresInFlight)
    /\ WF_vars(Apply("auto"))

Spec == Init /\ [][Next]_vars

FairSpec == Spec /\ Fairness

-----------------------------------------------------------------------------
(* Properties *)

\* The mark that makes the timer's callback give up belongs to an application
\* that is running: no way an application ends leaves the site blocked.
InFlightIsOwned == inFlight = "yes" <=> at["auto"] # "idle"

\* Those about to change the profile of s.
Busy(s) == {a \in Appliers : station[a] = s /\ at[a] \in Changing}

\* A station is skipped as unchanged only if that limit is the one last published
\* for it.  What can part the two is named, and is all: a Call that the sender
\* swallowed is recorded, one whose publication is not confirmed or whose
\* application throws is not, a clear may be followed by no set, and applications
\* that meet at a station record in any order.  The next application that has the
\* station to itself and whose Call is published brings them together again.
FingerprintIsProfile ==
    \A s \in Stations \ doubtful : Busy(s) = {} => fingerprint[s] = profile[s]

\* An intent that was stored is taken into account by a plan derived later.  It
\* is dropped only if auto-apply was off, the application failed before its
\* plan, or its timer fired while an application was in flight.
StoredIsConsidered ==
    \A i \in Intents : handler[i] = "stored" ~> i \in considered \cup dropped
=============================================================================
