-------------------------- MODULE PiServicesProofs ---------------------------
(***************************************************************************)
(* Theorems about the Pi server's parts beside the approvals.              *)
(*   RelayLifecycle: for every number of settings requests and poller      *)
(*     threads and all values of the settings.                             *)
(*   DeviceAccount: for every set of devices, of request threads and of    *)
(*     completions, and any number of tasks and tokens.                    *)
(*   MCPiServices: the parts side by side.                                 *)
(* Ingestion and HouseholdConfig have proof modules of their own.          *)
(***************************************************************************)
EXTENDS MCPiServices, IngestionProofs, HouseholdConfigProofs, TLAPS

HIDE IngestionAssumption
USE LifecycleAssumption

-----------------------------------------------------------------------------
(* RelayLifecycle                                                            *)

Confs == [RelayFields -> Settings]
Files == Bodies \union {Torn}
States == {"idle", "save", "write", "apply", "decide", "start", "startLocked", "startJoin", "stop",
           "stopJoin"}

-----------------------------------------------------------------------------
(* What overriding does.                                                   *)

LEMMA BodyIsFunction ==
  /\ \A b \in Bodies : b \in [DOMAIN b -> Settings] /\ DOMAIN b \subseteq RelayFields
  /\ \A S \in SUBSET RelayFields : [S -> Settings] \subseteq Bodies
  /\ NoFields \in Bodies
<1>1. \A b \in Bodies : b \in [DOMAIN b -> Settings] /\ DOMAIN b \subseteq RelayFields
  BY DEF Bodies
<1>2. \A S \in SUBSET RelayFields : [S -> Settings] \subseteq Bodies
  BY DEF Bodies
<1>3. NoFields \in [{} -> Settings]
  BY DEF NoFields
<1>4. QED
  BY <1>1, <1>2, <1>3

LEMMA OverrideOfBodies ==
  ASSUME NEW a \in Bodies, NEW b \in Bodies
  PROVE  Override(a, b) \in Bodies
<1>1. Override(a, b) \in [DOMAIN a \union DOMAIN b -> Settings]
  BY BodyIsFunction DEF Override
<1>2. QED
  BY <1>1, BodyIsFunction

LEMMA OverrideOfConf ==
  ASSUME NEW c \in Confs, NEW b \in Bodies
  PROVE  /\ Override(c, b) \in Confs
         /\ \A f \in RelayFields : Override(c, b)[f] = IF f \in DOMAIN b THEN b[f] ELSE c[f]
BY BodyIsFunction DEF Override, Confs

LEMMA ReadableIsBody == \A s \in Files : Readable(s) \in Bodies
BY BodyIsFunction DEF Readable, Files

LEMMA LoadConfigIsConf == \A s \in Files : LoadConfig(s) \in Confs
<1>1. [f \in RelayFields |-> Empty] \in Confs
  BY DEF Confs, Settings
<1>2. QED
  BY <1>1, ReadableIsBody, OverrideOfConf DEF LoadConfig

\* Loading the merged file is overriding what the file was loaded to.
LEMMA LoadingMerged ==
  ASSUME NEW s \in Files, NEW b \in Bodies
  PROVE  LoadConfig(Override(Readable(s), b)) = Override(LoadConfig(s), b)
<1> DEFINE none == [f \in RelayFields |-> Empty]
           stored == Readable(s)
<1>1. none \in Confs /\ stored \in Bodies /\ Override(stored, b) \in Bodies
  BY ReadableIsBody, OverrideOfBodies DEF Confs, Settings
<1>2. Readable(Override(stored, b)) = Override(stored, b)
  BY <1>1 DEF Readable
<1>3. \A f \in RelayFields :
        Override(none, Override(stored, b))[f]
          = IF f \in DOMAIN Override(stored, b) THEN Override(stored, b)[f] ELSE none[f]
  BY <1>1, OverrideOfConf
<1>4. DOMAIN Override(stored, b) = DOMAIN stored \union DOMAIN b
  BY DEF Override
<1>5. \A f \in DOMAIN stored \union DOMAIN b :
        Override(stored, b)[f] = IF f \in DOMAIN b THEN b[f] ELSE stored[f]
  BY DEF Override
<1>6. \A f \in RelayFields : Override(none, stored)[f] = IF f \in DOMAIN stored THEN stored[f] ELSE none[f]
  BY <1>1, OverrideOfConf
<1>7. \A f \in RelayFields :
        Override(Override(none, stored), b)[f]
          = IF f \in DOMAIN b THEN b[f] ELSE Override(none, stored)[f]
  BY <1>1, OverrideOfConf
<1>8. \A f \in RelayFields : Override(none, Override(stored, b))[f] = Override(Override(none, stored), b)[f]
  BY <1>3, <1>4, <1>5, <1>6, <1>7
<1>9. Override(none, Override(stored, b)) \in Confs /\ Override(Override(none, stored), b) \in Confs
  BY <1>1, OverrideOfConf
<1>10. Override(none, Override(stored, b)) = Override(Override(none, stored), b)
  BY <1>8, <1>9 DEF Confs
<1>11. QED
  BY <1>2, <1>10 DEF LoadConfig

LEMMA OverrideByNothing == \A c \in Confs : Override(c, NoFields) = c
BY DEF Override, NoFields, Confs

LEMMA SameFields == \A c, d \in Confs : (\A f \in RelayFields : c[f] = d[f]) => c = d
BY DEF Confs

\* What is left of a request after one of its fields.
Rest(b, f) == [g \in DOMAIN b \ {f} |-> b[g]]

\* Setting one field of the body first changes nothing of the result.
LEMMA FieldByField ==
  ASSUME NEW c \in Confs, NEW b \in Bodies, NEW f \in DOMAIN b
  PROVE  /\ Rest(b, f) \in Bodies /\ [c EXCEPT ![f] = b[f]] \in Confs
         /\ Override([c EXCEPT ![f] = b[f]], Rest(b, f)) = Override(c, b)
<1> DEFINE d == [c EXCEPT ![f] = b[f]]
<1>1. b \in [DOMAIN b -> Settings] /\ DOMAIN b \subseteq RelayFields
  BY BodyIsFunction
<1>2. Rest(b, f) \in [DOMAIN b \ {f} -> Settings] /\ DOMAIN b \ {f} \in SUBSET RelayFields
  BY <1>1 DEF Rest
<1>3. Rest(b, f) \in Bodies
  BY <1>2, BodyIsFunction
<1>4. d \in Confs
  BY <1>1 DEF Confs
<1>5. \A g \in RelayFields :
        Override(d, Rest(b, f))[g] = IF g \in DOMAIN Rest(b, f) THEN Rest(b, f)[g] ELSE d[g]
  BY <1>3, <1>4, OverrideOfConf
<1>6. \A g \in RelayFields : Override(c, b)[g] = IF g \in DOMAIN b THEN b[g] ELSE c[g]
  BY OverrideOfConf
<1>7. \A g \in RelayFields : Override(d, Rest(b, f))[g] = Override(c, b)[g]
  BY <1>1, <1>5, <1>6 DEF Confs, Rest
<1>8. Override(d, Rest(b, f)) \in Confs /\ Override(c, b) \in Confs
  BY <1>3, <1>4, OverrideOfConf
<1> HIDE DEF d
<1>9. Override(d, Rest(b, f)) = Override(c, b)
  BY <1>7, <1>8, SameFields
<1>10. QED
  BY <1>3, <1>4, <1>9 DEF d

-----------------------------------------------------------------------------
(* Types.                                                                  *)

LEMMA LifeTypeInit == LifeInit => LifeTypeOK
<1> SUFFICES ASSUME LifeInit PROVE LifeTypeOK
  OBVIOUS
<1>1. NoFields \in Bodies
  BY BodyIsFunction
<1>2. QED
  BY <1>1 DEF LifeInit, LifeTypeOK, Settings, LifeThreads

LEMMA LifeTypeStep == LifeTypeOK /\ [LifeNext]_lifeVars => LifeTypeOK'
<1> SUFFICES ASSUME LifeTypeOK, [LifeNext]_lifeVars PROVE LifeTypeOK'
  OBVIOUS
<1>0. NoFields \in Bodies /\ Posters \subseteq LifeThreads /\ Starter \in LifeThreads
  BY BodyIsFunction DEF LifeThreads
<1> USE DEF LifeTypeOK, Goto
<1>1. CASE \E p \in Posters, b \in Posts : PostSettings(p, b)
  BY <1>0, <1>1 DEF PostSettings, Enabled
<1>2. CASE \E p \in LifeThreads : OpenSettingsFile(p)
  <2>1. PICK p \in LifeThreads : OpenSettingsFile(p)
    BY <1>2
  <2>2. Override(Readable(saved), toApply[p]) \in Bodies
    <3>1. saved \in Files /\ toApply[p] \in Bodies
      BY DEF Files
    <3>2. QED
      BY <3>1, ReadableIsBody, OverrideOfBodies
  <2>3. QED
    BY <2>1, <2>2 DEF OpenSettingsFile, MergedOverrides
<1>3. CASE \E p \in LifeThreads : WriteSettingsFile(p)
  BY <1>0, <1>3 DEF WriteSettingsFile
<1>4. CASE \E p \in LifeThreads : ApplySetting(p)
  <2>1. PICK p \in LifeThreads : ApplySetting(p)
    BY <1>4
  <2>2. PICK f \in DOMAIN toApply[p] :
          /\ conf' = [conf EXCEPT ![f] = toApply[p][f]]
          /\ toApply' = [toApply EXCEPT ![p] = Rest(toApply[p], f)]
          /\ lifeAt' = [lifeAt EXCEPT ![p] = IF Rest(toApply[p], f) = NoFields THEN "decide" ELSE "apply"]
    BY <2>1 DEF ApplySetting, Rest
  <2>3. toApply[p] \in Bodies /\ conf \in Confs
    BY DEF Confs
  <2>4. Rest(toApply[p], f) \in Bodies /\ [conf EXCEPT ![f] = toApply[p][f]] \in Confs
    BY <2>3, FieldByField
  <2>5. QED
    BY <2>1, <2>2, <2>4 DEF ApplySetting, Confs
<1>5. CASE \E p \in LifeThreads : Decide(p)
  BY <1>5 DEF Decide, Transition, Enabled, Running
<1>6. CASE \E p \in LifeThreads : StartIfEnabled(p)
  BY <1>6 DEF StartIfEnabled
<1>7. CASE \E p \in LifeThreads : StartLocked(p)
  BY <1>7 DEF StartLocked, Spawn
<1>8. CASE \E p \in LifeThreads : StartAfterJoin(p)
  BY <1>8 DEF StartAfterJoin, Spawn
<1>9. CASE \E p \in LifeThreads : StartGivesUp(p)
  BY <1>9 DEF StartGivesUp
<1>10. CASE \E p \in LifeThreads : Stop(p)
  BY <1>10 DEF Stop
<1>11. CASE \E p \in LifeThreads : StopJoined(p)
  BY <1>11 DEF StopJoined
<1>12. CASE \E t \in Pollers : PollerLoop(t)
  BY <1>12 DEF PollerLoop, PollerChecks, PollerPolled, PollerWaited, PollerStep, NextOfLoop
<1>13. CASE Reboot
  <2>1. LoadConfig(saved) \in Confs
    BY LoadConfigIsConf DEF Files
  <2>2. QED
    BY <1>0, <1>13, <2>1 DEF Reboot, Confs
<1>14. CASE UNCHANGED lifeVars
  BY <1>14 DEF lifeVars
<1>15. QED
  BY <1>1, <1>2, <1>3, <1>4, <1>5, <1>6, <1>7, <1>8, <1>9, <1>10, <1>11, <1>12, <1>13, <1>14
     DEF LifeNext, RequestStep

\* Every variable keeps to its type.
THEOREM LifeTypeCorrect == LifeSpec => []LifeTypeOK
BY LifeTypeInit, LifeTypeStep, PTL DEF LifeSpec

-----------------------------------------------------------------------------
(* OnePoller: the only thread that lives is the one start remembers.       *)

LiveIsCurrent == \A t \in Pollers : poller[t] # "dead" => t = current

LEMMA LiveIsCurrentStep == LifeTypeOK /\ LiveIsCurrent /\ [LifeNext]_lifeVars => LiveIsCurrent'
<1> SUFFICES ASSUME LifeTypeOK, LiveIsCurrent, [LifeNext]_lifeVars PROVE LiveIsCurrent'
  OBVIOUS
<1> USE DEF LiveIsCurrent
<1>1. ASSUME ~Running, Spawn PROVE LiveIsCurrent'
  <2>1. \A t \in Pollers : poller[t] = "dead"
    BY <1>1 DEF Running
  <2>2. QED
    BY <1>1, <2>1 DEF Spawn, LifeTypeOK
<1>2. CASE \E p \in LifeThreads : StartLocked(p)
  BY <1>1, <1>2 DEF StartLocked
<1>3. CASE \E p \in LifeThreads : StartAfterJoin(p)
  BY <1>1, <1>3 DEF StartAfterJoin
<1>4. CASE \E t \in Pollers : PollerLoop(t)
  BY <1>4 DEF PollerLoop, PollerChecks, PollerPolled, PollerWaited, PollerStep, LifeTypeOK
<1>5. CASE Reboot
  BY <1>5 DEF Reboot
<1>6. CASE UNCHANGED <<poller, current>>
  BY <1>6
<1>7. QED
  BY <1>2, <1>3, <1>4, <1>5, <1>6 DEF LifeNext, RequestStep, lifeVars, PostSettings, OpenSettingsFile,
     WriteSettingsFile, ApplySetting, Decide, StartIfEnabled, StartGivesUp, Stop, StopJoined

\* At most one thread polls the relay, however many requests start and stop it
\* at once, whichever gives up waiting, and across kills.
THEOREM OnePollerHolds == LifeSpec => []OnePoller
<1>1. LifeInit => LiveIsCurrent
  BY DEF LifeInit, LiveIsCurrent
<1>2. LiveIsCurrent => OnePoller
  BY DEF LiveIsCurrent, OnePoller
<1>3. QED
  BY <1>1, <1>2, LiveIsCurrentStep, LifeTypeCorrect, PTL DEF LifeSpec

-----------------------------------------------------------------------------
(* Requests one at a time.  overlapped is set as soon as a request begins  *)
(* while another thread is not idle.                                       *)

OneAtATime ==
  ~overlapped => \A p, q \in LifeThreads : lifeAt[p] # "idle" /\ lifeAt[q] # "idle" => p = q

\* SettingsSurviveRestart, at every place of a request: before its save the
\* file holds what is in force, after it the file holds what will be.
SettingsGoThrough ==
  ~overlapped =>
    /\ Quiet => LoadConfig(saved) = conf
    /\ \A p \in LifeThreads :
         /\ lifeAt[p] \notin {"idle", "write", "apply"} => LoadConfig(saved) = conf
         /\ lifeAt[p] = "write" => LoadConfig(toWrite[p]) = Override(conf, toApply[p])
         /\ lifeAt[p] = "apply" => LoadConfig(saved) = Override(conf, toApply[p])

\* PollerFollowsSettings, at every place of a request: until it decides it
\* remembers whether the relay was served, and from then on it is on the way to
\* what the settings ask for.
PollerIsDue ==
  ~overlapped =>
    /\ Quiet => (Serving => Enabled(conf)) /\ (Enabled(conf) /\ ~lateEnable => Serving)
    /\ \A p \in LifeThreads :
         /\ lifeAt[p] \in {"save", "write", "apply", "decide"} =>
              (Serving => was[p]) /\ (was[p] /\ ~lateEnable => Serving)
         /\ lifeAt[p] \in {"start", "startLocked"} => ~Running
         /\ lifeAt[p] = "startLocked" => Enabled(conf)
         /\ lifeAt[p] # "startJoin"
         /\ lifeAt[p] \in {"stop", "stopJoin"} => ~Enabled(conf)
         /\ lifeAt[p] = "stopJoin" => stopSet

\* A step of a thread is one of a thread that is not idle, and moves no other.
LEMMA StepOfOne ==
  ASSUME LifeTypeOK, NEW p \in LifeThreads, RequestStep(p)
  PROVE  /\ lifeAt[p] # "idle" /\ overlapped' = overlapped
         /\ \A q \in LifeThreads \ {p} : lifeAt'[q] = lifeAt[q]
<1> USE DEF Goto, LifeTypeOK
<1>1. CASE OpenSettingsFile(p)
  BY <1>1 DEF OpenSettingsFile
<1>2. CASE WriteSettingsFile(p)
  BY <1>2 DEF WriteSettingsFile
<1>3. CASE ApplySetting(p)
  BY <1>3 DEF ApplySetting
<1>4. CASE Decide(p)
  BY <1>4 DEF Decide
<1>5. CASE StartIfEnabled(p)
  BY <1>5 DEF StartIfEnabled
<1>6. CASE StartLocked(p)
  BY <1>6 DEF StartLocked
<1>7. CASE StartAfterJoin(p) \/ StartGivesUp(p)
  BY <1>7 DEF StartAfterJoin, StartGivesUp
<1>8. CASE Stop(p) \/ StopJoined(p)
  BY <1>8 DEF Stop, StopJoined
<1>9. QED
  BY <1>1, <1>2, <1>3, <1>4, <1>5, <1>6, <1>7, <1>8 DEF RequestStep

\* A request that begins without overlapping finds everyone idle.
LEMMA PostsAlone ==
  ASSUME LifeTypeOK, NEW p \in Posters, NEW b \in Posts, PostSettings(p, b), ~overlapped'
  PROVE  /\ Quiet /\ ~overlapped /\ p \in LifeThreads
         /\ lifeAt'[p] = "save" /\ \A q \in LifeThreads \ {p} : lifeAt'[q] = "idle"
<1>1. lifeAt[p] = "idle" /\ lifeAt' = [lifeAt EXCEPT ![p] = "save"] /\ p \in LifeThreads
  BY DEF PostSettings, Goto, LifeThreads
<1>2. ~(overlapped \/ \E q \in LifeThreads \ {p} : lifeAt[q] # "idle")
  BY DEF PostSettings
<1>3. Quiet
  BY <1>1, <1>2 DEF Quiet
<1>4. QED
  BY <1>1, <1>2, <1>3 DEF Quiet, LifeTypeOK

LEMMA OneAtATimeStep == LifeTypeOK /\ OneAtATime /\ [LifeNext]_lifeVars => OneAtATime'
<1> SUFFICES ASSUME LifeTypeOK, OneAtATime, [LifeNext]_lifeVars, ~overlapped' PROVE OneAtATime'
  BY DEF OneAtATime
<1> USE DEF OneAtATime
<1>1. CASE \E p \in Posters, b \in Posts : PostSettings(p, b)
  BY <1>1, PostsAlone
<1>2. CASE \E p \in LifeThreads : RequestStep(p)
  <2>1. PICK p \in LifeThreads : RequestStep(p)
    BY <1>2
  <2>2. /\ lifeAt[p] # "idle" /\ overlapped' = overlapped
        /\ \A q \in LifeThreads \ {p} : lifeAt'[q] = lifeAt[q]
    BY <2>1, StepOfOne
  <2>3. QED
    BY <2>2
<1>3. CASE \E t \in Pollers : PollerLoop(t)
  BY <1>3 DEF PollerLoop, PollerChecks, PollerPolled, PollerWaited, PollerStep
<1>4. CASE Reboot
  BY <1>4 DEF Reboot
<1>5. CASE UNCHANGED lifeVars
  BY <1>5 DEF lifeVars
<1>6. QED
  BY <1>1, <1>2, <1>3, <1>4, <1>5 DEF LifeNext

\* While a request is on its way and none overlapped, the others rest.
LEMMA OthersRest ==
  ASSUME OneAtATime, ~overlapped, NEW p \in LifeThreads, lifeAt[p] # "idle"
  PROVE  ~Quiet /\ \A q \in LifeThreads \ {p} : lifeAt[q] = "idle"
BY DEF OneAtATime, Quiet

LEMMA SettingsStep ==
  LifeTypeOK /\ OneAtATime /\ SettingsGoThrough /\ [LifeNext]_lifeVars => SettingsGoThrough'
<1> SUFFICES ASSUME LifeTypeOK, OneAtATime, SettingsGoThrough, [LifeNext]_lifeVars, ~overlapped'
             PROVE  SettingsGoThrough'
  BY DEF SettingsGoThrough
<1>0. /\ conf \in Confs /\ saved \in Files
      /\ \A p \in LifeThreads : toApply[p] \in Bodies /\ toWrite[p] \in Bodies /\ toWrite[p] \in Files
      /\ DOMAIN lifeAt = LifeThreads /\ DOMAIN toApply = LifeThreads /\ DOMAIN toWrite = LifeThreads
  BY DEF LifeTypeOK, Confs, Files
<1>1. CASE \E p \in Posters, b \in Posts : PostSettings(p, b)
  <2>1. PICK p \in Posters, b \in Posts : PostSettings(p, b)
    BY <1>1
  <2>2. Quiet /\ ~overlapped
    BY <2>1, PostsAlone
  <2>3. /\ UNCHANGED <<conf, saved>> /\ lifeAt'[p] = "save" /\ p \in LifeThreads
        /\ \A q \in LifeThreads \ {p} : lifeAt'[q] = "idle"
    BY <2>1, PostsAlone DEF PostSettings
  <2>4. LoadConfig(saved') = conf' /\ ~Quiet'
    BY <2>2, <2>3 DEF SettingsGoThrough, Quiet, LoadConfig
  <2>5. QED
    BY <2>3, <2>4 DEF SettingsGoThrough, Quiet
<1>2. CASE \E p \in LifeThreads : RequestStep(p)
  <2>1. PICK p \in LifeThreads : RequestStep(p)
    BY <1>2
  <2>2. lifeAt[p] # "idle" /\ ~overlapped
    BY <2>1, StepOfOne
  <2>3. \A q \in LifeThreads \ {p} : lifeAt[q] = "idle"
    BY <2>2, OthersRest
  <2>4. CASE OpenSettingsFile(p)
    <3>1. /\ lifeAt'[p] = "write" /\ \A q \in LifeThreads \ {p} : lifeAt'[q] = "idle"
          /\ toWrite'[p] = Override(Readable(saved), toApply[p]) /\ toApply' = toApply /\ conf' = conf
      BY <1>0, <2>3, <2>4 DEF OpenSettingsFile, Goto, MergedOverrides
    <3>2. LoadConfig(saved) = conf
      BY <2>2, <2>4 DEF SettingsGoThrough, OpenSettingsFile
    <3>3. LoadConfig(toWrite'[p]) = Override(conf', toApply'[p])
      BY <1>0, <3>1, <3>2, LoadingMerged
    <3>4. QED
      BY <3>1, <3>3 DEF SettingsGoThrough, Quiet
  <2>5. CASE WriteSettingsFile(p)
    <3>1. /\ saved' = toWrite[p] /\ toApply' = toApply /\ conf' = conf
          /\ \A q \in LifeThreads \ {p} : lifeAt'[q] = "idle"
          /\ lifeAt'[p] = IF toApply[p] = NoFields THEN "decide" ELSE "apply"
      BY <1>0, <2>3, <2>5 DEF WriteSettingsFile, Goto
    <3>2. LoadConfig(saved') = Override(conf', toApply'[p])
      BY <2>2, <2>5, <3>1 DEF SettingsGoThrough, WriteSettingsFile
    <3>3. toApply[p] = NoFields => LoadConfig(saved') = conf'
      BY <1>0, <3>1, <3>2, OverrideByNothing
    <3>4. QED
      BY <3>1, <3>2, <3>3 DEF SettingsGoThrough, Quiet
  <2>6. CASE ApplySetting(p)
    <3>1. PICK f \in DOMAIN toApply[p] :
            /\ conf' = [conf EXCEPT ![f] = toApply[p][f]]
            /\ toApply' = [toApply EXCEPT ![p] = Rest(toApply[p], f)]
            /\ lifeAt' = [lifeAt EXCEPT ![p] = IF Rest(toApply[p], f) = NoFields THEN "decide" ELSE "apply"]
      BY <2>6 DEF ApplySetting, Goto, Rest
    <3>2. LoadConfig(saved) = Override(conf, toApply[p])
      BY <2>2, <2>6 DEF SettingsGoThrough, ApplySetting
    <3>3. /\ Override(conf', Rest(toApply[p], f)) = Override(conf, toApply[p])
          /\ conf' \in Confs
      BY <1>0, <3>1, FieldByField
    <3>4. toApply'[p] = Rest(toApply[p], f) /\ saved' = saved
      BY <1>0, <2>6, <3>1 DEF ApplySetting
    <3>5. LoadConfig(saved') = Override(conf', toApply'[p])
      BY <3>2, <3>3, <3>4
    <3>6. lifeAt'[p] = "decide" => LoadConfig(saved') = conf'
      BY <1>0, <3>1, <3>3, <3>4, <3>5, OverrideByNothing
    <3>7. lifeAt'[p] \in {"decide", "apply"} /\ \A q \in LifeThreads \ {p} : lifeAt'[q] = "idle"
      BY <1>0, <2>3, <3>1
    <3>8. QED
      BY <3>5, <3>6, <3>7 DEF SettingsGoThrough, Quiet
  <2>7. CASE \/ Decide(p) \/ StartIfEnabled(p) \/ StartLocked(p) \/ StartAfterJoin(p)
             \/ StartGivesUp(p) \/ Stop(p) \/ StopJoined(p)
    <3>1. /\ UNCHANGED <<conf, saved>> /\ lifeAt[p] \notin {"idle", "write", "apply"}
          /\ lifeAt'[p] \notin {"write", "apply"}
          /\ \A q \in LifeThreads \ {p} : lifeAt'[q] = "idle"
      BY <1>0, <2>3, <2>7 DEF Decide, StartIfEnabled, StartLocked, StartAfterJoin, StartGivesUp, Stop,
         StopJoined, Goto, Transition
    <3>2. LoadConfig(saved') = conf'
      BY <2>2, <3>1 DEF SettingsGoThrough
    <3>3. QED
      BY <3>1, <3>2 DEF SettingsGoThrough
  <2>8. QED
    BY <2>1, <2>4, <2>5, <2>6, <2>7 DEF RequestStep
<1>3. CASE Reboot
  BY <1>3 DEF Reboot, SettingsGoThrough, LoadConfig, Readable
<1>4. CASE UNCHANGED <<conf, saved, lifeAt, toApply, toWrite, overlapped>>
  BY <1>4 DEF SettingsGoThrough, Quiet, LoadConfig, Readable
<1>5. QED
  BY <1>1, <1>2, <1>3, <1>4 DEF LifeNext, lifeVars, PollerLoop, PollerChecks, PollerPolled, PollerWaited,
     PollerStep

\* Once requests are answered, and unless two of them overlapped, a restart
\* finds the settings that are in force; also after a kill in any of them,
\* which leaves the file whole, merged or torn.
THEOREM SettingsSurviveRestartHolds == LifeSpec => []SettingsSurviveRestart
<1>1. LifeInit => OneAtATime /\ SettingsGoThrough
  <2> SUFFICES ASSUME LifeInit PROVE OneAtATime /\ SettingsGoThrough
    OBVIOUS
  <2>1. NoFields \in Files /\ Readable(NoFields) = NoFields
    BY BodyIsFunction DEF Readable, Files
  <2>2. conf = [f \in RelayFields |-> Empty] /\ conf \in Confs /\ saved = NoFields
    BY DEF LifeInit, Confs, Settings
  <2>3. LoadConfig(saved) = conf
    BY <2>1, <2>2, OverrideByNothing DEF LoadConfig
  <2>4. QED
    BY <2>3 DEF LifeInit, OneAtATime, SettingsGoThrough, LifeThreads
<1>2. SettingsGoThrough => SettingsSurviveRestart
  BY DEF SettingsGoThrough, SettingsSurviveRestart
<1>3. QED
  BY <1>1, <1>2, OneAtATimeStep, SettingsStep, LifeTypeCorrect, PTL DEF LifeSpec

-----------------------------------------------------------------------------
(* PollerFollowsSettings.                                                  *)

LEMMA PollerIsDueStep ==
  LifeTypeOK /\ OneAtATime /\ LiveIsCurrent /\ PollerIsDue /\ [LifeNext]_lifeVars => PollerIsDue'
<1> SUFFICES ASSUME LifeTypeOK, OneAtATime, LiveIsCurrent, PollerIsDue, [LifeNext]_lifeVars, ~overlapped'
             PROVE  PollerIsDue'
  BY DEF PollerIsDue
<1>0. /\ DOMAIN lifeAt = LifeThreads /\ DOMAIN was = LifeThreads
      /\ \A p \in LifeThreads : was[p] \in BOOLEAN
      /\ stopSet \in BOOLEAN /\ lateEnable \in BOOLEAN
  BY DEF LifeTypeOK
<1>1. CASE \E p \in Posters, b \in Posts : PostSettings(p, b)
  <2>1. PICK p \in Posters, b \in Posts : PostSettings(p, b)
    BY <1>1
  <2>2. Quiet /\ ~overlapped
    BY <2>1, PostsAlone
  <2>3. /\ lifeAt'[p] = "save" /\ p \in LifeThreads /\ was'[p] = Enabled(conf)
        /\ \A q \in LifeThreads \ {p} : lifeAt'[q] = "idle"
    BY <1>0, <2>1, PostsAlone DEF PostSettings
  <2>4. (Serving' <=> Serving) /\ lateEnable' = lateEnable
    BY <2>1 DEF PostSettings, Serving, Running
  <2>5. (Serving => Enabled(conf)) /\ (Enabled(conf) /\ ~lateEnable => Serving)
    BY <2>2 DEF PollerIsDue
  <2>6. QED
    BY <2>3, <2>4, <2>5 DEF PollerIsDue, Quiet
<1>2. CASE \E p \in LifeThreads : RequestStep(p)
  <2>1. PICK p \in LifeThreads : RequestStep(p)
    BY <1>2
  <2>2. lifeAt[p] # "idle" /\ ~overlapped
    BY <2>1, StepOfOne
  <2>3. \A q \in LifeThreads \ {p} : lifeAt[q] = "idle"
    BY <2>2, OthersRest
  <2>4. CASE OpenSettingsFile(p) \/ WriteSettingsFile(p) \/ ApplySetting(p)
    <3>1. /\ lifeAt[p] \in {"save", "write", "apply"} /\ lifeAt'[p] \in {"write", "apply", "decide"}
          /\ \A q \in LifeThreads \ {p} : lifeAt'[q] = "idle"
          /\ UNCHANGED <<was, lateEnable, stopSet, current, poller>>
      BY <1>0, <2>3, <2>4 DEF OpenSettingsFile, WriteSettingsFile, ApplySetting, Goto
    <3>2. Serving' <=> Serving
      BY <3>1 DEF Serving, Running
    <3>3. QED
      BY <2>2, <3>1, <3>2 DEF PollerIsDue, Quiet
  <2>5. CASE Decide(p)
    <3>1. /\ lifeAt[p] = "decide" /\ lifeAt'[p] = Transition(was[p], Enabled(conf), Running)
          /\ \A q \in LifeThreads \ {p} : lifeAt'[q] = "idle"
          /\ UNCHANGED <<conf, stopSet, current, poller>>
      BY <1>0, <2>3, <2>5 DEF Decide, Goto
    <3>2. (Serving' <=> Serving) /\ (Running' <=> Running) /\ (Enabled(conf)' <=> Enabled(conf))
      BY <3>1 DEF Serving, Running, Enabled
    <3>3. (Serving => was[p]) /\ (was[p] /\ ~lateEnable => Serving)
      BY <2>2, <3>1 DEF PollerIsDue
    <3>4. lateEnable' = IF Enabled(conf) THEN lateEnable \/ (~was[p] /\ Running /\ stopSet) ELSE FALSE
      BY <2>5 DEF Decide
    <3>5. CASE Enabled(conf) /\ ~was[p] /\ ~Running
      <4>1. lifeAt'[p] = "start"
        BY <3>1, <3>5 DEF Transition
      <4>2. QED
        BY <3>1, <3>2, <3>5, <4>1 DEF PollerIsDue, Quiet
    <3>6. CASE ~Enabled(conf) /\ was[p] /\ Running
      <4>1. lifeAt'[p] = "stop"
        BY <3>1, <3>6 DEF Transition
      <4>2. QED
        BY <3>1, <3>2, <3>6, <4>1 DEF PollerIsDue, Quiet
    <3>7. CASE ~(Enabled(conf) /\ ~was[p] /\ ~Running) /\ ~(~Enabled(conf) /\ was[p] /\ Running)
      <4>1. lifeAt'[p] = "idle"
        BY <3>1, <3>7 DEF Transition
      <4>2. (Serving => Enabled(conf)) /\ (Enabled(conf) /\ ~lateEnable' => Serving)
        BY <1>0, <3>3, <3>4, <3>7 DEF Serving
      <4>3. QED
        BY <3>1, <3>2, <4>1, <4>2 DEF PollerIsDue
    <3>8. QED
      BY <3>5, <3>6, <3>7
  <2>6. CASE StartIfEnabled(p)
    <3>1. /\ lifeAt[p] = "start" /\ lifeAt'[p] = IF Enabled(conf) THEN "startLocked" ELSE "idle"
          /\ \A q \in LifeThreads \ {p} : lifeAt'[q] = "idle"
          /\ UNCHANGED <<conf, stopSet, current, poller>>
      BY <1>0, <2>3, <2>6 DEF StartIfEnabled, Goto
    <3>2. ~Running /\ ~Running' /\ ~Serving' /\ (Enabled(conf)' <=> Enabled(conf))
      BY <2>2, <3>1 DEF PollerIsDue, Running, Serving, Enabled
    <3>3. QED
      BY <3>1, <3>2 DEF PollerIsDue, Quiet
  <2>7. CASE StartLocked(p)
    <3>1. lifeAt[p] = "startLocked" /\ ~Running /\ Enabled(conf)
      BY <2>2, <2>7 DEF PollerIsDue, StartLocked
    <3>2. /\ lifeAt'[p] = "idle" /\ Spawn /\ conf' = conf
          /\ \A q \in LifeThreads \ {p} : lifeAt'[q] = "idle"
      BY <1>0, <2>3, <2>7, <3>1 DEF StartLocked, Goto
    <3>3. Serving' /\ Enabled(conf)'
      BY <3>1, <3>2 DEF Spawn, Serving, Running, Enabled, LifeTypeOK
    <3>4. QED
      BY <3>2, <3>3 DEF PollerIsDue
  <2>8. CASE StartAfterJoin(p) \/ StartGivesUp(p)
    BY <2>2, <2>8 DEF PollerIsDue, StartAfterJoin, StartGivesUp
  <2>9. CASE Stop(p)
    <3>1. /\ lifeAt[p] = "stop" /\ lifeAt'[p] \in {"idle", "stopJoin"} /\ stopSet' /\ conf' = conf
          /\ \A q \in LifeThreads \ {p} : lifeAt'[q] = "idle"
      BY <1>0, <2>3, <2>9 DEF Stop, Goto
    <3>2. ~Serving' /\ ~Enabled(conf)'
      BY <2>2, <3>1 DEF PollerIsDue, Serving, Enabled
    <3>3. QED
      BY <3>1, <3>2 DEF PollerIsDue, Quiet
  <2>10. CASE StopJoined(p)
    <3>1. /\ lifeAt[p] = "stopJoin" /\ lifeAt'[p] = "idle" /\ UNCHANGED <<conf, stopSet, current, poller>>
          /\ \A q \in LifeThreads \ {p} : lifeAt'[q] = "idle"
      BY <1>0, <2>3, <2>10 DEF StopJoined, Goto
    <3>2. ~Serving' /\ ~Enabled(conf)'
      BY <2>2, <3>1 DEF PollerIsDue, Serving, Enabled
    <3>3. QED
      BY <3>1, <3>2 DEF PollerIsDue
  <2>11. QED
    BY <2>1, <2>4, <2>5, <2>6, <2>7, <2>8, <2>9, <2>10 DEF RequestStep
<1>3. CASE \E t \in Pollers : PollerLoop(t)
  <2>1. PICK t \in Pollers : PollerLoop(t)
    BY <1>3
  <2>2. /\ UNCHANGED <<conf, stopSet, current, lifeAt, was, overlapped, lateEnable>>
        /\ poller[t] # "dead" /\ (~stopSet => poller'[t] # "dead")
        /\ \A u \in Pollers \ {t} : poller'[u] = poller[u]
    BY <2>1 DEF PollerLoop, PollerChecks, PollerPolled, PollerWaited, PollerStep, NextOfLoop, LifeTypeOK
  <2>3. (Running' => Running) /\ (Serving' <=> Serving)
    BY <2>2 DEF Running, Serving, LifeTypeOK
  <2>4. (Enabled(conf)' <=> Enabled(conf)) /\ (Quiet' <=> Quiet)
    BY <2>2 DEF Enabled, Quiet
  <2>5. QED
    BY <2>2, <2>3, <2>4 DEF PollerIsDue
<1>4. CASE Reboot
  <2>1. ~Running' /\ ~Serving' /\ Starter \in LifeThreads /\ lifeAt'[Starter] = "start"
        /\ \A p \in LifeThreads \ {Starter} : lifeAt'[p] = "idle"
    BY <1>4 DEF Reboot, Running, Serving, LifeThreads
  <2>2. QED
    BY <2>1 DEF PollerIsDue, Quiet
<1>5. CASE UNCHANGED lifeVars
  BY <1>5 DEF lifeVars, PollerIsDue, Quiet, Serving, Running, Enabled
<1>6. QED
  BY <1>1, <1>2, <1>3, <1>4, <1>5 DEF LifeNext

\* Once requests are answered, the relay is polled if and only if the settings
\* enable it, whatever polls and joins took, with the two exceptions the
\* property names.
THEOREM PollerFollowsSettingsHolds == LifeSpec => []PollerFollowsSettings
<1>1. LifeInit => OneAtATime /\ LiveIsCurrent /\ PollerIsDue
  BY DEF LifeInit, OneAtATime, LiveIsCurrent, PollerIsDue, Quiet, Serving, Running, LifeThreads
<1>2. PollerIsDue => PollerFollowsSettings
  BY DEF PollerIsDue, PollerFollowsSettings
<1>3. QED
  BY <1>1, <1>2, OneAtATimeStep, LiveIsCurrentStep, PollerIsDueStep, LifeTypeCorrect, PTL DEF LifeSpec

-----------------------------------------------------------------------------
(* DeviceAccount                                                             *)

HIDE LifecycleAssumption
USE AccountAssumption

-----------------------------------------------------------------------------
(* Types.                                                                  *)

\* What a thread holds between the two steps of its request.
Held ==
  /\ DOMAIN about = AccThreads
  /\ \A t \in AccThreads : doing[t] \in {"touch", "complete"} =>
       /\ about[t].completion \in DOMAIN meant
       /\ meant[about[t].completion].device = about[t].device
  /\ \A t \in AccThreads : doing[t] = "setPomodoro" => about[t].merged \in Configs

LEMMA AccTypeInit == AccInit => AccTypeOK /\ Held
<1> SUFFICES ASSUME AccInit PROVE AccTypeOK /\ Held
  OBVIOUS
<1> USE DEF AccInit
<1>1. token \in [Devices -> 0 .. TokenBound] /\ held \in [Devices -> 0 .. TokenBound]
  BY DEF NoToken
<1>2. DOMAIN tasks = {} /\ DOMAIN meant = {}
  OBVIOUS
<1>3. pomodoro \in [Devices -> Configs] /\ wrote \in [Devices -> Configs]
  BY DEF Configs
<1>4. \A t \in AccThreads : doing[t] = "idle" /\ about[t].device \notin Devices
  BY DEF Nobody
<1>5. doing \in [AccThreads -> {"idle", "revoke", "rotate", "touch", "complete", "deleteTask",
                                "setPomodoro"}]
  OBVIOUS
<1>6. QED
  BY <1>1, <1>2, <1>3, <1>4, <1>5 DEF AccTypeOK, Held

\* Every step keeps the types.
LEMMA AccTypeStep == AccTypeOK /\ Held /\ [AccNext]_accVars => AccTypeOK' /\ Held'
<1> SUFFICES ASSUME AccTypeOK, Held, [AccNext]_accVars PROVE AccTypeOK' /\ Held'
  OBVIOUS
<1> USE DEF AccTypeOK, Held, accounts, planner, timer, Rows, NoToken, AccThreads
<1>1. CASE \E d \in Devices : Pair(d)
  BY <1>1 DEF Pair
<1>2. CASE \E d \in Devices : AddTask(d)
  <2>1. PICK d \in Devices : AddTask(d)
    BY <1>2
  <2>2. made' \in 1 .. TaskBound
    BY <2>1 DEF AddTask
  <2>3. DOMAIN tasks' \subseteq 1 .. TaskBound
    BY <2>1, <2>2 DEF AddTask, NextTask
  <2>4. \A t \in DOMAIN tasks' :
          tasks'[t] \in [device : Devices, done : BOOLEAN, making : 1 .. TaskBound]
    BY <2>1, <2>2 DEF AddTask, NextTask
  <2>5. QED
    BY <2>1, <2>2, <2>3, <2>4 DEF AddTask
<1>3. CASE \E a \in Admins, d \in Devices, what \in {"revoke", "rotate"} : FindDevice(a, d, what)
  BY <1>3 DEF FindDevice, Begin
<1>4. CASE \E a \in Admins : Revoke(a)
  BY <1>4 DEF Revoke, End, Nobody
<1>5. CASE \E a \in Admins : Rotate(a)
  BY <1>5 DEF Rotate, Rotated, End, Nobody
<1>6. CASE \E a \in Admins : DeleteTask(a)
  BY <1>6 DEF DeleteTask, End, Nobody
<1>7. CASE \E a \in Admins : SetPomodoro(a)
  <2>1. PICK a \in Admins : SetPomodoro(a)
    BY <1>7
  <2>2. about[a].device \in Devices /\ about[a].merged \in Configs
    BY <2>1 DEF SetPomodoro
  <2>3. pomodoro' \in [Devices -> Configs]
    BY <2>1, <2>2 DEF SetPomodoro
  <2>4. wrote' \in [Devices -> Configs]
    BY <2>1, <2>2 DEF SetPomodoro, Configs
  <2>5. QED
    BY <2>1, <2>3, <2>4 DEF SetPomodoro, End, Nobody
<1>8. CASE \E a \in Admins, t \in 1 .. TaskBound : FindTask(a, t)
  BY <1>8 DEF FindTask, Begin
<1>9. CASE \E a \in Admins, d \in Devices, f \in TimerFields, v \in Minutes :
             ReadPomodoro(a, d, [g \in {f} |-> v])
  <2>1. PICK a \in Admins, d \in Devices, f \in TimerFields, v \in Minutes :
               ReadPomodoro(a, d, [g \in {f} |-> v])
    BY <1>9
  <2>2. MergedTimer(d, [g \in {f} |-> v]) \in Configs
    BY DEF MergedTimer, Configs
  <2>3. setAtOnce' \subseteq Devices
    BY <2>1 DEF ReadPomodoro
  <2>4. QED
    BY <2>1, <2>2, <2>3 DEF ReadPomodoro, Begin
<1>10. CASE \E r \in Requests, c \in Completions, d \in Devices : Completes(r, c, d)
  <2>1. PICK r \in Requests, c \in Completions, d \in Devices : Completes(r, c, d)
    BY <1>10
  <2>2. /\ DOMAIN meant \subseteq DOMAIN meant' /\ c \in DOMAIN meant' /\ DOMAIN meant' \subseteq Completions
        /\ \A e \in DOMAIN meant : meant'[e] = meant[e]
        /\ meant'[c].device = d
        /\ \A e \in DOMAIN meant' :
             meant'[e] \in [device : Devices, id : 1 .. TaskBound, making : 1 .. TaskBound]
    BY <2>1 DEF Completes
  <2>3. QED
    BY <2>1, <2>2 DEF Completes, Begin
<1>11. CASE \E r \in Requests : Touch(r)
  BY <1>11 DEF Touch, Touched
<1>12. CASE \E r \in Requests : Complete(r)
  <2>1. PICK r \in Requests : Complete(r)
    BY <1>12
  <2>2. about[r].completion \in DOMAIN meant
    BY <2>1 DEF Complete
  <2>3. ledger' \subseteq DOMAIN meant /\ DOMAIN tasks' = DOMAIN tasks
    BY <2>1, <2>2 DEF Complete
  <2>4. \A t \in DOMAIN tasks :
          tasks'[t] \in [device : Devices, done : BOOLEAN, making : 1 .. TaskBound]
    <3> SUFFICES ASSUME NEW t \in DOMAIN tasks
                 PROVE  tasks'[t] \in [device : Devices, done : BOOLEAN, making : 1 .. TaskBound]
      OBVIOUS
    <3>1. tasks[t] \in [device : Devices, done : BOOLEAN, making : 1 .. TaskBound]
      OBVIOUS
    <3>2. [tasks[t] EXCEPT !.done = TRUE] \in [device : Devices, done : BOOLEAN, making : 1 .. TaskBound]
      BY <3>1
    <3>3. tasks'[t] = tasks[t] \/ tasks'[t] = [tasks[t] EXCEPT !.done = TRUE]
      BY <2>1 DEF Complete
    <3>4. QED
      BY <3>1, <3>2, <3>3
  <2>5. QED
    BY <2>1, <2>3, <2>4 DEF Complete, End, Nobody
<1>13. CASE UNCHANGED accVars
  BY <1>13 DEF accVars
<1>14. QED
  BY <1>1, <1>2, <1>3, <1>4, <1>5, <1>6, <1>7, <1>8, <1>9, <1>10, <1>11, <1>12, <1>13 DEF AccNext

\* The state is of its type in every behaviour, and a thread still holds what
\* its request was given when it comes to the second of its steps.
THEOREM AccTypeCorrect == AccSpec => [](AccTypeOK /\ Held)
BY AccTypeInit, AccTypeStep, PTL DEF AccSpec

-----------------------------------------------------------------------------
(* RevokeIsFinal: UPDATE makes no row, and pairing makes a new id.         *)

LEMMA RevokeStep == AccTypeOK /\ RevokeIsFinal /\ [AccNext]_accVars => RevokeIsFinal'
<1> SUFFICES ASSUME AccTypeOK, RevokeIsFinal, [AccNext]_accVars PROVE RevokeIsFinal'
  OBVIOUS
<1> USE DEF RevokeIsFinal, Rows, accounts
<1>1. CASE \E d \in Devices : Pair(d)
  BY <1>1 DEF Pair, AccTypeOK
<1>2. CASE \E a \in Admins : Revoke(a)
  BY <1>2 DEF Revoke, AccTypeOK
<1>3. CASE \E a \in Admins : Rotate(a)
  BY <1>3 DEF Rotate, Rotated, AccTypeOK
<1>4. CASE UNCHANGED <<token, revoked>>
  BY <1>4
<1>5. QED
  BY <1>1, <1>2, <1>3, <1>4 DEF AccNext, accVars, AddTask, FindDevice, DeleteTask, SetPomodoro,
     FindTask, ReadPomodoro, Completes, Touch, Complete

\* No interleaving of console and device requests gives a revoked device a row
\* again: neither a rotation that looked it up before, nor a device's request
\* that was authenticated before and touches the row after.
THEOREM RevokeIsFinalHolds == AccSpec => []RevokeIsFinal
<1>1. AccInit => RevokeIsFinal
  BY DEF AccInit, RevokeIsFinal
<1>2. QED
  BY <1>1, RevokeStep, AccTypeCorrect, PTL DEF AccSpec

-----------------------------------------------------------------------------
(* DoneWasMeant.  A task's id tells when it was made, so a completion that *)
(* names an id still names the task its device was shown.                  *)

IdsAreNeverReused ==
  /\ \A t \in DOMAIN tasks : t <= made /\ tasks[t].making = t
  /\ \A c \in DOMAIN meant : meant[c].making = meant[c].id

LEMMA IdsStep == AccTypeOK /\ IdsAreNeverReused /\ [AccNext]_accVars => IdsAreNeverReused'
<1> SUFFICES ASSUME AccTypeOK, IdsAreNeverReused, [AccNext]_accVars PROVE IdsAreNeverReused'
  OBVIOUS
<1> USE DEF IdsAreNeverReused, planner
<1>1. CASE \E d \in Devices : AddTask(d)
  <2>1. made \in Nat
    BY DEF AccTypeOK
  <2>2. \A t \in DOMAIN tasks : t \in Nat
    BY DEF AccTypeOK
  <2>3. QED
    BY <1>1, <2>1, <2>2 DEF AddTask, NextTask
<1>2. CASE \E r \in Requests, c \in Completions, d \in Devices : Completes(r, c, d)
  BY <1>2 DEF Completes
<1>3. CASE \E a \in Admins : DeleteTask(a)
  BY <1>3 DEF DeleteTask
<1>4. CASE \E r \in Requests : Complete(r)
  <2>1. PICK r \in Requests : Complete(r)
    BY <1>4
  <2>2. DOMAIN tasks' = DOMAIN tasks /\ UNCHANGED <<made, meant>>
    BY <2>1 DEF Complete
  <2>3. \A t \in DOMAIN tasks : tasks'[t] = tasks[t] \/ tasks'[t] = [tasks[t] EXCEPT !.done = TRUE]
    BY <2>1 DEF Complete
  <2>4. ASSUME NEW t \in DOMAIN tasks PROVE tasks'[t].making = tasks[t].making
    <3>1. tasks[t] \in [device : Devices, done : BOOLEAN, making : 1 .. TaskBound]
      BY DEF AccTypeOK
    <3>2. [tasks[t] EXCEPT !.done = TRUE].making = tasks[t].making
      BY <3>1
    <3>3. QED
      BY <2>3, <3>2
  <2>5. QED
    BY <2>2, <2>4
<1>5. CASE UNCHANGED <<tasks, made, meant>>
  BY <1>5
<1>6. QED
  BY <1>1, <1>2, <1>3, <1>4, <1>5 DEF AccNext, accVars, Pair, FindDevice, Revoke, Rotate, SetPomodoro,
     FindTask, ReadPomodoro, Touch

LEMMA DoneStep ==
  AccTypeOK /\ Held /\ IdsAreNeverReused /\ DoneWasMeant /\ [AccNext]_accVars => DoneWasMeant'
<1> SUFFICES ASSUME AccTypeOK, Held, IdsAreNeverReused, DoneWasMeant, [AccNext]_accVars
             PROVE  DoneWasMeant'
  OBVIOUS
<1> USE DEF DoneWasMeant, planner
<1>1. CASE \E d \in Devices : AddTask(d)
  BY <1>1 DEF AddTask
<1>2. CASE \E r \in Requests, c \in Completions, d \in Devices : Completes(r, c, d)
  <2>1. ledger' = ledger /\ tasks' = tasks /\ \A c \in DOMAIN meant : meant'[c] = meant[c]
    BY <1>2 DEF Completes
  <2>2. QED
    BY <2>1 DEF AccTypeOK
<1>3. CASE \E a \in Admins : DeleteTask(a)
  BY <1>3 DEF DeleteTask
<1>4. CASE \E r \in Requests : Complete(r)
  <2>1. PICK r \in Requests : Complete(r)
    BY <1>4
  <2> DEFINE c == about[r].completion
             t == meant[c].id
  <2>2. c \in DOMAIN meant /\ meant[c].making = t
    BY <2>1 DEF Complete, Held, AccThreads, IdsAreNeverReused
  <2>3. CASE UNCHANGED <<ledger, tasks>>
    BY <2>1, <2>3 DEF Complete
  <2>4. CASE ledger' = ledger \union {c} /\ t \in DOMAIN tasks /\ tasks' = [tasks EXCEPT ![t].done = TRUE]
    <3>1. \A u \in DOMAIN tasks : tasks'[u].making = tasks[u].making
      BY <2>4 DEF AccTypeOK
    <3>2. \A u \in DOMAIN tasks \ {t} : tasks'[u] = tasks[u]
      BY <2>4
    <3>3. meant' = meant /\ meant[c].making = tasks'[t].making
      BY <2>1, <2>2, <2>4, <3>1 DEF Complete, IdsAreNeverReused
    <3>4. DOMAIN tasks' = DOMAIN tasks
      BY <2>4
    <3> HIDE DEF c, t, DoneWasMeant
    <3>5. SUFFICES ASSUME NEW u \in DOMAIN tasks, tasks'[u].done
                   PROVE  \E k \in ledger' : meant'[k].making = tasks'[u].making
      BY <3>4 DEF DoneWasMeant
    <3>6. CASE u = t
      BY <2>4, <3>3, <3>6
    <3>7. CASE u # t
      <4>1. tasks'[u] = tasks[u]
        BY <3>2, <3>7
      <4>2. PICK k \in ledger : meant[k].making = tasks[u].making
        BY <3>5, <4>1 DEF DoneWasMeant
      <4>3. k \in ledger' /\ meant'[k].making = tasks'[u].making
        BY <2>4, <3>3, <4>1, <4>2
      <4>4. QED
        BY <4>3
    <3>8. QED
      BY <3>6, <3>7
  <2>5. QED
    BY <2>1, <2>3, <2>4 DEF Complete
<1>5. CASE UNCHANGED <<tasks, ledger, meant>>
  BY <1>5
<1>6. QED
  BY <1>1, <1>2, <1>3, <1>4, <1>5 DEF AccNext, accVars, Pair, FindDevice, Revoke, Rotate, SetPomodoro,
     FindTask, ReadPomodoro, Touch

\* A task is done only if its own device reported that very task, however often
\* a completion is repeated and whatever was deleted and made in between.
THEOREM DoneWasMeantHolds == AccSpec => []DoneWasMeant
<1>1. AccInit => IdsAreNeverReused /\ DoneWasMeant
  BY DEF AccInit, IdsAreNeverReused, DoneWasMeant
<1>2. QED
  BY <1>1, IdsStep, DoneStep, AccTypeCorrect, PTL DEF AccSpec

-----------------------------------------------------------------------------
(* PomodoroKeepsFields.  Of a device that was never set twice at once, one *)
(* console thread at most holds a configuration, and outside the fields it *)
(* was given that is the stored one.                                       *)

SetsOneByOne ==
  \A a \in Admins : doing[a] = "setPomodoro" /\ about[a].device \notin setAtOnce =>
    /\ \A b \in Admins : doing[b] = "setPomodoro" /\ about[b].device = about[a].device => b = a
    /\ \A f \in TimerFields \ DOMAIN about[a].fields :
         about[a].merged[f] = pomodoro[about[a].device][f]

LEMMA SetsStep ==
  AccTypeOK /\ Held /\ SetsOneByOne /\ [AccNext]_accVars => SetsOneByOne'
<1> SUFFICES ASSUME AccTypeOK, Held, SetsOneByOne, [AccNext]_accVars PROVE SetsOneByOne'
  OBVIOUS
<1> USE DEF SetsOneByOne, timer
<1>0. DOMAIN about = AccThreads /\ DOMAIN doing = AccThreads /\ Admins \subseteq AccThreads
  BY DEF AccTypeOK, Held, AccThreads
<1>1. CASE \E a \in Admins, d \in Devices, f \in TimerFields, v \in Minutes :
             ReadPomodoro(a, d, [g \in {f} |-> v])
  <2>1. PICK a \in Admins, d \in Devices, f \in TimerFields, v \in Minutes :
               ReadPomodoro(a, d, [g \in {f} |-> v])
    BY <1>1
  <2>2. \A b \in Admins \ {a} : doing'[b] = doing[b] /\ about'[b] = about[b]
    BY <1>0, <2>1 DEF ReadPomodoro, Begin
  <2>3. /\ about'[a].device = d /\ about'[a].merged = MergedTimer(d, [g \in {f} |-> v])
        /\ about'[a].fields = [g \in {f} |-> v] /\ doing[a] = "idle" /\ pomodoro' = pomodoro
    BY <1>0, <2>1 DEF ReadPomodoro, Begin
  <2>4. \A g \in TimerFields \ {f} : MergedTimer(d, [h \in {f} |-> v])[g] = pomodoro[d][g]
    BY DEF MergedTimer
  <2>5. setAtOnce \subseteq setAtOnce'
    BY <2>1 DEF ReadPomodoro
  <2>6. (\E b \in Admins : doing[b] = "setPomodoro" /\ about[b].device = d) => d \in setAtOnce'
    BY <2>1 DEF ReadPomodoro
  <2>7. QED
    BY <2>2, <2>3, <2>4, <2>5, <2>6
<1>2. CASE \E a \in Admins : SetPomodoro(a)
  <2>1. PICK a \in Admins : SetPomodoro(a)
    BY <1>2
  <2>2. \A b \in Admins \ {a} : doing'[b] = doing[b] /\ about'[b] = about[b]
    BY <1>0, <2>1 DEF SetPomodoro, End
  <2>3. doing'[a] = "idle" /\ setAtOnce' = setAtOnce /\ doing[a] = "setPomodoro"
    BY <1>0, <2>1 DEF SetPomodoro, End
  <2>4. \A d \in Devices \ {about[a].device} : pomodoro'[d] = pomodoro[d]
    BY <2>1 DEF SetPomodoro, AccTypeOK
  <2>5. \A b \in Admins : doing[b] = "setPomodoro" => about[b].device \in Devices
    BY <1>0 DEF AccTypeOK
  <2>6. QED
    BY <2>2, <2>3, <2>4, <2>5
<1>3. CASE \E a \in Admins : Revoke(a) \/ Rotate(a) \/ DeleteTask(a)
  BY <1>0, <1>3 DEF Revoke, Rotate, DeleteTask, End
<1>4. CASE \E r \in Requests : Touch(r) \/ Complete(r)
  <2>1. PICK r \in Requests : Touch(r) \/ Complete(r)
    BY <1>4
  <2>2. \A a \in Admins \ {r} : doing'[a] = doing[a] /\ about'[a] = about[a]
    BY <1>0, <2>1 DEF Touch, Complete, End
  <2>3. r \in Admins => doing'[r] # "setPomodoro"
    BY <1>0, <2>1 DEF Touch, Complete, End
  <2>4. pomodoro' = pomodoro /\ setAtOnce' = setAtOnce
    BY <2>1 DEF Touch, Complete
  <2>5. QED
    BY <2>2, <2>3, <2>4
<1>5. CASE \/ \E a \in Admins, d \in Devices, what \in {"revoke", "rotate"} : FindDevice(a, d, what)
           \/ \E a \in Admins, t \in 1 .. TaskBound : FindTask(a, t)
           \/ \E r \in Requests, c \in Completions, d \in Devices : Completes(r, c, d)
  <2>1. PICK t \in AccThreads :
          /\ \A a \in Admins \ {t} : doing'[a] = doing[a] /\ about'[a] = about[a]
          /\ t \in Admins => doing'[t] # "setPomodoro"
    BY <1>0, <1>5 DEF FindDevice, FindTask, Completes, Begin, AccThreads
  <2>2. pomodoro' = pomodoro /\ setAtOnce' = setAtOnce
    BY <1>5 DEF FindDevice, FindTask, Completes
  <2>3. \A a \in Admins : doing'[a] = "setPomodoro" => doing[a] = "setPomodoro" /\ about'[a] = about[a]
    BY <2>1
  <2>4. QED
    BY <2>2, <2>3
<1>6. CASE UNCHANGED <<doing, about, pomodoro, setAtOnce>>
  BY <1>6
<1>7. QED
  BY <1>1, <1>2, <1>3, <1>4, <1>5, <1>6 DEF AccNext, accVars, Pair, AddTask

LEMMA KeepsStep ==
  AccTypeOK /\ Held /\ SetsOneByOne /\ PomodoroKeepsFields /\ [AccNext]_accVars => PomodoroKeepsFields'
<1> SUFFICES ASSUME AccTypeOK, Held, SetsOneByOne, PomodoroKeepsFields, [AccNext]_accVars
             PROVE  PomodoroKeepsFields'
  OBVIOUS
<1> USE DEF PomodoroKeepsFields, timer
<1>1. CASE \E a \in Admins : SetPomodoro(a)
  <2>1. PICK a \in Admins : SetPomodoro(a)
    BY <1>1
  <2> DEFINE d == about[a].device
  <2>2. d \in Devices /\ about[a].merged \in Configs /\ doing[a] = "setPomodoro"
    BY <2>1 DEF SetPomodoro, AccTypeOK, Held, AccThreads
  <2>3. pomodoro'[d] = about[a].merged /\ \A e \in Devices \ {d} : pomodoro'[e] = pomodoro[e]
    BY <2>1, <2>2 DEF SetPomodoro, AccTypeOK
  <2>4. \A e \in Devices \ {d} : wrote'[e] = wrote[e]
    BY <2>1, <2>2 DEF SetPomodoro, AccTypeOK
  <2>5. wrote'[d] = [f \in TimerFields |-> IF d \in setAtOnce \/ f \in DOMAIN about[a].fields
                                           THEN about[a].merged[f] ELSE wrote[d][f]]
    BY <2>1, <2>2 DEF SetPomodoro, AccTypeOK
  <2>6. ASSUME d \notin setAtOnce PROVE pomodoro'[d] = wrote'[d]
    <3>1. pomodoro[d] = wrote[d]
      BY <2>2, <2>6
    <3>2. \A f \in TimerFields \ DOMAIN about[a].fields : about[a].merged[f] = wrote[d][f]
      BY <2>1, <2>2, <2>6, <3>1 DEF SetsOneByOne
    <3>3. \A f \in TimerFields : wrote'[d][f] = about[a].merged[f]
      BY <2>5, <3>2
    <3>4. wrote'[d] \in [TimerFields -> Minutes] \/ DOMAIN wrote'[d] = TimerFields
      BY <2>5
    <3>5. wrote'[d] = [f \in TimerFields |-> about[a].merged[f]]
      BY <2>5, <3>2
    <3>6. about[a].merged = [f \in TimerFields |-> about[a].merged[f]]
      BY <2>2 DEF Configs
    <3>7. QED
      BY <2>3, <3>5, <3>6
  <2>7. setAtOnce' = setAtOnce
    BY <2>1 DEF SetPomodoro
  <2>8. QED
    BY <2>3, <2>4, <2>6, <2>7
<1>2. CASE \E a \in Admins, d \in Devices, f \in TimerFields, v \in Minutes :
             ReadPomodoro(a, d, [g \in {f} |-> v])
  BY <1>2 DEF ReadPomodoro
<1>3. CASE UNCHANGED <<pomodoro, wrote, setAtOnce>>
  BY <1>3
<1>4. QED
  BY <1>1, <1>2, <1>3 DEF AccNext, accVars, Pair, AddTask, FindDevice, Revoke, Rotate, DeleteTask,
     FindTask, Completes, Touch, Complete

\* Fields that no request set stay as they were set last, for any number of
\* console threads, unless two of them had the same device at once.
THEOREM PomodoroKeepsFieldsHolds == AccSpec => []PomodoroKeepsFields
<1>1. AccInit => SetsOneByOne /\ PomodoroKeepsFields
  BY DEF AccInit, SetsOneByOne, PomodoroKeepsFields, AccThreads
<1>2. QED
  BY <1>1, SetsStep, KeepsStep, AccTypeCorrect, PTL DEF AccSpec

-----------------------------------------------------------------------------
(* The parts side by side                                                    *)

HIDE AccountAssumption

\* In every behaviour of the parts side by side each part begins and steps as
\* it does alone, so what is proved of it alone holds beside the others.
THEOREM PartsAlone ==
  MCSpec => /\ LifeInit /\ [][LifeNext]_lifeVars
            /\ IngInit /\ [][IngNext]_ingVars
            /\ HhInit /\ [][HhNext]_hhVars
            /\ AccInit /\ [][AccNext]_accVars
<1>1. MCInit => LifeInit /\ IngInit /\ HhInit /\ AccInit
  BY DEF MCInit
<1> DEFINE all == <<subject, lifeVars, ingVars, hhVars, accVars>>
<1>2. ASSUME [MCNext]_all
      PROVE  [LifeNext]_lifeVars /\ [IngNext]_ingVars /\ [HhNext]_hhVars /\ [AccNext]_accVars
  <2>1. CASE MCNext
    BY <2>1 DEF MCNext
  <2>2. CASE UNCHANGED all
    BY <2>2
  <2>3. QED
    BY <1>2, <2>1, <2>2
<1>3. QED
  BY <1>1, <1>2, PTL DEF MCSpec

\* What the Pi's parts hold is what their code can hold: the settings, the
\* store and its threads, the accounts and their requests, and the lists a
\* device takes, which have room for them.
THEOREM PiTypeCorrect == MCSpec => []PiTypeOK
<1> DEFINE Inv == LifeTypeOK /\ IngInv /\ AccTypeOK /\ Held /\ PiTypes /\ DeviceTypes /\ CountTypes
<1>1. LifeInit /\ IngInit /\ HhInit /\ AccInit => Inv
  BY LifeTypeInit, IngInvInit, AccTypeInit, TypesInit, HouseholdAssumption
<1>2. Inv /\ [LifeNext]_lifeVars /\ [IngNext]_ingVars /\ [HhNext]_hhVars /\ [AccNext]_accVars => Inv'
  BY LifeTypeStep, IngInvStep, AccTypeStep, PiTypesStep, DeviceTypesStep, CountTypesStep, HouseholdAssumption
<1>3. Inv => PiTypeOK
  BY DEF PiTypeOK, IngInv, PiTypes, DeviceTypes, CountTypes, HhTypeOK, Lists, Pulls
<1>4. QED
  BY <1>1, <1>2, <1>3, PartsAlone, PTL
=============================================================================
