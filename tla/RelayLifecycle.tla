--------------------------- MODULE RelayLifecycle ---------------------------
(* The relay poller of the Pi server, which the admin console starts and     *)
(* stops when a settings request turns the relay on or off.                  *)
(*                                                                           *)
(* A settings request writes admin_settings.json under a lock, then sets the *)
(* fields in memory one by one without it, then compares "enabled" before    *)
(* and after.  Start and stop hold the lifecycle lock while they wait for    *)
(* the poller's thread, which may be in a poll longer than they wait.  The   *)
(* server can be killed at any point and starts again.                       *)
EXTENDS Naturals, FiniteSets

CONSTANTS
  Posters,    \* request threads of the admin console
  Starter,    \* the main thread, which starts the poller at boot
  Pollers,    \* names of poller threads
  NoPoller,   \* no poller was started yet
  Free,       \* a lock nobody holds
  Texts,      \* values of a setting that are not empty
  Empty,      \* the empty value
  Torn,       \* admin_settings.json cut short by a kill
  Posts       \* the settings requests that are sent

\* Two of the three fields that have to be set for the relay to be enabled.
RelayFields == {"relay_url", "relay_account_token"}
Settings == Texts \union {Empty}
Bodies == UNION {[S -> Settings] : S \in SUBSET RelayFields}
LifeThreads == Posters \union {Starter}

ASSUME LifecycleAssumption ==
  /\ Starter \notin Posters
  /\ NoPoller \notin Pollers
  /\ Free \notin Posters \union {Starter}
  /\ Empty \notin Texts
  /\ Torn \notin Bodies
  /\ Posts \subseteq Bodies

VARIABLES
  conf,      \* the live Config object
  saved,      \* admin_settings.json: the overrides, or Torn
  fileLock,  \* holder of _SETTINGS_LOCK
  lifeLock,  \* holder of _lifecycle_lock
  stopSet,   \* the _stop event
  current,   \* RelayClient._thread
  poller,    \* what each poller thread is doing
  lifeAt,        \* where each thread is in its handler
  toApply,      \* settings a request has still to apply
  toWrite,    \* what a request is about to write to the file
  was,       \* "enabled" as the request found it
  overlapped,  \* history: two threads were at it at once since the last boot
  lateEnable   \* history: the relay was enabled while its poller was stopping

lifeVars == <<conf, saved, fileLock, lifeLock, stopSet, current, poller, lifeAt,
              toApply, toWrite, was, overlapped, lateEnable>>

NoFields == [f \in {} |-> Empty]

Enabled(c) == \A f \in RelayFields : c[f] # Empty

\* Values of over win over those of base, for the fields over has.
Override(base, over) ==
  [f \in DOMAIN base \union DOMAIN over |->
     IF f \in DOMAIN over THEN over[f] ELSE base[f]]

Readable(overrides) == IF overrides = Torn THEN NoFields ELSE overrides

\* The environment sets no relay; a file that cannot be parsed is ignored.
LoadConfig_OnlySaved(overrides) == Readable(overrides)
LoadConfig(overrides) == Override([f \in RelayFields |-> Empty], Readable(overrides))

Running == current # NoPoller /\ poller[current] # "dead"

LifeInit ==
  /\ conf = [f \in RelayFields |-> Empty]
  /\ saved = NoFields
  /\ fileLock = Free /\ lifeLock = Free
  /\ stopSet = FALSE
  /\ current = NoPoller
  /\ poller = [t \in Pollers |-> "dead"]
  /\ lifeAt = [p \in LifeThreads |-> IF p = Starter THEN "start" ELSE "idle"]
  /\ toApply = [p \in LifeThreads |-> NoFields]
  /\ toWrite = [p \in LifeThreads |-> NoFields]
  /\ was = [p \in LifeThreads |-> FALSE]
  /\ overlapped = FALSE
  /\ lateEnable = FALSE

Goto(p, place) == lifeAt' = [lifeAt EXCEPT ![p] = place]

-----------------------------------------------------------------------------
(* A settings request.                                                       *)

PostSettings(p, b) ==
  /\ lifeAt[p] = "idle"
  /\ toApply' = [toApply EXCEPT ![p] = b]
  /\ was' = [was EXCEPT ![p] = Enabled(conf)]
  /\ overlapped' = (overlapped \/ \E q \in LifeThreads \ {p} : lifeAt[q] # "idle")
  /\ Goto(p, "save")
  /\ UNCHANGED <<conf, saved, fileLock, lifeLock, stopSet, current, poller, toWrite,
                 lateEnable>>

\* What the request leaves in the file: the saved overrides and its own.
MergedOverrides_OwnOnly(stored, b) == b
MergedOverrides(stored, b) == Override(stored, b)

\* save_runtime_overrides reads the file, merges, and opens it for writing,
\* which cuts it to nothing.
OpenSettingsFile(p) ==
  /\ lifeAt[p] = "save"
  /\ fileLock = Free
  /\ fileLock' = p
  /\ toWrite' = [toWrite EXCEPT ![p] = MergedOverrides(Readable(saved), toApply[p])]
  /\ saved' = Torn
  /\ Goto(p, "write")
  /\ UNCHANGED <<conf, lifeLock, stopSet, current, poller, toApply, was, overlapped,
                 lateEnable>>

WriteSettingsFile(p) ==
  /\ lifeAt[p] = "write"
  /\ saved' = toWrite[p]
  /\ toWrite' = [toWrite EXCEPT ![p] = NoFields]
  /\ fileLock' = Free
  /\ Goto(p, IF toApply[p] = NoFields THEN "decide" ELSE "apply")
  /\ UNCHANGED <<conf, lifeLock, stopSet, current, poller, toApply, was, overlapped,
                 lateEnable>>

\* setattr, one field at a time and outside of the lock.
ApplySetting(p) ==
  /\ lifeAt[p] = "apply"
  /\ \E f \in DOMAIN toApply[p] :
       LET rest == [g \in DOMAIN toApply[p] \ {f} |-> toApply[p][g]]
       IN /\ conf' = [conf EXCEPT ![f] = toApply[p][f]]
          /\ toApply' = [toApply EXCEPT ![p] = rest]
          /\ Goto(p, IF rest = NoFields THEN "decide" ELSE "apply")
  /\ UNCHANGED <<saved, fileLock, lifeLock, stopSet, current, poller, toWrite, was,
                 overlapped, lateEnable>>

\* Whether the request starts or stops the poller, by what it found before
\* (was), what it finds now and whether the poller's thread is alive.
Transition_IgnoresStop(before, now, running) ==
  IF now /\ ~before /\ ~running THEN "start" ELSE "idle"
Transition(before, now, running) ==
  CASE now /\ ~before /\ ~running -> "start"
    [] ~now /\ before /\ running -> "stop"
    [] OTHER -> "idle"

Decide(p) ==
  /\ lifeAt[p] = "decide"
  /\ Goto(p, Transition(was[p], Enabled(conf), Running))
  /\ was' = [was EXCEPT ![p] = FALSE]
  /\ lateEnable' = IF Enabled(conf) THEN lateEnable \/ (~was[p] /\ Running /\ stopSet)
                   ELSE FALSE
  /\ UNCHANGED <<conf, saved, fileLock, lifeLock, stopSet, current, poller, toApply,
                 toWrite, overlapped>>

-----------------------------------------------------------------------------
(* RelayClient.start and RelayClient.stop, by a request or at boot.          *)

StartIfEnabled(p) ==
  /\ lifeAt[p] = "start"
  /\ Goto(p, IF Enabled(conf) THEN "startLocked" ELSE "idle")
  /\ UNCHANGED <<conf, saved, fileLock, lifeLock, stopSet, current, poller, toApply,
                 toWrite, was, overlapped, lateEnable>>

\* A new thread becomes the poller.
Spawn ==
  /\ stopSet' = FALSE
  /\ \E t \in Pollers :
       /\ poller[t] = "dead"
       /\ poller' = [poller EXCEPT ![t] = "check"]
       /\ current' = t

\* With the lock: spawn, return because a poller runs, or wait for one that
\* was told to stop.
StartLocked_AnyCase(p) ==
  /\ lifeAt[p] = "startLocked"
  /\ lifeLock = Free
  /\ Spawn
  /\ Goto(p, "idle")
  /\ UNCHANGED <<conf, saved, fileLock, lifeLock, toApply, toWrite, was, overlapped, lateEnable>>
StartLocked(p) ==
  /\ lifeAt[p] = "startLocked"
  /\ lifeLock = Free
  /\ \/ ~Running /\ Spawn /\ Goto(p, "idle") /\ UNCHANGED lifeLock
     \/ /\ Running
        /\ IF stopSet THEN Goto(p, "startJoin") /\ lifeLock' = p
                      ELSE Goto(p, "idle") /\ UNCHANGED lifeLock
        /\ UNCHANGED <<stopSet, current, poller>>
  /\ UNCHANGED <<conf, saved, fileLock, toApply, toWrite, was, overlapped, lateEnable>>

StartAfterJoin(p) ==
  /\ lifeAt[p] = "startJoin"
  /\ ~Running
  /\ Spawn
  /\ lifeLock' = Free
  /\ Goto(p, "idle")
  /\ UNCHANGED <<conf, saved, fileLock, toApply, toWrite, was, overlapped, lateEnable>>

\* The old thread is in a poll for longer than join waits: nothing is started.
StartGivesUp(p) ==
  /\ lifeAt[p] = "startJoin"
  /\ Running /\ poller[current] = "poll"
  /\ lifeLock' = Free
  /\ lateEnable' = TRUE
  /\ Goto(p, "idle")
  /\ UNCHANGED <<conf, saved, fileLock, stopSet, current, poller, toApply, toWrite, was,
                 overlapped>>

Stop(p) ==
  /\ lifeAt[p] = "stop"
  /\ lifeLock = Free
  /\ stopSet' = TRUE
  /\ IF current = NoPoller THEN Goto(p, "idle") /\ UNCHANGED lifeLock
                           ELSE Goto(p, "stopJoin") /\ lifeLock' = p
  /\ UNCHANGED <<conf, saved, fileLock, current, poller, toApply, toWrite, was, overlapped,
                 lateEnable>>

\* join returns when the thread is gone, or after five seconds of a poll.
StopJoined(p) ==
  /\ lifeAt[p] = "stopJoin"
  /\ ~Running \/ poller[current] = "poll"
  /\ lifeLock' = Free
  /\ Goto(p, "idle")
  /\ UNCHANGED <<conf, saved, fileLock, stopSet, current, poller, toApply, toWrite, was,
                 overlapped, lateEnable>>

-----------------------------------------------------------------------------
(* The poller's thread: look at _stop, poll once, wait for the interval or   *)
(* for _stop, and again.  A poll may last long: a request has fifteen        *)
(* seconds, and every approval it applies up to a minute of lp.              *)

PollerStep(t, from, to) ==
  /\ poller[t] = from
  /\ poller' = [poller EXCEPT ![t] = to]
  /\ UNCHANGED <<conf, saved, fileLock, lifeLock, stopSet, current, lifeAt, toApply, toWrite,
                 was, overlapped, lateEnable>>

NextOfLoop_NeverEnds(stopped) == "poll"
NextOfLoop(stopped) == IF stopped THEN "dead" ELSE "poll"

PollerChecks(t) == PollerStep(t, "check", NextOfLoop(stopSet))
PollerPolled(t) == PollerStep(t, "poll", "wait")
PollerWaited(t) == PollerStep(t, "wait", "check")

\* The process is killed and started again: main loads the configuration and
\* serves requests before it starts the poller itself.
Reboot ==
  /\ conf' = LoadConfig(saved)
  /\ fileLock' = Free /\ lifeLock' = Free
  /\ stopSet' = FALSE
  /\ current' = NoPoller
  /\ poller' = [t \in Pollers |-> "dead"]
  /\ lifeAt' = [p \in LifeThreads |-> IF p = Starter THEN "start" ELSE "idle"]
  /\ toApply' = [p \in LifeThreads |-> NoFields]
  /\ toWrite' = [p \in LifeThreads |-> NoFields]
  /\ was' = [p \in LifeThreads |-> FALSE]
  /\ overlapped' = FALSE
  /\ lateEnable' = FALSE
  /\ UNCHANGED saved

RequestStep(p) ==
  \/ OpenSettingsFile(p) \/ WriteSettingsFile(p) \/ ApplySetting(p) \/ Decide(p)
  \/ StartIfEnabled(p) \/ StartLocked(p) \/ StartAfterJoin(p) \/ StartGivesUp(p)
  \/ Stop(p) \/ StopJoined(p)

PollerLoop(t) == PollerChecks(t) \/ PollerPolled(t) \/ PollerWaited(t)

LifeNext ==
  \/ \E p \in Posters, b \in Posts : PostSettings(p, b)
  \/ \E p \in LifeThreads : RequestStep(p)
  \/ \E t \in Pollers : PollerLoop(t)
  \/ Reboot

\* Polls end, and the thread is scheduled.
LifeFairness == \A t \in Pollers : WF_lifeVars(PollerLoop(t))

LifeSpec == LifeInit /\ [][LifeNext]_lifeVars /\ LifeFairness

-----------------------------------------------------------------------------
(* Properties.                                                               *)

LifeTypeOK ==
  /\ conf \in [RelayFields -> Settings]
  /\ saved \in Bodies \union {Torn}
  /\ fileLock \in LifeThreads \union {Free} /\ lifeLock \in LifeThreads \union {Free}
  /\ stopSet \in BOOLEAN
  /\ current \in Pollers \union {NoPoller}
  /\ poller \in [Pollers -> {"dead", "check", "poll", "wait"}]
  /\ lifeAt \in [LifeThreads -> {"idle", "save", "write", "apply", "decide", "start",
                         "startLocked", "startJoin", "stop", "stopJoin"}]
  /\ toApply \in [LifeThreads -> Bodies] /\ toWrite \in [LifeThreads -> Bodies]
  /\ was \in [LifeThreads -> BOOLEAN]
  /\ overlapped \in BOOLEAN /\ lateEnable \in BOOLEAN

\* However settings requests, the boot and slow polls interleave, at most one
\* thread polls the relay (relay_client.start waits for the one before).
OnePoller == \A t, u \in Pollers : poller[t] # "dead" /\ poller[u] # "dead" => t = u

Quiet == \A p \in LifeThreads : lifeAt[p] = "idle"
Serving == Running /\ ~stopSet

\* Once no request is in progress, the relay is polled if and only if the
\* settings enable it -- unless two requests overlapped, or the relay was
\* enabled while the poller it had was still on its way out: _handle_post_settings
\* then finds it "running" and starts none.
PollerFollowsSettings ==
  Quiet /\ ~overlapped /\ ~lateEnable => (Serving <=> Enabled(conf))

\* Once no request is in progress, a restart would find the settings that are
\* in force, unless two requests overlapped.
SettingsSurviveRestart == Quiet /\ ~overlapped => LoadConfig(saved) = conf

\* A poller that was told to stop ends, or is told to go on by a new start.
StopIsHonoured == stopSet ~> (~stopSet \/ \A t \in Pollers : poller[t] = "dead")
=============================================================================
