---------------------------- MODULE DeviceAccount ----------------------------
(* What the Pi keeps for each device: its row with the hash of its token,    *)
(* its planner tasks with the ledger of completions, and its Pomodoro        *)
(* configuration.                                                            *)
(*                                                                           *)
(* The admin console looks a row up and then changes it, a device's request  *)
(* is authenticated and then acted on: each of these is a transaction of its *)
(* own, and requests interleave between them.                                *)
EXTENDS Naturals

CONSTANTS
  Devices,      \* ids pairing hands out
  Admins,       \* request threads of the admin console
  Requests,     \* request threads of the sync API
  Completions,  \* completion ids a device makes
  TimerFields, Minutes, DefaultMinutes,  \* Pomodoro settings
  TaskBound,    \* bound: tasks that are made
  TokenBound    \* bound: tokens that are made

ASSUME AccountAssumption ==
  /\ "none" \notin Devices
  /\ DefaultMinutes \in Minutes
  /\ TaskBound \in Nat /\ TokenBound \in Nat

VARIABLES
  token,     \* devices: the current token of each, NoToken without a row
  held,      \* the token in each device's pairing file
  tokens,    \* tokens made so far
  seen,      \* devices.last_seen_at is set
  tasks,     \* planner_tasks: id -> whose, done, and when it was made
  made,      \* tasks made so far; also sqlite's AUTOINCREMENT counter
  ledger,    \* task_completions: the completion ids it has
  meant,     \* what each completion was about: the device, the task's id, its making
  pomodoro,  \* pomodoro_config of each device
  doing,        \* where each request thread is
  about,       \* what the thread is about
  revoked,   \* history: devices that were revoked
  wrote,     \* history: the value each field was set to last (not after an overlap)
  setAtOnce \* history: devices whose configuration was set by two threads at once

accVars == <<token, held, tokens, seen, tasks, made, ledger, meant, pomodoro, doing, about,
             revoked, wrote, setAtOnce>>
accounts == <<token, held, tokens, seen>>
planner == <<tasks, made, ledger, meant>>
timer == <<pomodoro, wrote, setAtOnce>>

NoToken == 0
AccThreads == Admins \union Requests
Nobody == [device |-> "none"]
Configs == [TimerFields -> Minutes]
Rows == {d \in Devices : token[d] # NoToken}

AccInit ==
  /\ token = [d \in Devices |-> NoToken] /\ held = token
  /\ tokens = 0 /\ seen = {}
  /\ tasks = [t \in {} |-> 0] /\ made = 0 /\ ledger = {}
  /\ meant = [c \in {} |-> 0]
  /\ pomodoro = [d \in Devices |-> [f \in TimerFields |-> DefaultMinutes]]
  /\ doing = [t \in AccThreads |-> "idle"]
  /\ about = [t \in AccThreads |-> Nobody]
  /\ revoked = {}
  /\ wrote = pomodoro
  /\ setAtOnce = {}

\* A thread begins something about a device, or ends it.
Begin(t, what, matter) ==
  /\ doing[t] = "idle"
  /\ doing' = [doing EXCEPT ![t] = what]
  /\ about' = [about EXCEPT ![t] = matter]

End(t) ==
  /\ doing' = [doing EXCEPT ![t] = "idle"]
  /\ about' = [about EXCEPT ![t] = Nobody]

-----------------------------------------------------------------------------
(* Pairing, revoking, rotating.                                              *)

\* pair_device makes a new id each time and writes the pairing file.
Pair(d) ==
  /\ token[d] = NoToken /\ d \notin revoked /\ tokens < TokenBound
  /\ tokens' = tokens + 1
  /\ token' = [token EXCEPT ![d] = tokens + 1]
  /\ held' = [held EXCEPT ![d] = tokens + 1]
  /\ UNCHANGED <<seen, planner, timer, doing, about, revoked>>

FindDevice(a, d, what) ==
  /\ d \in Rows
  /\ Begin(a, what, [device |-> d])
  /\ UNCHANGED <<accounts, planner, timer, revoked>>

Revoke(a) ==
  /\ doing[a] = "revoke"
  /\ token' = [token EXCEPT ![about[a].device] = NoToken]
  /\ seen' = seen \ {about[a].device}
  /\ revoked' = revoked \union {about[a].device}
  /\ End(a)
  /\ UNCHANGED <<held, tokens, planner, timer>>

\* UPDATE: only a row that is there gets the new token.  The admin copies it
\* to the card.
Rotated_Upsert(d, new) == [token EXCEPT ![d] = new]
Rotated(d, new) == IF d \in Rows THEN [token EXCEPT ![d] = new] ELSE token

Rotate(a) ==
  /\ doing[a] = "rotate" /\ tokens < TokenBound
  /\ tokens' = tokens + 1
  /\ token' = Rotated(about[a].device, tokens + 1)
  /\ held' = [held EXCEPT ![about[a].device] = tokens + 1]
  /\ End(a)
  /\ UNCHANGED <<seen, planner, timer, revoked>>

-----------------------------------------------------------------------------
(* Requests of a device: the token is compared, the row is touched, the      *)
(* request is acted on.                                                      *)

Authenticates(d) == d \in Rows /\ held[d] = token[d]

\* The device says it completed a task it was shown: the first time it picks
\* one of its tasks, every further time it repeats the same request.
Completes(r, c, d) ==
  /\ Authenticates(d)
  /\ \/ /\ c \in DOMAIN meant /\ meant[c].device = d
        /\ UNCHANGED meant
     \/ /\ c \notin DOMAIN meant
        /\ \E t \in DOMAIN tasks :
             /\ tasks[t].device = d
             /\ meant' = [e \in DOMAIN meant \union {c} |->
                            IF e = c THEN [device |-> d, id |-> t, making |-> tasks[t].making]
                                     ELSE meant[e]]
  /\ Begin(r, "touch", [device |-> d, completion |-> c])
  /\ UNCHANGED <<accounts, tasks, made, ledger, timer, revoked>>

\* touch_device: UPDATE, so a row that is gone stays gone.
Touched_Upsert(d) == seen \union {d}
Touched(d) == IF d \in Rows THEN seen \union {d} ELSE seen

Touch(r) ==
  /\ doing[r] = "touch"
  /\ seen' = Touched(about[r].device)
  /\ doing' = [doing EXCEPT ![r] = "complete"]
  /\ UNCHANGED <<token, held, tokens, planner, timer, about, revoked>>

\* complete_task_if_new: one transaction that finds the device's task, enters
\* the completion and, if it is new, marks the task.
Complete(r) ==
  /\ doing[r] = "complete"
  /\ LET c == about[r].completion
         t == meant[c].id
         found == t \in DOMAIN tasks /\ tasks[t].device = about[r].device
     IN IF found /\ c \notin ledger
        THEN /\ ledger' = ledger \union {c}
             /\ tasks' = [tasks EXCEPT ![t].done = TRUE]
        ELSE UNCHANGED <<ledger, tasks>>
  /\ End(r)
  /\ UNCHANGED <<accounts, made, meant, timer, revoked>>

-----------------------------------------------------------------------------
(* Tasks and Pomodoro settings in the console.                               *)

\* AUTOINCREMENT never gives an id again.
NextTask_Reused == CHOOSE t \in 1 .. made + 1 : t \notin DOMAIN tasks
NextTask == made + 1

AddTask(d) ==
  /\ made < TaskBound
  /\ made' = made + 1
  /\ tasks' = [t \in DOMAIN tasks \union {NextTask} |->
                 IF t = NextTask THEN [device |-> d, done |-> FALSE, making |-> made + 1]
                                 ELSE tasks[t]]
  /\ UNCHANGED <<accounts, ledger, meant, timer, doing, about, revoked>>

FindTask(a, t) ==
  /\ t \in DOMAIN tasks
  /\ Begin(a, "deleteTask", [device |-> tasks[t].device, task |-> t])
  /\ UNCHANGED <<accounts, planner, timer, revoked>>

DeleteTask(a) ==
  /\ doing[a] = "deleteTask"
  /\ tasks' = [t \in DOMAIN tasks \ {about[a].task} |-> tasks[t]]
  /\ End(a)
  /\ UNCHANGED <<accounts, made, ledger, meant, timer, revoked>>

\* The request's fields win over the stored ones, and all are stored.
MergedTimer_OverDefaults(d, fields) ==
  [f \in TimerFields |-> IF f \in DOMAIN fields THEN fields[f] ELSE DefaultMinutes]
MergedTimer(d, fields) ==
  [f \in TimerFields |-> IF f \in DOMAIN fields THEN fields[f] ELSE pomodoro[d][f]]

ReadPomodoro(a, d, fields) ==
  /\ Begin(a, "setPomodoro", [device |-> d, fields |-> fields, merged |-> MergedTimer(d, fields)])
  /\ setAtOnce' = setAtOnce \union
       {d2 \in {d} : \E b \in Admins : doing[b] = "setPomodoro" /\ about[b].device = d2}
  /\ UNCHANGED <<accounts, planner, pomodoro, wrote, revoked>>

SetPomodoro(a) ==
  /\ doing[a] = "setPomodoro"
  /\ LET d == about[a].device
     IN /\ pomodoro' = [pomodoro EXCEPT ![d] = about[a].merged]
        /\ wrote' = [wrote EXCEPT ![d] =
             [f \in TimerFields |->
                IF d \in setAtOnce \/ f \in DOMAIN about[a].fields
                THEN about[a].merged[f] ELSE @[f]]]
  /\ End(a)
  /\ UNCHANGED <<accounts, planner, setAtOnce, revoked>>

AccNext ==
  \/ \E d \in Devices : Pair(d) \/ AddTask(d)
  \/ \E a \in Admins, d \in Devices, what \in {"revoke", "rotate"} : FindDevice(a, d, what)
  \/ \E a \in Admins : Revoke(a) \/ Rotate(a) \/ DeleteTask(a) \/ SetPomodoro(a)
  \/ \E a \in Admins, t \in 1 .. TaskBound : FindTask(a, t)
  \/ \E a \in Admins, d \in Devices, f \in TimerFields, v \in Minutes :
       ReadPomodoro(a, d, [g \in {f} |-> v])
  \/ \E r \in Requests, c \in Completions, d \in Devices : Completes(r, c, d)
  \/ \E r \in Requests : Touch(r) \/ Complete(r)

AccSpec == AccInit /\ [][AccNext]_accVars

-----------------------------------------------------------------------------
(* Properties.                                                               *)

AccTypeOK ==
  /\ token \in [Devices -> 0 .. TokenBound] /\ held \in [Devices -> 0 .. TokenBound]
  /\ tokens \in 0 .. TokenBound
  /\ seen \subseteq Rows
  /\ made \in 0 .. TaskBound
  /\ DOMAIN tasks \subseteq 1 .. TaskBound
  /\ \A t \in DOMAIN tasks :
       tasks[t] \in [device : Devices, done : BOOLEAN, making : 1 .. TaskBound]
  /\ ledger \subseteq DOMAIN meant /\ DOMAIN meant \subseteq Completions
  /\ \A c \in DOMAIN meant :
       meant[c] \in [device : Devices, id : 1 .. TaskBound, making : 1 .. TaskBound]
  /\ pomodoro \in [Devices -> Configs] /\ wrote \in [Devices -> Configs]
  /\ doing \in [AccThreads -> {"idle", "revoke", "rotate", "touch", "complete", "deleteTask",
                         "setPomodoro"}]
  /\ \A t \in AccThreads : doing[t] # "idle" <=> about[t].device \in Devices
  /\ revoked \subseteq Devices /\ setAtOnce \subseteq Devices

\* A revoked device has no row again, whatever requests about it were between
\* their look-up and their change, or between authentication and touch.
RevokeIsFinal == \A d \in revoked : d \notin Rows

\* A task is done only if its device completed that very task -- no retry of an
\* older completion marks a task made since (complete_task_if_new).
DoneWasMeant ==
  \A t \in DOMAIN tasks : tasks[t].done =>
    \E c \in ledger : meant[c].making = tasks[t].making

\* Setting some fields leaves the others as they were set last, unless two
\* threads set the same device's configuration at once: each stores all five.
PomodoroKeepsFields == \A d \in Devices \ setAtOnce : pomodoro[d] = wrote[d]
=============================================================================
