------------------------------- MODULE WakeDay -------------------------------
(* The device's day between deep sleeps: what wakes it, the sync pass of     *)
(* every wake, the calendar reminders and the Pomodoro session that join in  *)
(* one wake timer, and what of it the card keeps.                            *)
(*                                                                           *)
(* Time is counted in ticks.  now is the time of the world, clock what       *)
(* time(nullptr) answers: equal once a time server was reached, counted from *)
(* zero after a power loss.  A power cut may fall inside the last save,      *)
(* whose file is then the old one, the new one or gone.                      *)
EXTENDS Naturals, FiniteSets, FiniteSetsExt

CONSTANTS
  Base,         \* kWakeTimerIntervalSeconds
  MinSleep,     \* kMinSleepSeconds
  Leads,        \* kCalendarLeadMinutePresets
  WorkTime, BreakTime, LongBreakTime, UntilLongBreak, Checkpoint,
  MaxCatchUp,   \* kMaxIterations
  Epoch,        \* kMinPlausibleNow, and the time at which the model begins
  Horizon,      \* bound: no step goes past this time
  SyncTime,     \* bound: ticks a sync pass may take
  PowerCuts,    \* bound: power losses
  Occurrences,  \* events the calendars may hold
  NoTime        \* no timer, no reading, no reminder

ASSUME WakeAssumption ==
  /\ {Base, MinSleep, WorkTime, BreakTime, LongBreakTime, MaxCatchUp} \subseteq Nat \ {0}
  /\ {UntilLongBreak, Checkpoint, Epoch, Horizon, SyncTime, PowerCuts} \subseteq Nat
  /\ Leads # {} /\ Leads \subseteq 0..Epoch
  /\ Occurrences \subseteq {o \in [start : Nat, end : Nat] : o.start <= o.end /\ o.start >= Epoch}
  /\ NoTime \notin Nat
  \* A clock that began again at zero is not plausible before the model ends.
  /\ Epoch <= Horizon /\ Horizon < 2 * Epoch

VARIABLES
  now, clock,
  at,         \* asleep, or where setup() and loop() are
  byTimer,    \* this wake was the timer's
  timer,      \* when the timer fires
  nextEvent,  \* the cached event with the marks of its reminders
  session,    \* the Pomodoro session
  reminders,  \* the Calendar tab: before start, lead, at end
  sd,         \* what the two files on the card hold
  torn,       \* what else they may hold if power fails now
  frame,      \* the one frame a timer wake renders
  readAt,     \* history: when this timer wake read the calendars
  last,       \* history: the reminder of each kind rendered last and not forgotten
  jumped,     \* history: the clock was set while a session ran
  cuts

wakeVars == <<now, clock, at, byTimer, timer, nextEvent, session, reminders, sd, torn, frame, readAt,
              last, jumped, cuts>>

NoEvent == [has |-> FALSE, start |-> 0, end |-> 0, markStart |-> 0, markEnd |-> 0]
IdleSession == [phase |-> "idle", start |-> 0, end |-> 0, done |-> 0]
NoFrame == [kind |-> "none", target |-> NoTime]
Kinds == {"starting", "ended"}
Lesser(a, b) == IF a <= b THEN a ELSE b
Greater(a, b) == IF a >= b THEN a ELSE b

-----------------------------------------------------------------------------
(* The Pomodoro session *)

Started(t) == [phase |-> "work", start |-> t, end |-> t + WorkTime, done |-> 0]

\* One phase on; the next one starts where this one ended.
NextPhase(s) ==
  LET done == s.done + 1
      long == UntilLongBreak > 0 /\ done % UntilLongBreak = 0
      On(phase, length, n) == [phase |-> phase, start |-> s.end, end |-> s.end + length, done |-> n]
  IN CASE s.phase = "work" /\ long -> On("long", LongBreakTime, done)
       [] s.phase = "work" /\ ~long -> On("break", BreakTime, done)
       [] s.phase = "break" -> On("work", WorkTime, s.done)
       [] s.phase = "long" -> On("work", WorkTime, 0)

Caught(s, t, most) ==
  LET after[n \in 0..most] ==
        IF n = 0 THEN s ELSE IF t >= after[n - 1].end THEN NextPhase(after[n - 1]) ELSE after[n - 1]
  IN after[most]
Advanced_Once(s, t) == IF s.phase = "idle" THEN s ELSE Caught(s, t, 1)
Advanced(s, t) == IF s.phase = "idle" THEN s ELSE Caught(s, t, MaxCatchUp)

\* 0 when the phase is over, otherwise the time to the next boundary or the
\* end of the phase.  Asked of an active session only.
ToCheckpoint_RoundsUp(s, t) ==
  IF t >= s.end \/ Checkpoint = 0 THEN 0
  ELSE LET past == (t - Lesser(s.start, t)) % Checkpoint
       IN IF past = 0 THEN 0 ELSE Lesser(Checkpoint - past, s.end - t)
ToCheckpoint(s, t) ==
  LET elapsed == IF t > s.start THEN t - s.start ELSE 0
      boundary == s.start + ((elapsed \div Checkpoint) + 1) * Checkpoint
  IN IF t >= s.end THEN 0
     ELSE IF Checkpoint = 0 THEN s.end - t ELSE Lesser(boundary, s.end) - t

-----------------------------------------------------------------------------
(* The calendar's part of the wake decision *)

\* The reminders switched on for this event and not rendered yet.
Targets(e) ==
  (IF e.has /\ reminders.before /\ e.markStart # e.start - reminders.lead
   THEN {[kind |-> "starting", target |-> e.start - reminders.lead]} ELSE {})
  \union
  (IF e.has /\ reminders.atEnd /\ e.markEnd # e.end
   THEN {[kind |-> "ended", target |-> e.end]} ELSE {})

Due(e, t) == {r \in Targets(e) : t >= r.target}
\* The start wins when both are due.
Alert(e, t) ==
  IF Due(e, t) = {} THEN NoFrame
  ELSE CHOOSE r \in Due(e, t) : r.kind = "starting" \/ \A q \in Due(e, t) : q.kind = "ended"
Stamped_Never(e, t) == e
\* Both marks are set, also that of a reminder the other one hides.
Stamped(e, t) ==
  LET Fires(kind) == \E r \in Due(e, t) : r.kind = kind
  IN [e EXCEPT !.markStart = IF Fires("starting") THEN e.start - reminders.lead ELSE @,
               !.markEnd = IF Fires("ended") THEN e.end ELSE @]

Waits(e, t) == {r.target - t : r \in Targets(e) \ Due(e, t)}
CalendarSleep_Last(e, t) == Greater(MinSleep, Lesser(Base, Max({0} \union Waits(e, t))))
CalendarSleep(e, t) == Greater(MinSleep, Min({Base} \union Waits(e, t)))

\* nextWakeIntervalSeconds
Interval(s, t) ==
  IF s.phase = "idle" THEN CalendarSleep(nextEvent, t)
  ELSE Lesser(CalendarSleep(nextEvent, t), ToCheckpoint(s, t))

-----------------------------------------------------------------------------
(* Steps of every wake *)

WakeInit ==
  /\ now = Epoch /\ clock \in {0, Epoch}
  /\ at = "syncing" /\ byTimer = FALSE /\ timer = NoTime
  /\ nextEvent = NoEvent /\ session = IdleSession
  /\ reminders \in [before : BOOLEAN, lead : Leads, atEnd : BOOLEAN]
  /\ sd = [event |-> NoEvent, session |-> IdleSession]
  /\ torn = {} /\ frame = NoFrame /\ readAt = NoTime
  /\ last = [k \in Kinds |-> NoTime]
  /\ jumped = FALSE /\ cuts = 0

Passes(d) == now + d <= Horizon /\ now' = now + d
Ticks(d) == Passes(d) /\ clock' = clock + d

\* writeFileAtomic: the new content, with the old one or none if power is cut now.
Saves(content) ==
  /\ sd' = content
  /\ torn' = {sd, [sd EXCEPT !.event = IF content.event = sd.event THEN @ ELSE NoEvent,
                              !.session = IF content.session = sd.session THEN @ ELSE IdleSession]}
SavesNothing == sd' = sd /\ torn' = {}

\* CalendarCache::load: without an event the marks are not read either.
Loaded(e) == IF e.has THEN e ELSE NoEvent

\* setup() as far as the stores: everything is read and the session catches up.
Boots(from, t) ==
  /\ nextEvent' = Loaded(from.event)
  /\ session' = Advanced(from.session, t)
  /\ at' = "syncing" /\ timer' = NoTime /\ frame' = NoFrame /\ readAt' = NoTime
  /\ last' = IF from.event.has /\ at # "rendering" THEN last ELSE [k \in Kinds |-> NoTime]
  /\ torn' = {} /\ sd' = from

TimerFires ==
  /\ at = "asleep" /\ timer # NoTime
  /\ Ticks(timer - now) /\ Boots(sd, clock') /\ byTimer' = TRUE
  /\ UNCHANGED <<reminders, jumped, cuts>>

ButtonPressed ==
  /\ at = "asleep"
  /\ \E d \in 1..Base :
       /\ timer # NoTime => now + d < timer
       /\ Ticks(d)
  /\ Boots(sd, clock') /\ byTimer' = FALSE
  /\ UNCHANGED <<reminders, jumped, cuts>>

\* Power fails and returns; the clock begins again at zero.
PowerFails ==
  /\ cuts < PowerCuts /\ cuts' = cuts + 1
  /\ clock' = 0 /\ UNCHANGED now
  /\ \E from \in {sd} \union torn : Boots(from, 0)
  /\ byTimer' = FALSE
  /\ UNCHANGED <<reminders, jumped>>

\* goToSleep of session s, the sleep computed for time t.
Sleeps(s, t) ==
  /\ at' = "asleep" /\ byTimer' = FALSE /\ readAt' = NoTime
  /\ timer' = IF Interval(s, t) > 0 THEN now' + Interval(s, t) ELSE NoTime
  /\ Saves([sd EXCEPT !.session = s])

-----------------------------------------------------------------------------
(* The sync pass *)

LiveEvents_All(shown, t) == shown
LiveEvents(shown, t) == {o \in shown : o.end > t}
\* syncCalendars: the soonest event not over, the marks carried along.
Cached(shown, t) ==
  IF LiveEvents(shown, t) = {} THEN {[nextEvent EXCEPT !.has = FALSE, !.start = 0, !.end = 0]}
  ELSE {[nextEvent EXCEPT !.has = TRUE, !.start = o.start, !.end = o.end] :
          o \in {o \in LiveEvents(shown, t) : \A q \in LiveEvents(shown, t) : o.start <= q.start}}

AfterSync == at' = IF byTimer THEN "deciding" ELSE "awake"

SyncOffline ==
  /\ at = "syncing" /\ \E d \in 0..SyncTime : Ticks(d)
  /\ AfterSync /\ SavesNothing
  /\ readAt' = NoTime
  /\ UNCHANGED <<byTimer, timer, nextEvent, session, reminders, frame, last, jumped, cuts>>

\* Connected: the clock may be set, and from a plausible clock the calendars
\* may be read at some time within the pass.
SyncOnline ==
  /\ at = "syncing"
  /\ \E d \in 0..SyncTime, timeServer, fed \in BOOLEAN :
       /\ Passes(d)
       /\ clock' = IF timeServer THEN now' ELSE clock + d
       /\ jumped' = (jumped \/ (session.phase # "idle" /\ clock' # clock + d))
       /\ IF fed /\ clock' - d >= Epoch
          THEN /\ \E t \in (clock' - d)..clock', shown \in SUBSET Occurrences :
                    nextEvent' \in Cached(shown, t) /\ readAt' = IF byTimer THEN t ELSE NoTime
               /\ Saves([sd EXCEPT !.event = nextEvent'])
          ELSE readAt' = NoTime /\ UNCHANGED nextEvent /\ SavesNothing
  /\ AfterSync
  /\ UNCHANGED <<byTimer, timer, session, reminders, frame, last, cuts>>

-----------------------------------------------------------------------------
(* A timer wake: silent, or one frame *)

PhaseOver == session.phase # "idle" /\ ToCheckpoint(session, clock) = 0

StaysSilent ==
  /\ at = "deciding" /\ Due(nextEvent, clock) = {} /\ ~PhaseOver
  /\ UNCHANGED <<now, clock>> /\ Sleeps(session, clock)
  /\ UNCHANGED <<nextEvent, session, reminders, frame, last, jumped, cuts>>

\* The mark is on the card before the frame is drawn.
RemindsOf ==
  /\ at = "deciding" /\ Due(nextEvent, clock) # {}
  /\ frame' = Alert(nextEvent, clock)
  /\ nextEvent' = Stamped(nextEvent, clock)
  /\ Saves([sd EXCEPT !.event = nextEvent'])
  /\ at' = "rendering"
  /\ UNCHANGED <<now, clock, byTimer, timer, session, reminders, readAt, last, jumped, cuts>>

ShowsPhase ==
  /\ at = "deciding" /\ Due(nextEvent, clock) = {} /\ PhaseOver
  /\ frame' = [kind |-> "pomodoro", target |-> session.end]
  /\ at' = "rendering" /\ SavesNothing
  /\ UNCHANGED <<now, clock, byTimer, timer, nextEvent, session, reminders, readAt, last, jumped, cuts>>

\* The frame is on the panel; then the device sleeps again.
Renders ==
  /\ at = "rendering"
  /\ \E d \in 0..1 : Ticks(d)
  /\ last' = IF frame.kind \in Kinds THEN [last EXCEPT ![frame.kind] = frame.target] ELSE last
  /\ Sleeps(session, clock') /\ frame' = NoFrame
  /\ UNCHANGED <<nextEvent, session, reminders, jumped, cuts>>

-----------------------------------------------------------------------------
(* loop(): somebody holds the device *)

Loops ==
  /\ at = "awake" /\ UNCHANGED <<byTimer, timer, nextEvent, frame, readAt, last, jumped, cuts>>

TimeGoesBy ==
  /\ Loops /\ Ticks(1) /\ session' = Advanced(session, clock')
  /\ SavesNothing /\ UNCHANGED <<at, reminders>>

StartPomodoro ==
  /\ at = "awake" /\ session' = Started(clock) /\ jumped' = FALSE
  /\ Saves([sd EXCEPT !.session = session'])
  /\ UNCHANGED <<now, clock, at, byTimer, timer, nextEvent, reminders, frame, readAt, last, cuts>>

StopPomodoro ==
  /\ at = "awake" /\ session' = [IdleSession EXCEPT !.done = session.done] /\ jumped' = FALSE
  /\ Saves([sd EXCEPT !.session = session'])
  /\ UNCHANGED <<now, clock, at, byTimer, timer, nextEvent, reminders, frame, readAt, last, cuts>>

SetReminders ==
  /\ Loops /\ SavesNothing
  /\ \/ reminders' = [reminders EXCEPT !.before = ~@]
     \/ reminders' = [reminders EXCEPT !.atEnd = ~@]
     \/ \E lead \in Leads : reminders' = [reminders EXCEPT !.lead = lead]
  /\ UNCHANGED <<now, clock, at, session>>

SyncNow ==
  /\ Loops /\ at' = "syncing" /\ session' = Advanced(session, clock)
  /\ SavesNothing /\ UNCHANGED <<now, clock, reminders>>

\* Idle: the session is advanced, a frame may be drawn, the sleep is computed.
IdlesOut ==
  /\ at = "awake"
  /\ session' = Advanced(session, clock)
  /\ \E d \in 0..1 : Ticks(d)
  /\ Sleeps(session', clock')
  /\ UNCHANGED <<nextEvent, reminders, frame, last, jumped, cuts>>

WakeNext ==
  \/ TimerFires \/ ButtonPressed \/ PowerFails
  \/ SyncOffline \/ SyncOnline
  \/ StaysSilent \/ RemindsOf \/ ShowsPhase \/ Renders
  \/ TimeGoesBy \/ StartPomodoro \/ StopPomodoro \/ SetReminders \/ SyncNow \/ IdlesOut

WakeSpec == WakeInit /\ [][WakeNext]_wakeVars

-----------------------------------------------------------------------------
Sessions == [phase : {"idle", "work", "break", "long"}, start : Nat, end : Nat, done : Nat]
CachedEvents == [has : BOOLEAN, start : Nat, end : Nat, markStart : Nat, markEnd : Nat]
Cards == [event : CachedEvents, session : Sessions]

WakeTypeOK ==
  /\ now \in Epoch..Horizon /\ clock \in 0..now
  /\ at \in {"asleep", "syncing", "deciding", "rendering", "awake"} /\ byTimer \in BOOLEAN
  /\ timer \in Nat \union {NoTime}
  /\ nextEvent \in CachedEvents /\ session \in Sessions
  /\ reminders \in [before : BOOLEAN, lead : Leads, atEnd : BOOLEAN]
  /\ sd \in Cards /\ torn \subseteq Cards
  /\ frame = NoFrame \/ frame \in [kind : Kinds \union {"pomodoro"}, target : Nat]
  /\ readAt \in Nat \union {NoTime} /\ last \in [Kinds -> Nat \union {NoTime}]
  /\ jumped \in BOOLEAN /\ cuts \in 0..PowerCuts

\* PomodoroSession.h:91 has the caller take 0 for "wake immediately": the
\* device never sleeps without a timer that wakes it.
AlwaysArmsTheTimer == at = "asleep" => timer # NoTime

\* It sleeps without one only when the phase ended while it was up: never in
\* the middle of a phase, at a boundary of its checkpoints, nor for an event.
TimerSetUnlessPhaseOver ==
  at = "asleep" /\ timer = NoTime => session.phase # "idle" /\ clock >= session.end

\* A sleep never runs past the end of the phase, nor past a reminder that is
\* switched on and was not due at its start (but for the shortest sleep).
NothingSleptThrough ==
  at = "asleep" /\ timer # NoTime =>
    LET wakes == clock + (timer - now)
    IN /\ session.phase # "idle" => wakes <= Greater(session.end, clock)
       /\ \A r \in Targets(nextEvent) \ Due(nextEvent, clock) :
            wakes <= Greater(r.target, clock + MinSleep)

\* When a timer wake has read the calendars, the reminder it renders is about
\* an event that was not over then: "wake at event end" needs a failed sync.
RemindersFollowTheCalendar ==
  frame.kind \in Kinds /\ readAt # NoTime => nextEvent.end > readAt

\* The same reminder is rendered twice in a row only if the device forgot it:
\* its calendar went empty, its file was lost with the power, or the power
\* failed between the mark of another one and its frame.
RepeatNeedsForgetting ==
  frame.kind \in Kinds => frame.target # last[frame.kind]

\* When a boot has caught up, the session is in the phase of the present time,
\* however many ended during the sleep, unless the clock was set while it ran.
SessionKeepsUp ==
  at = "syncing" /\ session.phase # "idle" /\ ~jumped => session.end > clock
=============================================================================
