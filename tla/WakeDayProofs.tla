---------------------------- MODULE WakeDayProofs -----------------------------
(***************************************************************************)
(* Theorems about WakeDay, for every length of the phases, every lead and  *)
(* every set of calendar events.                                           *)
(***************************************************************************)
EXTENDS WakeDay, WellFoundedInduction, NaturalsInduction, TLAPS

-----------------------------------------------------------------------------
(* The inductive invariants                                                *)

\* An event comes from a plausible clock: its lead never reaches below zero.
Plausible(e) == e.has => e.start >= Epoch

TypeInv ==
  /\ WakeTypeOK
  /\ Plausible(nextEvent) /\ Plausible(sd.event) /\ \A c \in torn : Plausible(c.event)
  /\ timer # NoTime => at = "asleep" /\ timer > now

CalendarInv ==
  /\ readAt # NoTime => at \in {"deciding", "rendering"} /\ (nextEvent.has => nextEvent.end > readAt)
  /\ frame.kind \in Kinds => at = "rendering" /\ nextEvent.has

\* The marks of e stand for what was rendered last, l, by the time n.
StartKept(e, l) == l["starting"] # NoTime => e.markStart = l["starting"]
EndKept(e, l, n) ==
  l["ended"] # NoTime => l["ended"] <= n /\ (e.has /\ e.end = l["ended"] => e.markEnd = l["ended"])

\* The frame that is up is new, and its mark is set.
FrameIsMarked ==
  frame.kind \in Kinds =>
    /\ at = "rendering" /\ nextEvent.has /\ frame.target # last[frame.kind]
    /\ frame.kind = "starting" => nextEvent.markStart = frame.target
    /\ frame.kind = "ended" =>
         nextEvent.markEnd = frame.target /\ nextEvent.end = frame.target /\ frame.target <= now

\* The clock is the time, or was reset since the beginning.
ClockInv == clock = now \/ now >= clock + Epoch

\* The card's event is the one in memory, and the marks outlive a power cut:
\* in every file the card may hold after one, unless a frame is up.
MarksInv ==
  /\ sd.event.has => nextEvent = sd.event
  /\ nextEvent.has => sd.event.has
  /\ FrameIsMarked
  /\ frame.kind # "starting" => StartKept(nextEvent, last)
  /\ EndKept(nextEvent, last, now)
  /\ at # "rendering" =>
       \A c \in torn : c.event.has => StartKept(c.event, last) /\ EndKept(c.event, last, now)

-----------------------------------------------------------------------------
(* Lemmas: least numbers, and what catching up preserves                   *)

\* A set of naturals that is not empty has a least element.
LEMMA LeastElement ==
  ASSUME NEW T \in SUBSET Nat, T # {}
  PROVE  \E n \in T : \A m \in T : n <= m
<1>1. \E n \in T : \A m \in T : <<m, n>> \notin OpToRel(<, Nat)
  BY WFMin, NatLessThanWellFounded
<1>2. OpToRel(<, Nat) = {p \in Nat \X Nat : p[1] < p[2]}
  BY Zenon DEF OpToRel
<1>3. \E n \in T : \A m \in T : <<m, n>> \notin {p \in Nat \X Nat : p[1] < p[2]}
  BY <1>1, <1>2, Zenon
<1>4. PICK n \in T : \A m \in T : <<m, n>> \notin {p \in Nat \X Nat : p[1] < p[2]}
  BY <1>3
<1>5. ASSUME NEW m \in T PROVE n <= m
  <2>1. m \in Nat /\ n \in Nat /\ <<m, n>> \notin {p \in Nat \X Nat : p[1] < p[2]}
    BY <1>4
  <2> QED BY <2>1
<1> QED BY <1>5

\* The definition of Caught defines a function: the first k rounds of it do,
\* for every k up to the last.
LEMMA CaughtDefined ==
  ASSUME NEW s, NEW t, NEW most \in Nat
  PROVE  \E f : f = [n \in 0..most |-> IF n = 0 THEN s
                                       ELSE IF t >= f[n - 1].end THEN NextPhase(f[n - 1]) ELSE f[n - 1]]
<1> DEFINE Rounds(f, k) ==
      f = [n \in 0..k |-> IF n = 0 THEN s
                          ELSE IF t >= f[n - 1].end THEN NextPhase(f[n - 1]) ELSE f[n - 1]]
           Missing == {k \in 0..most : ~ \E f : Rounds(f, k)}
<1> SUFFICES ASSUME Missing # {} PROVE FALSE
  OBVIOUS
<1>0. Missing \in SUBSET Nat
  OBVIOUS
<1> HIDE DEF Missing
<1>1. PICK k \in Missing : \A m \in Missing : k <= m
  BY <1>0, LeastElement
<1> USE DEF Missing
<1>2. k # 0
  <2> DEFINE f == [n \in 0..0 |-> s]
  <2>1. Rounds(f, 0)
    OBVIOUS
  <2> QED BY <2>1, <1>1
<1>3. k \in Nat \ {0} /\ k - 1 \in 0..most /\ k - 1 \notin Missing
  BY <1>1, <1>2
<1>4. PICK g : Rounds(g, k - 1)
  BY <1>3
<1> DEFINE h == [n \in 0..k |-> IF n = k THEN (IF t >= g[k - 1].end THEN NextPhase(g[k - 1]) ELSE g[k - 1])
                                ELSE g[n]]
<1>5. \A n \in 0..(k - 1) : h[n] = g[n]
  BY <1>3
<1>6. \A n \in 0..k : h[n] = IF n = 0 THEN s
                             ELSE IF t >= h[n - 1].end THEN NextPhase(h[n - 1]) ELSE h[n - 1]
  <2> SUFFICES ASSUME NEW n \in 0..k
               PROVE h[n] = IF n = 0 THEN s
                            ELSE IF t >= h[n - 1].end THEN NextPhase(h[n - 1]) ELSE h[n - 1]
    OBVIOUS
  <2>1. CASE n = k
    <3>1. n # 0 /\ h[n - 1] = g[n - 1]
      BY <2>1, <1>3, <1>5
    <3>2. h[n] = IF t >= g[n - 1].end THEN NextPhase(g[n - 1]) ELSE g[n - 1]
      BY <2>1
    <3> HIDE DEF h
    <3> QED BY <3>1, <3>2
  <2>2. CASE n # k
    <3>1. n \in 0..(k - 1) /\ h[n] = g[n]
      BY <2>2, <1>3, <1>5
    <3>2. n # 0 => n - 1 \in 0..(k - 1) /\ h[n - 1] = g[n - 1]
      BY <3>1, <1>3, <1>5
    <3>3. g[n] = IF n = 0 THEN s
                 ELSE IF t >= g[n - 1].end THEN NextPhase(g[n - 1]) ELSE g[n - 1]
      BY <1>4, <3>1
    <3> QED BY <3>1, <3>2, <3>3
  <2> QED BY <2>1, <2>2
<1>7. Rounds(h, k)
  BY <1>6
<1> QED BY <1>7, <1>1

\* Catching up stays in every set of sessions that the next phase stays in.
LEMMA CaughtStays ==
  ASSUME NEW S, NEW s \in S, NEW t, NEW most \in Nat, \A x \in S : t >= x.end => NextPhase(x) \in S
  PROVE  Caught(s, t, most) \in S
<1> DEFINE after == CHOOSE f : f = [n \in 0..most |->
                        IF n = 0 THEN s
                        ELSE IF t >= f[n - 1].end THEN NextPhase(f[n - 1]) ELSE f[n - 1]]
<1>1. after = [n \in 0..most |-> IF n = 0 THEN s
                                 ELSE IF t >= after[n - 1].end THEN NextPhase(after[n - 1]) ELSE after[n - 1]]
  BY CaughtDefined
<1>2. Caught(s, t, most) = after[most]
  BY DEF Caught
<1> HIDE DEF after
<1> DEFINE Outside == {n \in 0..most : after[n] \notin S}
<1>3. Outside = {}
  <2> SUFFICES ASSUME Outside # {} PROVE FALSE
    OBVIOUS
  <2>0. Outside \in SUBSET Nat
    OBVIOUS
  <2> HIDE DEF Outside
  <2>1. PICK n \in Outside : \A m \in Outside : n <= m
    BY <2>0, LeastElement
  <2> USE DEF Outside
  <2>2. n # 0
    BY <1>1, <2>1
  <2>3. n - 1 \in 0..most /\ after[n - 1] \in S
    BY <2>1, <2>2
  <2>4. after[n] = IF t >= after[n - 1].end THEN NextPhase(after[n - 1]) ELSE after[n - 1]
    BY <1>1, <2>1, <2>2
  <2> QED BY <2>1, <2>3, <2>4
<1> QED BY <1>2, <1>3

-----------------------------------------------------------------------------
(* Lemmas: the session                                                     *)

Active == {s \in Sessions : s.phase # "idle"}

LEMMA NextPhaseIsActive ==
  ASSUME NEW s \in Active
  PROVE  NextPhase(s) \in Active
<1> DEFINE done == s.done + 1
           long == UntilLongBreak > 0 /\ done % UntilLongBreak = 0
           On(phase, length, n) == [phase |-> phase, start |-> s.end, end |-> s.end + length, done |-> n]
<1>1. s \in Sessions /\ s.phase \in {"work", "break", "long"} /\ s.end \in Nat /\ s.done \in Nat
  BY DEF Active, Sessions
<1>2. WorkTime \in Nat /\ BreakTime \in Nat /\ LongBreakTime \in Nat
  BY WakeAssumption
<1>3. \A phase \in {"work", "break", "long"}, length \in Nat, n \in Nat : On(phase, length, n) \in Active
  BY <1>1 DEF Active, Sessions
<1>4. CASE s.phase = "work" /\ long
  BY <1>1, <1>2, <1>3, <1>4 DEF NextPhase
<1>5. CASE s.phase = "work" /\ ~long
  BY <1>1, <1>2, <1>3, <1>5 DEF NextPhase
<1>6. CASE s.phase = "break"
  BY <1>1, <1>2, <1>3, <1>6 DEF NextPhase
<1>7. CASE s.phase = "long"
  BY <1>1, <1>2, <1>3, <1>7 DEF NextPhase
<1> QED BY <1>1, <1>4, <1>5, <1>6, <1>7

LEMMA AdvancedIsSession ==
  ASSUME NEW s \in Sessions, NEW t
  PROVE  Advanced(s, t) \in Sessions
<1>1. CASE s.phase = "idle"
  BY <1>1 DEF Advanced
<1>2. CASE s.phase # "idle"
  <2>1. s \in Active /\ MaxCatchUp \in Nat
    BY <1>2, WakeAssumption DEF Active
  <2>2. \A x \in Active : t >= x.end => NextPhase(x) \in Active
    BY NextPhaseIsActive
  <2>3. Caught(s, t, MaxCatchUp) \in Active
    BY <2>1, <2>2, CaughtStays
  <2> QED BY <2>3, <1>2 DEF Advanced, Active
<1> QED BY <1>1, <1>2

LEMMA RoundedUp ==
  ASSUME NEW n \in Nat, NEW d \in Nat \ {0}
  PROVE  ((n \div d) + 1) * d \in Nat /\ ((n \div d) + 1) * d > n
OBVIOUS

\* Before the end of the phase the next boundary is ahead, and not past the end.
LEMMA ToCheckpointFacts ==
  ASSUME NEW s \in Sessions, NEW t \in Nat
  PROVE  /\ ToCheckpoint(s, t) \in Nat
         /\ ToCheckpoint(s, t) = 0 <=> t >= s.end
         /\ t < s.end => t + ToCheckpoint(s, t) <= s.end
<1>1. s.start \in Nat /\ s.end \in Nat /\ Checkpoint \in Nat
  BY WakeAssumption DEF Sessions
<1>2. CASE t >= s.end \/ Checkpoint = 0
  BY <1>1, <1>2 DEF ToCheckpoint
<1>3. CASE t < s.end /\ Checkpoint # 0
  <2> DEFINE elapsed == IF t > s.start THEN t - s.start ELSE 0
             boundary == s.start + ((elapsed \div Checkpoint) + 1) * Checkpoint
  <2>1. elapsed \in Nat /\ t <= s.start + elapsed
    BY <1>1
  <2> HIDE DEF elapsed
  <2>2. boundary \in Nat /\ boundary > t
    <3>1. /\ ((elapsed \div Checkpoint) + 1) * Checkpoint \in Nat
          /\ ((elapsed \div Checkpoint) + 1) * Checkpoint > elapsed
      BY <1>1, <1>3, <2>1, RoundedUp
    <3> DEFINE up == ((elapsed \div Checkpoint) + 1) * Checkpoint
    <3> HIDE DEF up
    <3>2. up \in Nat /\ up > elapsed /\ boundary = s.start + up
      BY <3>1 DEF up
    <3> QED BY <1>1, <2>1, <3>2
  <2>3. ToCheckpoint(s, t) = Lesser(boundary, s.end) - t
    BY <1>1, <1>3 DEF ToCheckpoint, elapsed
  <2> HIDE DEF boundary
  <2> QED BY <1>1, <1>3, <2>2, <2>3 DEF Lesser
<1> QED BY <1>1, <1>2, <1>3

-----------------------------------------------------------------------------
(* Lemmas: the calendar                                                    *)

Reminders == [before : BOOLEAN, lead : Leads, atEnd : BOOLEAN]
Alerts == [kind : Kinds, target : Nat]

LEMMA MinIsLeast ==
  ASSUME NEW T \in SUBSET Nat, T # {}
  PROVE  Min(T) \in T /\ \A n \in T : Min(T) <= n
<1>1. PICK n \in T : \A m \in T : n <= m
  BY LeastElement
<1> QED BY <1>1 DEF Min

LEMMA TargetsAreAlerts ==
  ASSUME NEW e \in CachedEvents, Plausible(e), reminders \in Reminders
  PROVE  Targets(e) \subseteq Alerts
<1>1. e.start \in Nat /\ e.end \in Nat /\ (e.has => e.start >= Epoch)
  BY DEF CachedEvents, Plausible
<1>2. reminders.lead \in 0..Epoch /\ Epoch \in Nat
  BY WakeAssumption DEF Reminders
<1>3. e.has => e.start - reminders.lead \in Nat
  BY <1>1, <1>2
<1> QED BY <1>1, <1>3 DEF Targets, Alerts, Kinds

LEMMA CalendarSleepFacts ==
  ASSUME NEW e \in CachedEvents, Plausible(e), reminders \in Reminders, NEW t \in Nat
  PROVE  /\ CalendarSleep(e, t) \in Nat \ {0}
         /\ \A r \in Targets(e) \ Due(e, t) : t + CalendarSleep(e, t) <= Greater(r.target, t + MinSleep)
<1> DEFINE W == {Base} \union Waits(e, t)
<1>1. Base \in Nat /\ MinSleep \in Nat \ {0}
  BY WakeAssumption
<1>2. \A r \in Targets(e) \ Due(e, t) : r.target \in Nat /\ r.target > t
  <2>1. \A r \in Targets(e) : r.target \in Nat
    BY TargetsAreAlerts DEF Alerts
  <2> QED BY <2>1 DEF Due
<1>3. W \in SUBSET Nat /\ W # {}
  BY <1>1, <1>2 DEF Waits
<1>4. Min(W) \in Nat /\ \A n \in W : Min(W) <= n
  BY <1>3, MinIsLeast
<1>5. \A r \in Targets(e) \ Due(e, t) : Min(W) <= r.target - t
  BY <1>4 DEF Waits
<1>6. CalendarSleep(e, t) = Greater(MinSleep, Min(W))
  BY DEF CalendarSleep
<1> HIDE DEF W
<1> QED BY <1>1, <1>2, <1>4, <1>5, <1>6 DEF Greater

\* The reminder chosen is due, and it is the end's only if no start is due.
LEMMA AlertFacts ==
  ASSUME NEW e, NEW t, Due(e, t) # {}
  PROVE  /\ Alert(e, t) \in Due(e, t)
         /\ Alert(e, t).kind = "starting" \/ \A q \in Due(e, t) : q.kind = "ended"
<1> DEFINE P(r) == r.kind = "starting" \/ \A q \in Due(e, t) : q.kind = "ended"
<1>1. \E r \in Due(e, t) : P(r)
  <2>1. \A q \in Due(e, t) : q.kind \in {"starting", "ended"}
    BY DEF Due, Targets
  <2> QED BY <2>1
<1>2. Alert(e, t) = CHOOSE r \in Due(e, t) : P(r)
  BY DEF Alert
<1> QED BY <1>1, <1>2

LEMMA StampedFacts ==
  ASSUME NEW e \in CachedEvents, Plausible(e), e.has, reminders \in Reminders, NEW t
  PROVE  /\ Stamped(e, t) \in CachedEvents
         /\ Stamped(e, t).has = e.has /\ Stamped(e, t).start = e.start /\ Stamped(e, t).end = e.end
         /\ Stamped(e, t).markStart =
              IF \E r \in Due(e, t) : r.kind = "starting" THEN e.start - reminders.lead ELSE e.markStart
         /\ Stamped(e, t).markEnd = IF \E r \in Due(e, t) : r.kind = "ended" THEN e.end ELSE e.markEnd
<1> DEFINE Fires(kind) == \E r \in Due(e, t) : r.kind = kind
<1>1. Stamped(e, t) = [e EXCEPT !.markStart = IF Fires("starting") THEN e.start - reminders.lead ELSE @,
                                !.markEnd = IF Fires("ended") THEN e.end ELSE @]
  BY DEF Stamped
<1>2. e.start - reminders.lead \in Nat
  <2>1. e.start \in Nat /\ e.start >= Epoch
    BY DEF CachedEvents, Plausible
  <2>2. reminders.lead \in 0..Epoch /\ Epoch \in Nat
    BY WakeAssumption DEF Reminders
  <2> QED BY <2>1, <2>2
<1> DEFINE start == IF Fires("starting") THEN e.start - reminders.lead ELSE e.markStart
           end == IF Fires("ended") THEN e.end ELSE e.markEnd
<1>3. start \in Nat /\ end \in Nat
  BY <1>2 DEF CachedEvents
<1>4. Stamped(e, t) = [e EXCEPT !.markStart = start, !.markEnd = end]
  BY <1>1
<1> HIDE DEF start, end
<1>5. /\ Stamped(e, t) \in CachedEvents
      /\ Stamped(e, t).has = e.has /\ Stamped(e, t).start = e.start /\ Stamped(e, t).end = e.end
      /\ Stamped(e, t).markStart = start /\ Stamped(e, t).markEnd = end
  BY <1>3, <1>4 DEF CachedEvents
<1> QED BY <1>5 DEF start, end

\* 0 exactly when an active session's phase is over; never past the phase's end
\* nor past a reminder that is still to come.
LEMMA IntervalFacts ==
  ASSUME nextEvent \in CachedEvents, Plausible(nextEvent), reminders \in Reminders,
         NEW s \in Sessions, NEW t \in Nat
  PROVE  /\ Interval(s, t) \in Nat
         /\ Interval(s, t) = 0 <=> s.phase # "idle" /\ t >= s.end
         /\ s.phase # "idle" => t + Interval(s, t) <= Greater(s.end, t)
         /\ \A r \in Targets(nextEvent) \ Due(nextEvent, t) :
              t + Interval(s, t) <= Greater(r.target, t + MinSleep)
<1> DEFINE sleep == CalendarSleep(nextEvent, t)
<1>1. /\ sleep \in Nat \ {0}
      /\ \A r \in Targets(nextEvent) \ Due(nextEvent, t) :
           r.target \in Nat /\ t + sleep <= Greater(r.target, t + MinSleep)
  BY CalendarSleepFacts, TargetsAreAlerts DEF Alerts
<1>2. MinSleep \in Nat /\ s.end \in Nat
  BY WakeAssumption DEF Sessions
<1>3. CASE s.phase = "idle"
  BY <1>1, <1>3 DEF Interval
<1>4. CASE s.phase # "idle"
  <2>1. Interval(s, t) = Lesser(sleep, ToCheckpoint(s, t))
    BY <1>4 DEF Interval
  <2>2. /\ ToCheckpoint(s, t) \in Nat
        /\ ToCheckpoint(s, t) = 0 <=> t >= s.end
        /\ t < s.end => t + ToCheckpoint(s, t) <= s.end
    BY ToCheckpointFacts
  <2> DEFINE most == ToCheckpoint(s, t)
  <2> HIDE DEF sleep, most
  <2>3. Interval(s, t) \in Nat /\ Interval(s, t) <= sleep /\ Interval(s, t) <= most
    BY <1>1, <2>1, <2>2 DEF Lesser, most
  <2>4. Interval(s, t) = 0 <=> t >= s.end
    BY <1>1, <2>1, <2>2 DEF Lesser, most
  <2>5. t + Interval(s, t) <= Greater(s.end, t)
    BY <1>2, <2>2, <2>3, <2>4 DEF Greater, most
  <2>6. ASSUME NEW r \in Targets(nextEvent) \ Due(nextEvent, t)
        PROVE  t + Interval(s, t) <= Greater(r.target, t + MinSleep)
    BY <1>1, <1>2, <2>3 DEF Greater
  <2> QED BY <1>4, <2>3, <2>4, <2>5, <2>6
<1> QED BY <1>3, <1>4

-----------------------------------------------------------------------------
(* Types: the groups of steps                                              *)

EventTypes ==
  /\ nextEvent \in CachedEvents /\ Plausible(nextEvent)
  /\ sd \in Cards /\ Plausible(sd.event)
  /\ torn \subseteq Cards /\ \A c \in torn : Plausible(c.event)

ClockTypes == now \in Epoch..Horizon /\ clock \in 0..now

OtherTypes ==
  /\ at \in {"asleep", "syncing", "deciding", "rendering", "awake"} /\ byTimer \in BOOLEAN
  /\ timer \in Nat \union {NoTime} /\ session \in Sessions /\ reminders \in Reminders
  /\ frame = NoFrame \/ frame \in [kind : Kinds \union {"pomodoro"}, target : Nat]
  /\ readAt \in Nat \union {NoTime} /\ last \in [Kinds -> Nat \union {NoTime}]
  /\ jumped \in BOOLEAN /\ cuts \in 0..PowerCuts
  /\ timer # NoTime => at = "asleep" /\ timer > now

LEMMA TypeInvParts == TypeInv <=> EventTypes /\ ClockTypes /\ OtherTypes
BY DEF TypeInv, WakeTypeOK, EventTypes, ClockTypes, OtherTypes, Reminders

LEMMA TypePartsNext == EventTypes' /\ ClockTypes' /\ OtherTypes' => TypeInv'
BY DEF TypeInv, WakeTypeOK, EventTypes, ClockTypes, OtherTypes, Reminders, Plausible

LEMMA NoEventIsCached == NoEvent \in CachedEvents /\ Plausible(NoEvent) /\ ~NoEvent.has
BY DEF NoEvent, CachedEvents, Plausible

LEMMA IdleIsSession == IdleSession \in Sessions
BY DEF IdleSession, Sessions

LEMMA TicksKeepsClock ==
  ASSUME ClockTypes, NEW d \in Nat, Ticks(d)
  PROVE  ClockTypes' /\ clock' \in Nat /\ now' = now + d /\ now \in Nat /\ now' \in Nat
BY WakeAssumption DEF ClockTypes, Ticks, Passes

LEMMA SavesKeepsTypes ==
  ASSUME EventTypes, NEW content \in Cards, Plausible(content.event), Saves(content)
  PROVE  sd' = content /\ torn' \subseteq Cards /\ \A c \in torn' : Plausible(c.event)
<1> DEFINE half == [sd EXCEPT !.event = IF content.event = sd.event THEN @ ELSE NoEvent,
                              !.session = IF content.session = sd.session THEN @ ELSE IdleSession]
<1>1. half \in Cards /\ (half.event = sd.event \/ half.event = NoEvent)
  BY NoEventIsCached, IdleIsSession DEF EventTypes, Cards
<1>2. sd' = content /\ torn' = {sd, half}
  BY DEF Saves
<1> HIDE DEF half
<1> QED BY <1>1, <1>2, NoEventIsCached DEF EventTypes

\* A boot from the card, or from what a power cut left of it.
LEMMA BootsKeepsTypes ==
  ASSUME TypeInv, NEW from \in {sd} \union torn, NEW t, Boots(from, t)
  PROVE  /\ EventTypes' /\ session' \in Sessions
         /\ at' = "syncing" /\ timer' = NoTime /\ frame' = NoFrame /\ readAt' = NoTime
         /\ last' \in [Kinds -> Nat \union {NoTime}]
<1>1. EventTypes /\ from \in Cards /\ Plausible(from.event)
  BY TypeInvParts DEF EventTypes
<1>2. from.event \in CachedEvents /\ from.session \in Sessions
  BY <1>1 DEF Cards
<1>3. nextEvent' \in CachedEvents /\ Plausible(nextEvent)'
  <2>1. nextEvent' = Loaded(from.event)
    BY DEF Boots
  <2> QED BY <1>1, <1>2, <2>1, NoEventIsCached DEF Loaded, Plausible
<1>4. session' \in Sessions
  BY <1>2, AdvancedIsSession DEF Boots
<1>5. last' \in [Kinds -> Nat \union {NoTime}]
  <2>1. last \in [Kinds -> Nat \union {NoTime}]
    BY DEF TypeInv, WakeTypeOK
  <2> QED BY <2>1 DEF Boots
<1> QED BY <1>1, <1>3, <1>4, <1>5 DEF Boots, EventTypes, Plausible

\* The device falls asleep with s as its session.
LEMMA SleepsKeepsTypes ==
  ASSUME TypeInv, ClockTypes', NEW s \in Sessions, NEW t \in Nat, Sleeps(s, t), UNCHANGED nextEvent
  PROVE  /\ EventTypes' /\ at' = "asleep" /\ byTimer' = FALSE /\ readAt' = NoTime
         /\ timer' \in Nat \union {NoTime} /\ (timer' # NoTime => timer' > now')
<1>1. EventTypes /\ OtherTypes
  BY TypeInvParts
<1>2. EventTypes'
  <2> DEFINE content == [sd EXCEPT !.session = s]
  <2>1. content \in Cards /\ content.event = sd.event /\ Plausible(content.event)
    BY <1>1 DEF EventTypes, Cards
  <2>2. Saves(content)
    BY DEF Sleeps
  <2> HIDE DEF content
  <2>3. sd' = content /\ torn' \subseteq Cards /\ \A c \in torn' : Plausible(c.event)
    BY <1>1, <2>1, <2>2, SavesKeepsTypes
  <2> QED BY <1>1, <2>1, <2>3 DEF EventTypes, Plausible
<1>3. Interval(s, t) \in Nat
  BY <1>1, IntervalFacts DEF EventTypes, OtherTypes
<1>4. now' \in Nat
  BY WakeAssumption DEF ClockTypes
<1>5. timer' = IF Interval(s, t) > 0 THEN now' + Interval(s, t) ELSE NoTime
  BY DEF Sleeps
<1>6. timer' \in Nat \union {NoTime} /\ (timer' # NoTime => timer' > now')
  BY <1>3, <1>4, <1>5
<1> QED BY <1>2, <1>6 DEF Sleeps

-----------------------------------------------------------------------------
(* Types: each step                                                        *)

LEMMA TypeInit == WakeInit => TypeInv
<1> SUFFICES ASSUME WakeInit PROVE TypeInv
  OBVIOUS
<1>1. EventTypes
  BY NoEventIsCached, IdleIsSession DEF WakeInit, EventTypes, Cards
<1>2. ClockTypes
  BY WakeAssumption DEF WakeInit, ClockTypes
<1>3. OtherTypes
  <2>1. cuts \in 0..PowerCuts
    BY WakeAssumption DEF WakeInit
  <2>2. session \in Sessions /\ reminders \in Reminders /\ frame = NoFrame
    BY IdleIsSession DEF WakeInit, Reminders
  <2>3. readAt = NoTime /\ timer = NoTime /\ last \in [Kinds -> Nat \union {NoTime}]
    BY DEF WakeInit
  <2>4. at = "syncing" /\ byTimer = FALSE /\ jumped = FALSE
    BY DEF WakeInit
  <2> QED BY <2>1, <2>2, <2>3, <2>4 DEF OtherTypes
<1> QED BY <1>1, <1>2, <1>3, TypeInvParts

LEMMA TypeTimerFires == TypeInv /\ TimerFires => TypeInv'
<1> SUFFICES ASSUME TypeInv, TimerFires PROVE TypeInv'
  OBVIOUS
<1>1. EventTypes /\ ClockTypes /\ OtherTypes
  BY TypeInvParts
<1>2. timer - now \in Nat
  BY <1>1, WakeAssumption DEF TimerFires, OtherTypes, ClockTypes
<1>3. ClockTypes'
  BY <1>1, <1>2, TicksKeepsClock DEF TimerFires
<1>4. /\ EventTypes' /\ session' \in Sessions
      /\ at' = "syncing" /\ timer' = NoTime /\ frame' = NoFrame /\ readAt' = NoTime
      /\ last' \in [Kinds -> Nat \union {NoTime}]
  BY BootsKeepsTypes DEF TimerFires
<1>5. OtherTypes'
  BY <1>1, <1>4 DEF OtherTypes, TimerFires
<1> QED BY <1>3, <1>4, <1>5, TypePartsNext

LEMMA TypeButtonPressed == TypeInv /\ ButtonPressed => TypeInv'
<1> SUFFICES ASSUME TypeInv, ButtonPressed PROVE TypeInv'
  OBVIOUS
<1>1. EventTypes /\ ClockTypes /\ OtherTypes
  BY TypeInvParts
<1>2. ClockTypes'
  BY <1>1, TicksKeepsClock, WakeAssumption DEF ButtonPressed
<1>3. /\ EventTypes' /\ session' \in Sessions
      /\ at' = "syncing" /\ timer' = NoTime /\ frame' = NoFrame /\ readAt' = NoTime
      /\ last' \in [Kinds -> Nat \union {NoTime}]
  BY BootsKeepsTypes DEF ButtonPressed
<1>4. OtherTypes'
  BY <1>1, <1>3 DEF OtherTypes, ButtonPressed
<1> QED BY <1>2, <1>3, <1>4, TypePartsNext

LEMMA TypePowerFails == TypeInv /\ PowerFails => TypeInv'
<1> SUFFICES ASSUME TypeInv, PowerFails PROVE TypeInv'
  OBVIOUS
<1>1. EventTypes /\ ClockTypes /\ OtherTypes
  BY TypeInvParts
<1>2. ClockTypes'
  BY <1>1, WakeAssumption DEF PowerFails, ClockTypes
<1>3. /\ EventTypes' /\ session' \in Sessions
      /\ at' = "syncing" /\ timer' = NoTime /\ frame' = NoFrame /\ readAt' = NoTime
      /\ last' \in [Kinds -> Nat \union {NoTime}]
  BY BootsKeepsTypes DEF PowerFails
<1>4. cuts' \in 0..PowerCuts
  BY <1>1, WakeAssumption DEF PowerFails, OtherTypes
<1>5. OtherTypes'
  BY <1>1, <1>3, <1>4 DEF OtherTypes, PowerFails
<1> QED BY <1>2, <1>3, <1>5, TypePartsNext

LEMMA TypeSyncOffline == TypeInv /\ SyncOffline => TypeInv'
<1> SUFFICES ASSUME TypeInv, SyncOffline PROVE TypeInv'
  OBVIOUS
<1>1. EventTypes /\ ClockTypes /\ OtherTypes
  BY TypeInvParts
<1>2. ClockTypes'
  BY <1>1, TicksKeepsClock, WakeAssumption DEF SyncOffline
<1>3. EventTypes'
  BY <1>1 DEF EventTypes, SyncOffline, SavesNothing, Plausible
<1>4. OtherTypes'
  BY <1>1 DEF OtherTypes, SyncOffline, AfterSync
<1> QED BY <1>2, <1>3, <1>4, TypePartsNext

LEMMA WithinIsNat ==
  ASSUME NEW a \in Nat, NEW d \in Nat, NEW least \in Nat, a - d >= least
  PROVE  a >= least /\ (a - d)..a \subseteq Nat
OBVIOUS

\* What a sync caches: nothing, or an event that was shown and not over.
LEMMA CachedFacts ==
  ASSUME EventTypes, NEW shown \in SUBSET Occurrences, NEW t, NEW e \in Cached(shown, t)
  PROVE  /\ e \in CachedEvents /\ Plausible(e)
         /\ e.markStart = nextEvent.markStart /\ e.markEnd = nextEvent.markEnd
         /\ e.has => e.end > t
<1>1. nextEvent \in CachedEvents
  BY DEF EventTypes
<1>2. CASE LiveEvents(shown, t) = {}
  <2>1. e = [nextEvent EXCEPT !.has = FALSE, !.start = 0, !.end = 0]
    BY <1>2 DEF Cached
  <2> QED BY <1>1, <2>1 DEF CachedEvents, Plausible
<1>3. CASE LiveEvents(shown, t) # {}
  <2>1. PICK o \in LiveEvents(shown, t) :
          e = [nextEvent EXCEPT !.has = TRUE, !.start = o.start, !.end = o.end]
    BY <1>3 DEF Cached
  <2>2. o.start \in Nat /\ o.end \in Nat /\ o.start >= Epoch /\ o.end > t
    BY <2>1, WakeAssumption DEF LiveEvents
  <2> QED BY <1>1, <2>1, <2>2 DEF CachedEvents, Plausible
<1> QED BY <1>2, <1>3

LEMMA TypeSyncOnline == TypeInv /\ SyncOnline => TypeInv'
<1> SUFFICES ASSUME TypeInv, SyncOnline PROVE TypeInv'
  OBVIOUS
<1>1. EventTypes /\ ClockTypes /\ OtherTypes
  BY TypeInvParts
<1>2. PICK d \in 0..SyncTime, timeServer \in BOOLEAN, fed \in BOOLEAN :
       /\ Passes(d)
       /\ clock' = IF timeServer THEN now' ELSE clock + d
       /\ jumped' = (jumped \/ (session.phase # "idle" /\ clock' # clock + d))
       /\ IF fed /\ clock' - d >= Epoch
          THEN /\ \E t \in (clock' - d)..clock', shown \in SUBSET Occurrences :
                    nextEvent' \in Cached(shown, t) /\ readAt' = IF byTimer THEN t ELSE NoTime
               /\ Saves([sd EXCEPT !.event = nextEvent'])
          ELSE readAt' = NoTime /\ UNCHANGED nextEvent /\ SavesNothing
  BY DEF SyncOnline
<1>3. d \in Nat /\ Epoch \in Nat
  BY WakeAssumption
<1>4. ClockTypes'
  BY <1>1, <1>2, <1>3, WakeAssumption DEF ClockTypes, Passes
<1>5. EventTypes' /\ readAt' \in Nat \union {NoTime}
  <2>1. CASE fed /\ clock' - d >= Epoch
    <3>1. PICK t \in (clock' - d)..clock', shown \in SUBSET Occurrences :
            nextEvent' \in Cached(shown, t) /\ readAt' = IF byTimer THEN t ELSE NoTime
      BY <1>2, <2>1
    <3>2. t \in Nat
      <4>1. clock' \in Nat
        BY <1>4, WakeAssumption DEF ClockTypes
      <4>2. clock' - d >= Epoch
        BY <2>1
      <4>3. t \in (clock' - d)..clock'
        BY <3>1
      <4> QED BY <1>3, <4>1, <4>2, <4>3, WithinIsNat
    <3>3. nextEvent' \in CachedEvents /\ Plausible(nextEvent')
      BY <1>1, <3>1, CachedFacts
    <3> DEFINE content == [sd EXCEPT !.event = nextEvent']
    <3>4. content \in Cards /\ Plausible(content.event) /\ Saves(content)
      BY <1>1, <1>2, <2>1, <3>3 DEF EventTypes, Cards
    <3> HIDE DEF content
    <3>5. sd' = content /\ torn' \subseteq Cards /\ \A c \in torn' : Plausible(c.event)
      BY <1>1, <3>4, SavesKeepsTypes
    <3> QED BY <3>1, <3>2, <3>3, <3>4, <3>5 DEF EventTypes, Plausible
  <2>2. CASE ~(fed /\ clock' - d >= Epoch)
    BY <1>1, <1>2, <2>2 DEF EventTypes, SavesNothing, Plausible
  <2> QED BY <2>1, <2>2
<1>6. jumped' \in BOOLEAN
  <2>1. jumped \in BOOLEAN
    BY <1>1 DEF OtherTypes
  <2> QED BY <1>2, <2>1
<1>7. OtherTypes'
  BY <1>1, <1>5, <1>6 DEF OtherTypes, SyncOnline, AfterSync
<1> QED BY <1>4, <1>5, <1>7, TypePartsNext

LEMMA TypeStaysSilent == TypeInv /\ StaysSilent => TypeInv'
<1> SUFFICES ASSUME TypeInv, StaysSilent PROVE TypeInv'
  OBVIOUS
<1>1. EventTypes /\ ClockTypes /\ OtherTypes
  BY TypeInvParts
<1>2. ClockTypes'
  BY <1>1 DEF ClockTypes, StaysSilent
<1>3. session \in Sessions /\ clock \in Nat
  BY <1>1, WakeAssumption DEF OtherTypes, ClockTypes
<1>4. /\ EventTypes' /\ at' = "asleep" /\ byTimer' = FALSE /\ readAt' = NoTime
      /\ timer' \in Nat \union {NoTime} /\ (timer' # NoTime => timer' > now')
  BY <1>2, <1>3, SleepsKeepsTypes DEF StaysSilent
<1>5. OtherTypes'
  BY <1>1, <1>4 DEF OtherTypes, StaysSilent
<1> QED BY <1>2, <1>4, <1>5, TypePartsNext

LEMMA TypeRemindsOf == TypeInv /\ RemindsOf => TypeInv'
<1> SUFFICES ASSUME TypeInv, RemindsOf PROVE TypeInv'
  OBVIOUS
<1>1. EventTypes /\ ClockTypes /\ OtherTypes
  BY TypeInvParts
<1>2. ClockTypes'
  BY <1>1 DEF ClockTypes, RemindsOf
<1>3. Alert(nextEvent, clock) \in Due(nextEvent, clock)
  BY AlertFacts DEF RemindsOf
<1>4. frame' \in [kind : Kinds \union {"pomodoro"}, target : Nat]
  <2>1. frame' \in Alerts
    BY <1>1, <1>3, TargetsAreAlerts DEF EventTypes, OtherTypes, Due, RemindsOf
  <2> QED BY <2>1 DEF Alerts
<1>5. nextEvent.has
  BY <1>3 DEF Due, Targets
<1>6. nextEvent' \in CachedEvents /\ Plausible(nextEvent')
  BY <1>1, <1>5, StampedFacts DEF EventTypes, OtherTypes, RemindsOf, Plausible
<1>7. EventTypes'
  <2> DEFINE content == [sd EXCEPT !.event = nextEvent']
  <2>1. content \in Cards /\ Plausible(content.event) /\ Saves(content)
    BY <1>1, <1>6 DEF EventTypes, Cards, RemindsOf
  <2> HIDE DEF content
  <2>2. sd' = content /\ torn' \subseteq Cards /\ \A c \in torn' : Plausible(c.event)
    BY <1>1, <2>1, SavesKeepsTypes
  <2> QED BY <1>6, <2>1, <2>2 DEF EventTypes, Plausible
<1>8. OtherTypes'
  BY <1>1, <1>4 DEF OtherTypes, RemindsOf
<1> QED BY <1>2, <1>7, <1>8, TypePartsNext

LEMMA TypeShowsPhase == TypeInv /\ ShowsPhase => TypeInv'
<1> SUFFICES ASSUME TypeInv, ShowsPhase PROVE TypeInv'
  OBVIOUS
<1>1. EventTypes /\ ClockTypes /\ OtherTypes
  BY TypeInvParts
<1>2. ClockTypes'
  BY <1>1 DEF ClockTypes, ShowsPhase
<1>3. EventTypes'
  BY <1>1 DEF EventTypes, ShowsPhase, SavesNothing, Plausible
<1>4. frame' \in [kind : Kinds \union {"pomodoro"}, target : Nat]
  BY <1>1 DEF OtherTypes, ShowsPhase, Sessions
<1>5. OtherTypes'
  BY <1>1, <1>4 DEF OtherTypes, ShowsPhase
<1> QED BY <1>2, <1>3, <1>5, TypePartsNext

LEMMA TypeRenders == TypeInv /\ Renders => TypeInv'
<1> SUFFICES ASSUME TypeInv, Renders PROVE TypeInv'
  OBVIOUS
<1>1. EventTypes /\ ClockTypes /\ OtherTypes
  BY TypeInvParts
<1>2. ClockTypes' /\ clock' \in Nat
  BY <1>1, TicksKeepsClock DEF Renders
<1>3. /\ EventTypes' /\ at' = "asleep" /\ byTimer' = FALSE /\ readAt' = NoTime
      /\ timer' \in Nat \union {NoTime} /\ (timer' # NoTime => timer' > now')
  <2>1. session \in Sessions /\ Sleeps(session, clock') /\ UNCHANGED nextEvent
    BY <1>1 DEF OtherTypes, Renders
  <2> QED BY <1>2, <2>1, SleepsKeepsTypes
<1>4. last' \in [Kinds -> Nat \union {NoTime}]
  <2>1. last \in [Kinds -> Nat \union {NoTime}]
    BY <1>1 DEF OtherTypes
  <2>2. frame.kind \in Kinds => frame.target \in Nat
    BY <1>1 DEF OtherTypes, NoFrame, Kinds
  <2>3. last' = IF frame.kind \in Kinds THEN [last EXCEPT ![frame.kind] = frame.target] ELSE last
    BY DEF Renders
  <2> QED BY <2>1, <2>2, <2>3
<1>5. OtherTypes'
  BY <1>1, <1>3, <1>4 DEF OtherTypes, Renders
<1> QED BY <1>2, <1>3, <1>5, TypePartsNext

LEMMA TypeTimeGoesBy == TypeInv /\ TimeGoesBy => TypeInv'
<1> SUFFICES ASSUME TypeInv, TimeGoesBy PROVE TypeInv'
  OBVIOUS
<1>1. EventTypes /\ ClockTypes /\ OtherTypes
  BY TypeInvParts
<1>2. ClockTypes'
  BY <1>1, TicksKeepsClock DEF TimeGoesBy
<1>3. EventTypes'
  BY <1>1 DEF EventTypes, TimeGoesBy, Loops, SavesNothing, Plausible
<1>4. session' \in Sessions
  BY <1>1, AdvancedIsSession DEF OtherTypes, TimeGoesBy
<1>5. OtherTypes'
  BY <1>1, <1>4 DEF OtherTypes, TimeGoesBy, Loops
<1> QED BY <1>2, <1>3, <1>5, TypePartsNext

\* A session begun or stopped on the Pomodoro page is saved with the card.
LEMMA SessionSaved ==
  ASSUME EventTypes, session' \in Sessions, UNCHANGED nextEvent, Saves([sd EXCEPT !.session = session'])
  PROVE  EventTypes'
<1> DEFINE content == [sd EXCEPT !.session = session']
<1>1. content \in Cards /\ Plausible(content.event) /\ Saves(content)
  BY DEF EventTypes, Cards
<1> HIDE DEF content
<1>2. sd' = content /\ torn' \subseteq Cards /\ \A c \in torn' : Plausible(c.event)
  BY <1>1, SavesKeepsTypes
<1> QED BY <1>1, <1>2 DEF EventTypes, Plausible

LEMMA TypeStartPomodoro == TypeInv /\ StartPomodoro => TypeInv'
<1> SUFFICES ASSUME TypeInv, StartPomodoro PROVE TypeInv'
  OBVIOUS
<1>1. EventTypes /\ ClockTypes /\ OtherTypes
  BY TypeInvParts
<1>2. ClockTypes'
  BY <1>1 DEF ClockTypes, StartPomodoro
<1>3. session' \in Sessions
  <2>1. clock \in Nat /\ WorkTime \in Nat
    BY <1>1, WakeAssumption DEF ClockTypes
  <2> QED BY <2>1 DEF StartPomodoro, Started, Sessions
<1>4. EventTypes'
  BY <1>1, <1>3, SessionSaved DEF StartPomodoro
<1>5. OtherTypes'
  BY <1>1, <1>3 DEF OtherTypes, StartPomodoro
<1> QED BY <1>2, <1>4, <1>5, TypePartsNext

LEMMA TypeStopPomodoro == TypeInv /\ StopPomodoro => TypeInv'
<1> SUFFICES ASSUME TypeInv, StopPomodoro PROVE TypeInv'
  OBVIOUS
<1>1. EventTypes /\ ClockTypes /\ OtherTypes
  BY TypeInvParts
<1>2. ClockTypes'
  BY <1>1 DEF ClockTypes, StopPomodoro
<1>3. session' \in Sessions
  BY <1>1 DEF OtherTypes, StopPomodoro, IdleSession, Sessions
<1>4. EventTypes'
  BY <1>1, <1>3, SessionSaved DEF StopPomodoro
<1>5. OtherTypes'
  BY <1>1, <1>3 DEF OtherTypes, StopPomodoro
<1> QED BY <1>2, <1>4, <1>5, TypePartsNext

LEMMA TypeSetReminders == TypeInv /\ SetReminders => TypeInv'
<1> SUFFICES ASSUME TypeInv, SetReminders PROVE TypeInv'
  OBVIOUS
<1>1. EventTypes /\ ClockTypes /\ OtherTypes
  BY TypeInvParts
<1>2. ClockTypes'
  BY <1>1 DEF ClockTypes, SetReminders
<1>3. EventTypes'
  BY <1>1 DEF EventTypes, SetReminders, Loops, SavesNothing, Plausible
<1>4. reminders' \in Reminders
  BY <1>1 DEF OtherTypes, SetReminders, Reminders
<1>5. OtherTypes'
  BY <1>1, <1>4 DEF OtherTypes, SetReminders, Loops
<1> QED BY <1>2, <1>3, <1>5, TypePartsNext

LEMMA TypeSyncNow == TypeInv /\ SyncNow => TypeInv'
<1> SUFFICES ASSUME TypeInv, SyncNow PROVE TypeInv'
  OBVIOUS
<1>1. EventTypes /\ ClockTypes /\ OtherTypes
  BY TypeInvParts
<1>2. ClockTypes'
  BY <1>1 DEF ClockTypes, SyncNow
<1>3. EventTypes'
  BY <1>1 DEF EventTypes, SyncNow, Loops, SavesNothing, Plausible
<1>4. session' \in Sessions
  BY <1>1, AdvancedIsSession DEF OtherTypes, SyncNow
<1>5. at = "awake"
  BY DEF SyncNow, Loops
<1>6. timer = NoTime
  BY <1>1, <1>5 DEF OtherTypes
<1>7. OtherTypes'
  BY <1>1, <1>4, <1>6 DEF OtherTypes, SyncNow, Loops
<1> QED BY <1>2, <1>3, <1>7, TypePartsNext

LEMMA TypeIdlesOut == TypeInv /\ IdlesOut => TypeInv'
<1> SUFFICES ASSUME TypeInv, IdlesOut PROVE TypeInv'
  OBVIOUS
<1>1. EventTypes /\ ClockTypes /\ OtherTypes
  BY TypeInvParts
<1>2. ClockTypes' /\ clock' \in Nat
  BY <1>1, TicksKeepsClock DEF IdlesOut
<1>3. session' \in Sessions
  BY <1>1, AdvancedIsSession DEF OtherTypes, IdlesOut
<1>4. /\ EventTypes' /\ at' = "asleep" /\ byTimer' = FALSE /\ readAt' = NoTime
      /\ timer' \in Nat \union {NoTime} /\ (timer' # NoTime => timer' > now')
  BY <1>2, <1>3, SleepsKeepsTypes DEF IdlesOut
<1>5. OtherTypes'
  BY <1>1, <1>3, <1>4 DEF OtherTypes, IdlesOut
<1> QED BY <1>2, <1>4, <1>5, TypePartsNext

LEMMA TypeUnchanged == TypeInv /\ UNCHANGED wakeVars => TypeInv'
<1> SUFFICES ASSUME TypeInv, UNCHANGED wakeVars PROVE TypeInv'
  OBVIOUS
<1>1. EventTypes /\ ClockTypes /\ OtherTypes
  BY TypeInvParts
<1>2. EventTypes'
  BY <1>1 DEF EventTypes, Plausible, wakeVars
<1>3. ClockTypes'
  BY <1>1 DEF ClockTypes, wakeVars
<1>4. OtherTypes'
  BY <1>1 DEF OtherTypes, wakeVars
<1> QED BY <1>2, <1>3, <1>4, TypePartsNext

LEMMA TypeStep == TypeInv /\ [WakeNext]_wakeVars => TypeInv'
BY TypeTimerFires, TypeButtonPressed, TypePowerFails, TypeSyncOffline, TypeSyncOnline, TypeStaysSilent,
   TypeRemindsOf, TypeShowsPhase, TypeRenders, TypeTimeGoesBy, TypeStartPomodoro, TypeStopPomodoro,
   TypeSetReminders, TypeSyncNow, TypeIdlesOut, TypeUnchanged DEF WakeNext

\* The state is always one the code can be in: the clock never ahead of the
\* time, sessions and cached events of their shapes in memory and on the card,
\* a timer only of a device that sleeps and always in its future.
THEOREM WakeTypeCorrect == WakeSpec => []WakeTypeOK
<1>1. WakeInit => TypeInv
  BY TypeInit
<1>2. TypeInv /\ [WakeNext]_wakeVars => TypeInv'
  BY TypeStep
<1>3. TypeInv => WakeTypeOK
  BY DEF TypeInv
<1> QED BY <1>1, <1>2, <1>3, PTL DEF WakeSpec

-----------------------------------------------------------------------------
(* What the device sleeps past                                             *)

SleepInv == TimerSetUnlessPhaseOver /\ NothingSleptThrough

LEMMA SumLessOne ==
  ASSUME NEW a \in Nat, NEW b \in Nat
  PROVE  a + b \in Nat /\ (a + b) - a = b
OBVIOUS

\* The sleep computed for the session and the clock it falls asleep with.
LEMMA SleepsAsAsked ==
  ASSUME TypeInv, ClockTypes', session' \in Sessions, clock' \in Nat, Sleeps(session', clock'),
         UNCHANGED <<nextEvent, reminders>>
  PROVE  SleepInv'
<1> DEFINE sleep == Interval(session', clock')
<1>1. /\ nextEvent \in CachedEvents /\ Plausible(nextEvent) /\ reminders \in Reminders
  BY TypeInvParts DEF EventTypes, OtherTypes
<1>2. /\ sleep \in Nat
      /\ sleep = 0 <=> session'.phase # "idle" /\ clock' >= session'.end
      /\ session'.phase # "idle" => clock' + sleep <= Greater(session'.end, clock')
      /\ \A r \in Targets(nextEvent) \ Due(nextEvent, clock') :
           clock' + sleep <= Greater(r.target, clock' + MinSleep)
  BY <1>1, IntervalFacts
<1>3. now' \in Nat /\ NoTime \notin Nat
  BY WakeAssumption DEF ClockTypes
<1>4. timer' = IF sleep > 0 THEN now' + sleep ELSE NoTime
  BY DEF Sleeps
<1> HIDE DEF sleep
<1>5. (timer' = NoTime => sleep = 0) /\ (timer' # NoTime => timer' - now' = sleep)
  <2>1. CASE sleep > 0
    <3>1. timer' = now' + sleep
      BY <1>4, <2>1
    <3>2. now' + sleep \in Nat /\ (now' + sleep) - now' = sleep
      BY <1>2, <1>3, SumLessOne
    <3> QED BY <1>3, <3>1, <3>2
  <2>2. CASE ~(sleep > 0)
    <3>1. timer' = NoTime
      BY <1>4, <2>2
    <3>2. sleep = 0
      BY <1>2, <2>2
    <3> QED BY <3>1, <3>2
  <2> QED BY <2>1, <2>2
<1>6. NothingSleptThrough'
  <2>1. Targets(nextEvent)' = Targets(nextEvent)
    BY DEF Targets
  <2>2. Due(nextEvent, clock)' = Due(nextEvent, clock')
    BY DEF Due, Targets
  <2>3. ASSUME timer' # NoTime
        PROVE  /\ session'.phase # "idle" => clock' + (timer' - now') <= Greater(session'.end, clock')
               /\ \A r \in Targets(nextEvent)' \ Due(nextEvent, clock)' :
                    clock' + (timer' - now') <= Greater(r.target, clock' + MinSleep)
    BY <1>2, <1>5, <2>1, <2>2, <2>3
  <2> QED BY <2>3 DEF NothingSleptThrough
<1>7. TimerSetUnlessPhaseOver'
  BY <1>2, <1>5 DEF TimerSetUnlessPhaseOver
<1> QED BY <1>6, <1>7 DEF SleepInv

LEMMA SleepStep == TypeInv /\ TypeInv' /\ SleepInv /\ [WakeNext]_wakeVars => SleepInv'
<1> SUFFICES ASSUME TypeInv, TypeInv', SleepInv, [WakeNext]_wakeVars PROVE SleepInv'
  OBVIOUS
<1>1. ClockTypes' /\ session' \in Sessions /\ clock' \in Nat
  BY WakeAssumption DEF TypeInv, WakeTypeOK, ClockTypes
<1>2. CASE at' # "asleep"
  BY <1>2 DEF SleepInv, TimerSetUnlessPhaseOver, NothingSleptThrough
<1>3. CASE StaysSilent
  <2>1. session' = session /\ clock' = clock /\ Sleeps(session, clock) /\ UNCHANGED <<nextEvent, reminders>>
    BY <1>3 DEF StaysSilent
  <2> QED BY <1>1, <2>1, SleepsAsAsked
<1>4. CASE Renders
  <2>1. session' = session /\ Sleeps(session, clock') /\ UNCHANGED <<nextEvent, reminders>>
    BY <1>4 DEF Renders
  <2> QED BY <1>1, <2>1, SleepsAsAsked
<1>5. CASE IdlesOut
  <2>1. Sleeps(session', clock') /\ UNCHANGED <<nextEvent, reminders>>
    BY <1>5 DEF IdlesOut
  <2> QED BY <1>1, <2>1, SleepsAsAsked
<1>6. CASE UNCHANGED wakeVars
  BY <1>6 DEF SleepInv, TimerSetUnlessPhaseOver, NothingSleptThrough, Targets, Due, wakeVars
<1>7. TimerFires \/ ButtonPressed \/ PowerFails => at' = "syncing"
  BY DEF TimerFires, ButtonPressed, PowerFails, Boots
<1>8. SyncOffline \/ SyncOnline => at' \in {"deciding", "awake"}
  BY DEF SyncOffline, SyncOnline, AfterSync
<1>9. RemindsOf \/ ShowsPhase => at' = "rendering"
  BY DEF RemindsOf, ShowsPhase
<1>10. TimeGoesBy \/ StartPomodoro \/ StopPomodoro \/ SetReminders => at' = "awake"
  BY DEF TimeGoesBy, StartPomodoro, StopPomodoro, SetReminders, Loops
<1>11. SyncNow => at' = "syncing"
  BY DEF SyncNow
<1> QED BY <1>2, <1>3, <1>4, <1>5, <1>6, <1>7, <1>8, <1>9, <1>10, <1>11 DEF WakeNext

LEMMA SleepAlways == WakeSpec => []SleepInv
<1>1. WakeInit => SleepInv
  BY DEF WakeInit, SleepInv, TimerSetUnlessPhaseOver, NothingSleptThrough
<1>2. TypeInv /\ TypeInv' /\ SleepInv /\ [WakeNext]_wakeVars => SleepInv'
  BY SleepStep
<1> QED BY TypeInit, TypeStep, <1>1, <1>2, PTL DEF WakeSpec

\* main.cpp arms no timer for a sleep of 0: that happens only when the session's
\* phase ended while the device was up, never within a phase, at one of its
\* checkpoints, or because of an event.
THEOREM TimerSetUnlessPhaseOverHolds == WakeSpec => []TimerSetUnlessPhaseOver
<1>1. SleepInv => TimerSetUnlessPhaseOver
  BY DEF SleepInv
<1> QED BY SleepAlways, <1>1, PTL

\* nextWakeIntervalSeconds never asks for a sleep past the end of the phase nor
\* past a reminder still to come, but for the shortest sleep of kMinSleepSeconds.
THEOREM NothingSleptThroughHolds == WakeSpec => []NothingSleptThrough
<1>1. SleepInv => NothingSleptThrough
  BY DEF SleepInv
<1> QED BY SleepAlways, <1>1, PTL

-----------------------------------------------------------------------------
(* The reminders of a timer wake that read the calendars                   *)

\* Steps that leave the calendar's state and the place alone.
LEMMA CalendarQuiet ==
  ASSUME CalendarInv, UNCHANGED <<readAt, frame, nextEvent, at>>
  PROVE  CalendarInv'
BY DEF CalendarInv

\* Steps after which no reading counts and no frame is up.
LEMMA CalendarOver ==
  ASSUME readAt' = NoTime, frame'.kind \notin Kinds
  PROVE  CalendarInv'
BY DEF CalendarInv

LEMMA NoFrameIsNone == NoFrame.kind = "none" /\ "none" \notin Kinds /\ "pomodoro" \notin Kinds
BY DEF NoFrame, Kinds

LEMMA CalendarStep == TypeInv /\ CalendarInv /\ [WakeNext]_wakeVars => CalendarInv'
<1> SUFFICES ASSUME TypeInv, CalendarInv, [WakeNext]_wakeVars PROVE CalendarInv'
  OBVIOUS
<1>1. CASE TimerFires \/ ButtonPressed \/ PowerFails
  <2>1. readAt' = NoTime /\ frame' = NoFrame
    BY <1>1 DEF TimerFires, ButtonPressed, PowerFails, Boots
  <2> QED BY <2>1, NoFrameIsNone, CalendarOver
<1>2. CASE SyncOffline
  <2>1. frame.kind \notin Kinds
    BY <1>2 DEF SyncOffline, CalendarInv
  <2> QED BY <1>2, <2>1, CalendarOver DEF SyncOffline
<1>3. CASE SyncOnline
  <2>1. frame.kind \notin Kinds /\ frame' = frame /\ AfterSync
    BY <1>3 DEF SyncOnline, CalendarInv
  <2>2. ASSUME readAt' # NoTime
        PROVE  at' = "deciding" /\ (nextEvent'.has => nextEvent'.end > readAt')
    <3>1. PICK shown \in SUBSET Occurrences :
            byTimer /\ nextEvent' \in Cached(shown, readAt')
      BY <1>3, <2>2 DEF SyncOnline
    <3>2. EventTypes
      BY TypeInvParts
    <3> QED BY <2>1, <3>1, <3>2, CachedFacts DEF AfterSync
  <2> QED BY <2>1, <2>2 DEF CalendarInv
<1>4. CASE StaysSilent
  <2>1. frame.kind \notin Kinds
    BY <1>4 DEF StaysSilent, CalendarInv
  <2>2. readAt' = NoTime /\ frame' = frame
    BY <1>4 DEF StaysSilent, Sleeps
  <2> QED BY <2>1, <2>2, CalendarOver
<1>5. CASE RemindsOf
  <2>1. nextEvent.has
    BY <1>5 DEF RemindsOf, Due, Targets
  <2>2. nextEvent'.has /\ nextEvent'.end = nextEvent.end
    BY <1>5, <2>1, StampedFacts, TypeInvParts DEF RemindsOf, EventTypes, OtherTypes
  <2>3. at = "deciding" /\ at' = "rendering" /\ readAt' = readAt
    BY <1>5 DEF RemindsOf
  <2> QED BY <2>1, <2>2, <2>3 DEF CalendarInv
<1>6. CASE ShowsPhase
  <2>1. frame'.kind \notin Kinds
    BY <1>6, NoFrameIsNone DEF ShowsPhase
  <2> QED BY <1>6, <2>1 DEF ShowsPhase, CalendarInv
<1>7. CASE Renders
  BY <1>7, NoFrameIsNone, CalendarOver DEF Renders, Sleeps
<1>8. CASE TimeGoesBy \/ SetReminders
  BY <1>8, CalendarQuiet DEF TimeGoesBy, SetReminders, Loops
<1>9. CASE StartPomodoro \/ StopPomodoro
  BY <1>9, CalendarQuiet DEF StartPomodoro, StopPomodoro
<1>10. CASE SyncNow
  <2>1. at = "awake" /\ readAt' = readAt /\ frame' = frame
    BY <1>10 DEF SyncNow, Loops
  <2>2. readAt = NoTime /\ frame.kind \notin Kinds
    BY <2>1 DEF CalendarInv
  <2> QED BY <2>1, <2>2, CalendarOver
<1>11. CASE IdlesOut
  <2>1. frame.kind \notin Kinds
    BY <1>11 DEF IdlesOut, CalendarInv
  <2>2. readAt' = NoTime /\ frame' = frame
    BY <1>11 DEF IdlesOut, Sleeps
  <2> QED BY <2>1, <2>2, CalendarOver
<1>12. CASE UNCHANGED wakeVars
  BY <1>12, CalendarQuiet DEF wakeVars
<1> QED BY <1>1, <1>2, <1>3, <1>4, <1>5, <1>6, <1>7, <1>8, <1>9, <1>10, <1>11, <1>12 DEF WakeNext

\* WakeController's "wake at event end": when the timer wake's own sync read
\* the calendars, the reminder it renders is about an event not over by then.
THEOREM RemindersFollowTheCalendarHolds == WakeSpec => []RemindersFollowTheCalendar
<1>1. WakeInit => CalendarInv
  BY NoFrameIsNone DEF WakeInit, CalendarInv
<1>2. CalendarInv => RemindersFollowTheCalendar
  BY DEF CalendarInv, RemindersFollowTheCalendar
<1>3. TypeInv /\ CalendarInv /\ [WakeNext]_wakeVars => CalendarInv'
  BY CalendarStep
<1> QED BY TypeInit, TypeStep, <1>1, <1>2, <1>3, PTL DEF WakeSpec

-----------------------------------------------------------------------------
(* No reminder twice in a row                                              *)

LEMMA TicksKeepsClockInv ==
  ASSUME ClockTypes, ClockInv, NEW d \in Nat, Ticks(d)
  PROVE  ClockInv'
<1>1. now \in Nat /\ clock \in Nat /\ Epoch \in Nat
  BY WakeAssumption DEF ClockTypes
<1>2. now' = now + d /\ clock' = clock + d
  BY DEF Ticks, Passes
<1>3. CASE clock = now
  BY <1>2, <1>3 DEF ClockInv
<1>4. CASE now >= clock + Epoch
  <2>1. now + d >= (clock + d) + Epoch
    BY <1>1, <1>4
  <2> QED BY <1>2, <2>1 DEF ClockInv
<1> QED BY <1>3, <1>4 DEF ClockInv

LEMMA ClockStep == TypeInv /\ ClockInv /\ [WakeNext]_wakeVars => ClockInv'
<1> SUFFICES ASSUME TypeInv, ClockInv, [WakeNext]_wakeVars PROVE ClockInv'
  OBVIOUS
<1>1. ClockTypes /\ OtherTypes /\ now \in Nat /\ clock \in Nat /\ Epoch \in Nat
  BY TypeInvParts, WakeAssumption DEF ClockTypes
<1>2. CASE \E d \in Nat : Ticks(d)
  BY <1>1, <1>2, TicksKeepsClockInv
<1>3. CASE UNCHANGED <<now, clock>>
  BY <1>3 DEF ClockInv
<1>4. CASE PowerFails
  <2>1. clock' = 0 /\ now' = now /\ now >= 0 + Epoch
    BY <1>1, <1>4 DEF PowerFails, ClockTypes
  <2> QED BY <2>1 DEF ClockInv
<1>5. CASE SyncOnline
  <2>1. PICK d \in 0..SyncTime, timeServer \in BOOLEAN :
          Passes(d) /\ clock' = IF timeServer THEN now' ELSE clock + d
    BY <1>5 DEF SyncOnline
  <2>2. d \in Nat
    BY WakeAssumption
  <2>3. CASE timeServer
    BY <2>1, <2>3 DEF ClockInv
  <2>4. CASE ~timeServer
    <3>1. Ticks(d)
      BY <2>1, <2>4 DEF Ticks
    <3> QED BY <1>1, <2>2, <3>1, TicksKeepsClockInv
  <2> QED BY <2>3, <2>4
<1>6. TimerFires => timer - now \in Nat /\ Ticks(timer - now)
  BY <1>1 DEF TimerFires, OtherTypes
<1>7. ButtonPressed \/ SyncOffline \/ Renders \/ TimeGoesBy \/ IdlesOut => \E d \in Nat : Ticks(d)
  BY WakeAssumption DEF ButtonPressed, SyncOffline, Renders, TimeGoesBy, IdlesOut
<1>8. \/ StaysSilent \/ RemindsOf \/ ShowsPhase \/ StartPomodoro \/ StopPomodoro \/ SetReminders \/ SyncNow
      \/ UNCHANGED wakeVars
      => UNCHANGED <<now, clock>>
  BY DEF StaysSilent, RemindsOf, ShowsPhase, StartPomodoro, StopPomodoro, SetReminders, SyncNow, wakeVars
<1> QED BY <1>2, <1>3, <1>4, <1>5, <1>6, <1>7, <1>8 DEF WakeNext

LEMMA EndKeptLater ==
  ASSUME NEW e, NEW l \in [Kinds -> Nat \union {NoTime}], NEW n \in Nat, NEW m \in Nat, n <= m,
         EndKept(e, l, n)
  PROVE  EndKept(e, l, m)
<1>1. l["ended"] \in Nat \union {NoTime}
  BY DEF Kinds
<1> QED BY <1>1 DEF EndKept

\* Saving the session leaves the event of every file the card may hold alone.
LEMMA SessionSaveKeepsEvent ==
  ASSUME sd \in Cards, NEW s, Saves([sd EXCEPT !.session = s])
  PROVE  sd'.event = sd.event /\ \A c \in torn' : c.event = sd.event
BY DEF Cards, Saves

\* Steps that neither read the calendars nor render.
LEMMA MarksQuiet ==
  ASSUME TypeInv, MarksInv, UNCHANGED <<nextEvent, last>>, now' \in Nat, now <= now',
         frame.kind \notin Kinds, frame'.kind \notin Kinds,
         sd'.event = sd.event, \A c \in torn' : c.event = sd.event
  PROVE  MarksInv'
<1>1. now \in Nat /\ last \in [Kinds -> Nat \union {NoTime}]
  BY TypeInvParts, WakeAssumption DEF ClockTypes, OtherTypes
<1>2. StartKept(nextEvent, last) /\ EndKept(nextEvent, last, now')
  BY <1>1, EndKeptLater DEF MarksInv, Kinds
<1>3. FrameIsMarked'
  BY DEF FrameIsMarked
<1> QED BY <1>2, <1>3 DEF MarksInv

\* A boot forgets what was rendered when its card holds no event, or a frame was up.
LEMMA MarksBoots ==
  ASSUME TypeInv, MarksInv, NEW from \in {sd} \union torn, NEW t, Boots(from, t), now' \in Nat, now <= now'
  PROVE  MarksInv'
<1>1. now \in Nat /\ last \in [Kinds -> Nat \union {NoTime}]
  BY TypeInvParts, WakeAssumption DEF ClockTypes, OtherTypes
<1>2. sd' = from /\ torn' = {} /\ frame' = NoFrame
  BY DEF Boots
<1>3. nextEvent' = Loaded(from.event)
  BY DEF Boots
<1>4. (from.event.has => nextEvent' = from.event) /\ (nextEvent'.has => from.event.has)
  BY <1>3, NoEventIsCached DEF Loaded
<1>5. StartKept(nextEvent', last') /\ EndKept(nextEvent', last', now')
  <2>1. CASE from.event.has /\ at # "rendering"
    <3>1. last' = last /\ nextEvent' = from.event
      BY <1>4, <2>1 DEF Boots
    <3>2. StartKept(from.event, last) /\ EndKept(from.event, last, now)
      <4>1. CASE from = sd
        <5>1. frame.kind # "starting" /\ nextEvent = sd.event
          BY <2>1, <4>1 DEF MarksInv, FrameIsMarked, Kinds
        <5> QED BY <4>1, <5>1 DEF MarksInv
      <4>2. CASE from \in torn
        BY <2>1, <4>2 DEF MarksInv
      <4> QED BY <4>1, <4>2
    <3> QED BY <1>1, <3>1, <3>2, EndKeptLater
  <2>2. CASE ~(from.event.has /\ at # "rendering")
    <3>1. last' = [k \in Kinds |-> NoTime]
      BY <2>2 DEF Boots
    <3>2. last'["starting"] = NoTime /\ last'["ended"] = NoTime
      BY <3>1 DEF Kinds
    <3> QED BY <3>2 DEF StartKept, EndKept
  <2> QED BY <2>1, <2>2
<1>6. FrameIsMarked'
  BY <1>2, NoFrameIsNone DEF FrameIsMarked
<1> QED BY <1>2, <1>4, <1>5, <1>6 DEF MarksInv

\* A sync keeps the marks; an event it caches ends after everything rendered,
\* for the calendars are read from a clock that is the time.
LEMMA MarksSyncOnline == TypeInv /\ TypeInv' /\ ClockInv' /\ MarksInv /\ SyncOnline => MarksInv'
<1> SUFFICES ASSUME TypeInv, TypeInv', ClockInv', MarksInv, SyncOnline PROVE MarksInv'
  OBVIOUS
<1>1. EventTypes /\ now \in Nat /\ last \in [Kinds -> Nat \union {NoTime}]
  BY TypeInvParts, WakeAssumption DEF ClockTypes, OtherTypes
<1>2. now' \in Epoch..Horizon /\ clock' \in 0..now'
  BY DEF TypeInv, WakeTypeOK
<1>3. PICK d \in 0..SyncTime, fed \in BOOLEAN :
       /\ Passes(d)
       /\ IF fed /\ clock' - d >= Epoch
          THEN /\ \E t \in (clock' - d)..clock', shown \in SUBSET Occurrences : nextEvent' \in Cached(shown, t)
               /\ Saves([sd EXCEPT !.event = nextEvent'])
          ELSE UNCHANGED nextEvent /\ SavesNothing
  BY DEF SyncOnline
<1>4. d \in Nat /\ Epoch \in Nat /\ Horizon \in Nat /\ Horizon < 2 * Epoch /\ now' = now + d /\ now' \in Nat
  BY <1>2, <1>3, WakeAssumption DEF Passes
<1>5. frame.kind \notin Kinds /\ frame' = frame /\ last' = last
  BY DEF MarksInv, FrameIsMarked, SyncOnline
<1>6. now <= now'
  BY <1>1, <1>4
<1>7. CASE fed /\ clock' - d >= Epoch
  <2>1. clock' = now'
    <3>0. clock' - d >= Epoch
      BY <1>7
    <3>1. clock' \in Nat
      BY <1>2, <1>4
    <3>2. clock' >= Epoch
      BY <1>4, <3>0, <3>1, WithinIsNat
    <3>3. ~(now' >= clock' + Epoch)
      BY <1>2, <1>4, <3>1, <3>2
    <3> QED BY <3>3 DEF ClockInv
  <2>2. PICK t \in (clock' - d)..clock', shown \in SUBSET Occurrences : nextEvent' \in Cached(shown, t)
    BY <1>3, <1>7
  <2>3. t \in Int /\ now <= t
    BY <1>1, <1>4, <2>1, <2>2
  <2>4. /\ nextEvent' \in CachedEvents
        /\ nextEvent'.markStart = nextEvent.markStart /\ nextEvent'.markEnd = nextEvent.markEnd
        /\ nextEvent'.has => nextEvent'.end > t
    BY <1>1, <2>2, CachedFacts
  <2>5. EndKept(nextEvent, last, now')
    BY <1>1, <1>4, <1>6, EndKeptLater DEF MarksInv
  <2>6. EndKept(nextEvent', last, now')
    <3>1. CASE last["ended"] = NoTime
      BY <3>1 DEF EndKept
    <3>2. CASE last["ended"] # NoTime
      <4>1. last["ended"] \in Nat /\ last["ended"] <= now
        BY <1>1, <3>2 DEF MarksInv, EndKept, Kinds
      <4>2. nextEvent'.has => nextEvent'.end # last["ended"]
        BY <1>1, <2>3, <2>4, <4>1 DEF CachedEvents
      <4> QED BY <1>1, <1>4, <1>6, <4>1, <4>2 DEF EndKept
    <3> QED BY <3>1, <3>2
  <2>7. StartKept(nextEvent, last) /\ StartKept(nextEvent', last)
    BY <1>5, <2>4 DEF MarksInv, StartKept, Kinds
  <2>8. Saves([sd EXCEPT !.event = nextEvent'])
    BY <1>3, <1>7
  <2>9. sd'.event = nextEvent' /\ \A c \in torn' : c.event = sd.event \/ c.event = NoEvent
    BY <1>1, <2>8 DEF Saves, EventTypes, Cards
  <2>10. \A c \in torn' : c.event.has => StartKept(c.event, last) /\ EndKept(c.event, last, now')
    BY <2>5, <2>7, <2>9, NoEventIsCached DEF MarksInv
  <2>11. FrameIsMarked'
    BY <1>5 DEF FrameIsMarked
  <2> QED BY <1>5, <2>6, <2>7, <2>9, <2>10, <2>11 DEF MarksInv
<1>8. CASE ~(fed /\ clock' - d >= Epoch)
  <2>1. UNCHANGED nextEvent /\ sd'.event = sd.event /\ torn' = {}
    BY <1>3, <1>8 DEF SavesNothing
  <2> QED BY <1>4, <1>5, <1>6, <2>1, MarksQuiet
<1> QED BY <1>7, <1>8

\* The reminder rendered has a mark other than the last of its kind.
LEMMA MarksRemindsOf == TypeInv /\ MarksInv /\ RemindsOf => MarksInv'
<1> SUFFICES ASSUME TypeInv, MarksInv, RemindsOf PROVE MarksInv'
  OBVIOUS
<1>1. /\ nextEvent \in CachedEvents /\ Plausible(nextEvent) /\ reminders \in Reminders /\ sd \in Cards
      /\ now \in Nat /\ clock \in Nat /\ clock <= now /\ last \in [Kinds -> Nat \union {NoTime}]
  BY TypeInvParts, WakeAssumption DEF EventTypes, ClockTypes, OtherTypes
<1>2. /\ at = "deciding" /\ at' = "rendering" /\ now' = now /\ last' = last
      /\ frame' = Alert(nextEvent, clock) /\ nextEvent' = Stamped(nextEvent, clock)
      /\ Saves([sd EXCEPT !.event = nextEvent'])
  BY DEF RemindsOf
<1>3. /\ frame' \in Due(nextEvent, clock)
      /\ frame'.kind = "starting" \/ \A q \in Due(nextEvent, clock) : q.kind = "ended"
  BY <1>2, AlertFacts DEF RemindsOf
<1>4. frame' \in Targets(nextEvent) /\ frame'.target <= clock /\ frame'.target \in Nat
  BY <1>1, <1>3, TargetsAreAlerts DEF Due, Alerts
<1>5. \/ frame'.kind = "starting" /\ nextEvent.has /\ frame'.target = nextEvent.start - reminders.lead
           /\ nextEvent.markStart # frame'.target
      \/ frame'.kind = "ended" /\ nextEvent.has /\ frame'.target = nextEvent.end
           /\ nextEvent.markEnd # frame'.target
  BY <1>4 DEF Targets
<1>6. /\ nextEvent'.has /\ nextEvent'.end = nextEvent.end
      /\ nextEvent'.markStart = IF \E r \in Due(nextEvent, clock) : r.kind = "starting"
                                THEN nextEvent.start - reminders.lead ELSE nextEvent.markStart
      /\ nextEvent'.markEnd = IF \E r \in Due(nextEvent, clock) : r.kind = "ended"
                              THEN nextEvent.end ELSE nextEvent.markEnd
  BY <1>1, <1>2, <1>5, StampedFacts
<1>7. StartKept(nextEvent, last) /\ EndKept(nextEvent, last, now)
  BY <1>2 DEF MarksInv, FrameIsMarked, Kinds
<1>8. FrameIsMarked'
  <2>1. CASE frame'.kind = "starting"
    <3>1. nextEvent'.markStart = frame'.target
      BY <1>3, <1>5, <1>6, <2>1
    <3>2. frame'.target # last["starting"]
      BY <1>1, <1>4, <1>5, <1>7, <2>1, WakeAssumption DEF StartKept
    <3> QED BY <1>2, <1>6, <2>1, <3>1, <3>2 DEF FrameIsMarked
  <2>2. CASE frame'.kind = "ended"
    <3>1. nextEvent'.markEnd = frame'.target /\ nextEvent'.end = frame'.target
      BY <1>3, <1>5, <1>6, <2>2
    <3>2. frame'.target # last["ended"]
      BY <1>4, <1>5, <1>7, <2>2, WakeAssumption DEF EndKept
    <3>3. frame'.target <= now
      BY <1>1, <1>4
    <3> QED BY <1>2, <1>6, <2>2, <3>1, <3>2, <3>3 DEF FrameIsMarked
  <2> QED BY <1>5, <2>1, <2>2
<1>9. frame'.kind # "starting" => StartKept(nextEvent', last)
  <2>1. ASSUME frame'.kind # "starting" PROVE nextEvent'.markStart = nextEvent.markStart
    BY <1>3, <1>6, <2>1
  <2> QED BY <1>7, <2>1 DEF StartKept
<1>10. EndKept(nextEvent', last, now)
  BY <1>5, <1>6, <1>7 DEF EndKept
<1>11. sd'.event = nextEvent'
  BY <1>1, <1>2 DEF Saves, Cards
<1> QED BY <1>2, <1>6, <1>8, <1>9, <1>10, <1>11 DEF MarksInv

\* The frame rendered becomes the last of its kind; its mark is on the card.
LEMMA MarksRenders == TypeInv /\ TypeInv' /\ MarksInv /\ Renders => MarksInv'
<1> SUFFICES ASSUME TypeInv, TypeInv', MarksInv, Renders PROVE MarksInv'
  OBVIOUS
<1>1. sd \in Cards /\ now \in Nat /\ last \in [Kinds -> Nat \union {NoTime}]
  BY TypeInvParts, WakeAssumption DEF EventTypes, ClockTypes, OtherTypes
<1>2. now' \in Nat /\ now <= now'
  BY <1>1, WakeAssumption DEF Renders, Ticks, Passes
<1>3. /\ nextEvent' = nextEvent /\ frame' = NoFrame /\ at' = "asleep"
      /\ last' = IF frame.kind \in Kinds THEN [last EXCEPT ![frame.kind] = frame.target] ELSE last
      /\ sd'.event = sd.event /\ \A c \in torn' : c.event = sd.event
  BY <1>1, SessionSaveKeepsEvent DEF Renders, Sleeps
<1>4. last' \in [Kinds -> Nat \union {NoTime}]
  BY DEF TypeInv, WakeTypeOK
<1>5. EndKept(nextEvent, last, now')
  BY <1>1, <1>2, EndKeptLater DEF MarksInv
<1>6. StartKept(nextEvent, last') /\ EndKept(nextEvent, last', now')
  <2>1. CASE frame.kind \notin Kinds
    BY <1>3, <1>5, <2>1 DEF MarksInv, Kinds
  <2>2. CASE frame.kind = "starting"
    <3>1. last'["starting"] = frame.target /\ last'["ended"] = last["ended"]
      BY <1>1, <1>3, <2>2 DEF Kinds
    <3>2. nextEvent.markStart = frame.target
      BY <2>2 DEF MarksInv, FrameIsMarked, Kinds
    <3> QED BY <1>5, <3>1, <3>2 DEF StartKept, EndKept
  <2>3. CASE frame.kind = "ended"
    <3>1. last'["ended"] = frame.target /\ last'["starting"] = last["starting"]
      BY <1>1, <1>3, <2>3 DEF Kinds
    <3>2. nextEvent.markEnd = frame.target /\ frame.target <= now
      BY <2>3 DEF MarksInv, FrameIsMarked, Kinds
    <3>3. frame.target \in Nat
      BY <2>3, NoFrameIsNone, TypeInvParts DEF OtherTypes
    <3>4. frame.target <= now'
      BY <1>1, <1>2, <3>2, <3>3
    <3>5. StartKept(nextEvent, last)
      BY <2>3 DEF MarksInv
    <3> QED BY <3>1, <3>2, <3>4, <3>5 DEF StartKept, EndKept
  <2> QED BY <2>1, <2>2, <2>3 DEF Kinds
<1>7. FrameIsMarked'
  BY <1>3, NoFrameIsNone DEF FrameIsMarked
<1> QED BY <1>3, <1>6, <1>7 DEF MarksInv

LEMMA MarksStep == TypeInv /\ TypeInv' /\ ClockInv' /\ MarksInv /\ [WakeNext]_wakeVars => MarksInv'
<1> SUFFICES ASSUME TypeInv, TypeInv', ClockInv', MarksInv, [WakeNext]_wakeVars PROVE MarksInv'
  OBVIOUS
<1>1. now \in Nat /\ now' \in Nat /\ sd \in Cards
  BY WakeAssumption DEF TypeInv, WakeTypeOK
<1>2. timer # NoTime => timer \in Nat /\ timer >= now
  BY <1>1, WakeAssumption DEF TypeInv, WakeTypeOK
<1>3. CASE TimerFires
  <2>1. now' = timer
    BY <1>1, <1>2, <1>3 DEF TimerFires, Ticks, Passes
  <2>2. now <= now'
    BY <1>2, <1>3, <2>1 DEF TimerFires
  <2> QED BY <1>1, <1>3, <2>2, MarksBoots DEF TimerFires
<1>4. CASE ButtonPressed
  <2>1. now <= now'
    BY <1>1, <1>4, WakeAssumption DEF ButtonPressed, Ticks, Passes
  <2> QED BY <1>1, <1>4, <2>1, MarksBoots DEF ButtonPressed
<1>5. CASE PowerFails
  <2>1. now <= now'
    BY <1>1, <1>5 DEF PowerFails
  <2> QED BY <1>1, <1>5, <2>1, MarksBoots DEF PowerFails
<1>6. CASE SyncOffline
  <2>1. now <= now' /\ frame.kind \notin Kinds
    BY <1>1, <1>6, WakeAssumption DEF SyncOffline, Ticks, Passes, MarksInv, FrameIsMarked
  <2> QED BY <1>1, <1>6, <2>1, MarksQuiet DEF SyncOffline, SavesNothing
<1>7. CASE SyncOnline
  BY <1>7, MarksSyncOnline
<1>8. CASE StaysSilent
  <2>1. now <= now' /\ frame.kind \notin Kinds
    BY <1>1, <1>8 DEF StaysSilent, MarksInv, FrameIsMarked
  <2>2. sd'.event = sd.event /\ \A c \in torn' : c.event = sd.event
    BY <1>1, <1>8, SessionSaveKeepsEvent DEF StaysSilent, Sleeps
  <2> QED BY <1>1, <1>8, <2>1, <2>2, MarksQuiet DEF StaysSilent
<1>9. CASE RemindsOf
  BY <1>9, MarksRemindsOf
<1>10. CASE ShowsPhase
  <2>1. now <= now' /\ frame.kind \notin Kinds /\ frame'.kind \notin Kinds
    BY <1>1, <1>10, NoFrameIsNone DEF ShowsPhase, MarksInv, FrameIsMarked
  <2> QED BY <1>1, <1>10, <2>1, MarksQuiet DEF ShowsPhase, SavesNothing
<1>11. CASE Renders
  BY <1>11, MarksRenders
<1>12. CASE TimeGoesBy \/ SetReminders \/ SyncNow
  <2>1. now <= now' /\ frame.kind \notin Kinds
    BY <1>1, <1>12 DEF TimeGoesBy, SetReminders, SyncNow, Loops, Ticks, Passes, MarksInv, FrameIsMarked
  <2> QED BY <1>1, <1>12, <2>1, MarksQuiet DEF TimeGoesBy, SetReminders, SyncNow, Loops, SavesNothing
<1>13. CASE StartPomodoro \/ StopPomodoro
  <2>1. now <= now' /\ frame.kind \notin Kinds
    BY <1>1, <1>13 DEF StartPomodoro, StopPomodoro, MarksInv, FrameIsMarked
  <2>2. sd'.event = sd.event /\ \A c \in torn' : c.event = sd.event
    BY <1>1, <1>13, SessionSaveKeepsEvent DEF StartPomodoro, StopPomodoro
  <2> QED BY <1>1, <1>13, <2>1, <2>2, MarksQuiet DEF StartPomodoro, StopPomodoro
<1>14. CASE IdlesOut
  <2>1. now <= now' /\ frame.kind \notin Kinds
    BY <1>1, <1>14 DEF IdlesOut, Ticks, Passes, MarksInv, FrameIsMarked
  <2>2. sd'.event = sd.event /\ \A c \in torn' : c.event = sd.event
    BY <1>1, <1>14, SessionSaveKeepsEvent DEF IdlesOut, Sleeps
  <2> QED BY <1>1, <1>14, <2>1, <2>2, MarksQuiet DEF IdlesOut
<1>15. CASE UNCHANGED wakeVars
  BY <1>15 DEF MarksInv, FrameIsMarked, wakeVars
<1> QED BY <1>3, <1>4, <1>5, <1>6, <1>7, <1>8, <1>9, <1>10, <1>11, <1>12, <1>13, <1>14, <1>15 DEF WakeNext

\* CalendarCache's marks: the same reminder is never rendered twice in a row
\* unless it was forgotten with an emptied calendar, a lost file, or a power
\* loss while a frame was up, whatever the clock and the calendars do.
THEOREM RepeatNeedsForgettingHolds == WakeSpec => []RepeatNeedsForgetting
<1>1. WakeInit => ClockInv /\ MarksInv
  BY NoEventIsCached, NoFrameIsNone, WakeAssumption
  DEF WakeInit, ClockInv, MarksInv, FrameIsMarked, StartKept, EndKept, Kinds
<1>2. TypeInv /\ ClockInv /\ [WakeNext]_wakeVars => ClockInv'
  BY ClockStep
<1>3. TypeInv /\ TypeInv' /\ ClockInv' /\ MarksInv /\ [WakeNext]_wakeVars => MarksInv'
  BY MarksStep
<1>4. MarksInv => RepeatNeedsForgetting
  BY DEF MarksInv, FrameIsMarked, RepeatNeedsForgetting
<1> QED BY TypeInit, TypeStep, <1>1, <1>2, <1>3, <1>4, PTL DEF WakeSpec

-----------------------------------------------------------------------------
(* The session catches up                                                  *)

\* Every round moves an ended phase's end by a tick or more.
LEMMA NextPhaseEndsLater ==
  ASSUME NEW s \in Active
  PROVE  NextPhase(s).end \in Nat /\ NextPhase(s).end > s.end
<1>1. s.phase \in {"work", "break", "long"} /\ s.end \in Nat
  BY DEF Active, Sessions
<1>2. WorkTime \in Nat \ {0} /\ BreakTime \in Nat \ {0} /\ LongBreakTime \in Nat \ {0}
  BY WakeAssumption
<1> DEFINE long == UntilLongBreak > 0 /\ (s.done + 1) % UntilLongBreak = 0
<1>3. \/ NextPhase(s).end = s.end + WorkTime
      \/ NextPhase(s).end = s.end + BreakTime
      \/ NextPhase(s).end = s.end + LongBreakTime
  <2>1. CASE s.phase = "work" /\ long
    BY <2>1 DEF NextPhase
  <2>2. CASE s.phase = "work" /\ ~long
    BY <2>2 DEF NextPhase
  <2>3. CASE s.phase = "break"
    BY <2>3 DEF NextPhase
  <2>4. CASE s.phase = "long"
    BY <2>4 DEF NextPhase
  <2> QED BY <1>1, <2>1, <2>2, <2>3, <2>4
<1> QED BY <1>1, <1>2, <1>3

\* Rounds enough for the ticks since the phase ended reach the present phase.
LEMMA CaughtIsAhead ==
  ASSUME NEW s \in Active, NEW t \in Nat, NEW most \in Nat, t < s.end + most
  PROVE  Caught(s, t, most).end > t
<1> DEFINE after == CHOOSE f : f = [n \in 0..most |->
                        IF n = 0 THEN s
                        ELSE IF t >= f[n - 1].end THEN NextPhase(f[n - 1]) ELSE f[n - 1]]
<1>1. after = [n \in 0..most |-> IF n = 0 THEN s
                                 ELSE IF t >= after[n - 1].end THEN NextPhase(after[n - 1]) ELSE after[n - 1]]
  BY CaughtDefined
<1>2. Caught(s, t, most) = after[most]
  BY DEF Caught
<1> HIDE DEF after
<1> DEFINE Ahead(n) == after[n] \in Active /\ (after[n].end > t \/ after[n].end >= s.end + n)
           Behind == {n \in 0..most : ~Ahead(n)}
<1>3. s.end \in Nat
  BY DEF Active, Sessions
<1>4. Behind = {}
  <2> SUFFICES ASSUME Behind # {} PROVE FALSE
    OBVIOUS
  <2>1. Behind \in SUBSET Nat
    OBVIOUS
  <2> HIDE DEF Behind
  <2>2. PICK n \in Behind : \A m \in Behind : n <= m
    BY <2>1, LeastElement
  <2> USE DEF Behind
  <2>3. n \in 0..most /\ ~Ahead(n)
    BY <2>2
  <2>4. n # 0
    <3>1. after[0] = s
      BY <1>1
    <3> QED BY <1>3, <2>3, <3>1
  <2>5. n - 1 \in 0..most /\ Ahead(n - 1)
    BY <2>2, <2>3, <2>4
  <2>6. after[n] = IF t >= after[n - 1].end THEN NextPhase(after[n - 1]) ELSE after[n - 1]
    BY <1>1, <2>3, <2>4
  <2> DEFINE x == after[n - 1]
  <2>7. x \in Active /\ x.end \in Nat /\ (x.end > t \/ x.end >= s.end + (n - 1))
    BY <2>5 DEF Active, Sessions
  <2> HIDE DEF x
  <2>8. CASE t >= x.end
    <3>1. after[n] = NextPhase(x)
      BY <2>6, <2>8 DEF x
    <3>2. NextPhase(x) \in Active /\ NextPhase(x).end \in Nat /\ NextPhase(x).end > x.end
      BY <2>7, NextPhaseIsActive, NextPhaseEndsLater
    <3>3. NextPhase(x).end >= s.end + n
      BY <1>3, <2>3, <2>7, <2>8, <3>2
    <3>4. Ahead(n)
      BY <3>1, <3>2, <3>3
    <3> QED BY <2>3, <3>4
  <2>9. CASE ~(t >= x.end)
    <3>1. after[n] = x /\ x.end > t
      BY <2>6, <2>7, <2>9 DEF x
    <3> QED BY <2>3, <2>7, <3>1
  <2> QED BY <2>8, <2>9
<1>5. Ahead(most)
  BY <1>4
<1>6. after[most].end \in Nat
  BY <1>5 DEF Active, Sessions
<1> QED BY <1>2, <1>3, <1>5, <1>6

\* The active sessions whose phase ends after t.
EndsAfter(t) == {s \in Active : s.end > t}

LEMMA NextPhaseEndsAfter ==
  ASSUME NEW t \in Nat, NEW s \in EndsAfter(t)
  PROVE  NextPhase(s) \in EndsAfter(t)
<1>1. s \in Active /\ s.end \in Nat /\ s.end > t
  BY DEF EndsAfter, Active, Sessions
<1>2. NextPhase(s) \in Active /\ NextPhase(s).end \in Nat /\ NextPhase(s).end > s.end
  BY <1>1, NextPhaseIsActive, NextPhaseEndsLater
<1> QED BY <1>1, <1>2 DEF EndsAfter

LEMMA AdvancedFacts ==
  ASSUME NEW s \in Sessions, NEW t
  PROVE  /\ Advanced(s, t).phase = "idle" <=> s.phase = "idle"
         /\ \A e \in Nat : s \in EndsAfter(e) => Advanced(s, t) \in EndsAfter(e)
         /\ t \in Nat /\ s.phase # "idle" /\ t < s.end + MaxCatchUp => Advanced(s, t).end > t
<1>1. MaxCatchUp \in Nat
  BY WakeAssumption
<1>2. CASE s.phase = "idle"
  BY <1>2 DEF Advanced, EndsAfter, Active
<1>3. CASE s.phase # "idle"
  <2>1. Advanced(s, t) = Caught(s, t, MaxCatchUp)
    BY <1>3 DEF Advanced
  <2>2. s \in Active
    BY <1>3 DEF Active
  <2>3. Caught(s, t, MaxCatchUp) \in Active
    <3>1. \A x \in Active : t >= x.end => NextPhase(x) \in Active
      BY NextPhaseIsActive
    <3> QED BY <1>1, <2>2, <3>1, CaughtStays
  <2>4. ASSUME NEW e \in Nat, s \in EndsAfter(e) PROVE Caught(s, t, MaxCatchUp) \in EndsAfter(e)
    <3>1. \A x \in EndsAfter(e) : t >= x.end => NextPhase(x) \in EndsAfter(e)
      BY NextPhaseEndsAfter
    <3> QED BY <1>1, <2>4, <3>1, CaughtStays
  <2>5. t \in Nat /\ t < s.end + MaxCatchUp => Caught(s, t, MaxCatchUp).end > t
    BY <1>1, <2>2, CaughtIsAhead
  <2> QED BY <1>3, <2>1, <2>3, <2>4, <2>5 DEF Active
<1> QED BY <1>2, <1>3

\* The clock is the time and was not set while the session ran.
CountedRight == clock = now /\ ~jumped

\* Every active session ends after 0, a counted one after the beginning.
Since(s, counted) == s.phase # "idle" => s.end > 0 /\ (counted => s.end > Epoch)

\* The session on the card runs when the one in memory does.
SessionInv ==
  /\ Since(session, CountedRight) /\ Since(sd.session, CountedRight)
  /\ sd.session.phase = "idle" <=> session.phase = "idle"
  /\ \A c \in torn : Since(c.session, FALSE)

LEMMA SinceAdvanced ==
  ASSUME NEW s \in Sessions, NEW t, NEW counted \in BOOLEAN, Since(s, counted)
  PROVE  Since(Advanced(s, t), counted) /\ (Advanced(s, t).phase = "idle" <=> s.phase = "idle")
<1>1. Advanced(s, t).phase = "idle" <=> s.phase = "idle"
  BY AdvancedFacts
<1>2. ASSUME s.phase # "idle" PROVE Advanced(s, t).end > 0 /\ (counted => Advanced(s, t).end > Epoch)
  <2>1. s \in EndsAfter(0) /\ (counted => s \in EndsAfter(Epoch))
    BY <1>2 DEF Since, EndsAfter, Active
  <2>2. 0 \in Nat /\ Epoch \in Nat
    BY WakeAssumption
  <2>3. Advanced(s, t) \in EndsAfter(0) /\ (counted => Advanced(s, t) \in EndsAfter(Epoch))
    BY <2>1, <2>2, AdvancedFacts
  <2> QED BY <2>3 DEF EndsAfter
<1> QED BY <1>1, <1>2 DEF Since

\* What counts no longer is still due after 0.
LEMMA SinceLess ==
  ASSUME NEW s, NEW counted, NEW less, less => counted, Since(s, counted)
  PROVE  Since(s, less)
BY DEF Since

LEMMA IdleIsSince == \A counted : Since(IdleSession, counted)
BY DEF Since, IdleSession

LEMMA TicksKeepsCounted ==
  ASSUME ClockTypes, NEW d \in Nat, Ticks(d)
  PROVE  clock' = now' => clock = now
<1>1. now \in Nat /\ clock \in Nat
  BY WakeAssumption DEF ClockTypes
<1>2. clock + d = now + d => clock = now
  BY <1>1
<1> QED BY <1>2 DEF Ticks, Passes

\* Saving leaves on the card a session of before, the new one or none.
LEMMA SavedSessions ==
  ASSUME sd \in Cards, NEW content, Saves(content)
  PROVE  sd' = content /\ \A c \in torn' : c.session = sd.session \/ c.session = IdleSession
BY DEF Saves, Cards

\* Steps after which session s is in memory and on the card.
LEMMA SessionSaves ==
  ASSUME TypeInv, SessionInv, Saves([sd EXCEPT !.session = session']), Since(session', CountedRight')
  PROVE  SessionInv'
<1>1. sd \in Cards
  BY TypeInvParts DEF EventTypes
<1>2. sd' = [sd EXCEPT !.session = session'] /\ \A c \in torn' : c.session = sd.session \/ c.session = IdleSession
  BY <1>1, SavedSessions
<1>3. sd'.session = session'
  BY <1>1, <1>2 DEF Cards
<1>4. Since(sd.session, FALSE)
  BY SinceLess DEF SessionInv
<1>5. \A c \in torn' : Since(c.session, FALSE)
  BY <1>2, <1>4, IdleIsSince
<1> QED BY <1>3, <1>5 DEF SessionInv

\* Steps that may advance the session and leave the one on the card.
LEMMA SessionQuiet ==
  ASSUME TypeInv, SessionInv, CountedRight' => CountedRight,
         session' = session \/ \E t : session' = Advanced(session, t),
         sd'.session = sd.session, \A c \in torn' : c.session = sd.session \/ c.session = IdleSession
  PROVE  SessionInv'
<1>1. session \in Sessions /\ CountedRight' \in BOOLEAN
  BY TypeInvParts DEF OtherTypes, CountedRight
<1>2. Since(session, CountedRight') /\ Since(sd.session, CountedRight') /\ Since(sd.session, FALSE)
  BY DEF SessionInv, Since
<1>3. Since(session', CountedRight') /\ (session'.phase = "idle" <=> session.phase = "idle")
  BY <1>1, <1>2, SinceAdvanced
<1>4. \A c \in torn' : Since(c.session, FALSE)
  BY <1>2, IdleIsSince
<1> QED BY <1>2, <1>3, <1>4 DEF SessionInv

\* A boot runs the session of its card on, or none.
LEMMA SessionBoots ==
  ASSUME TypeInv, NEW from \in {sd} \union torn, NEW t, Boots(from, t), Since(from.session, CountedRight')
  PROVE  SessionInv'
<1>1. from.session \in Sessions /\ CountedRight' \in BOOLEAN
  BY TypeInvParts DEF EventTypes, Cards, CountedRight
<1>2. session' = Advanced(from.session, t) /\ sd' = from /\ torn' = {}
  BY DEF Boots
<1>3. Since(session', CountedRight') /\ (session'.phase = "idle" <=> from.session.phase = "idle")
  BY <1>1, <1>2, SinceAdvanced
<1> QED BY <1>2, <1>3 DEF SessionInv

LEMMA CountedStays ==
  ASSUME TypeInv, NEW d \in Nat, Ticks(d), UNCHANGED jumped
  PROVE  CountedRight' => CountedRight
<1>1. ClockTypes
  BY TypeInvParts
<1> QED BY <1>1, TicksKeepsCounted DEF CountedRight

\* A wake from sleep runs the session of the card on.
LEMMA SessionWakes == TypeInv /\ SessionInv /\ (TimerFires \/ ButtonPressed) => SessionInv'
<1> SUFFICES ASSUME TypeInv, SessionInv, TimerFires \/ ButtonPressed PROVE SessionInv'
  OBVIOUS
<1>1. PICK d \in Nat : Ticks(d)
  <2>1. CASE TimerFires
    <3>1. timer - now \in Nat
      BY <2>1, TypeInvParts, WakeAssumption DEF TimerFires, OtherTypes, ClockTypes
    <3> QED BY <2>1, <3>1 DEF TimerFires
  <2>2. CASE ButtonPressed
    BY <2>2, WakeAssumption DEF ButtonPressed
  <2> QED BY <2>1, <2>2
<1>2. UNCHANGED jumped /\ Boots(sd, clock')
  BY DEF TimerFires, ButtonPressed
<1>3. CountedRight' => CountedRight
  BY <1>1, <1>2, CountedStays
<1>4. Since(sd.session, CountedRight')
  BY <1>3 DEF SessionInv, Since
<1> QED BY <1>2, <1>4, SessionBoots

LEMMA SessionPowerFails == TypeInv /\ TypeInv' /\ SessionInv /\ PowerFails => SessionInv'
<1> SUFFICES ASSUME TypeInv, TypeInv', SessionInv, PowerFails PROVE SessionInv'
  OBVIOUS
<1>1. PICK from \in {sd} \union torn : Boots(from, 0)
  BY DEF PowerFails
<1>2. clock' = 0 /\ now' \in Nat /\ now' > 0
  BY WakeAssumption DEF PowerFails, TypeInv, WakeTypeOK
<1>3. ~CountedRight'
  BY <1>2 DEF CountedRight
<1>4. Since(from.session, CountedRight')
  BY <1>1, <1>3 DEF SessionInv, Since
<1> QED BY <1>1, <1>4, SessionBoots

LEMMA SessionSyncOnline == TypeInv /\ SessionInv /\ SyncOnline => SessionInv'
<1> SUFFICES ASSUME TypeInv, SessionInv, SyncOnline PROVE SessionInv'
  OBVIOUS
<1>1. PICK d \in 0..SyncTime :
        /\ Passes(d)
        /\ jumped' = (jumped \/ (session.phase # "idle" /\ clock' # clock + d))
        /\ Saves([sd EXCEPT !.event = nextEvent']) \/ SavesNothing
  BY DEF SyncOnline
<1>2. d \in Nat /\ sd \in Cards
  BY TypeInvParts, WakeAssumption DEF EventTypes
<1>3. sd'.session = sd.session /\ \A c \in torn' : c.session = sd.session \/ c.session = IdleSession
  <2>1. CASE Saves([sd EXCEPT !.event = nextEvent'])
    BY <1>2, <2>1, SavedSessions DEF Cards
  <2>2. CASE SavesNothing
    BY <2>2 DEF SavesNothing
  <2> QED BY <1>1, <2>1, <2>2
<1>4. session' = session
  BY DEF SyncOnline
<1>5. CASE session.phase = "idle"
  <2>1. sd.session.phase = "idle"
    BY <1>5 DEF SessionInv
  <2> QED BY <1>3, <1>4, <1>5, <2>1, IdleIsSince DEF SessionInv, Since
<1>6. CASE session.phase # "idle"
  <2>1. ASSUME CountedRight' PROVE CountedRight
    <3>1. ~jumped /\ clock' = clock + d
      BY <1>1, <1>6, <2>1 DEF CountedRight
    <3>2. Ticks(d)
      BY <1>1, <3>1 DEF Ticks
    <3>3. clock = now
      BY <1>2, <2>1, <3>2, TicksKeepsCounted, TypeInvParts DEF CountedRight
    <3> QED BY <3>1, <3>3 DEF CountedRight
  <2> QED BY <1>3, <1>4, <2>1, SessionQuiet
<1> QED BY <1>5, <1>6

\* The session runs on a few ticks, and goes to sleep as it is or advanced.
LEMMA SessionSleeps ==
  ASSUME TypeInv, SessionInv, NEW d \in Nat, Ticks(d), UNCHANGED jumped, Sleeps(session', clock'),
         session' = session \/ \E t : session' = Advanced(session, t)
  PROVE  SessionInv'
<1>1. CountedRight' => CountedRight
  BY CountedStays
<1>2. session \in Sessions /\ CountedRight' \in BOOLEAN
  BY TypeInvParts DEF OtherTypes, CountedRight
<1>3. Since(session, CountedRight')
  BY <1>1 DEF SessionInv, Since
<1>4. Since(session', CountedRight')
  BY <1>2, <1>3, SinceAdvanced
<1> QED BY <1>4, SessionSaves DEF Sleeps

LEMMA SessionInvStep == TypeInv /\ TypeInv' /\ SessionInv /\ [WakeNext]_wakeVars => SessionInv'
<1> SUFFICES ASSUME TypeInv, TypeInv', SessionInv, [WakeNext]_wakeVars PROVE SessionInv'
  OBVIOUS
<1>1. CASE TimerFires \/ ButtonPressed
  BY <1>1, SessionWakes
<1>2. CASE PowerFails
  BY <1>2, SessionPowerFails
<1>3. CASE SyncOffline
  <2>1. PICK d \in Nat : Ticks(d)
    BY <1>3, WakeAssumption DEF SyncOffline
  <2>2. CountedRight' => CountedRight
    BY <1>3, <2>1, CountedStays DEF SyncOffline
  <2> QED BY <1>3, <2>2, SessionQuiet DEF SyncOffline, SavesNothing
<1>4. CASE SyncOnline
  BY <1>4, SessionSyncOnline
<1>5. CASE StaysSilent
  <2>1. now \in Nat /\ clock \in Nat
    BY TypeInvParts, WakeAssumption DEF ClockTypes
  <2>2. Since(session', CountedRight')
    BY <1>5 DEF StaysSilent, SessionInv, CountedRight
  <2>3. Saves([sd EXCEPT !.session = session'])
    BY <1>5 DEF StaysSilent, Sleeps
  <2> QED BY <2>2, <2>3, SessionSaves
<1>6. CASE RemindsOf
  <2>1. sd \in Cards /\ Saves([sd EXCEPT !.event = nextEvent'])
    BY <1>6, TypeInvParts DEF EventTypes, RemindsOf
  <2>2. sd'.session = sd.session /\ \A c \in torn' : c.session = sd.session \/ c.session = IdleSession
    BY <2>1, SavedSessions DEF Cards
  <2>3. (CountedRight' => CountedRight) /\ session' = session
    BY <1>6 DEF RemindsOf, CountedRight
  <2> QED BY <2>2, <2>3, SessionQuiet
<1>7. CASE ShowsPhase
  <2>1. (CountedRight' => CountedRight) /\ session' = session
    BY <1>7 DEF ShowsPhase, CountedRight
  <2> QED BY <1>7, <2>1, SessionQuiet DEF ShowsPhase, SavesNothing
<1>8. CASE Renders
  <2>1. PICK d \in Nat : Ticks(d)
    BY <1>8 DEF Renders
  <2>2. session' = session /\ Sleeps(session', clock') /\ UNCHANGED jumped
    BY <1>8 DEF Renders
  <2> QED BY <2>1, <2>2, SessionSleeps
<1>9. CASE TimeGoesBy
  <2>1. Ticks(1) /\ 1 \in Nat /\ UNCHANGED jumped /\ session' = Advanced(session, clock')
    BY <1>9 DEF TimeGoesBy, Loops
  <2>2. CountedRight' => CountedRight
    BY <2>1, CountedStays
  <2> QED BY <1>9, <2>1, <2>2, SessionQuiet DEF TimeGoesBy, SavesNothing
<1>10. CASE StartPomodoro
  <2>1. now \in Nat /\ clock \in Nat /\ now >= Epoch /\ WorkTime \in Nat \ {0} /\ Epoch \in Nat
    BY TypeInvParts, WakeAssumption DEF ClockTypes
  <2>2. session'.end = clock + WorkTime /\ (CountedRight' => clock = now)
    BY <1>10 DEF StartPomodoro, Started, CountedRight
  <2>3. Since(session', CountedRight')
    BY <2>1, <2>2 DEF Since
  <2> QED BY <1>10, <2>3, SessionSaves DEF StartPomodoro
<1>11. CASE StopPomodoro
  <2>1. Since(session', CountedRight')
    BY <1>11 DEF StopPomodoro, IdleSession, Since
  <2> QED BY <1>11, <2>1, SessionSaves DEF StopPomodoro
<1>12. CASE SetReminders
  <2>1. (CountedRight' => CountedRight) /\ session' = session
    BY <1>12 DEF SetReminders, Loops, CountedRight
  <2> QED BY <1>12, <2>1, SessionQuiet DEF SetReminders, SavesNothing
<1>13. CASE SyncNow
  <2>1. (CountedRight' => CountedRight) /\ session' = Advanced(session, clock)
    BY <1>13 DEF SyncNow, Loops, CountedRight
  <2> QED BY <1>13, <2>1, SessionQuiet DEF SyncNow, SavesNothing
<1>14. CASE IdlesOut
  <2>1. PICK d \in Nat : Ticks(d)
    BY <1>14 DEF IdlesOut
  <2>2. session' = Advanced(session, clock) /\ Sleeps(session', clock') /\ UNCHANGED jumped
    BY <1>14 DEF IdlesOut
  <2> QED BY <2>1, <2>2, SessionSleeps
<1>15. CASE UNCHANGED wakeVars
  BY <1>15 DEF SessionInv, CountedRight, wakeVars
<1> QED BY <1>1, <1>2, <1>3, <1>4, <1>5, <1>6, <1>7, <1>8, <1>9, <1>10, <1>11, <1>12, <1>13, <1>14, <1>15
    DEF WakeNext

\* Rounds for every tick the model lets pass are enough for every boot.
LEMMA KeepsUp ==
  ASSUME Horizon <= Epoch + MaxCatchUp, NEW s \in Sessions, s.phase # "idle",
         NEW n \in Epoch..Horizon, NEW t \in 0..n, t = n \/ n >= t + Epoch,
         Since(s, t = n)
  PROVE  Advanced(s, t).end > t
<1>1. /\ Epoch \in Nat /\ Horizon \in Nat /\ MaxCatchUp \in Nat /\ s.end \in Nat
      /\ n \in Nat /\ t \in Nat /\ n <= Horizon
  BY WakeAssumption DEF Sessions
<1>2. s.end > 0 /\ (t = n => s.end > Epoch)
  BY DEF Since
<1>3. t < s.end + MaxCatchUp
  <2>1. CASE t = n
    BY <1>1, <1>2, <2>1
  <2>2. CASE n >= t + Epoch
    BY <1>1, <1>2, <2>2
  <2> QED BY <2>1, <2>2
<1> QED BY <1>1, <1>3, AdvancedFacts

LEMMA KeepsUpStep ==
  ASSUME Horizon <= Epoch + MaxCatchUp,
         TypeInv, TypeInv', ClockInv', SessionInv, SessionKeepsUp, [WakeNext]_wakeVars
  PROVE  SessionKeepsUp'
<1>1. now' \in Epoch..Horizon /\ clock' \in 0..now' /\ (clock' = now' \/ now' >= clock' + Epoch)
  BY DEF TypeInv, WakeTypeOK, ClockInv
<1>2. ASSUME NEW from \in {sd} \union torn, Boots(from, clock'), Since(from.session, CountedRight')
      PROVE  SessionKeepsUp'
  <2>1. from.session \in Sessions /\ session' = Advanced(from.session, clock')
    BY <1>2, TypeInvParts DEF EventTypes, Cards, Boots
  <2>2. session'.phase # "idle" => from.session.phase # "idle"
    BY <2>1, AdvancedFacts
  <2>3. ~jumped' => Since(from.session, clock' = now')
    BY <1>2 DEF CountedRight, Since
  <2>4. from.session.phase # "idle" /\ ~jumped' => Advanced(from.session, clock').end > clock'
    BY <1>1, <2>1, <2>3, KeepsUp
  <2> QED BY <2>1, <2>2, <2>4 DEF SessionKeepsUp
<1>3. CASE TimerFires \/ ButtonPressed
  <2>1. PICK d \in Nat : Ticks(d)
    <3>1. TimerFires => timer - now \in Nat
      BY TypeInvParts, WakeAssumption DEF TimerFires, OtherTypes, ClockTypes
    <3> QED BY <1>3, <3>1, WakeAssumption DEF TimerFires, ButtonPressed
  <2>2. UNCHANGED jumped /\ Boots(sd, clock')
    BY <1>3 DEF TimerFires, ButtonPressed
  <2>3. Since(sd.session, CountedRight')
    BY <2>1, <2>2, CountedStays DEF SessionInv, Since
  <2> QED BY <1>2, <2>2, <2>3
<1>4. CASE PowerFails
  <2>1. PICK from \in {sd} \union torn : Boots(from, clock')
    BY <1>4 DEF PowerFails
  <2>2. ~CountedRight'
    BY <1>1, <1>4, WakeAssumption DEF PowerFails, CountedRight
  <2>3. Since(from.session, CountedRight')
    BY <2>1, <2>2 DEF SessionInv, Since
  <2> QED BY <1>2, <2>1, <2>3
<1>5. CASE SyncNow
  <2>1. session \in Sessions /\ session' = Advanced(session, clock') /\ jumped' = jumped /\ clock' = clock /\ now' = now
    BY <1>5, TypeInvParts DEF OtherTypes, SyncNow, Loops
  <2>2. session'.phase # "idle" => session.phase # "idle"
    BY <2>1, AdvancedFacts
  <2>3. ~jumped' => Since(session, clock' = now')
    BY <2>1 DEF SessionInv, CountedRight, Since
  <2>4. session.phase # "idle" /\ ~jumped' => Advanced(session, clock').end > clock'
    BY <1>1, <2>1, <2>3, KeepsUp
  <2> QED BY <2>1, <2>2, <2>4 DEF SessionKeepsUp
<1>6. CASE UNCHANGED wakeVars
  BY <1>6 DEF SessionKeepsUp, wakeVars
<1>7. StaysSilent \/ Renders \/ IdlesOut => at' = "asleep"
  BY DEF StaysSilent, Renders, IdlesOut, Sleeps
<1>8. SyncOffline \/ SyncOnline => at' \in {"deciding", "awake"}
  BY DEF SyncOffline, SyncOnline, AfterSync
<1>9. RemindsOf \/ ShowsPhase => at' = "rendering"
  BY DEF RemindsOf, ShowsPhase
<1>10. TimeGoesBy \/ StartPomodoro \/ StopPomodoro \/ SetReminders => at' = "awake"
  BY DEF TimeGoesBy, StartPomodoro, StopPomodoro, SetReminders, Loops
<1>11. at' # "syncing" => SessionKeepsUp'
  BY DEF SessionKeepsUp
<1> QED BY <1>3, <1>4, <1>5, <1>6, <1>7, <1>8, <1>9, <1>10, <1>11 DEF WakeNext

\* pomodoro_advance catches up with every phase that ended during a sleep, up to
\* kMaxIterations of them: if no more ticks than that pass, every boot and every
\* sync begins in the phase of the present time, unless the clock was set while
\* the session ran.
THEOREM SessionKeepsUpHolds ==
  ASSUME Horizon <= Epoch + MaxCatchUp
  PROVE  WakeSpec => []SessionKeepsUp
<1>1. WakeInit => ClockInv /\ SessionInv /\ SessionKeepsUp
  BY WakeAssumption DEF WakeInit, ClockInv, SessionInv, SessionKeepsUp, Since, IdleSession
<1>2. TypeInv /\ ClockInv /\ [WakeNext]_wakeVars => ClockInv'
  BY ClockStep
<1>3. TypeInv /\ TypeInv' /\ SessionInv /\ [WakeNext]_wakeVars => SessionInv'
  BY SessionInvStep
<1>4. TypeInv /\ TypeInv' /\ ClockInv' /\ SessionInv /\ SessionKeepsUp /\ [WakeNext]_wakeVars => SessionKeepsUp'
  BY KeepsUpStep
<1> QED BY TypeInit, TypeStep, <1>1, <1>2, <1>3, <1>4, PTL DEF WakeSpec
=============================================================================
