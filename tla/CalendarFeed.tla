---------------------------- MODULE CalendarFeed -----------------------------
(* One iCalendar feed read by the device's parser: recurring events expanded *)
(* into a window, single occurrences moved or cancelled by later entries,    *)
(* and the cap on what is kept.                                              *)
(*                                                                           *)
(* Time is counted in hours, HoursPerDay to the day; days are numbered from  *)
(* 1 January 1970, a Thursday.  Weekday 0 is Monday.  Lines, folding and the *)
(* text of properties are left out: an entry is what endEvent() finds.       *)
EXTENDS Integers, Sequences, FiniteSets, SequencesExt

CONSTANTS
  HoursPerDay, \* 86400 s
  Lookahead,   \* kLookaheadSeconds, in days
  MaxEvents,   \* maxEvents_
  MaxOverrides,\* MAX_OVERRIDES
  Feeds        \* the feeds read, each a set of entries and a start of the window

VARIABLES
  feed, left,  \* the feed, and its entries still to be read
  window,      \* windowStart_, in hours
  out, overrides, truncated

feedVars == <<feed, left, window, out, overrides, truncated>>

-----------------------------------------------------------------------------
(* The civil calendar *)

LeapYear(y) == (y % 4 = 0 /\ y % 100 # 0) \/ y % 400 = 0
DaysInMonth(y, m) ==
  IF m = 2 /\ LeapYear(y) THEN 29 ELSE <<31, 28, 31, 30, 31, 30, 31, 31, 30, 31, 30, 31>>[m]

\* Years begin in March.
DaysFromCivil(year, m, d) ==
  LET y == IF m <= 2 THEN year - 1 ELSE year
  IN 365 * y + (y \div 4) - (y \div 100) + (y \div 400) - 719468
     + ((153 * (m + (IF m > 2 THEN -3 ELSE 9)) + 2) \div 5) + d - 1

FromMarch(y, doy) ==
  LET mp == (5 * doy + 2) \div 153
  IN [y |-> y + (IF mp < 10 THEN 0 ELSE 1), m |-> mp + (IF mp < 10 THEN 3 ELSE -9),
      d |-> doy - ((153 * mp + 2) \div 5) + 1]
YearOfEra(doe) == (doe - (doe \div 1460) + (doe \div 36524) - (doe \div 146096)) \div 365
InEra(era, doe) ==
  LET yoe == YearOfEra(doe) IN FromMarch(400 * era + yoe, doe - (365 * yoe + (yoe \div 4) - (yoe \div 100)))
CivilFromDays(day) == InEra((day + 719468) \div 146097, (day + 719468) % 146097)

WeekdayOf(day) == (day + 3) % 7

\* The week-th weekday of a month; week < 0 is the last one.
NthWeekday(y, m, week, weekday) ==
  LET first == DaysFromCivil(y, m, 1)
      dim == DaysInMonth(y, m)
      nth == 1 + ((weekday - WeekdayOf(first) + 7) % 7) + (week - 1) * 7
      lastWd == (WeekdayOf(first) + dim - 1) % 7
  IN first - 1 + IF week > 0 THEN (IF nth > dim THEN nth - 7 ELSE nth) ELSE dim - ((lastWd - weekday + 7) % 7)

\* tzOffsetFor: in the south the summer wraps around the year.
Turn(rule, y) == NthWeekday(y, rule.month, rule.week, rule.weekday) * HoursPerDay + rule.at
InSummer(local, on, off) ==
  IF on < off THEN local >= on /\ local < off ELSE local >= on \/ local < off
Offset(zone, local) ==
  LET y == CivilFromDays(local \div HoursPerDay).y
  IN IF zone.hasDst /\ InSummer(local, Turn(zone.on, y), Turn(zone.off, y)) THEN zone.dst ELSE zone.std
Since1970(zone, local) == local - Offset(zone, local)

-----------------------------------------------------------------------------
(* expandRecurrence *)

WindowEnd == window + Lookahead * HoursPerDay
On(e, day) == Since1970(e.zone, day * HoursPerDay + e.hour)
StartOf(e) == On(e, e.day)
InReach(e, start) == start <= WindowEnd + 2 * HoursPerDay /\ (e.rule.until # 0 => start <= e.rule.until)

FastForward_DespiteCount(e) ==
  LET ahead == ((window - StartOf(e)) \div HoursPerDay) - 2
      step == IF e.rule.freq = "DAILY" THEN e.rule.interval ELSE 7 * e.rule.interval
  IN IF ahead > 0 THEN (ahead \div step) * step ELSE 0
\* Days skipped before the window, whole intervals of them; none with a COUNT.
FastForward(e) ==
  LET ahead == ((window - StartOf(e)) \div HoursPerDay) - 2
      step == IF e.rule.freq = "DAILY" THEN e.rule.interval ELSE 7 * e.rule.interval
  IN IF e.rule.count < 0 /\ ahead > 0 THEN (ahead \div step) * step ELSE 0

\* DAILY and WEEKLY step through the days; BYDAY counts for WEEKLY only.
DayOffsets(e) ==
  LET r == e.rule
      startDow == WeekdayOf(e.day)
      mask == IF r.byday = {} THEN {startDow} ELSE r.byday
      Due(n) == IF r.freq = "DAILY" THEN n % r.interval = 0
                ELSE ((startDow + n) % 7) \in mask /\ ((n + startDow) \div 7) % r.interval = 0
      most == ((WindowEnd - StartOf(e)) \div HoursPerDay) + 3
  IN {n \in FastForward(e)..most : Due(n)}

\* MONTHLY: the day within that month, 0 or too large when there is none.
DayInMonth(e, y, m) ==
  LET r == e.rule
      dim == DaysInMonth(y, m)
      firstWd == WeekdayOf(DaysFromCivil(y, m, 1))
      target == CHOOSE w \in r.byday : \A v \in r.byday : v <= w
  IN IF r.byday # {}
     THEN IF r.ord >= 0 THEN 1 + ((target - firstWd + 7) % 7) + ((IF r.ord > 0 THEN r.ord ELSE 1) - 1) * 7
          ELSE dim - ((((firstWd + dim - 1) % 7) - target + 7) % 7) + (r.ord + 1) * 7
     ELSE IF r.monthday # 0 THEN (IF r.monthday > 0 THEN r.monthday ELSE dim + 1 + r.monthday)
     ELSE CivilFromDays(e.day).d

MonthDays(e) ==
  LET c == CivilFromDays(e.day)
      Month(k) == [y |-> c.y + ((c.m + k - 1) \div 12), m |-> ((c.m + k - 1) % 12) + 1]
      most == ((WindowEnd - StartOf(e)) \div (28 * HoursPerDay)) + 2
      steps == {k \in 0..most : k % e.rule.interval = 0
                                /\ DayInMonth(e, Month(k).y, Month(k).m) \in 1..DaysInMonth(Month(k).y, Month(k).m)}
  IN {day \in {DaysFromCivil(Month(k).y, Month(k).m, DayInMonth(e, Month(k).y, Month(k).m)) : k \in steps} :
        On(e, day) >= StartOf(e)}

YearDays(e) ==
  LET c == CivilFromDays(e.day)
      most == ((WindowEnd - StartOf(e)) \div (365 * HoursPerDay)) + 2
  IN {DaysFromCivil(c.y + k, c.m, c.d) :
        k \in {k \in 0..most : k % e.rule.interval = 0 /\ c.d <= DaysInMonth(c.y + k, c.m)}}

\* COUNT cuts the days off in order.
Counted(days, count) ==
  IF count < 0 THEN days ELSE {d \in days : Cardinality({c \in days : c < d}) < count}
\* The days the loops emit.
EmittedDays(e) ==
  LET days == CASE e.rule.freq = "MONTHLY" -> MonthDays(e)
                [] e.rule.freq = "YEARLY" -> YearDays(e)
                [] e.rule.freq \in {"DAILY", "WEEKLY"} -> {e.day + n : n \in DayOffsets(e)}
                [] e.rule.freq = "none" -> {e.day}
  IN Counted({d \in days : e.rule.freq = "none" \/ InReach(e, On(e, d))}, e.rule.count)

-----------------------------------------------------------------------------
(* endEvent and finish *)

InWindow(start, length) == start + length > window /\ start < WindowEnd
Occurrence(e, start) == [uid |-> e.uid, start |-> start, end |-> start + e.length, moved |-> FALSE]

InOrder(e, starts) ==
  LET Nth(k) == CHOOSE s \in starts : Cardinality({t \in starts : t < s}) = k - 1
  IN [k \in 1..Cardinality(starts) |-> Occurrence(e, Nth(k))]
\* emitOccurrence for each day: excluded dates and the window first, then the cap.
Emitted(e) ==
  InOrder(e, {s \in {On(e, d) : d \in EmittedDays(e)} : s \notin e.exdates /\ InWindow(s, e.length)})

Capped(list) == SubSeq(list, 1, IF Len(list) < MaxEvents THEN Len(list) ELSE MaxEvents)

FeedInit ==
  /\ feed \in Feeds /\ left \in SetToSeqs(feed.entries) /\ window = feed.window
  /\ out = <<>> /\ overrides = <<>> /\ truncated = FALSE

NextEntry(kind) == left # <<>> /\ Head(left).kind = kind /\ left' = Tail(left) /\ UNCHANGED <<feed, window>>

\* An event, recurring or not; a cancelled one is skipped.
EndEvent ==
  /\ NextEntry("event")
  /\ LET e == Head(left)
         all == IF e.cancelled THEN out ELSE out \o Emitted(e)
     IN out' = Capped(all) /\ truncated' = (truncated \/ Len(all) > MaxEvents)
  /\ UNCHANGED overrides

Matters(o) ==
  \/ InWindow(StartOf(o), o.length)
  \/ o.replaces > window - HoursPerDay /\ o.replaces < WindowEnd + HoursPerDay
\* A RECURRENCE-ID entry waits for finish().
KeepOverride ==
  /\ NextEntry("override")
  /\ LET o == Head(left)
     IN IF Matters(o) /\ Len(overrides) < MaxOverrides
        THEN overrides' = Append(overrides, o) /\ UNCHANGED truncated
        ELSE UNCHANGED overrides /\ truncated' = (truncated \/ Matters(o))
  /\ UNCHANGED out

\* The base occurrence an override replaces is taken out.
Without_Nothing(list, o) == list
Without(list, o) ==
  LET base == {k \in DOMAIN list : ~list[k].moved /\ list[k].uid = o.uid /\ list[k].start = o.replaces}
  IN IF base = {} THEN list ELSE RemoveAt(list, CHOOSE k \in base : \A j \in base : k <= j)

\* One override after the other; the moved one comes in if there is room.
Finish ==
  /\ left = <<>> /\ overrides # <<>> /\ overrides' = Tail(overrides)
  /\ LET o == Head(overrides)
         rest == Without(out, o)
         comes == ~o.cancelled /\ InWindow(StartOf(o), o.length)
     IN /\ out' = IF comes /\ Len(rest) < MaxEvents
                  THEN Append(rest, [Occurrence(o, StartOf(o)) EXCEPT !.moved = TRUE]) ELSE rest
        /\ truncated' = (truncated \/ (comes /\ Len(rest) >= MaxEvents))
  /\ UNCHANGED <<feed, left, window>>

FeedNext == EndEvent \/ KeepOverride \/ Finish

-----------------------------------------------------------------------------
(* What the rules mean, day by day *)

\* The date of a day, counted from the lengths of years and months.
FirstOf(y, m) ==
  365 * (y - 1970) + ((y - 1) \div 4) - ((y - 1) \div 100) + ((y - 1) \div 400) - 477
  + <<0, 31, 59, 90, 120, 151, 181, 212, 243, 273, 304, 334>>[m] + (IF m > 2 /\ LeapYear(y) THEN 1 ELSE 0)
DateIn(day, y) ==
  LET m == CHOOSE m \in 1..12 : FirstOf(y, m) <= day /\ day < FirstOf(y, m) + DaysInMonth(y, m)
  IN [y |-> y, m |-> m, d |-> day - FirstOf(y, m) + 1]
DateOf(day) == DateIn(day, CHOOSE y \in 2000..2040 : FirstOf(y, 1) <= day /\ day < FirstOf(y + 1, 1))

RuleHolds(e, day, from, date) ==
  LET r == e.rule
      Monday(d) == d - ((d + 3) % 7)
      months == (date.y - from.y) * 12 + date.m - from.m
      back == DaysInMonth(date.y, date.m) - date.d
  IN CASE r.freq = "none" -> day = e.day
       [] r.freq = "DAILY" -> (day - e.day) % r.interval = 0
       [] r.freq = "WEEKLY" ->
            /\ IF r.byday = {} THEN (day - e.day) % 7 = 0 ELSE (day + 3) % 7 \in r.byday
            /\ ((Monday(day) - Monday(e.day)) \div 7) % r.interval = 0
       [] r.freq = "MONTHLY" ->
            /\ months % r.interval = 0
            /\ IF r.byday # {}
               THEN (day + 3) % 7 \in r.byday
                    /\ IF r.ord > 0 THEN (date.d - 1) \div 7 = r.ord - 1 ELSE back \div 7 = -1 - r.ord
               ELSE IF r.monthday # 0 THEN date.d = r.monthday \/ back = -1 - r.monthday
               ELSE date.d = from.d
       [] r.freq = "YEARLY" -> (date.y - from.y) % r.interval = 0 /\ date.m = from.m /\ date.d = from.d

\* The starts of e in the window: the rule from the first day on, cut off by
\* COUNT or UNTIL, less the excluded and the replaced ones.
Meant(e, replaced) ==
  LET from == DateOf(e.day)
      days == {d \in e.day..((WindowEnd \div HoursPerDay) + 2) : RuleHolds(e, d, from, DateOf(d))}
      ends == e.rule.until
  IN {s \in {On(e, d) : d \in {d \in Counted(days, e.rule.count) : ends # 0 => On(e, d) <= ends}} :
        s \notin e.exdates \union replaced /\ InWindow(s, e.length)}

Expected ==
  LET events == {e \in feed.entries : e.kind = "event" /\ ~e.cancelled}
      moves == feed.entries \ {e \in feed.entries : e.kind = "event"}
      Replaced(e) == {o.replaces : o \in {o \in moves : o.uid = e.uid}}
  IN UNION {{Occurrence(e, s) : s \in Meant(e, Replaced(e))} : e \in events}
     \union {[Occurrence(o, StartOf(o)) EXCEPT !.moved = TRUE] :
               o \in {o \in moves : ~o.cancelled /\ InWindow(StartOf(o), o.length)}}

\* An occurrence of at most two days is not skipped on the way to the window;
\* one of at most a day is still there when the entry that replaces it is kept.
Short(e) ==
  e.length <= HoursPerDay * (IF \E o \in feed.entries : o.kind = "override" /\ o.uid = e.uid THEN 1 ELSE 2)

\* Once the feed is read, the parser holds exactly the occurrences the rules
\* mean, each cancelled or moved one replaced, in whatever order the feed names
\* them; over its caps it may lack some but invents none.
FeedIsExpanded ==
  left = <<>> /\ overrides = <<>> /\ (\A e \in feed.entries : Short(e)) =>
    /\ Cardinality({o \in feed.entries : o.kind = "override"}) <= MaxOverrides => Range(out) \subseteq Expected
    /\ ~truncated => Expected \subseteq Range(out) /\ Len(out) = Cardinality(Expected)
=============================================================================
