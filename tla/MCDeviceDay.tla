---------------------------- MODULE MCDeviceDay -----------------------------
(* The parts of the device beside the sync pass, checked side by side: in a  *)
(* behaviour one of them moves and the others stay as they began.            *)
EXTENDS WakeDay, InboxScreens, CalendarFeed, PageFile, TLC

CONSTANT Wide

VARIABLE subject

\* Two reminders that meet a phase's end, one event beyond the other's.
MCOccurrences == {[start |-> 22, end |-> 23], [start |-> 24, end |-> 25]}

\* One document of two pages with a landscape file of one, the others of a page.
MCPages == [d \in Docs |-> IF d = Wide THEN 2 ELSE 1]
MCWidePages == [d \in Docs |-> IF d = Wide THEN 1 ELSE 0]
MCSymmetry == Permutations(Docs \ {Wide})

-----------------------------------------------------------------------------
(* Page files: the panel is 16 by 3; pages of its size, smaller, larger, of  *)
(* odd widths, and too wide for the row buffer.                              *)
Shape(w, h) == [width |-> w, height |-> h]
MCDocuments ==
  {<<Shape(16, 3)>>, <<Shape(16, 3), Shape(16, 3)>>, <<Shape(8, 2), Shape(16, 3), Shape(32, 4)>>,
   <<Shape(24, 1), Shape(17, 3)>>, <<Shape(40, 2), Shape(16, 3)>>, <<Shape(15, 4), Shape(2, 1)>>}

-----------------------------------------------------------------------------
(* Feeds: a leap year's last days, both hemispheres, every kind of rule, and *)
(* windows long before, around and long after the first occurrence.          *)
Utc == [std |-> 0, dst |-> 0, hasDst |-> FALSE]
NewYork ==
  [std |-> -5, dst |-> -4, hasDst |-> TRUE,
   on |-> [month |-> 3, week |-> 2, weekday |-> 6, at |-> 2],
   off |-> [month |-> 11, week |-> 1, weekday |-> 6, at |-> 2]]
Sydney ==
  [std |-> 10, dst |-> 11, hasDst |-> TRUE,
   on |-> [month |-> 10, week |-> 1, weekday |-> 6, at |-> 2],
   off |-> [month |-> 4, week |-> 1, weekday |-> 6, at |-> 3]]

Once == [freq |-> "none", interval |-> 1, count |-> -1, until |-> 0, byday |-> {}, ord |-> 0, monthday |-> 0]
Every(freq, n) == [Once EXCEPT !.freq = freq, !.interval = n]
MCRules ==
  {Once, Every("DAILY", 1), Every("DAILY", 3), Every("WEEKLY", 1), Every("WEEKLY", 2),
   [Every("WEEKLY", 2) EXCEPT !.byday = {1, 4}], [Every("WEEKLY", 1) EXCEPT !.byday = {0, 6}, !.count = 3],
   [Every("DAILY", 2) EXCEPT !.count = 12],
   Every("MONTHLY", 1), [Every("MONTHLY", 2) EXCEPT !.byday = {1}, !.ord = 2],
   [Every("MONTHLY", 1) EXCEPT !.byday = {4}, !.ord = -1],
   [Every("MONTHLY", 1) EXCEPT !.monthday = -1, !.count = 4], Every("YEARLY", 1)}

FirstDays == {DaysFromCivil(2024, 1, 31), DaysFromCivil(2024, 2, 29), DaysFromCivil(2024, 10, 4)}
Noon(day) == day * HoursPerDay + 12
Event(day, rule, zone, length) ==
  [kind |-> "event", uid |-> "u", day |-> day, hour |-> 10, zone |-> zone, length |-> length,
   rule |-> rule, exdates |-> {}, cancelled |-> FALSE, replaces |-> 0]
Override(e, which, days, cancelled) ==
  [e EXCEPT !.kind = "override", !.day = @ + days, !.rule = Once, !.cancelled = cancelled,
            !.replaces = On(e, e.day + which)]

Alone ==
  {[entries |-> {Event(day, rule, zone, length)}, window |-> Noon(day + k)] :
     day \in FirstDays, rule \in MCRules, zone \in {Utc, NewYork, Sydney}, length \in {1, 48},
     k \in {-30, 0, 9, 45, 400}}
\* One occurrence moved or cancelled, another excluded.
Moved ==
  UNION {LET e == Event(day, rule, NewYork, 24)
         IN {[entries |-> {[e EXCEPT !.exdates = {On(e, e.day + 28)}], Override(e, 14, days, cancelled)},
              window |-> Noon(day + k)] :
               days \in {13, 16, 80}, cancelled \in BOOLEAN, k \in {-30, 0, 9, 14, 15}} :
         day \in FirstDays, rule \in {Every("DAILY", 1), Every("DAILY", 2), Every("WEEKLY", 1), Every("WEEKLY", 2)}}
Ended ==
  UNION {LET e == Event(day, rule, NewYork, 24)
         IN {[entries |-> {[e EXCEPT !.rule.until = On(e, e.day + end)]}, window |-> Noon(day + k)] :
               end \in {14, 20}, k \in {-30, 0, 14, 15}} :
         day \in FirstDays, rule \in {Every("DAILY", 1), Every("WEEKLY", 2), Every("MONTHLY", 1)}}
\* More than the parser keeps, an event called off, more overrides than fit.
Crowded ==
  UNION {LET e == Event(day, Every("DAILY", 1), Utc, 1)
         IN {[entries |-> {e, [e EXCEPT !.uid = "v", !.hour = 15]}, window |-> Noon(day)],
             [entries |-> {e, [e EXCEPT !.uid = "v", !.hour = 15], Override(e, 3, 5, FALSE)}, window |-> Noon(day)],
             [entries |-> {[e EXCEPT !.cancelled = TRUE], [e EXCEPT !.uid = "v", !.hour = 15]}, window |-> Noon(day)],
             [entries |-> {e, Override(e, 3, 5, TRUE), Override(e, 7, 7, FALSE)}, window |-> Noon(day)]} :
         day \in FirstDays}
MCFeeds == Alone \union Moved \union Ended \union Crowded

-----------------------------------------------------------------------------
\* A part that stays still begins as one of its initial states.
MCInit ==
  /\ subject \in {"wake", "screens", "feed", "page"}
  /\ WakeInit
  /\ subject # "wake" => clock = 0 /\ ~reminders.before /\ ~reminders.atEnd /\ reminders.lead = Max(Leads)
  /\ ScreensInit
  /\ subject # "screens" => ~settings.landscape /\ ~settings.bridge
  /\ subject # "page" => file = EncodeSinglePage(Shape(16, 3)) /\ stored = file.length
  /\ PageInit
  /\ feed \in IF subject = "feed" THEN Feeds ELSE {CHOOSE f \in Alone : TRUE}
  /\ FeedInit

DayNext ==
  \/ subject = "wake" /\ WakeNext /\ UNCHANGED <<subject, screenVars, webVars, feedVars, pageVars>>
  \/ subject = "screens" /\ ScreensNext /\ UNCHANGED <<subject, wakeVars, feedVars, pageVars>>
  \/ subject = "feed" /\ FeedNext /\ UNCHANGED <<subject, wakeVars, screenVars, webVars, pageVars>>
  \/ subject = "page" /\ PageNext /\ UNCHANGED <<subject, wakeVars, screenVars, webVars, feedVars>>

MCSpec == MCInit /\ [][DayNext]_<<subject, wakeVars, screenVars, webVars, feedVars, pageVars>>

\* Each part's state is what its code can hold: the clock never ahead of the
\* time, the index and the outbox within their arrays, rows that name entries.
DayTypeOK == WakeTypeOK /\ ScreensTypeOK
=============================================================================
