--------------------------- MODULE AcuityCalendar ---------------------------
(***************************************************************************)
(* How the Acuity adapter finds a day and a time on the vendor's calendar: *)
(* the booking wizard (steps/navigate.ts), the wizard reads of dates and   *)
(* slots (steps/read-availability.ts, steps/read-slots.ts), and the reads  *)
(* by URL (steps/read-via-url.ts over wizard-calendar.ts).  The first      *)
(* three navigate with a loop of their own, which gives up silently; the   *)
(* reads by URL share one that fails.                                      *)
(*                                                                         *)
(* A day is a pair of a month (counted from some origin) and a number.     *)
(* The page paints the shell of a month first and its enabled days later.  *)
(* Every step is one await on the page; any of them may fail.              *)
(***************************************************************************)
EXTENDS Integers, FiniteSets

CONSTANTS
  Months,         \* the months the vendor's calendar can show
  DayNumbers,     \* the days of a month
  MonthsPerYear,  \* 12
  BookClicks,     \* 12: clicks after which the wizard's loops stop
  UrlClicks,      \* 36: MAX_CALENDAR_NAVIGATION_STEPS
  MoreClicks,     \* 8: clicks on "More times" in the direct time list
  MaxOpen,        \* bound on the days the vendor offers
  Hours,          \* hours of the day at which times are offered and asked for
  EastOfUtc       \* does the browser's time zone lie east of UTC?

ASSUME CalendarAssumption ==
  /\ Months \subseteq Nat /\ DayNumbers \subseteq Nat \ {0}
  /\ Months # {} /\ DayNumbers # {} /\ Hours # {}
  /\ MonthsPerYear \in Nat \ {0}
  /\ BookClicks \in Nat /\ UrlClicks \in Nat /\ MoreClicks \in Nat
  /\ Hours \subseteq 0..23
  /\ EastOfUtc \in BOOLEAN

Days == Months \X DayNumbers
NoDay == <<-1, 0>>
NoHour == -1

VARIABLES
  task,      \* which of the five programs runs
  target,    \* the day asked for; of it, the date reads use the month only
  hour,      \* the hour asked for, by a booking
  openDays,  \* the vendor: days that can be booked
  times,     \* the vendor: hours offered on such a day
  yearless,  \* the vendor: do the time list's labels leave out the year?
  surface,   \* what the service's page turned out to be
  first,     \* the month shown at first
  shown,     \* the month shown now
  painted,   \* are the enabled days of that month attached?
  clicks,    \* clicks on next and previous so far
  more,      \* clicks on "More times" so far
  pass,      \* date reads: 1, or 2 after the settle wait or in the next month
  stage,     \* the await the program stands at
  picked,    \* the day whose tile was clicked
  pickedAt,  \* the hour whose slot was clicked
  found,     \* what the read returns: days, or hours
  late       \* did the program stop waiting for the page to paint?

request == <<task, target, hour>>
vendor == <<openDays, times, yearless, surface, first>>
calendar == <<shown, painted, clicks, more>>
outcome == <<picked, pickedAt, found, late>>
calendarVars == <<request, vendor, calendar, pass, stage, outcome>>

Tasks == {"book", "slots", "dates", "urlSlots", "urlDates"}
ByUrl == {"urlSlots", "urlDates"}
Active == {"load", "nav", "day", "times", "tiles", "list", "settle"}

Month(d) == d[1]

CalendarTypeOK ==
  /\ task \in Tasks /\ target \in Days /\ hour \in Hours
  /\ openDays \subseteq Days /\ times \subseteq Hours
  /\ yearless \in BOOLEAN /\ painted \in BOOLEAN /\ late \in BOOLEAN
  /\ surface \in {"calendar", "list", "interstitial"}
  /\ first \in Months /\ shown \in Int
  /\ clicks \in Nat /\ more \in 0..MoreClicks /\ pass \in {1, 2}
  /\ stage \in Active \cup {"idle", "done", "failed"}
  /\ picked \in Days \cup {NoDay}
  /\ pickedAt \in Hours \cup {NoHour}

Distance(m, n) == IF m < n THEN n - m ELSE m - n

-----------------------------------------------------------------------------
(* Texts: what parsing and matching do to times and dates.                 *)

\* "2:00 PM": the number in front of the colon, and the half of the day.
Label(h) == <<IF h % 12 = 0 THEN 12 ELSE h % 12, h >= 12>>

\* Variant for mutation: the half of the day is not compared.
IncludesHourOnly(text, asked) ==
  text[1] = asked[1] \/ text[1] = 10 + asked[1]

\* slotText.includes(targetTime): "12:00 PM" includes "2:00 PM".
Includes(text, asked) ==
  /\ text[2] = asked[2]
  /\ text[1] = asked[1] \/ text[1] = 10 + asked[1]

\* Variant for mutation: noon becomes midnight.
HourOfNoonForgotten(label) ==
  IF label[2] THEN (label[1] % 12) + (IF label[1] = 12 THEN 0 ELSE 12)
              ELSE label[1]

\* buildIsoDatetime.
HourOf(label) ==
  CASE ~label[2] /\ label[1] = 12 -> 0
    [] label[2] /\ label[1] # 12 -> label[1] + 12
    [] OTHER -> label[1]

\* new Date(label).toISOString().slice(0, 10): local midnight read as UTC.
IsoDate(d) ==
  IF ~EastOfUtc THEN d
  ELSE IF d[2] - 1 \in DayNumbers THEN <<d[1], d[2] - 1>>
  ELSE <<d[1] - 1, CHOOSE n \in DayNumbers : \A k \in DayNumbers : k <= n>>

\* parseTimeSelectionDate and inferYearForMonth: a label without a year is
\* taken to mean the year that brings it next to the month asked for.
Inferred(d) ==
  IF ~yearless THEN d
  ELSE LET t == Month(target)
           delta == (Month(d) % MonthsPerYear) - (t % MonthsPerYear)
           year == (t \div MonthsPerYear)
                     + (IF 2 * delta > MonthsPerYear THEN -1
                        ELSE IF 2 * delta < -MonthsPerYear THEN 1 ELSE 0)
       IN  <<year * MonthsPerYear + (Month(d) % MonthsPerYear), d[2]>>

-----------------------------------------------------------------------------
\* What can be read off the page: the enabled tiles of the month shown, and the
\* entries of the time list, which "More times" prolongs.
Tiles == {d \in openDays : surface = "calendar" /\ painted /\ Month(d) = shown}
Listed == {d \in openDays : surface = "list" /\ Month(d) - first \in 0..more}

\* Which of the entries the two readers of the list take.
EntriesOfMonth == {Inferred(d) : d \in Listed} \cap (({Month(target)}) \X DayNumbers)
EntriesOfDay == {d \in Listed : Inferred(d) = target}

FirstDay == CHOOSE d \in Days : TRUE
FirstHour == CHOOSE h \in Hours : TRUE

CalendarInit ==
  /\ task = "book" /\ stage = "idle"
  /\ target = FirstDay /\ hour = FirstHour
  /\ openDays = {} /\ times = {} /\ yearless = FALSE /\ surface = "calendar"
  /\ first = Month(FirstDay) /\ shown = Month(FirstDay) /\ painted = FALSE
  /\ clicks = 0 /\ more = 0 /\ pass = 1
  /\ picked = NoDay /\ pickedAt = NoHour /\ found = {} /\ late = FALSE

\* A program starts on a page of its own; what the vendor offers does not change
\* while it runs.  Inputs that a program does not look at keep their values.
Begin ==
  /\ stage = "idle" /\ stage' = "load"
  /\ task' \in Tasks /\ target' \in Days
  /\ hour' \in IF task' = "book" THEN Hours ELSE {hour}
  /\ openDays' \in {D \in SUBSET Days : Cardinality(D) <= MaxOpen}
  /\ times' \in IF task' \in {"dates", "urlDates"} THEN {times}
                                                   ELSE SUBSET Hours
  /\ surface' \in IF task' \in ByUrl THEN {"calendar", "list", "interstitial"}
                                     ELSE {surface}
  /\ yearless' \in IF surface' = "list" THEN BOOLEAN ELSE {FALSE}
  /\ first' \in Months /\ shown' = first'
  /\ UNCHANGED <<painted, clicks, more, pass, outcome>>

\* The page is closed with the program.
ClosePage ==
  /\ stage \in {"done", "failed"} /\ stage' = "idle"
  /\ task' = "book" /\ target' = FirstDay /\ hour' = FirstHour
  /\ openDays' = {} /\ times' = {} /\ yearless' = FALSE /\ surface' = "calendar"
  /\ first' = Month(FirstDay) /\ shown' = Month(FirstDay) /\ painted' = FALSE
  /\ clicks' = 0 /\ more' = 0 /\ pass' = 1
  /\ picked' = NoDay /\ pickedAt' = NoHour /\ found' = {} /\ late' = FALSE

Goes(to) == stage' = to

\* The page attaches the enabled days.
Paint ==
  /\ stage \in Active /\ ~painted
  /\ painted' = TRUE
  /\ UNCHANGED <<request, vendor, shown, clicks, more, pass, stage, outcome>>

\* A selector is not found in time, a click or a navigation fails.
StepFails ==
  /\ stage \in Active
  /\ Goes("failed")
  /\ UNCHANGED <<request, vendor, calendar, pass, outcome>>

\* The service's page: a calendar, the direct time list, or the choice of a
\* practitioner, which ends the read.
LoadPage ==
  /\ stage = "load"
  /\ Goes(CASE surface = "calendar" -> "nav"
            [] surface = "interstitial" -> "failed"
            [] surface = "list" -> IF task = "urlDates" THEN "tiles" ELSE "list")
  /\ UNCHANGED <<request, vendor, calendar, pass, outcome>>

-----------------------------------------------------------------------------
(* Navigation to the month of the target.                                  *)

ClickBound == IF task \in ByUrl THEN UrlClicks ELSE BookClicks
AfterNavigation == IF task \in {"dates", "urlDates"} THEN "tiles" ELSE "day"

\* The calendar shows the month asked for.
ArriveAtMonth ==
  /\ stage = "nav" /\ shown = Month(target)
  /\ Goes(AfterNavigation)
  /\ UNCHANGED <<request, vendor, calendar, pass, outcome>>

\* One click towards it.
ClickTowards ==
  /\ stage = "nav" /\ shown # Month(target) /\ clicks < ClickBound
  /\ clicks' = clicks + 1
  /\ shown' = IF Month(target) > shown THEN shown + 1 ELSE shown - 1
  /\ painted' = FALSE
  /\ UNCHANGED <<request, vendor, more, pass, stage, outcome>>

ClicksUsedUp == stage = "nav" /\ shown # Month(target) /\ clicks >= ClickBound

\* navigateToMonth of wizard-calendar.ts fails when its clicks are used up.
UseUpClicks ==
  /\ ClicksUsedUp /\ task \in ByUrl
  /\ Goes("failed")
  /\ UNCHANGED <<request, vendor, calendar, pass, outcome>>

\* The loops of the wizard end, and the program goes on with the month it happens
\* to see.
StopShort ==
  /\ ClicksUsedUp /\ task \notin ByUrl
  /\ Goes(AfterNavigation)
  /\ UNCHANGED <<request, vendor, calendar, pass, outcome>>

-----------------------------------------------------------------------------
(* A day and its times.                                                    *)

\* The wizard clicks the enabled tile with the number of the day, the read by
\* URL the one whose own date is the one asked for.
TileOf(d) ==
  IF task = "urlSlots" THEN IsoDate(d) = target ELSE d[2] = target[2]

ClickDay ==
  /\ stage = "day"
  /\ \E d \in Tiles :
       /\ TileOf(d)
       /\ picked' = d
  /\ Goes("times")
  /\ UNCHANGED <<request, vendor, calendar, pass, pickedAt, found, late>>

\* No such tile, or it is disabled: the wizard fails; the read by URL looks for
\* a time list instead and otherwise reports that there is nothing.
NoSuchDay ==
  /\ stage = "day" /\ ~ \E d \in Tiles : TileOf(d)
  /\ Goes(IF task = "urlSlots" THEN "list" ELSE "failed")
  /\ UNCHANGED <<request, vendor, calendar, pass, outcome>>

\* selectTimeSlot takes the first slot whose text includes the time asked for.
Matching == {h \in times : Includes(Label(h), Label(hour))}

ClickTime ==
  /\ stage = "times" /\ task = "book"
  /\ \E h \in Matching :
       /\ \A k \in Matching : h <= k
       /\ pickedAt' = h
  /\ Goes("done")
  /\ UNCHANGED <<request, vendor, calendar, pass, picked, found, late>>

NoSuchTime ==
  /\ stage = "times" /\ task = "book" /\ Matching = {}
  /\ Goes("failed")
  /\ UNCHANGED <<request, vendor, calendar, pass, outcome>>

OfferedHours == {HourOf(Label(h)) : h \in times}

\* The slots are read; the read by URL does not insist on seeing any.
ReadTimes ==
  /\ stage = "times" /\ task \in {"slots", "urlSlots"}
  /\ \/ found' = OfferedHours /\ UNCHANGED late
     \/ task = "urlSlots" /\ found' = {} /\ late' = TRUE
  /\ Goes("done")
  /\ UNCHANGED <<request, vendor, calendar, pass, picked, pickedAt>>

-----------------------------------------------------------------------------
(* Dates.                                                                  *)

\* The click on "next", as long as there is a next month.
AdvanceMonth ==
  /\ shown + 1 \in Months
  /\ shown' = shown + 1 /\ painted' = FALSE /\ pass' = 2
  /\ UNCHANGED stage

\* readAvailableDates reads the month shown, goes on to the next one if it can,
\* and reads that as well.
ScanMonth ==
  /\ stage = "tiles" /\ task = "dates"
  /\ found' = found \cup Tiles
  /\ \/ pass = 1 /\ AdvanceMonth
     \/ /\ pass = 2 \/ shown + 1 \notin Months
        /\ Goes("done") /\ UNCHANGED <<shown, painted, pass>>
  /\ UNCHANGED <<request, vendor, clicks, more, picked, pickedAt, late>>

\* readDatesViaUrl: enabled tiles first.
ReadTiles ==
  /\ stage = "tiles" /\ task = "urlDates"
  /\ found' = {IsoDate(d) : d \in Tiles}
  /\ Goes(IF found' = {} THEN "list" ELSE "done")
  /\ UNCHANGED <<request, vendor, calendar, pass, picked, pickedAt, late>>

\* Then the time list, with clicks on "More times" while it names no day of the
\* month (of the day, for slots).
ListEntries == IF task = "urlDates" THEN EntriesOfMonth ELSE EntriesOfDay

ShowMore ==
  /\ stage = "list" /\ ListEntries = {}
  /\ surface = "list" /\ more < MoreClicks
  /\ more' = more + 1
  /\ UNCHANGED <<request, vendor, shown, painted, clicks, pass, stage, outcome>>

ReadList ==
  /\ stage = "list"
  /\ \/ ListEntries # {}
     \/ surface # "list" \/ more = MoreClicks
  /\ found' = IF task = "urlDates" THEN EntriesOfMonth
              ELSE IF EntriesOfDay # {} THEN OfferedHours ELSE {}
  /\ Goes(IF found' = {} /\ task = "urlDates" /\ pass = 1 THEN "settle"
                                                         ELSE "done")
  /\ UNCHANGED <<request, vendor, calendar, pass, picked, pickedAt, late>>

\* Variant for mutation: the wait ends the read.
SettleAndStop ==
  /\ stage = "settle"
  /\ late' = ~painted
  /\ Goes("done")
  /\ pass' = 2
  /\ UNCHANGED <<request, vendor, calendar, picked, pickedAt, found>>

\* Variant for mutation: and again, until there is something.
SettleAgain ==
  /\ stage = "settle"
  /\ late' = ~painted
  /\ Goes("tiles")
  /\ UNCHANGED <<request, vendor, calendar, pass, picked, pickedAt, found>>

\* Nothing yet: wait a moment for an enabled day, and read both once more.
Settle ==
  /\ stage = "settle"
  /\ late' = ~painted
  /\ Goes("tiles")
  /\ pass' = 2
  /\ UNCHANGED <<request, vendor, calendar, picked, pickedAt, found>>

-----------------------------------------------------------------------------
CalendarStep ==
  \/ LoadPage \/ ArriveAtMonth \/ ClickTowards \/ UseUpClicks \/ StopShort
  \/ ClickDay \/ NoSuchDay \/ ClickTime \/ NoSuchTime \/ ReadTimes
  \/ ScanMonth \/ ReadTiles \/ ShowMore \/ ReadList \/ Settle

CalendarNext == Begin \/ ClosePage \/ Paint \/ StepFails \/ CalendarStep

CalendarSpec == CalendarInit /\ [][CalendarNext]_calendarVars

-----------------------------------------------------------------------------
(* Properties.                                                             *)

\* What is clicked is what was asked for.  The day: always for a read by URL, which
\* fails rather than stop short, and for the wizard as long as the month can be
\* reached with its clicks (navigateToMonth, navigateCalendar).  The time: unless
\* it is one or two o'clock, whose text is part of eleven's and twelve's
\* (selectTimeSlot).
PicksWhatWasAsked ==
  /\ (/\ picked # NoDay
      /\ task = "urlSlots" \/ Distance(first, Month(target)) <= BookClicks)
       => picked = target
  /\ pickedAt # NoHour /\ hour % 12 \notin {1, 2} => pickedAt = hour

\* What is reported is offered: the dates, if the time list lies within a year of
\* the month asked for, and the times, on their way through the labels and back
\* (parseTimeSelectionDates, readEnabledCalendarDates, buildIsoDatetime).
ReportsWhatIsOffered ==
  stage = "done" =>
    /\ (/\ task \in {"dates", "urlDates"}
        /\ yearless => Month(target) - first \in 0..(MonthsPerYear - 1)
        /\ MoreClicks < MonthsPerYear)
         => found \subseteq openDays
    /\ task \in {"slots", "urlSlots"} => found \subseteq times

\* No dates means that there are none: a month that paints its days in time is
\* never reported as empty when it is not (readDatesViaUrl).
EmptyMeansNone ==
  (/\ stage = "done" /\ task = "urlDates" /\ surface = "calendar"
   /\ found = {} /\ ~late)
    => \A d \in openDays : Month(d) # Month(target)

\* Every program ends, with a result or a failure: the loops on the page are
\* bounded whatever the calendar shows.
CalendarReadsEnd == stage = "load" ~> stage \in {"done", "failed"}
=============================================================================
