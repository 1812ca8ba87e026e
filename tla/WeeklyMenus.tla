---------------------------- MODULE WeeklyMenus ----------------------------
(***************************************************************************)
(* The list of menus, a week to a page.  A page is asked for by its offset *)
(* from the current week and computed anew by every request: the clock, the *)
(* menus and the week itself move between two of them.  The server counts  *)
(* the current week in UTC and the dates of the menus in local time.       *)
(*                                                                         *)
(* Time is in hours since a Monday 00:00 UTC.  Dates are days since then.  *)
(***************************************************************************)
EXTENDS Integers

CONSTANTS
    Menus,      \* primary keys of the menus
    Times,      \* [start, end] that may be typed into the menu admin page
    Absent,     \* no such menu
    Moments,    \* the hours at which something happens
    UtcOffset,  \* hours by which TIME_ZONE is ahead of UTC
    MaxOffset,  \* bound on the offsets a reader goes to
    MaxEdits    \* bound on the menus saved or deleted

ASSUME TimesAssumption == Times \subseteq [start : Int, end : Int] /\ Absent \notin Times
ASSUME MomentsAssumption == Moments \subseteq Int /\ Moments # {}
ASSUME ZoneAssumption == UtcOffset \in 0..23
ASSUME BoundsAssumption == MaxOffset \in Nat /\ MaxEdits \in Nat

VARIABLES
    now,
    menus,    \* start_time and end_time of each menu
    page,     \* the offset a reader's page was asked for with, or NoPage
    walk,     \* history: the weeks read since the first page or the last step back
    edits     \* how many times a menu was saved or deleted

vars == <<now, menus, page, walk, edits>>

NoPage == -1

\* Since the walk began: the Mondays of its first and its last page, the menus
\* shown, those shown on two of its pages, those edited, and whether the current
\* week has become another one.
NoWalk == [first |-> 0, last |-> 0, seen |-> {}, again |-> {}, edited |-> {}, turned |-> FALSE]

Init ==
    /\ now \in Moments
    /\ menus \in [Menus -> Times \cup {Absent}]
    /\ page = NoPage
    /\ walk = NoWalk
    /\ edits = 0

-----------------------------------------------------------------------------
(* WeeklyMenuPagination.                                                   *)

Date(hour) == hour \div 24
LocalDate(hour) == Date(hour + UtcOffset)

\* The Monday of a date's week.
Monday(date) == date - (date % 7)

\* Mutant of StartOfWeek: the weekday is not subtracted.
StartToday(hour, offset) == Date(hour) + 7 * offset

StartOfWeek(hour, offset) == Monday(Date(hour)) + 7 * offset

\* Mutant of EndOfWeek: a week later instead of six days.
EndAfterWeek(hour, offset) == StartOfWeek(hour, offset) + 7

EndOfWeek(hour, offset) == StartOfWeek(hour, offset) + 6

\* Mutant of OnPage: the last day of the week is left out.
OnPageButSunday(t, hour, offset) ==
    /\ LocalDate(t.start) >= StartOfWeek(hour, offset)
    /\ LocalDate(t.end) < EndOfWeek(hour, offset)

\* start_time__date and end_time__date are dates of the local time zone.
OnPage(t, hour, offset) ==
    /\ LocalDate(t.start) >= StartOfWeek(hour, offset)
    /\ LocalDate(t.end) <= EndOfWeek(hour, offset)

Upcoming == {m \in Menus : menus[m] # Absent /\ menus[m].start >= now}

Listed(offset) == {m \in Upcoming : OnPage(menus[m], now, offset)}

\* Mutant of NextOffset: the link to the next week is the one to this week.
NextStays == page

NextOffset == page + 1

-----------------------------------------------------------------------------
(* A reader, who follows the links of the answers.                         *)

Read(offset) ==
    /\ page' = offset
    /\ UNCHANGED <<now, menus, edits>>

\* A walk begins: no week_offset, the link to the current week, or a step back.
Start(offset) ==
    /\ Read(offset)
    /\ walk' = [NoWalk EXCEPT !.first = StartOfWeek(now, offset),
                              !.last = StartOfWeek(now, offset),
                              !.seen = Listed(offset)]

OpenCurrentWeek == Start(0)

OpenPreviousWeek == page > 0 /\ Start(page - 1)

OpenNextWeek ==
    /\ page # NoPage /\ NextOffset <= MaxOffset
    /\ Read(NextOffset)
    /\ walk' = [walk EXCEPT !.last = StartOfWeek(now, NextOffset),
                            !.seen = @ \cup Listed(NextOffset),
                            !.again = @ \cup (walk.seen \cap Listed(NextOffset))]

-----------------------------------------------------------------------------
(* The menu admin page, and the clock.                                     *)

\* Nothing checks that a menu ends after it starts.
Edit(m, t) ==
    /\ edits < MaxEdits /\ edits' = edits + 1
    /\ menus' = [menus EXCEPT ![m] = t]
    /\ walk' = IF page = NoPage THEN walk ELSE [walk EXCEPT !.edited = @ \cup {m}]
    /\ UNCHANGED <<now, page>>

SaveMenu(m) == \E t \in Times \ {menus[m]} : Edit(m, t)

DeleteMenu(m) == menus[m] # Absent /\ Edit(m, Absent)

TimePasses ==
    /\ \E hour \in Moments :
          /\ hour > now
          /\ now' = hour
          /\ walk' = IF page # NoPage /\ StartOfWeek(hour, 0) # StartOfWeek(now, 0)
                     THEN [walk EXCEPT !.turned = TRUE] ELSE walk
    /\ UNCHANGED <<menus, page, edits>>

Next ==
    \/ OpenCurrentWeek \/ OpenPreviousWeek \/ OpenNextWeek
    \/ \E m \in Menus : SaveMenu(m) \/ DeleteMenu(m)
    \/ TimePasses

Spec == Init /\ [][Next]_vars

-----------------------------------------------------------------------------
(* Properties.                                                             *)

TypeOK ==
    /\ now \in Moments
    /\ menus \in [Menus -> Times \cup {Absent}]
    /\ page \in Int
    /\ walk \in [first : Int, last : Int, seen : SUBSET Menus, again : SUBSET Menus,
                 edited : SUBSET Menus, turned : BOOLEAN]
    /\ edits \in 0..MaxEdits

\* A menu whose times were not entered in the wrong order.
Ordered(m) == menus[m] # Absent /\ menus[m].start <= menus[m].end

\* It lies within one week, Monday to Sunday, by the local calendar.
WithinOneWeek(m) == Ordered(m) /\ LocalDate(menus[m].end) <= Monday(LocalDate(menus[m].start)) + 6

\* The week of the page a menu is looked for on, counted from the current one.
WeeksAhead(m) == (Monday(LocalDate(menus[m].start)) - StartOfWeek(now, 0)) \div 7

\* The pages share no menu, whatever the time is, unless its times were entered
\* in the wrong order (paginators.py:19).
OnOnePage ==
    \A m \in Menus : Ordered(m) =>
        \A a, b \in (-1)..MaxOffset :
            OnPage(menus[m], now, a) /\ OnPage(menus[m], now, b) => a = b

\* An upcoming menu within one week is on a page, and on one the links lead to:
\* although the current week is counted in UTC and the menu's in local time, its
\* offset is never negative.  A menu that crosses the midnight from Sunday to
\* Monday is on none.
UpcomingIsOnPage ==
    \A m \in Upcoming :
        /\ WithinOneWeek(m) => WeeksAhead(m) >= 0 /\ m \in Listed(WeeksAhead(m))
        /\ Ordered(m) /\ ~WithinOneWeek(m) => \A a \in (-1)..MaxOffset : m \notin Listed(a)

\* A reader who follows the links to the next week is not shown a menu again,
\* even if the current week becomes another one on the way, unless the menu was
\* edited meanwhile or its times were entered in the wrong order.
ShownOnce == \A m \in walk.again \ walk.edited : ~Ordered(m)

\* The reader misses no menu of the weeks walked through that is still to come,
\* as long as the current week stays the same.  When it does not, the link to
\* the next week leads one week further than the page says.
NoneMissed ==
    page # NoPage /\ ~walk.turned =>
        \A m \in Upcoming \ walk.edited :
            /\ WithinOneWeek(m)
            /\ Monday(LocalDate(menus[m].start)) \in walk.first..walk.last
            => m \in walk.seen

\* What the description of the parameter says: offset 0 is the current week, so a
\* menu of today is never on another page.
ZeroIsCurrentWeek ==
    \A m \in Upcoming :
        WithinOneWeek(m) /\ LocalDate(menus[m].start) = LocalDate(now) => m \in Listed(0)
=============================================================================
