------------------------ MODULE WeeklyMenusTheorems ------------------------
(***************************************************************************)
(* The pages share no menu, and no upcoming menu of one week is missing,   *)
(* for any menus, any clock and any time zone ahead of UTC by less than a  *)
(* day: arithmetic on dates, from the type invariant alone.  A reader who  *)
(* follows the links sees no menu twice and misses none, however the clock *)
(* and the menus move meanwhile.                                           *)
(***************************************************************************)
EXTENDS WeeklyMenus, TLAPS

\* The rows a menu may have in its table.
LEMMA MenuTimes ==
    ASSUME TypeOK, NEW m \in Menus, menus[m] # Absent
    PROVE  menus[m].start \in Int /\ menus[m].end \in Int
<1>1. menus[m] \in Times
  BY DEF TypeOK
<1>2. \A t \in Times : t \in [start : Int, end : Int]
  BY TimesAssumption
<1> QED BY <1>1, <1>2

\* The clock counts hours.
LEMMA NowIsInt == ASSUME TypeOK PROVE now \in Int
BY MomentsAssumption DEF TypeOK

\* Dates do not go back.
LEMMA DatesGrow ==
    ASSUME NEW a \in Int, NEW b \in Int, a <= b
    PROVE  LocalDate(a) \in Int /\ LocalDate(b) \in Int /\ LocalDate(a) <= LocalDate(b)
BY ZoneAssumption DEF LocalDate, Date

\* The local date is never behind the date in UTC.
LEMMA LocalIsAhead ==
    ASSUME NEW hour \in Int
    PROVE  Date(hour) \in Int /\ Date(hour) <= LocalDate(hour)
BY ZoneAssumption DEF LocalDate, Date

\* A week begins on a multiple of seven, and holds its date.
LEMMA MondayOfDate ==
    ASSUME NEW date \in Int
    PROVE  /\ Monday(date) \in Int /\ Monday(date) % 7 = 0
           /\ Monday(date) <= date /\ date <= Monday(date) + 6
BY DEF Monday

-----------------------------------------------------------------------------
LEMMA TypeStep == TypeOK /\ [Next]_vars => TypeOK'
<1> SUFFICES ASSUME TypeOK, [Next]_vars PROVE TypeOK'
  OBVIOUS
<1> USE DEF TypeOK
<1>1. \A offset \in Int : StartOfWeek(now, offset) \in Int /\ Listed(offset) \subseteq Menus
  BY NowIsInt DEF StartOfWeek, Date, Monday, Listed, Upcoming
<1>2. ASSUME NEW offset \in Int, Start(offset) PROVE TypeOK'
  BY <1>1, <1>2 DEF Start, Read, NoWalk
<1>3. CASE OpenCurrentWeek
  BY <1>2, <1>3 DEF OpenCurrentWeek
<1>4. CASE OpenPreviousWeek
  BY <1>2, <1>4 DEF OpenPreviousWeek
<1>5. CASE OpenNextWeek
  <2>1. /\ NextOffset \in Int /\ StartOfWeek(now, NextOffset) \in Int
        /\ Listed(NextOffset) \subseteq Menus
    BY <1>1 DEF NextOffset
  <2>2. walk' \in [first : Int, last : Int, seen : SUBSET Menus, again : SUBSET Menus,
                   edited : SUBSET Menus, turned : BOOLEAN]
    BY <1>5, <2>1 DEF OpenNextWeek
  <2> QED BY <1>5, <2>1, <2>2 DEF OpenNextWeek, Read
<1>6. ASSUME NEW m \in Menus, SaveMenu(m) \/ DeleteMenu(m) PROVE TypeOK'
  BY <1>6, BoundsAssumption DEF SaveMenu, DeleteMenu, Edit
<1>7. CASE TimePasses
  BY <1>7 DEF TimePasses
<1>8. CASE UNCHANGED vars
  BY <1>8 DEF vars
<1> QED
  BY <1>3, <1>4, <1>5, <1>6, <1>7, <1>8 DEF Next

\* The columns hold times, whoever reads and edits.
THEOREM TypeCorrect == Spec => []TypeOK
<1>1. Init => TypeOK
  BY BoundsAssumption DEF Init, TypeOK, NoPage, NoWalk
<1> QED
  BY <1>1, TypeStep, PTL DEF Spec

-----------------------------------------------------------------------------
(* No two pages share a menu.                                              *)

\* The week after the one a menu ends in begins after the menu does.
LEMMA PagesApart ==
    ASSUME NEW t \in [start : Int, end : Int], t.start <= t.end, NEW hour \in Int,
           NEW a \in Int, NEW b \in Int, OnPage(t, hour, a), OnPage(t, hour, b)
    PROVE  b <= a
<1> DEFINE W == Monday(Date(hour))
<1>1. W \in Int
  BY LocalIsAhead, MondayOfDate
<1>2. LocalDate(t.start) >= W + 7 * b
  BY DEF OnPage, StartOfWeek
<1>3. LocalDate(t.end) <= W + 7 * a + 6
  BY DEF OnPage, EndOfWeek, StartOfWeek
<1>4. /\ LocalDate(t.start) \in Int /\ LocalDate(t.end) \in Int
      /\ LocalDate(t.start) <= LocalDate(t.end)
  BY DatesGrow
<1> HIDE DEF W
<1> QED
  BY <1>1, <1>2, <1>3, <1>4

\* Whatever is edited and however late it is, the pages share no menu whose
\* times are in order (paginators.py:19).
THEOREM PagesShareNone == Spec => []OnOnePage
<1>1. TypeOK => OnOnePage
  <2> SUFFICES ASSUME TypeOK, NEW m \in Menus, Ordered(m),
                      NEW a \in (-1)..MaxOffset, NEW b \in (-1)..MaxOffset,
                      OnPage(menus[m], now, a), OnPage(menus[m], now, b)
               PROVE  a = b
    BY DEF OnOnePage
  <2>1. menus[m] \in [start : Int, end : Int] /\ menus[m].start <= menus[m].end
    BY TimesAssumption DEF TypeOK, Ordered
  <2>2. a \in Int /\ b \in Int /\ now \in Int
    BY BoundsAssumption, NowIsInt
  <2>3. b <= a
    BY <2>1, <2>2, PagesApart
  <2>4. a <= b
    BY <2>1, <2>2, PagesApart
  <2> QED BY <2>2, <2>3, <2>4
<1> QED
  BY <1>1, TypeCorrect, PTL

-----------------------------------------------------------------------------
(* No upcoming menu of one week is missing.                                *)

\* Multiples of seven are seven apart.
LEMMA WholeWeeks ==
    ASSUME NEW a \in Int, NEW b \in Int, a % 7 = 0, b % 7 = 0
    PROVE  (a - b) \div 7 \in Int /\ a = b + 7 * ((a - b) \div 7)
OBVIOUS

\* The current week in UTC is not ahead of the week of a later local date.
LEMMA WeekNotAhead ==
    ASSUME NEW c \in Int, NEW d \in Int, c <= d
    PROVE  Monday(c) <= Monday(d)
BY DEF Monday

\* An upcoming menu within one week is on the page of that week, and its offset
\* is not negative, although the two weeks are counted in different time zones.
LEMMA OnItsPage ==
    ASSUME TypeOK, NEW m \in Upcoming, WithinOneWeek(m)
    PROVE  WeeksAhead(m) \in Nat /\ m \in Listed(WeeksAhead(m))
<1> DEFINE s == LocalDate(menus[m].start)
           e == LocalDate(menus[m].end)
           k == WeeksAhead(m)
<1>1. /\ m \in Menus /\ menus[m].start \in Int /\ menus[m].end \in Int
      /\ now \in Int /\ now <= menus[m].start /\ menus[m].start <= menus[m].end
  BY MenuTimes, NowIsInt DEF Upcoming, WithinOneWeek, Ordered
<1>2. /\ Date(now) \in Int /\ s \in Int /\ e \in Int
      /\ Date(now) <= s
  BY <1>1, LocalIsAhead, DatesGrow
<1>3. e <= Monday(s) + 6
  BY DEF WithinOneWeek
<1>4. /\ Monday(s) \in Int /\ Monday(s) % 7 = 0 /\ Monday(s) <= s
      /\ Monday(Date(now)) \in Int /\ Monday(Date(now)) % 7 = 0
      /\ Monday(Date(now)) <= Monday(s)
  BY <1>2, MondayOfDate, WeekNotAhead
<1>5. StartOfWeek(now, 0) = Monday(Date(now))
  BY <1>4 DEF StartOfWeek
<1>6. k = (Monday(s) - Monday(Date(now))) \div 7
  BY <1>5 DEF WeeksAhead
<1>7. k \in Int /\ Monday(s) = Monday(Date(now)) + 7 * k
  <2> DEFINE a == Monday(s)
             b == Monday(Date(now))
  <2>1. a \in Int /\ b \in Int /\ a % 7 = 0 /\ b % 7 = 0 /\ k = (a - b) \div 7
    BY <1>4, <1>6
  <2> HIDE DEF a, b, k
  <2>2. k \in Int /\ a = b + 7 * k
    BY <2>1, WholeWeeks
  <2> QED BY <2>2 DEF a, b
<1>8. k \in Nat
  BY <1>4, <1>7
<1>9. StartOfWeek(now, k) = Monday(s) /\ EndOfWeek(now, k) = Monday(s) + 6
  BY <1>7 DEF StartOfWeek, EndOfWeek
<1>10. OnPage(menus[m], now, k)
  BY <1>2, <1>3, <1>4, <1>9 DEF OnPage
<1> QED
  BY <1>8, <1>10 DEF Listed

\* A menu that crosses from a Sunday to a Monday is on no page.
LEMMA CrossingIsNowhere ==
    ASSUME TypeOK, NEW m \in Menus, Ordered(m), NEW a \in Int, OnPage(menus[m], now, a)
    PROVE  WithinOneWeek(m)
<1> DEFINE s == LocalDate(menus[m].start)
           e == LocalDate(menus[m].end)
           W == StartOfWeek(now, a)
<1>1. menus[m].start \in Int /\ menus[m].end \in Int /\ now \in Int
  BY MenuTimes, NowIsInt DEF Ordered
<1>2. s \in Int /\ e \in Int /\ s <= e
  BY <1>1, DatesGrow DEF Ordered
<1>3. Date(now) \in Int
  BY <1>1, LocalIsAhead
<1>4. W \in Int /\ W % 7 = 0
  BY <1>3, MondayOfDate DEF StartOfWeek
<1>5. s >= W /\ e <= W + 6
  BY DEF OnPage, EndOfWeek
<1>6. Monday(s) = W
  <2> HIDE DEF s, e, W
  <2> QED BY <1>2, <1>4, <1>5 DEF Monday
<1> QED
  BY <1>2, <1>4, <1>5, <1>6 DEF WithinOneWeek

\* Every upcoming menu is on the page of its week or, if it crosses into another
\* week, on none (paginators.py:11-22, views.py:86).
THEOREM UpcomingFound == Spec => []UpcomingIsOnPage
<1>1. TypeOK => UpcomingIsOnPage
  <2> SUFFICES ASSUME TypeOK, NEW m \in Upcoming
               PROVE  /\ WithinOneWeek(m) => WeeksAhead(m) >= 0 /\ m \in Listed(WeeksAhead(m))
                      /\ Ordered(m) /\ ~WithinOneWeek(m)
                           => \A a \in (-1)..MaxOffset : m \notin Listed(a)
    BY DEF UpcomingIsOnPage
  <2>1. WithinOneWeek(m) => WeeksAhead(m) >= 0 /\ m \in Listed(WeeksAhead(m))
    BY OnItsPage
  <2>2. ASSUME Ordered(m), NEW a \in (-1)..MaxOffset, m \in Listed(a)
        PROVE  WithinOneWeek(m)
    BY <2>2, CrossingIsNowhere, BoundsAssumption DEF Listed, Upcoming
  <2> QED BY <2>1, <2>2
<1> QED
  BY <1>1, TypeCorrect, PTL

-----------------------------------------------------------------------------
(* A walk through the weeks.                                               *)

\* There is a walk once a page was read.
Walking == page \in Nat \cup {NoPage} /\ (page = NoPage => walk = NoWalk)

\* The weeks walked through are behind the page the next link leads to; as long
\* as the current week stays the same, the last of them is the page itself.
InStep ==
    page # NoPage => /\ walk.last <= StartOfWeek(now, page)
                     /\ ~walk.turned => walk.last = StartOfWeek(now, page)

\* What was shown is over by the end of the last week walked through.
ShownIsBehind ==
    \A m \in walk.seen \ walk.edited : Ordered(m) => LocalDate(menus[m].end) <= walk.last + 6

WalkInv == TypeOK /\ Walking /\ InStep /\ ShownIsBehind /\ ShownOnce /\ NoneMissed

\* The page of the next week begins seven days later, and no page goes back in time.
LEMMA PagesMove ==
    ASSUME NEW hour \in Int, NEW later \in Int, hour <= later, NEW offset \in Int
    PROVE  /\ StartOfWeek(hour, offset) \in Int /\ StartOfWeek(hour, offset) % 7 = 0
           /\ StartOfWeek(hour, offset + 1) = StartOfWeek(hour, offset) + 7
           /\ StartOfWeek(hour, offset) <= StartOfWeek(later, offset)
           /\ StartOfWeek(hour, 0) = StartOfWeek(later, 0) =>
                  StartOfWeek(hour, offset) = StartOfWeek(later, offset)
<1>1. Date(hour) \in Int /\ Date(later) \in Int /\ Date(hour) <= Date(later)
  BY DEF Date
<1>2. /\ Monday(Date(hour)) \in Int /\ Monday(Date(hour)) % 7 = 0
      /\ Monday(Date(later)) \in Int /\ Monday(Date(hour)) <= Monday(Date(later))
  BY <1>1, MondayOfDate, WeekNotAhead
<1> DEFINE a == Monday(Date(hour))
           b == Monday(Date(later))
<1>3. /\ StartOfWeek(hour, offset) = a + 7 * offset
      /\ StartOfWeek(hour, offset + 1) = a + 7 * (offset + 1)
      /\ StartOfWeek(later, offset) = b + 7 * offset
      /\ StartOfWeek(hour, 0) = a + 7 * 0 /\ StartOfWeek(later, 0) = b + 7 * 0
  BY DEF StartOfWeek
<1>4. a \in Int /\ b \in Int /\ a % 7 = 0 /\ a <= b
  BY <1>2
<1> HIDE DEF a, b
<1>5. (a + 7 * offset) % 7 = 0
  BY <1>4
<1> QED BY <1>3, <1>4, <1>5

\* An upcoming menu within the week of a page is listed on it.
LEMMA ListedInItsWeek ==
    ASSUME TypeOK, NEW m \in Upcoming, WithinOneWeek(m), NEW offset \in Int,
           Monday(LocalDate(menus[m].start)) = StartOfWeek(now, offset)
    PROVE  m \in Listed(offset)
<1> DEFINE s == LocalDate(menus[m].start)
<1>1. /\ m \in Menus /\ menus[m].start \in Int /\ menus[m].end \in Int
      /\ menus[m].start <= menus[m].end
  BY MenuTimes DEF Upcoming, WithinOneWeek, Ordered
<1>2. s \in Int /\ LocalDate(menus[m].end) \in Int
  BY <1>1, DatesGrow
<1>3. LocalDate(menus[m].end) <= Monday(s) + 6
  BY DEF WithinOneWeek
<1>4. Monday(s) <= s /\ Monday(s) \in Int
  BY <1>2, MondayOfDate
<1>5. StartOfWeek(now, offset) = Monday(s) /\ EndOfWeek(now, offset) = Monday(s) + 6
  BY DEF EndOfWeek
<1> HIDE DEF s
<1> QED BY <1>2, <1>3, <1>4, <1>5 DEF Listed, OnPage, s

\* What a page shows is over by the end of its week, if its times are in order.
LEMMA ListedEnds ==
    ASSUME TypeOK, NEW offset \in Int, NEW m \in Listed(offset)
    PROVE  /\ m \in Menus
           /\ LocalDate(menus[m].end) <= StartOfWeek(now, offset) + 6
           /\ StartOfWeek(now, offset) <= LocalDate(menus[m].start)
           /\ menus[m].start \in Int /\ menus[m].end \in Int
BY MenuTimes DEF Listed, Upcoming, OnPage, EndOfWeek

\* A walk that begins has shown the menus of its week.
LEMMA WalkBegins ==
    ASSUME WalkInv, TypeOK', NEW offset \in Nat, Start(offset)
    PROVE  WalkInv'
<1> USE DEF WalkInv
<1>1. /\ page' = offset /\ now' = now /\ menus' = menus
      /\ walk'.first = StartOfWeek(now, offset) /\ walk'.last = StartOfWeek(now, offset)
      /\ walk'.seen = Listed(offset) /\ walk'.again = {} /\ walk'.edited = {}
      /\ walk'.turned = FALSE
  BY DEF Start, Read, NoWalk
<1>2. StartOfWeek(now, offset) \in Int
  BY NowIsInt, PagesMove
<1>3. Walking' /\ InStep'
  <2>1. offset # NoPage
    BY DEF NoPage
  <2>2. InStep'
    BY <1>1, <1>2 DEF InStep, StartOfWeek
  <2> QED BY <1>1, <2>1, <2>2 DEF Walking
<1>4. ShownIsBehind'
  BY <1>1, ListedEnds DEF ShownIsBehind, Ordered
<1>5. ShownOnce'
  BY <1>1 DEF ShownOnce
<1>6. NoneMissed'
  <2> SUFFICES ASSUME NEW m \in Upcoming, WithinOneWeek(m),
                      Monday(LocalDate(menus[m].start)) \in walk'.first..walk'.last
               PROVE  m \in Listed(offset)
    BY <1>1 DEF NoneMissed, Upcoming, WithinOneWeek, Ordered
  <2>1. Monday(LocalDate(menus[m].start)) = StartOfWeek(now, offset)
    BY <1>1, <1>2
  <2> QED BY <2>1, ListedInItsWeek
<1> QED BY <1>3, <1>4, <1>5, <1>6

\* The next page shows no menu again, and skips none.
LEMMA WalkGoesOn ==
    ASSUME WalkInv, TypeOK', OpenNextWeek
    PROVE  WalkInv'
<1> USE DEF WalkInv
<1>1. /\ page # NoPage /\ page \in Nat /\ page' = page + 1 /\ now' = now /\ menus' = menus
      /\ walk'.first = walk.first /\ walk'.last = StartOfWeek(now, page + 1)
      /\ walk'.seen = walk.seen \cup Listed(page + 1)
      /\ walk'.again = walk.again \cup (walk.seen \cap Listed(page + 1))
      /\ walk'.edited = walk.edited /\ walk'.turned = walk.turned
  BY DEF OpenNextWeek, Read, NextOffset, TypeOK, Walking
<1>2. /\ StartOfWeek(now, page) \in Int /\ StartOfWeek(now, page) % 7 = 0
      /\ StartOfWeek(now, page + 1) = StartOfWeek(now, page) + 7
      /\ StartOfWeek(now, page + 1) \in Int
  BY <1>1, NowIsInt, PagesMove
<1>3. /\ walk.last \in Int /\ walk.first \in Int /\ walk.last <= StartOfWeek(now, page)
      /\ ~walk.turned => walk.last = StartOfWeek(now, page)
  BY <1>1 DEF TypeOK, InStep
<1>4. Walking' /\ InStep'
  <2>1. page + 1 # NoPage
    BY <1>1 DEF NoPage
  <2>2. InStep'
    BY <1>1, <1>2 DEF InStep, StartOfWeek
  <2> QED BY <1>1, <2>1, <2>2 DEF Walking
<1>5. ShownIsBehind'
  <2> SUFFICES ASSUME NEW m \in (walk.seen \cup Listed(page + 1)) \ walk.edited, Ordered(m)
               PROVE  LocalDate(menus[m].end) <= StartOfWeek(now, page + 1) + 6
    BY <1>1 DEF ShownIsBehind, Ordered
  <2>1. CASE m \in Listed(page + 1)
    BY <1>1, <2>1, ListedEnds
  <2>2. CASE m \in walk.seen
    <3>1. LocalDate(menus[m].end) <= walk.last + 6
      BY <2>2 DEF ShownIsBehind
    <3>2. LocalDate(menus[m].end) \in Int
      <4>1. m \in Menus /\ menus[m] # Absent
        BY <2>2 DEF TypeOK, Ordered
      <4> QED BY <4>1, MenuTimes, DatesGrow
    <3> QED BY <1>2, <1>3, <3>1, <3>2
  <2> QED BY <2>1, <2>2
<1>6. ShownOnce'
  <2> SUFFICES ASSUME NEW m \in (walk.seen \cap Listed(page + 1)) \ walk.edited, Ordered(m)
               PROVE  FALSE
    BY <1>1 DEF ShownOnce, Ordered
  <2>1. LocalDate(menus[m].end) <= walk.last + 6
    BY DEF ShownIsBehind
  <2>2. /\ StartOfWeek(now, page + 1) <= LocalDate(menus[m].start)
        /\ menus[m].start \in Int /\ menus[m].end \in Int
    BY <1>1, ListedEnds
  <2>3. /\ LocalDate(menus[m].start) \in Int /\ LocalDate(menus[m].end) \in Int
        /\ LocalDate(menus[m].start) <= LocalDate(menus[m].end)
    BY <2>2, DatesGrow DEF Ordered
  <2> QED BY <1>2, <1>3, <2>1, <2>2, <2>3
<1>7. NoneMissed'
  <2> SUFFICES ASSUME ~walk.turned, NEW m \in Upcoming \ walk.edited, WithinOneWeek(m),
                      Monday(LocalDate(menus[m].start)) \in walk'.first..walk'.last
               PROVE  m \in walk.seen \cup Listed(page + 1)
    BY <1>1 DEF NoneMissed, Upcoming, WithinOneWeek, Ordered
  <2> DEFINE week == Monday(LocalDate(menus[m].start))
  <2>1. week \in Int /\ week % 7 = 0
    <3>1. m \in Menus /\ menus[m] # Absent
      BY DEF Upcoming
    <3> QED BY <3>1, MenuTimes, DatesGrow, MondayOfDate
  <2>2. CASE week <= walk.last
    <3>1. week \in walk.first..walk.last
      BY <1>1, <1>3, <2>1, <2>2
    <3> QED BY <1>1, <3>1 DEF NoneMissed
  <2>3. CASE ~(week <= walk.last)
    <3>1. week = StartOfWeek(now, page + 1)
      <4>1. week <= StartOfWeek(now, page + 1)
        BY <1>1, <2>1
      <4> HIDE DEF week
      <4> QED BY <1>2, <1>3, <2>1, <2>3, <4>1
    <3> QED BY <1>1, <3>1, ListedInItsWeek
  <2> QED BY <2>2, <2>3
<1> QED BY <1>4, <1>5, <1>6, <1>7

\* Edits and the clock leave what is behind where it is, as long as the menus that
\* were not edited stay what they were and none of them becomes upcoming.
LEMMA WalkWaits ==
    ASSUME WalkInv, TypeOK', now <= now',
           page' = page, walk' # walk => page # NoPage,
           walk'.first = walk.first, walk'.last = walk.last, walk'.seen = walk.seen,
           walk'.again = walk.again, walk.edited \subseteq walk'.edited,
           walk.turned => walk'.turned,
           page # NoPage /\ StartOfWeek(now', 0) # StartOfWeek(now, 0) => walk'.turned,
           page # NoPage => \A m \in Menus \ walk'.edited : menus'[m] = menus[m]
    PROVE  WalkInv'
<1> USE DEF WalkInv
<1>1. Walking'
  BY DEF Walking
<1>2. CASE page = NoPage
  <2>1. walk' = NoWalk
    BY <1>2 DEF Walking
  <2> QED BY <1>1, <1>2, <2>1 DEF InStep, ShownIsBehind, ShownOnce, NoneMissed, NoWalk
<1>3. CASE page # NoPage
  <2>1. /\ \A m \in Menus \ walk'.edited : menus'[m] = menus[m]
        /\ page \in Nat /\ walk.last \in Int
    BY <1>3 DEF Walking, TypeOK
  <2>2. now \in Int /\ now' \in Int
    BY MomentsAssumption DEF TypeOK
  <2>3. InStep'
    <3>1. /\ StartOfWeek(now, page) \in Int /\ StartOfWeek(now', page) \in Int
          /\ StartOfWeek(now, page) <= StartOfWeek(now', page)
          /\ StartOfWeek(now, 0) = StartOfWeek(now', 0) =>
                 StartOfWeek(now, page) = StartOfWeek(now', page)
      <4>1. page \in Int
        BY <2>1
      <4>2. StartOfWeek(now', page) \in Int
        BY <2>2, <4>1, PagesMove
      <4>3. \A hour, later \in Int : hour <= later =>
               /\ StartOfWeek(hour, page) \in Int
               /\ StartOfWeek(hour, page) <= StartOfWeek(later, page)
               /\ StartOfWeek(hour, 0) = StartOfWeek(later, 0) =>
                      StartOfWeek(hour, page) = StartOfWeek(later, page)
        BY <4>1, PagesMove, Zenon
      <4> QED BY <2>2, <4>2, <4>3
    <3>2. StartOfWeek(now, page)' = StartOfWeek(now', page)
      BY DEF StartOfWeek, Date, Monday
    <3> QED BY <1>3, <2>1, <3>1, <3>2 DEF InStep
  <2>4. \A m \in walk.seen : m \in Menus
    BY DEF TypeOK
  <2>5. \A m \in walk.again : m \in Menus
    BY DEF TypeOK
  <2>6. ShownIsBehind'
    BY <2>1, <2>4 DEF ShownIsBehind, Ordered, LocalDate, Date
  <2>7. ShownOnce'
    BY <2>1, <2>5 DEF ShownOnce, Ordered
  <2>8. NoneMissed'
    <3> SUFFICES ASSUME ~walk'.turned, NEW m \in Menus \ walk'.edited,
                        menus'[m] # Absent, menus'[m].start >= now', WithinOneWeek(m)',
                        Monday(LocalDate(menus'[m].start)) \in walk'.first..walk'.last
                 PROVE  m \in walk'.seen
      BY DEF NoneMissed, Upcoming, Monday, LocalDate, Date
    <3>1. menus'[m] = menus[m] /\ m \notin walk.edited /\ ~walk.turned
      BY <2>1
    <3>2. menus[m].start \in Int
      BY <3>1, MenuTimes
    <3>3. m \in Upcoming
      BY <2>2, <3>1, <3>2 DEF Upcoming
    <3>4. WithinOneWeek(m)
      BY <3>1 DEF WithinOneWeek, Ordered, Monday, LocalDate, Date
    <3> QED BY <1>3, <3>1, <3>3, <3>4 DEF NoneMissed
  <2> QED BY <1>1, <2>3, <2>6, <2>7, <2>8
<1> QED BY <1>2, <1>3

\* Every step keeps the walk consistent.
LEMMA WalkStep == WalkInv /\ [Next]_vars => WalkInv'
<1> SUFFICES ASSUME WalkInv, [Next]_vars PROVE WalkInv'
  OBVIOUS
<1>1. TypeOK /\ TypeOK'
  BY TypeStep DEF WalkInv
<1>2. now \in Int /\ now' \in Int
  BY <1>1, MomentsAssumption DEF TypeOK
<1>3. CASE OpenCurrentWeek
  BY <1>1, <1>3, WalkBegins DEF OpenCurrentWeek
<1>4. CASE OpenPreviousWeek
  <2>1. page - 1 \in Nat
    BY <1>4 DEF OpenPreviousWeek, WalkInv, Walking, NoPage
  <2> QED BY <1>1, <1>4, <2>1, WalkBegins DEF OpenPreviousWeek
<1>5. CASE OpenNextWeek
  BY <1>1, <1>5, WalkGoesOn
<1>6. ASSUME NEW m \in Menus, NEW t, Edit(m, t) PROVE WalkInv'
  <2>1. now' = now /\ page' = page /\ menus' = [menus EXCEPT ![m] = t]
    BY <1>6 DEF Edit
  <2>2. CASE page = NoPage
    <3>1. walk' = walk
      BY <1>6, <2>2 DEF Edit
    <3> QED BY <1>1, <1>2, <2>1, <2>2, <3>1, WalkWaits
  <2>3. CASE page # NoPage
    <3>1. walk' = [walk EXCEPT !.edited = walk.edited \cup {m}]
      BY <1>6, <2>3 DEF Edit
    <3>2. /\ walk'.first = walk.first /\ walk'.last = walk.last /\ walk'.seen = walk.seen
          /\ walk'.again = walk.again /\ walk'.edited = walk.edited \cup {m}
          /\ walk'.turned = walk.turned
      BY <1>1, <3>1 DEF TypeOK
    <3>3. \A x \in Menus \ walk'.edited : menus'[x] = menus[x]
      BY <1>1, <2>1, <3>2 DEF TypeOK
    <3>4. StartOfWeek(now', 0) = StartOfWeek(now, 0)
      BY <2>1
    <3> QED BY <1>1, <1>2, <2>1, <2>3, <3>2, <3>3, <3>4, WalkWaits
  <2> QED BY <2>2, <2>3
<1>7. ASSUME NEW m \in Menus, SaveMenu(m) \/ DeleteMenu(m) PROVE WalkInv'
  BY <1>6, <1>7 DEF SaveMenu, DeleteMenu
<1>8. CASE TimePasses
  <2>1. PICK hour \in Moments :
           /\ hour > now /\ now' = hour
           /\ walk' = IF page # NoPage /\ StartOfWeek(hour, 0) # StartOfWeek(now, 0)
                      THEN [walk EXCEPT !.turned = TRUE] ELSE walk
    BY <1>8 DEF TimePasses
  <2>2. page' = page /\ menus' = menus
    BY <1>8 DEF TimePasses
  <2>3. now <= now'
    BY <1>2, <2>1
  <2>4. CASE page # NoPage /\ StartOfWeek(hour, 0) # StartOfWeek(now, 0)
    <3>1. walk' = [walk EXCEPT !.turned = TRUE]
      BY <2>1, <2>4
    <3>2. /\ walk'.first = walk.first /\ walk'.last = walk.last /\ walk'.seen = walk.seen
          /\ walk'.again = walk.again /\ walk'.edited = walk.edited /\ walk'.turned
      BY <1>1, <3>1 DEF TypeOK
    <3> QED BY <1>1, <2>2, <2>3, <2>4, <3>2, WalkWaits
  <2>5. CASE ~(page # NoPage /\ StartOfWeek(hour, 0) # StartOfWeek(now, 0))
    <3>1. walk' = walk
      BY <2>1, <2>5
    <3>2. page # NoPage => StartOfWeek(now', 0) = StartOfWeek(now, 0)
      BY <2>1, <2>5
    <3> QED BY <1>1, <2>2, <2>3, <3>1, <3>2, WalkWaits
  <2> QED BY <2>4, <2>5
<1>9. CASE UNCHANGED vars
  <2>1. UNCHANGED <<now, page, walk, menus>>
    BY <1>9 DEF vars
  <2>2. StartOfWeek(now', 0) = StartOfWeek(now, 0)
    BY <2>1
  <2> QED BY <1>1, <1>2, <2>1, <2>2, WalkWaits
<1> QED
  BY <1>3, <1>4, <1>5, <1>7, <1>8, <1>9 DEF Next

\* No walk, nothing missed.
LEMMA WalkInit == Init => WalkInv
<1> SUFFICES ASSUME Init PROVE WalkInv
  OBVIOUS
<1>1. TypeOK
  BY BoundsAssumption DEF Init, TypeOK, NoPage, NoWalk
<1>2. page = NoPage /\ walk = NoWalk
  BY DEF Init
<1> QED BY <1>1, <1>2
  DEF WalkInv, Walking, InStep, ShownIsBehind, ShownOnce, NoneMissed, NoWalk

\* For any menus, clock and time zone: a reader who follows the links to the next
\* week sees no menu twice, also when the current week changes on the way, unless
\* the menu was edited or its times are in the wrong order (paginators.py:11-38).
THEOREM MenusShownOnce == Spec => []ShownOnce
BY WalkInit, WalkStep, PTL DEF Spec, WalkInv

\* The reader misses no menu of the weeks walked through that is still to come, as
\* long as the current week stays the same.
THEOREM MenusNotMissed == Spec => []NoneMissed
BY WalkInit, WalkStep, PTL DEF Spec, WalkInv
=============================================================================
