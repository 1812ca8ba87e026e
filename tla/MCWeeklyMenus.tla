--------------------------- MODULE MCWeeklyMenus ---------------------------
(* WeeklyMenus over three weeks, at the hours around which pages change.   *)
EXTENDS WeeklyMenus, TLC

\* The hour of a day of a week; the local Monday begins at At(w, -1, 22).
At(week, day, hour) == 24 * (7 * week + day) + hour

From(start, end) == [start |-> start, end |-> end]

\* A breakfast in the first hours of a local Monday, one on the Sunday before,
\* a menu of a whole week, a night from Sunday to Monday, a lunch two weeks
\* ahead, and a menu that ends a week before it starts.
SomeTimes ==
    {From(At(0, 6, 23), At(1, 0, 1)), From(At(0, 6, 8), At(0, 6, 10)),
     From(At(1, 0, 5), At(1, 6, 20)), From(At(1, 6, 20), At(1, 6, 23)),
     From(At(2, 2, 10), At(2, 2, 12)), From(At(2, 1, 10), At(1, 1, 12))}

\* Around two local and two UTC midnights from Sunday to Monday, and midweek.
SomeMoments ==
    {At(0, 3, 12), At(0, 6, 9), At(0, 6, 21), At(0, 6, 23), At(1, 0, 0), At(1, 3, 12),
     At(1, 6, 22), At(2, 0, 0)}

Symmetry == Permutations(Menus)
=============================================================================
