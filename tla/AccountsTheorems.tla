-------------------------- MODULE AccountsTheorems --------------------------
(***************************************************************************)
(* Theorems about Accounts, for any number of requests, forms, passwords   *)
(* and faults: no change is lost to an outdated copy but in the ways the   *)
(* properties name, the role group follows the row, and every user gets a  *)
(* group and a balance.  Then theorems about RoleGroups, for any next      *)
(* release and any number of starts, faults and edits: what the groups     *)
(* allow is what the lists of the release give.                            *)
(***************************************************************************)
EXTENDS Accounts, RoleGroups, TLAPS

\* Whoever uses the admin page selects the group that goes with the role.
PageSelectsGroup == AdminPage => PicksGroups

\* A row that a user can sign in to.
Signable(u) == u.password # NoPassword \/ u.oauth

\* A request that is about to save all columns, or only those it changes, where
\* the row is u and the worst that was written is s.
Saving(q, u, s) ==
    /\ q.kind # "admin"
    /\ q.saves = AllColumns \/ q.saves = q.changes
    /\ q.changes \subseteq q.saves
    /\ q.saves = AllColumns => Signable(q.copy)
    /\ "oauth" \in q.saves => q.copy.oauth \/ q.saves = AllColumns
    /\ "password" \in q.saves => q.saves = AllColumns
    /\ "mfa_enabled" \in q.saves <=> "mfa_secret" \in q.saves
    /\ s # "switch" => (q.copy.mfa_enabled => q.copy.mfa_secret)
    /\ q.fresh => \A c \in (q.saves \cup GroupColumns) \ q.changes : q.copy[c] = u[c]

\* A form of the admin page, as it is shown ...
Form(q, u) ==
    /\ q.kind = "admin" /\ AdminPage
    /\ q.saves = AllColumns /\ q.changes \subseteq FormColumns
    /\ q.fresh => \A c \in FormColumns \ q.changes : q.copy[c] = u[c]
    /\ PicksGroups => q.selected = {GroupOf(q.copy)}

\* ... and as it came back.
Posted(q, u, s) ==
    /\ q.fresh => \A c \in AllColumns \ q.changes : q.copy[c] = u[c]
    /\ Signable(q.copy)
    /\ s # "switch" => (q.copy.mfa_enabled => q.copy.mfa_secret)

SameGroup(u, v) == u.role = v.role /\ u.is_verified = v.is_verified

\* Where a request may be, and what is true of its copy there.
InPlace(q, u, s) ==
    /\ q.at \in {"insert", "create"} => Signable(q.copy) /\ ~q.copy.mfa_enabled
    /\ q.at \in {"compare", "write"} => Saving(q, u, s)
    /\ q.at = "write" /\ q.fresh => (q.regroup <=> ~SameGroup(q.copy, u))
    /\ q.at \in {"form", "post"} => Form(q, u)
    /\ q.at = "post" => Posted(q, u, s)
    /\ q.at \in {"signal", "remove", "add"} /\ q.fresh => SameGroup(q.copy, u)
    /\ u = Absent => q.at \in {"idle", "insert", "create"}

AllInPlace == \A r \in Requests : InPlace(req[r], row, stale)

\* Somebody is on the way to set the groups.
Grouping == \E r \in Requests : req[r].at \in {"signal", "remove", "add"}

GroupsInOrder ==
    Exists /\ faults = 0 /\ stale = "nothing" =>
        /\ Grouping \/ groups = {GroupOf(row)}
        /\ \A r \in Requests : req[r].at = "add" /\ req[r].fresh => groups \subseteq {GroupOf(row)}

Coming ==
    Exists /\ faults = 0 =>
        /\ groups # {} \/ Grouping
        /\ balance \/ \E r \in Requests : req[r].at = "signal"

AccountsInv == TypeOK /\ AllInPlace /\ RowAsMeant /\ MfaHasSecret

-----------------------------------------------------------------------------
(* Rows as functions of their columns.                                     *)

\* The columns of a row.
LEMMA Columns ==
    AllColumns = {"password", "role", "is_verified", "mfa_enabled", "mfa_secret", "oauth"}
BY DEF AllColumns, NewUser

\* A function of the columns is a row if its values are those of a row.
LEMMA RowsAreFunctions ==
    ASSUME NEW f, f = [c \in AllColumns |-> f[c]],
           f["password"] \in Passwords \cup {NoPassword}, f["role"] \in Roles,
           f["is_verified"] \in BOOLEAN, f["mfa_enabled"] \in BOOLEAN,
           f["mfa_secret"] \in BOOLEAN, f["oauth"] \in BOOLEAN
    PROVE  f \in User
BY Columns DEF User

\* And the other way round.
LEMMA FunctionsAreRows ==
    ASSUME NEW u \in User
    PROVE  /\ u = [c \in AllColumns |-> u[c]]
           /\ u["password"] \in Passwords \cup {NoPassword} /\ u["role"] \in Roles
           /\ u["is_verified"] \in BOOLEAN /\ u["mfa_enabled"] \in BOOLEAN
           /\ u["mfa_secret"] \in BOOLEAN /\ u["oauth"] \in BOOLEAN
BY Columns DEF User

\* No row is no row.
LEMMA AbsentIsNone == Absent \notin User
BY DEF Absent, User

\* A user who was just thought of.
LEMMA NewUserRow ==
    /\ NewUser \in User /\ NewUser.password = NoPassword /\ NewUser.role = "customer"
    /\ NewUser.is_verified = FALSE /\ NewUser.mfa_enabled = FALSE
    /\ NewUser.mfa_secret = FALSE /\ NewUser.oauth = FALSE
BY DEF NewUser, User, Roles

\* What a request keeps of its copy is a row again.
LEMMA KeptRow ==
    ASSUME NEW u \in User, NEW C
    PROVE  /\ Keep(u, C) \in User
           /\ \A c \in AllColumns : Keep(u, C)[c] = IF c \in C THEN u[c] ELSE NewUser[c]
<1> DEFINE f == Keep(u, C)
<1>1. f = [c \in AllColumns |-> IF c \in C THEN u[c] ELSE NewUser[c]]
  BY DEF Keep
<1>2. f = [c \in AllColumns |-> f[c]]
      /\ \A c \in AllColumns : f[c] = IF c \in C THEN u[c] ELSE NewUser[c]
  BY <1>1
<1>3. \A c \in AllColumns : f[c] = u[c] \/ f[c] = NewUser[c]
  BY <1>2
<1> HIDE DEF f
<1>4. /\ f["password"] \in Passwords \cup {NoPassword} /\ f["role"] \in Roles
      /\ f["is_verified"] \in BOOLEAN /\ f["mfa_enabled"] \in BOOLEAN
      /\ f["mfa_secret"] \in BOOLEAN /\ f["oauth"] \in BOOLEAN
  <2>1. \A c \in AllColumns : f[c] \in {u[c], NewUser[c]}
    BY <1>3
  <2> QED BY <2>1, NewUserRow, FunctionsAreRows, Columns
<1>5. f \in User
  BY <1>2, <1>4, RowsAreFunctions
<1> QED BY <1>2, <1>5 DEF f

Kinds == {"none", "register", "verify", "password", "mfa", "oauth", "admin"}
Places == {"idle", "insert", "signal", "create", "compare", "write", "remove", "add", "form",
           "post"}

Request == [kind : Kinds, at : Places, copy : User, saves : SUBSET AllColumns,
            changes : SUBSET AllColumns, regroup : BOOLEAN, selected : SUBSET Groups,
            fresh : BOOLEAN]

\* The type invariant, with the requests named.
LEMMA TypeOfRequests ==
    TypeOK <=> /\ row \in User \cup {Absent} /\ meant \in User
               /\ Exists => Signable(row)
               /\ groups \subseteq Groups /\ balance \in BOOLEAN
               /\ req \in [Requests -> Request]
               /\ stale \in DOMAIN Worse /\ faults \in 0..MaxFaults
BY DEF TypeOK, Request, Kinds, Places, Signable

\* The same, after a step.
LEMMA TypeOfRequestsNext ==
    TypeOK' <=> /\ row' \in User \cup {Absent} /\ meant' \in User
                /\ Exists' => Signable(row')
                /\ groups' \subseteq Groups /\ balance' \in BOOLEAN
                /\ req' \in [Requests -> Request]
                /\ stale' \in DOMAIN Worse /\ faults' \in 0..MaxFaults
BY DEF TypeOK, Request, Kinds, Places, Signable

\* The row of a request.
LEMMA RequestOf ==
    ASSUME TypeOK, NEW r \in Requests
    PROVE  /\ req[r] \in Request
           /\ req[r].kind \in Kinds /\ req[r].at \in Places /\ req[r].copy \in User
           /\ req[r].saves \subseteq AllColumns /\ req[r].changes \subseteq AllColumns
           /\ req[r].regroup \in BOOLEAN /\ req[r].selected \subseteq Groups
           /\ req[r].fresh \in BOOLEAN
<1>1. req[r] \in Request
  BY TypeOfRequests
<1> QED BY <1>1 DEF Request

\* Nothing to do.
LEMMA IdleRequest ==
    /\ Idle \in Request /\ Idle.kind = "none" /\ Idle.at = "idle" /\ Idle.fresh = TRUE
    /\ InPlace(Idle, row, stale)
<1>1. Idle \in Request /\ Idle.kind = "none" /\ Idle.at = "idle" /\ Idle.fresh = TRUE
  BY NewUserRow DEF Idle, Request, Kinds, Places
<1> QED BY <1>1 DEF InPlace, Exists

\* One request goes on, the others keep theirs.
LEMMA NewRequest ==
    ASSUME TypeOK, NEW r \in Requests, NEW next \in Request, req' = [req EXCEPT ![r] = next]
    PROVE  /\ req' \in [Requests -> Request] /\ req'[r] = next
           /\ \A q \in Requests \ {r} : req'[q] = req[q]
BY TypeOfRequests

-----------------------------------------------------------------------------
(* What a step must keep.                                                  *)

Kept ==
    /\ TypeOK' /\ AllInPlace' /\ RowAsMeant' /\ MfaHasSecret'
    /\ PageSelectsGroup /\ GroupsInOrder => GroupsInOrder'
    /\ PageSelectsGroup /\ Coming => Coming'

Regrouping == {"signal", "remove", "add"}

\* A step that changes one request and nothing else.
LEMMA QuietStep ==
    ASSUME AccountsInv, NEW r \in Requests, NEW next \in Request, req' = [req EXCEPT ![r] = next],
           UNCHANGED <<row, groups, balance, meant, stale, faults>>, InPlace(next, row, stale),
           req[r].at \notin Regrouping, next.at \notin Regrouping
    PROVE  Kept
<1>1. /\ req' \in [Requests -> Request] /\ req'[r] = next
      /\ \A q \in Requests \ {r} : req'[q] = req[q]
  BY NewRequest DEF AccountsInv
<1>2. TypeOK'
  BY <1>1, TypeOfRequests, TypeOfRequestsNext DEF AccountsInv, Exists
<1>3. AllInPlace'
  <2>1. \A q \in Requests : InPlace(req'[q], row', stale')
    BY <1>1 DEF AccountsInv, AllInPlace
  <2> QED BY <2>1 DEF AllInPlace
<1>4. RowAsMeant' /\ MfaHasSecret'
  BY DEF AccountsInv, RowAsMeant, MfaHasSecret, Exists
<1>5. (Grouping <=> Grouping') /\ \A q \in Requests : req'[q].at = "signal" <=> req[q].at = "signal"
  BY <1>1 DEF Grouping, Regrouping
<1>6. \A q \in Requests : req'[q].at = "add" => q # r
  BY <1>1 DEF Regrouping
<1>7. GroupsInOrder => GroupsInOrder'
  BY <1>1, <1>5, <1>6 DEF GroupsInOrder, Exists
<1>8. Coming => Coming'
  BY <1>5 DEF Coming, Exists
<1> QED BY <1>2, <1>3, <1>4, <1>7, <1>8 DEF Kept

-----------------------------------------------------------------------------
(* Requests begin.                                                         *)

\* A request that begins with a copy.
Started(kind, place, copy, saves, changes) ==
    [Idle EXCEPT !.kind = kind, !.at = place,
                 !.copy = Keep(copy, saves \cup changes \cup GroupColumns),
                 !.saves = saves, !.changes = changes]

\* Its columns.
Starts(q, kind, place, copy, saves, changes) ==
    /\ q \in Request /\ q.kind = kind /\ q.at = place /\ q.saves = saves
    /\ q.changes = changes /\ q.regroup = FALSE /\ q.selected = {} /\ q.fresh = TRUE
    /\ q.copy \in User
    /\ \A c \in AllColumns :
          q.copy[c] = IF c \in saves \cup changes \cup GroupColumns THEN copy[c] ELSE NewUser[c]

LEMMA StartedRequest ==
    ASSUME NEW kind \in Kinds, NEW place \in Places, NEW copy \in User,
           NEW saves \in SUBSET AllColumns, NEW changes \in SUBSET AllColumns
    PROVE  Starts(Started(kind, place, copy, saves, changes), kind, place, copy, saves, changes)
<1>1. PICK q : q = Started(kind, place, copy, saves, changes)
  OBVIOUS
<1> DEFINE kept == Keep(copy, saves \cup changes \cup GroupColumns)
<1>2. /\ kept \in User
      /\ \A c \in AllColumns : kept[c] = IF c \in saves \cup changes \cup GroupColumns
                                         THEN copy[c] ELSE NewUser[c]
  BY KeptRow
<1>3. q = [Idle EXCEPT !.kind = kind, !.at = place, !.copy = kept,
                       !.saves = saves, !.changes = changes]
  BY <1>1 DEF Started
<1> HIDE DEF kept
<1>4. q = [kind |-> kind, at |-> place, copy |-> kept, saves |-> saves, changes |-> changes,
           regroup |-> FALSE, selected |-> {}, fresh |-> TRUE]
  BY <1>3 DEF Idle
<1> HIDE DEF Started
<1> QED BY <1>1, <1>2, <1>4 DEF Request, Starts

\* A request that begins in place.
LEMMA BeginKept ==
    ASSUME AccountsInv, NEW r \in Requests, NEW kind \in Kinds, NEW place \in Places \ Regrouping,
           NEW copy \in User, NEW saves \in SUBSET AllColumns, NEW changes \in SUBSET AllColumns,
           Begin(r, kind, place, copy, saves, changes),
           NEW q, q = Started(kind, place, copy, saves, changes), InPlace(q, row, stale)
    PROVE  Kept
<1>1. place \in Places
  OBVIOUS
<1>2. Starts(q, kind, place, copy, saves, changes)
  BY <1>1, StartedRequest
<1>3. q \in Request /\ q.at = place
  BY <1>2 DEF Starts
<1>4. /\ req' = [req EXCEPT ![r] = q] /\ req[r].at = "idle"
      /\ UNCHANGED <<row, groups, balance, meant, stale, faults>>
  BY DEF Begin, Started, At
<1> QED BY <1>3, <1>4, QuietStep DEF Regrouping

\* Registration, of a password or of a Microsoft account.
LEMMA NewAccountKept ==
    ASSUME AccountsInv, NEW r \in Requests, Register(r) \/ MicrosoftNew(r)
    PROVE  Kept
<1>1. ASSUME NEW kind \in {"register", "oauth"}, NEW place \in {"insert", "create"}, NEW u \in User,
             Begin(r, kind, place, u, AllColumns, AllColumns),
             Signable(u), u["mfa_enabled"] = FALSE
      PROVE  Kept
  <2>1. /\ kind \in Kinds /\ place \in Places \ Regrouping /\ place \in Places
        /\ AllColumns \in SUBSET AllColumns
    BY DEF Kinds, Places, Regrouping
  <2>2. PICK q : q = Started(kind, place, u, AllColumns, AllColumns)
    OBVIOUS
  <2>3. q.at = place /\ \A c \in AllColumns : q.copy[c] = u[c]
    <3>1. Starts(q, kind, place, u, AllColumns, AllColumns)
      BY <2>1, <2>2, StartedRequest
    <3> QED BY <3>1 DEF Starts
  <2>4. InPlace(q, row, stale)
    BY <1>1, <2>3, Columns DEF InPlace, Exists, Signable
  <2> QED BY <1>1, <2>1, <2>2, <2>4, BeginKept
<1>2. CASE Register(r)
  <2>1. PICK p \in Passwords :
           Begin(r, "register", "insert", [NewUser EXCEPT !.password = p], AllColumns, AllColumns)
    BY <1>2 DEF Register
  <2>2. PICK u : u = [NewUser EXCEPT !.password = p]
    OBVIOUS
  <2>3. u \in User /\ u["password"] = p /\ u["mfa_enabled"] = FALSE
    BY <2>2, NewUserRow DEF User
  <2>4. Signable(u)
    BY <2>3, PasswordsAssumption DEF Signable
  <2> QED BY <1>1, <2>1, <2>2, <2>3, <2>4
<1>3. CASE MicrosoftNew(r)
  <2>1. PICK u : u = [NewUser EXCEPT !.oauth = TRUE, !.is_verified = TRUE]
    OBVIOUS
  <2>2. u \in User /\ u["oauth"] = TRUE /\ u["mfa_enabled"] = FALSE
    BY <2>1, NewUserRow DEF User
  <2>3. Begin(r, "oauth", "create", u, AllColumns, AllColumns)
    BY <1>3, <2>1 DEF MicrosoftNew
  <2> QED BY <1>1, <2>2, <2>3 DEF Signable
<1> QED BY <1>2, <1>3

\* The row of a user who exists.
LEMMA RowOfUser ==
    ASSUME AccountsInv, Exists
    PROVE  /\ row \in User /\ Signable(row)
           /\ stale # "switch" => (row.mfa_enabled => row.mfa_secret)
BY TypeOfRequests DEF AccountsInv, Exists, MfaHasSecret

\* A request that read the row, changed one column of its copy and saves all.
LEMMA OneColumnKept ==
    ASSUME AccountsInv, NEW r \in Requests, VerifyEmail(r) \/ SetPassword(r)
    PROVE  Kept
<1>1. ASSUME NEW kind \in {"verify", "password"}, NEW u \in User, NEW col \in AllColumns, Exists,
             Begin(r, kind, "compare", u, AllColumns, {col}),
             \A c \in AllColumns \ {col} : u[c] = row[c],
             col \notin {"mfa_enabled", "mfa_secret"}, Signable(u)
      PROVE  Kept
  <2>1. /\ kind \in Kinds /\ "compare" \in Places \ Regrouping /\ "compare" \in Places
        /\ AllColumns \in SUBSET AllColumns /\ {col} \in SUBSET AllColumns
    BY DEF Kinds, Places, Regrouping
  <2>2. PICK q : q = Started(kind, "compare", u, AllColumns, {col})
    OBVIOUS
  <2>3. /\ q.kind = kind /\ q.at = "compare" /\ q.saves = AllColumns
        /\ q.changes = {col} /\ \A c \in AllColumns : q.copy[c] = u[c]
    <3>1. Starts(q, kind, "compare", u, AllColumns, {col})
      BY <2>1, <2>2, StartedRequest
    <3> QED BY <3>1 DEF Starts
  <2>4. /\ q.copy["password"] = u["password"] /\ q.copy["oauth"] = u["oauth"]
        /\ q.copy["mfa_enabled"] = row["mfa_enabled"]
        /\ q.copy["mfa_secret"] = row["mfa_secret"]
    BY <1>1, <2>3, Columns
  <2>5. Saving(q, row, stale)
    <3>1. "mfa_enabled" \in AllColumns /\ "mfa_secret" \in AllColumns
      BY Columns
    <3>2. GroupColumns \subseteq AllColumns
      BY Columns DEF GroupColumns
    <3> QED BY <1>1, <2>3, <2>4, <3>1, <3>2, RowOfUser DEF Saving, Signable
  <2>6. InPlace(q, row, stale)
    BY <1>1, <2>3, <2>5 DEF InPlace, Exists
  <2> QED BY <1>1, <2>1, <2>2, <2>6, BeginKept
<1>2. CASE VerifyEmail(r)
  <2>1. PICK u : u = [row EXCEPT !.is_verified = TRUE]
    OBVIOUS
  <2>2. Exists /\ Begin(r, "verify", "compare", u, AllColumns, {"is_verified"})
    BY <1>2, <2>1 DEF VerifyEmail
  <2>3. row \in User /\ Signable(row)
    BY <2>2, RowOfUser
  <2>4. u \in User /\ Signable(u) /\ \A c \in AllColumns \ {"is_verified"} : u[c] = row[c]
    BY <2>1, <2>3, Columns DEF User, Signable
  <2> QED BY <1>1, <2>2, <2>4, Columns
<1>3. CASE SetPassword(r)
  <2>1. PICK p \in Passwords :
           Begin(r, "password", "compare", [row EXCEPT !.password = p], AllColumns, {"password"})
    BY <1>3 DEF SetPassword
  <2>2. PICK u : u = [row EXCEPT !.password = p]
    OBVIOUS
  <2>3. Exists /\ Begin(r, "password", "compare", u, AllColumns, {"password"})
    BY <1>3, <2>1, <2>2 DEF SetPassword
  <2>4. row \in User /\ Signable(row)
    BY <2>3, RowOfUser
  <2>5. u \in User /\ Signable(u) /\ \A c \in AllColumns \ {"password"} : u[c] = row[c]
    BY <2>2, <2>4, Columns, PasswordsAssumption DEF User, Signable
  <2> QED BY <1>1, <2>3, <2>5, Columns
<1> QED BY <1>2, <1>3

\* The columns of MFA alone, saved together.
LEMMA SwitchKept ==
    ASSUME AccountsInv, NEW r \in Requests, SwitchMfa(r)
    PROVE  Kept
<1>1. PICK on \in BOOLEAN :
         Begin(r, "mfa", "compare", [row EXCEPT !.mfa_enabled = on, !.mfa_secret = on],
               MfaColumns, MfaColumns)
  BY DEF SwitchMfa
<1>2. PICK u : u = [row EXCEPT !.mfa_enabled = on, !.mfa_secret = on]
  OBVIOUS
<1>3. Exists /\ row \in User
  BY RowOfUser DEF SwitchMfa
<1>4. /\ u \in User /\ u["mfa_enabled"] = on /\ u["mfa_secret"] = on
      /\ \A c \in GroupColumns : u[c] = row[c]
  BY <1>2, <1>3 DEF User, GroupColumns
<1>5. /\ "mfa" \in Kinds /\ "compare" \in Places \ Regrouping /\ "compare" \in Places
      /\ MfaColumns \in SUBSET AllColumns
  BY Columns DEF Kinds, Places, Regrouping, MfaColumns
<1>6. PICK q : q = Started("mfa", "compare", u, MfaColumns, MfaColumns)
  OBVIOUS
<1>7. /\ q.kind = "mfa" /\ q.at = "compare" /\ q.saves = MfaColumns /\ q.changes = MfaColumns
      /\ \A c \in MfaColumns \cup GroupColumns : q.copy[c] = u[c]
  <2>1. Starts(q, "mfa", "compare", u, MfaColumns, MfaColumns)
    BY <1>4, <1>5, <1>6, StartedRequest
  <2>2. MfaColumns \cup GroupColumns \subseteq AllColumns
    BY Columns DEF MfaColumns, GroupColumns
  <2> QED BY <2>1, <2>2 DEF Starts
<1>8. /\ MfaColumns # AllColumns /\ "oauth" \notin MfaColumns /\ "password" \notin MfaColumns
      /\ "mfa_enabled" \in MfaColumns /\ "mfa_secret" \in MfaColumns
  BY Columns DEF MfaColumns
<1>9. Saving(q, row, stale)
  BY <1>4, <1>7, <1>8 DEF Saving
<1>10. InPlace(q, row, stale)
  BY <1>3, <1>7, <1>9 DEF InPlace, Exists
<1>11. Begin(r, "mfa", "compare", u, MfaColumns, MfaColumns)
  BY <1>1, <1>2
<1> QED BY <1>4, <1>5, <1>6, <1>10, <1>11, BeginKept

\* A user whom Microsoft sign-in finds.
LEMMA FillKept ==
    ASSUME AccountsInv, NEW r \in Requests, Exists, FillIn(r), req[r].at \notin Regrouping,
           UNCHANGED <<row, groups, balance, meant, stale, faults>>
    PROVE  Kept
<1>1. PICK filled : filled = {c \in {"oauth", "is_verified"} : ~row[c]}
  OBVIOUS
<1>2. PICK u : u = [row EXCEPT !.oauth = TRUE, !.is_verified = TRUE]
  OBVIOUS
<1>3. row \in User
  BY RowOfUser
<1>4. /\ u \in User /\ u["oauth"] = TRUE /\ u["is_verified"] = TRUE /\ u["role"] = row["role"]
  BY <1>2, <1>3 DEF User
<1>5. CASE filled = {}
  <2>1. req' = [req EXCEPT ![r] = Idle]
    BY <1>1, <1>5 DEF FillIn
  <2>2. Idle.at \notin Regrouping
    BY IdleRequest DEF Regrouping
  <2> QED BY <2>1, <2>2, IdleRequest, QuietStep
<1>6. CASE filled # {}
  <2>1. PICK q : q = Started("oauth", "compare", u, filled, filled)
    OBVIOUS
  <2>2. req' = [req EXCEPT ![r] = q]
    <3>1. filled \cup filled \cup GroupColumns = filled \cup GroupColumns
      OBVIOUS
    <3>2. q = [Idle EXCEPT !.kind = "oauth", !.at = "compare",
                           !.copy = Keep(u, filled \cup GroupColumns),
                           !.saves = filled, !.changes = filled]
      BY <2>1, <3>1 DEF Started
    <3> QED BY <1>1, <1>2, <1>6, <3>2 DEF FillIn
  <2>3. /\ "oauth" \in Kinds /\ "compare" \in Places /\ "compare" \notin Regrouping
        /\ filled \in SUBSET AllColumns
    BY <1>1, Columns DEF Kinds, Places, Regrouping
  <2>4. Starts(q, "oauth", "compare", u, filled, filled)
    BY <1>4, <2>1, <2>3, StartedRequest
  <2>5. /\ q \in Request /\ q.kind = "oauth" /\ q.at = "compare" /\ q.saves = filled
        /\ q.changes = filled /\ q.copy["role"] = row["role"] /\ q.copy["mfa_enabled"] = FALSE
        /\ q.copy["is_verified"] = TRUE
        /\ "oauth" \in filled => q.copy["oauth"] = TRUE
    <3>1. /\ "role" \in AllColumns /\ "is_verified" \in AllColumns /\ "oauth" \in AllColumns
          /\ "mfa_enabled" \in AllColumns
          /\ "role" \in GroupColumns /\ "is_verified" \in GroupColumns
          /\ "mfa_enabled" \notin GroupColumns /\ "mfa_enabled" \notin filled
      BY <1>1, Columns DEF GroupColumns
    <3>2. NewUser["mfa_enabled"] = FALSE
      BY NewUserRow
    <3> QED BY <1>4, <2>4, <3>1, <3>2 DEF Starts
  <2>6. /\ filled # AllColumns /\ "password" \notin filled
        /\ "mfa_enabled" \notin filled /\ "mfa_secret" \notin filled
        /\ "is_verified" \notin filled => row["is_verified"] = TRUE
    BY <1>1, <1>3, Columns DEF User
  <2>7. Saving(q, row, stale)
    BY <2>5, <2>6 DEF Saving, GroupColumns
  <2>8. InPlace(q, row, stale)
    BY <2>5, <2>7 DEF InPlace, Exists
  <2> QED BY <2>2, <2>3, <2>5, <2>8, QuietStep
<1> QED BY <1>5, <1>6

\* The user is there already.
LEMMA MicrosoftKept ==
    ASSUME AccountsInv, NEW r \in Requests, MicrosoftKnown(r)
    PROVE  Kept
BY FillKept DEF MicrosoftKnown, At, Regrouping

\* A form is opened.
LEMMA OpenKept ==
    ASSUME AccountsInv, NEW r \in Requests, AdminOpen(r)
    PROVE  Kept
<1>1. PICK picked \in Roles, verified \in BOOLEAN, mfa \in BOOLEAN :
         LET posted == [row EXCEPT !.role = picked, !.is_verified = verified,
                                   !.mfa_enabled = mfa]
             altered == {c \in AllColumns : posted[c] # row[c]}
         IN /\ Cardinality(altered) \in 1..MaxFormEdits
            /\ req' = [req EXCEPT ![r] =
                          [Idle EXCEPT !.kind = "admin", !.at = "form",
                                       !.copy = Keep(posted, FormColumns),
                                       !.saves = AllColumns, !.changes = altered,
                                       !.selected = IF PicksGroups THEN {GroupOf(posted)}
                                                                   ELSE groups]]
  BY DEF AdminOpen
<1>2. PICK u : u = [row EXCEPT !.role = picked, !.is_verified = verified,
                           !.mfa_enabled = mfa]
  OBVIOUS
<1>3. /\ row \in User /\ Exists /\ AdminPage /\ req[r].at = "idle" /\ groups \subseteq Groups
      /\ UNCHANGED <<row, groups, balance, meant, stale, faults>>
  BY RowOfUser, TypeOfRequests DEF AdminOpen, At, AccountsInv
<1>4. PICK kept : kept = Keep(u, FormColumns)
  OBVIOUS
<1>5. PICK changed : changed = {c \in AllColumns : u[c] # row[c]}
  OBVIOUS
<1>6. PICK chosen : chosen = IF PicksGroups THEN {GroupOf(u)} ELSE groups
  OBVIOUS
<1>7. PICK q : q = [Idle EXCEPT !.kind = "admin", !.at = "form", !.copy = kept,
                                !.saves = AllColumns, !.changes = changed, !.selected = chosen]
  OBVIOUS
<1>8. req' = [req EXCEPT ![r] = q]
  BY <1>1, <1>2, <1>4, <1>5, <1>6, <1>7
<1>9. /\ u \in User
      /\ \A c \in AllColumns \ FormColumns : u[c] = row[c]
  BY <1>2, <1>3, Columns DEF User, FormColumns
<1>10. /\ kept \in User
       /\ \A c \in FormColumns : kept[c] = u[c]
  <2>1. FormColumns \subseteq AllColumns
    BY Columns DEF FormColumns
  <2> QED BY <1>4, <1>9, <2>1, KeptRow
<1>11. GroupOf(kept) = GroupOf(u) /\ chosen \subseteq Groups
  BY <1>3, <1>6, <1>10 DEF GroupOf, FormColumns, Groups
<1>12. changed \subseteq FormColumns /\ changed \subseteq AllColumns
  BY <1>5, <1>9
<1>13. /\ q \in Request /\ q.at = "form" /\ q.kind = "admin" /\ q.copy = kept
       /\ q.saves = AllColumns /\ q.changes = changed /\ q.selected = chosen
  <2>1. Idle \in Request
    BY IdleRequest
  <2>2. "admin" \in Kinds /\ "form" \in Places
    BY DEF Kinds, Places
  <2>3. changed \in SUBSET AllColumns /\ chosen \in SUBSET Groups
    BY <1>11, <1>12
  <2> QED BY <1>7, <1>10, <2>1, <2>2, <2>3 DEF Request
<1>14. \A c \in FormColumns \ changed : kept[c] = row[c]
  <2>1. FormColumns \subseteq AllColumns
    BY Columns DEF FormColumns
  <2> QED BY <1>5, <1>10, <2>1
<1>15. Form(q, row)
  BY <1>3, <1>6, <1>11, <1>12, <1>13, <1>14 DEF Form
<1>16. InPlace(q, row, stale)
  BY <1>3, <1>13, <1>15 DEF InPlace, Exists
<1> QED BY <1>3, <1>8, <1>13, <1>16, QuietStep DEF Regrouping

\* save() compares its copy with the row.
LEMMA CompareKept ==
    ASSUME AccountsInv, NEW r \in Requests, Compare(r)
    PROVE  Kept
<1>1. /\ req[r].at = "compare" /\ req[r] \in Request /\ InPlace(req[r], row, stale)
      /\ UNCHANGED <<row, groups, balance, meant, stale, faults>>
  BY RequestOf DEF Compare, At, AccountsInv, AllInPlace
<1>2. PICK differs : differs = (\/ row.role # req[r].copy.role
                                \/ row.is_verified # req[r].copy.is_verified)
  OBVIOUS
<1>3. PICK q : q = [req[r] EXCEPT !.at = "write", !.regroup = differs]
  OBVIOUS
<1>4. req' = [req EXCEPT ![r] = q]
  BY <1>2, <1>3 DEF Compare
<1>5. differs \in BOOLEAN /\ (differs <=> ~SameGroup(req[r].copy, row))
  BY <1>2 DEF SameGroup
<1>6. /\ q \in Request /\ q.at = "write" /\ q.regroup = differs /\ q.copy = req[r].copy
      /\ q.kind = req[r].kind /\ q.saves = req[r].saves /\ q.changes = req[r].changes
      /\ q.fresh = req[r].fresh
  BY <1>1, <1>3, <1>5 DEF Request, Places
<1>7. Saving(req[r], row, stale) /\ Exists
  BY <1>1 DEF InPlace, Exists
<1>8. InPlace(q, row, stale)
  BY <1>5, <1>6, <1>7 DEF InPlace, Exists, Saving
<1> QED BY <1>1, <1>4, <1>6, <1>8, QuietStep DEF Regrouping

-----------------------------------------------------------------------------
(* What a save does to the row, and to the others.                         *)

\* A note is never taken back, and one is taken of each outdated copy.
LEMMA StaleNoted ==
    ASSUME TypeOK, NEW r \in Requests, NEW what \in {"columns", "row"}, NoteStale(r, what)
    PROVE  /\ stale' \in DOMAIN Worse
           /\ stale' = "nothing" => stale = "nothing" /\ req[r].fresh
           /\ stale' \in {"nothing", "columns"} =>
                 stale \in {"nothing", "columns"} /\ (req[r].fresh \/ what = "columns")
           /\ stale' # "switch" => stale # "switch"
<1>1. /\ DOMAIN Worse = {"nothing", "columns", "row", "switch"}
      /\ Worse["nothing"] = 0 /\ Worse["columns"] = 1
      /\ Worse["row"] = 2 /\ Worse["switch"] = 3
  BY DEF Worse
<1>2. stale \in DOMAIN Worse
  BY TypeOfRequests
<1>3. stale' = IF req[r].fresh \/ Worse[what] <= Worse[stale] THEN stale ELSE what
  BY DEF NoteStale
<1>4. CASE req[r].fresh
  BY <1>1, <1>2, <1>3, <1>4
<1>5. CASE ~req[r].fresh /\ Worse[what] <= Worse[stale]
  <2>1. stale' = stale
    BY <1>3, <1>5
  <2>2. stale = "nothing" => FALSE
    BY <1>1, <1>5
  <2>3. stale = "columns" => what = "columns"
    BY <1>1, <1>5
  <2> QED BY <1>1, <1>2, <2>1, <2>2, <2>3
<1>6. CASE ~req[r].fresh /\ ~(Worse[what] <= Worse[stale])
  <2>1. stale' = what
    BY <1>3, <1>6
  <2>2. stale = "switch" => FALSE
    BY <1>1, <1>6
  <2>3. what = "columns" => stale = "nothing"
    BY <1>1, <1>2, <1>6
  <2> QED BY <1>1, <1>6, <2>1, <2>2, <2>3
<1> QED BY <1>4, <1>5, <1>6

\* A request stays in place when the row stays, or once its copy is outdated.
LEMMA StaysInPlace ==
    ASSUME NEW p \in Request, NEW u \in User, NEW v \in User, NEW s, NEW t,
           t # "switch" => s # "switch", InPlace(p, u, s)
    PROVE  /\ v = u => InPlace(p, v, t)
           /\ p.at = "idle" => InPlace(p, v, t)
           /\ InPlace([p EXCEPT !.fresh = FALSE], v, t)
<1>1. v # Absent
  BY AbsentIsNone
<1>2. v = u => InPlace(p, v, t)
  BY DEF InPlace, Saving, Posted
<1>3. p.at = "idle" => InPlace(p, v, t)
  BY <1>1 DEF InPlace
<1>4. PICK q : q = [p EXCEPT !.fresh = FALSE]
  OBVIOUS
<1>5. /\ q.at = p.at /\ q.kind = p.kind /\ q.copy = p.copy /\ q.saves = p.saves
      /\ q.changes = p.changes /\ q.regroup = p.regroup /\ q.selected = p.selected
      /\ q.fresh = FALSE
  BY <1>4 DEF Request
<1>6. InPlace(q, v, t)
  BY <1>1, <1>5 DEF InPlace, Saving, Form, Posted
<1> QED BY <1>2, <1>3, <1>4, <1>6

\* What becomes of the other requests when r has written the row.
LEMMA OthersOutdated ==
    ASSUME AccountsInv, NEW r \in Requests, NEW next \in Request, Outdate(r, next),
           Exists, row' \in User, stale' # "switch" => stale # "switch",
           InPlace(next, row', stale')
    PROVE  /\ req' \in [Requests -> Request] /\ req'[r] = next
           /\ \A q \in Requests \ {r} :
                 /\ req'[q].at = req[q].at
                 /\ req[q].at # "idle" /\ req'[q].fresh => req[q].fresh /\ row' = row
           /\ AllInPlace'
<1>1. /\ req' = [q \in Requests |->
                   IF q = r THEN next
                   ELSE IF req[q].at # "idle" /\ row' # row THEN [req[q] EXCEPT !.fresh = FALSE]
                                                           ELSE req[q]]
  BY DEF Outdate
<1>2. row \in User
  BY RowOfUser
<1>3. ASSUME NEW q \in Requests, q # r
      PROVE  /\ req'[q] \in Request /\ req'[q].at = req[q].at
             /\ req[q].at # "idle" /\ req'[q].fresh => req[q].fresh /\ row' = row
             /\ InPlace(req'[q], row', stale')
  <2>1. req[q] \in Request /\ InPlace(req[q], row, stale)
    BY RequestOf DEF AccountsInv, AllInPlace
  <2>2. PICK p \in Request : p = req[q]
    BY <2>1
  <2>3. PICK v \in User : v = row'
    OBVIOUS
  <2>4. PICK t : t = stale'
    OBVIOUS
  <2>5. /\ v = row => InPlace(p, v, t)
        /\ p.at = "idle" => InPlace(p, v, t)
        /\ InPlace([p EXCEPT !.fresh = FALSE], v, t)
    BY <1>2, <2>1, <2>2, <2>4, StaysInPlace
  <2>6. CASE req[q].at # "idle" /\ row' # row
    <3>1. req'[q] = [p EXCEPT !.fresh = FALSE]
      BY <1>1, <1>3, <2>2, <2>6
    <3>2. req'[q] \in Request /\ req'[q].at = p.at /\ req'[q].fresh = FALSE
      BY <3>1 DEF Request
    <3>3. InPlace(req'[q], v, t)
      BY <2>5, <3>1
    <3> QED BY <2>2, <2>3, <2>4, <3>2, <3>3
  <2>7. CASE req[q].at = "idle" \/ row' = row
    <3>1. req'[q] = p
      BY <1>1, <1>3, <2>2, <2>7
    <3>2. InPlace(req'[q], v, t)
      BY <2>2, <2>3, <2>5, <2>7, <3>1
    <3> QED BY <2>2, <2>3, <2>4, <2>7, <3>1, <3>2
  <2> QED BY <2>6, <2>7
<1>4. req'[r] = next
  BY <1>1
<1>5. req' \in [Requests -> Request]
  <2>1. \A q \in Requests : req'[q] \in Request
    BY <1>3, <1>4
  <2> QED BY <1>1, <2>1
<1>6. AllInPlace'
  <2>1. \A q \in Requests : InPlace(req'[q], row', stale')
    BY <1>3, <1>4
  <2> QED BY <2>1 DEF AllInPlace
<1> QED BY <1>3, <1>4, <1>5, <1>6

\* Columns of two rows make a row.
LEMMA MixedRow ==
    ASSUME NEW u \in User, NEW v \in User, NEW C, NEW w,
           w = [c \in AllColumns |-> IF c \in C THEN u[c] ELSE v[c]]
    PROVE  /\ w \in User
           /\ \A c \in AllColumns : w[c] = IF c \in C THEN u[c] ELSE v[c]
<1>1. /\ w = [c \in AllColumns |-> w[c]]
      /\ \A c \in AllColumns : w[c] = IF c \in C THEN u[c] ELSE v[c]
  OBVIOUS
<1>2. \A c \in AllColumns : w[c] \in {u[c], v[c]}
  BY <1>1
<1>3. /\ w["password"] \in Passwords \cup {NoPassword} /\ w["role"] \in Roles
      /\ w["is_verified"] \in BOOLEAN /\ w["mfa_enabled"] \in BOOLEAN
      /\ w["mfa_secret"] \in BOOLEAN /\ w["oauth"] \in BOOLEAN
  BY <1>2, FunctionsAreRows, Columns
<1> QED BY <1>1, <1>3, RowsAreFunctions

\* What a save writes: the row stays one a user can sign in to, what was meant is
\* lost only to a copy that is outdated and saves more than it changes, and MFA
\* keeps its secret.
LEMMA RowSaved ==
    ASSUME AccountsInv, NEW r \in Requests, req[r].at \in {"write", "post"}, Save(r)
    PROVE  /\ row' \in User /\ meant' \in User /\ stale' \in DOMAIN Worse
           /\ Signable(row')
           /\ stale' \in {"nothing", "columns"} => row' = meant'
           /\ stale' # "switch" => stale # "switch" /\ (row'.mfa_enabled => row'.mfa_secret)
           /\ stale' = "nothing" => stale = "nothing" /\ req[r].fresh
           /\ req[r].fresh => SameGroup(req[r].copy, row')
<1>1. /\ req[r] \in Request /\ InPlace(req[r], row, stale) /\ TypeOK /\ RowAsMeant /\ MfaHasSecret
  BY RequestOf DEF AccountsInv, AllInPlace
<1>2. Exists /\ row \in User /\ Signable(row) /\ meant \in User
  <2>1. Exists
    BY <1>1 DEF InPlace, Exists
  <2> QED BY <2>1, RowOfUser, TypeOfRequests DEF AccountsInv
<1>3. PICK q \in Request : q = req[r]
  BY <1>1
<1>4. PICK u \in User : u = q.copy
  BY DEF Request
<1>5. PICK S \in SUBSET AllColumns : S = q.saves
  BY DEF Request
<1>6. PICK C \in SUBSET AllColumns : C = q.changes
  BY DEF Request
<1>7. PICK what \in {"columns", "row"} : what = IF S = AllColumns THEN "row" ELSE "columns"
  OBVIOUS
<1>8. /\ row' = [c \in AllColumns |-> IF c \in S THEN u[c] ELSE row[c]]
      /\ NoteStale(r, what)
      /\ meant' = IF stale' \in {"nothing", "columns"}
                  THEN [c \in AllColumns |-> IF c \in C THEN u[c] ELSE meant[c]] ELSE row'
  BY <1>3, <1>4, <1>5, <1>6, <1>7 DEF Save
<1>9. PICK v : v = [c \in AllColumns |-> IF c \in S THEN u[c] ELSE row[c]]
  OBVIOUS
<1>10. v \in User /\ \A c \in AllColumns : v[c] = IF c \in S THEN u[c] ELSE row[c]
  BY <1>2, <1>9, MixedRow
<1>11. PICK m : m = [c \in AllColumns |-> IF c \in C THEN u[c] ELSE meant[c]]
  OBVIOUS
<1>12. m \in User /\ \A c \in AllColumns : m[c] = IF c \in C THEN u[c] ELSE meant[c]
  BY <1>2, <1>11, MixedRow
<1>13. row' = v /\ meant' = IF stale' \in {"nothing", "columns"} THEN m ELSE v
  BY <1>8, <1>9, <1>11
<1>14. /\ stale' \in DOMAIN Worse
       /\ stale' = "nothing" => stale = "nothing" /\ q.fresh
       /\ stale' \in {"nothing", "columns"} =>
             stale \in {"nothing", "columns"} /\ (q.fresh \/ what = "columns")
       /\ stale' # "switch" => stale # "switch"
  BY <1>1, <1>3, <1>8, StaleNoted
<1>15. \/ q.at = "write" /\ Saving(q, row, stale)
       \/ q.at = "post" /\ Form(q, row) /\ Posted(q, row, stale)
  BY <1>1, <1>3 DEF InPlace
<1>16. Signable(v)
  <2>1. \/ S = AllColumns /\ Signable(u)
        \/ "password" \notin S /\ ("oauth" \in S => u["oauth"])
    BY <1>4, <1>5, <1>15 DEF Saving, Form, Posted
  <2>2. "password" \in AllColumns /\ "oauth" \in AllColumns
    BY Columns
  <2> QED BY <1>2, <1>10, <2>1, <2>2 DEF Signable
<1>17. stale' \in {"nothing", "columns"} => v = m
  <2> SUFFICES ASSUME stale' \in {"nothing", "columns"} PROVE v = m
    OBVIOUS
  <2>1. row = meant
    BY <1>1, <1>2, <1>14 DEF RowAsMeant
  <2>2. \A c \in S \ C : u[c] = row[c]
    <3>1. CASE q.fresh
      BY <1>4, <1>5, <1>6, <1>15, <3>1 DEF Saving, Form, Posted
    <3>2. CASE ~q.fresh
      <4>1. S = C
        BY <1>5, <1>6, <1>7, <1>14, <1>15, <3>2 DEF Saving, Form
      <4> QED BY <4>1
    <3> QED BY <3>1, <3>2
  <2>3. C \subseteq S
    BY <1>5, <1>6, <1>15 DEF Saving, Form
  <2>4. \A c \in AllColumns : v[c] = m[c]
    BY <1>10, <1>12, <2>1, <2>2, <2>3
  <2>5. v = [c \in AllColumns |-> v[c]] /\ m = [c \in AllColumns |-> m[c]]
    BY <1>10, <1>12, FunctionsAreRows
  <2> QED BY <2>4, <2>5
<1>18. stale' # "switch" => (v["mfa_enabled"] => v["mfa_secret"])
  <2> SUFFICES ASSUME stale' # "switch" PROVE v["mfa_enabled"] => v["mfa_secret"]
    OBVIOUS
  <2>1. "mfa_enabled" \in AllColumns /\ "mfa_secret" \in AllColumns
    BY Columns
  <2>2. row["mfa_enabled"] => row["mfa_secret"]
    BY <1>1, <1>14 DEF MfaHasSecret
  <2>3. CASE q.at = "write"
    <3>1. Saving(q, row, stale) /\ stale # "switch"
      BY <1>14, <1>15, <2>3
    <3>2. /\ "mfa_enabled" \in S <=> "mfa_secret" \in S
          /\ u["mfa_enabled"] => u["mfa_secret"]
      BY <1>4, <1>5, <3>1 DEF Saving
    <3> QED BY <1>10, <2>1, <2>2, <3>2
  <2>4. CASE q.at = "post"
    <3>1. Form(q, row) /\ Posted(q, row, stale) /\ stale # "switch"
      BY <1>14, <1>15, <2>4
    <3>2. S = AllColumns /\ (u["mfa_enabled"] => u["mfa_secret"])
      BY <1>4, <1>5, <3>1 DEF Form, Posted
    <3> QED BY <1>10, <2>1, <3>2
  <2> QED BY <1>15, <2>3, <2>4
<1>19. q.fresh => SameGroup(u, v)
  <2> SUFFICES ASSUME q.fresh PROVE SameGroup(u, v)
    OBVIOUS
  <2>1. "role" \in AllColumns /\ "is_verified" \in AllColumns
    BY Columns
  <2>2. C \subseteq S
    BY <1>5, <1>6, <1>15 DEF Saving, Form
  <2>3. \A c \in {"role", "is_verified"} : c \in S \/ u[c] = row[c]
    BY <1>4, <1>5, <1>6, <1>15, <2>1, <2>2 DEF Saving, Form, GroupColumns
  <2>4. v["role"] = u["role"] /\ v["is_verified"] = u["is_verified"]
    BY <1>10, <2>1, <2>3
  <2> QED BY <2>4 DEF SameGroup
<1>20. row' \in User /\ meant' \in User /\ Signable(row')
  BY <1>10, <1>12, <1>13, <1>16
<1>21. /\ stale' \in {"nothing", "columns"} => row' = meant'
       /\ stale' # "switch" => stale # "switch" /\ (row'.mfa_enabled => row'.mfa_secret)
  BY <1>13, <1>14, <1>17, <1>18
<1>22. req[r].fresh => SameGroup(req[r].copy, row')
  BY <1>3, <1>4, <1>13, <1>19
<1> QED BY <1>3, <1>14, <1>20, <1>21, <1>22

\* A request that has the groups left to do.
LEMMA RegroupingInPlace ==
    ASSUME NEW q, NEW u \in User, NEW s, q.at \in Regrouping, q.fresh => SameGroup(q.copy, u)
    PROVE  InPlace(q, u, s)
BY AbsentIsNone DEF InPlace, Regrouping

\* What is left of a request that wrote the row.
LEMMA RestRequest ==
    ASSUME TypeOK, NEW r \in Requests, NEW place \in Regrouping
    PROVE  /\ Rest(r, place) \in Request /\ Rest(r, place).at = place
           /\ Rest(r, place).fresh = req[r].fresh
           /\ SameGroup(Rest(r, place).copy, req[r].copy)
<1>1. PICK u \in User : u = req[r].copy
  BY RequestOf
<1>2. PICK f \in BOOLEAN : f = req[r].fresh
  BY RequestOf
<1>3. PICK kept : kept = Keep(u, GroupColumns)
  OBVIOUS
<1>4. kept \in User /\ kept["role"] = u["role"] /\ kept["is_verified"] = u["is_verified"]
  BY <1>3, KeptRow, Columns DEF GroupColumns
<1>5. PICK q : q = [Idle EXCEPT !.at = place, !.copy = kept, !.fresh = f]
  OBVIOUS
<1>6. Rest(r, place) = q
  BY <1>1, <1>2, <1>3, <1>5 DEF Rest
<1>7. place \in Places
  BY DEF Regrouping, Places
<1>8. q \in Request /\ q.at = place /\ q.copy = kept /\ q.fresh = f
  BY <1>4, <1>5, <1>7, IdleRequest DEF Request
<1>9. SameGroup(kept, u)
  BY <1>4 DEF SameGroup
<1> QED BY <1>1, <1>2, <1>6, <1>8, <1>9

\* Rows of the same group, in turn.
LEMMA SameGroups ==
    ASSUME NEW u, NEW v, SameGroup(u, v)
    PROVE  GroupOf(u) = GroupOf(v) /\ \A w : SameGroup(v, w) => SameGroup(u, w)
BY DEF SameGroup, GroupOf

\* UPDATE of the row, by a request.
LEMMA WriteKept ==
    ASSUME AccountsInv, NEW r \in Requests, Write(r)
    PROVE  Kept
<1>1. /\ req[r].at = "write" /\ Save(r) /\ UNCHANGED <<groups, balance, faults>>
      /\ Outdate(r, IF req[r].regroup THEN Rest(r, "remove") ELSE Idle)
  BY DEF Write, At
<1>2. /\ req[r] \in Request /\ InPlace(req[r], row, stale) /\ TypeOK
  BY RequestOf DEF AccountsInv, AllInPlace
<1>3. Exists /\ row \in User
  <2>1. Exists
    BY <1>1, <1>2 DEF InPlace, Exists
  <2> QED BY <2>1, RowOfUser
<1>4. /\ row' \in User /\ meant' \in User /\ stale' \in DOMAIN Worse
      /\ Signable(row')
      /\ stale' \in {"nothing", "columns"} => row' = meant'
      /\ stale' # "switch" => stale # "switch" /\ (row'.mfa_enabled => row'.mfa_secret)
      /\ stale' = "nothing" => stale = "nothing" /\ req[r].fresh
      /\ req[r].fresh => SameGroup(req[r].copy, row')
  BY <1>1, RowSaved
<1>5. PICK next : next = IF req[r].regroup THEN Rest(r, "remove") ELSE Idle
  OBVIOUS
<1>6. "remove" \in Regrouping
  BY DEF Regrouping
<1>7. /\ next \in Request
      /\ next.at = IF req[r].regroup THEN "remove" ELSE "idle"
      /\ InPlace(next, row', stale')
  <2>1. CASE req[r].regroup
    <3>1. PICK q : q = Rest(r, "remove")
      OBVIOUS
    <3>2. /\ q \in Request /\ q.at = "remove" /\ q.fresh = req[r].fresh
          /\ SameGroup(q.copy, req[r].copy)
      BY <1>2, <1>6, <3>1, RestRequest
    <3>3. PICK v \in User : v = row'
      BY <1>4
    <3>4. q.fresh => SameGroup(q.copy, v)
      BY <1>4, <3>2, <3>3, SameGroups
    <3>5. \A s : InPlace(q, v, s)
      BY <1>6, <3>2, <3>4, RegroupingInPlace
    <3> QED BY <1>5, <2>1, <3>1, <3>2, <3>3, <3>5
  <2>2. CASE ~req[r].regroup
    <3>1. next = Idle
      BY <1>5, <2>2
    <3>2. Idle \in Request /\ Idle.at = "idle"
      BY IdleRequest
    <3>3. row' # Absent
      BY <1>4, AbsentIsNone
    <3>4. InPlace(next, row', stale')
      BY <3>1, <3>2, <3>3 DEF InPlace
    <3> QED BY <2>2, <3>1, <3>2, <3>4
  <2> QED BY <2>1, <2>2
<1>8. /\ req' \in [Requests -> Request] /\ req'[r] = next
      /\ \A q \in Requests \ {r} :
            /\ req'[q].at = req[q].at
            /\ req[q].at # "idle" /\ req'[q].fresh => req[q].fresh /\ row' = row
      /\ AllInPlace'
  <2>1. Outdate(r, next)
    BY <1>1, <1>5
  <2>2. PICK p \in Request : p = next
    BY <1>7
  <2> QED BY <1>3, <1>4, <1>7, <2>1, <2>2, OthersOutdated
<1>9. TypeOK'
  BY <1>1, <1>2, <1>4, <1>8, TypeOfRequests, TypeOfRequestsNext
<1>10. RowAsMeant' /\ MfaHasSecret'
  BY <1>4 DEF RowAsMeant, MfaHasSecret
<1>11. /\ \A q \in Requests \ {r} : req'[q].at \in Regrouping <=> req[q].at \in Regrouping
       /\ req[r].at \notin Regrouping
       /\ req[r].regroup => req'[r].at \in Regrouping
       /\ req'[r].at # "add"
  BY <1>1, <1>7, <1>8 DEF Regrouping
<1>12. Grouping => Grouping'
  BY <1>11 DEF Grouping, Regrouping
<1>13. GroupsInOrder => GroupsInOrder'
  <2> SUFFICES ASSUME GroupsInOrder, Exists', faults' = 0, stale' = "nothing"
               PROVE  /\ Grouping' \/ groups' = {GroupOf(row')}
                      /\ \A q \in Requests : req'[q].at = "add" /\ req'[q].fresh =>
                                                groups' \subseteq {GroupOf(row')}
    BY DEF GroupsInOrder
  <2>1. /\ Grouping \/ groups = {GroupOf(row)}
        /\ \A q \in Requests : req[q].at = "add" /\ req[q].fresh => groups \subseteq {GroupOf(row)}
    BY <1>1, <1>3, <1>4 DEF GroupsInOrder
  <2>2. Grouping' \/ groups' = {GroupOf(row')}
    <3>1. CASE req[r].regroup
      BY <1>11, <3>1 DEF Grouping, Regrouping
    <3>2. CASE ~req[r].regroup
      <4>1. SameGroup(req[r].copy, row) /\ SameGroup(req[r].copy, row')
        BY <1>1, <1>2, <1>4, <3>2 DEF InPlace
      <4>2. GroupOf(row') = GroupOf(row)
        BY <4>1 DEF SameGroup, GroupOf
      <4> QED BY <1>1, <1>12, <2>1, <4>2
    <3> QED BY <3>1, <3>2
  <2>3. ASSUME NEW q \in Requests, req'[q].at = "add", req'[q].fresh
        PROVE  groups' \subseteq {GroupOf(row')}
    <3>1. q # r
      BY <1>11, <2>3
    <3>2. req[q].at = "add" /\ req[q].fresh /\ row' = row
      BY <1>8, <2>3, <3>1
    <3> QED BY <1>1, <2>1, <3>2
  <2> QED BY <2>2, <2>3
<1>14. Coming => Coming'
  <2>1. \A q \in Requests : req[q].at = "signal" => req'[q].at = "signal"
    BY <1>1, <1>8
  <2> QED BY <1>1, <1>3, <1>12, <2>1 DEF Coming
<1> QED BY <1>8, <1>9, <1>10, <1>13, <1>14 DEF Kept

\* The form is saved over the row, and its groups over the groups.
LEMMA SaveKept ==
    ASSUME AccountsInv, NEW r \in Requests, AdminSave(r)
    PROVE  Kept
<1>1. /\ req[r].at = "post" /\ Save(r) /\ UNCHANGED <<balance, faults>>
      /\ groups' = req[r].selected /\ Outdate(r, Idle)
  BY DEF AdminSave, At
<1>2. /\ req[r] \in Request /\ InPlace(req[r], row, stale) /\ TypeOK
  BY RequestOf DEF AccountsInv, AllInPlace
<1>3. Exists /\ row \in User /\ Form(req[r], row)
  <2>1. Exists /\ Form(req[r], row)
    BY <1>1, <1>2 DEF InPlace, Exists
  <2> QED BY <2>1, RowOfUser
<1>4. /\ row' \in User /\ meant' \in User /\ stale' \in DOMAIN Worse
      /\ Signable(row')
      /\ stale' \in {"nothing", "columns"} => row' = meant'
      /\ stale' # "switch" => stale # "switch" /\ (row'.mfa_enabled => row'.mfa_secret)
      /\ stale' = "nothing" => stale = "nothing" /\ req[r].fresh
      /\ req[r].fresh => SameGroup(req[r].copy, row')
  BY <1>1, RowSaved
<1>5. Idle \in Request /\ Idle.at = "idle" /\ InPlace(Idle, row', stale')
  <2>1. Idle \in Request /\ Idle.at = "idle" /\ row' # Absent
    BY <1>4, IdleRequest, AbsentIsNone
  <2> QED BY <2>1 DEF InPlace
<1>6. /\ req' \in [Requests -> Request] /\ req'[r] = Idle
      /\ \A q \in Requests \ {r} :
            /\ req'[q].at = req[q].at
            /\ req[q].at # "idle" /\ req'[q].fresh => req[q].fresh /\ row' = row
      /\ AllInPlace'
  BY <1>1, <1>3, <1>4, <1>5, OthersOutdated
<1>7. groups' \subseteq Groups
  BY <1>1, <1>2, RequestOf
<1>8. TypeOK'
  BY <1>1, <1>2, <1>4, <1>6, <1>7, TypeOfRequests, TypeOfRequestsNext
<1>9. RowAsMeant' /\ MfaHasSecret'
  BY <1>4 DEF RowAsMeant, MfaHasSecret
<1>10. PageSelectsGroup => groups' = {GroupOf(req[r].copy)}
  BY <1>1, <1>3 DEF PageSelectsGroup, Form
<1>11. PageSelectsGroup => GroupsInOrder'
  <2> SUFFICES ASSUME PageSelectsGroup, stale' = "nothing"
               PROVE  groups' = {GroupOf(row')}
    BY DEF GroupsInOrder
  <2>1. SameGroup(req[r].copy, row')
    BY <1>4
  <2>2. GroupOf(req[r].copy) = GroupOf(row')
    BY <2>1 DEF SameGroup, GroupOf
  <2> QED BY <1>10, <2>2
<1>12. PageSelectsGroup /\ Coming => Coming'
  <2>1. \A q \in Requests : req[q].at = "signal" => req'[q].at = "signal"
    BY <1>1, <1>6
  <2>2. PageSelectsGroup => groups' # {}
    BY <1>10
  <2> QED BY <1>1, <1>3, <2>1, <2>2 DEF Coming
<1> QED BY <1>6, <1>8, <1>9, <1>11, <1>12 DEF Kept

-----------------------------------------------------------------------------
(* Groups, balances and the end of requests.                               *)

\* A step of one request that leaves the row alone.
LEMMA RowStays ==
    ASSUME AccountsInv, NEW r \in Requests, NEW next \in Request, req' = [req EXCEPT ![r] = next],
           UNCHANGED row, meant' \in User, faults' \in 0..MaxFaults, groups' \subseteq Groups,
           balance' \in BOOLEAN, stale' \in DOMAIN Worse,
           stale' \in {"nothing", "columns"} =>
              stale \in {"nothing", "columns"} /\ meant' = meant,
           stale' # "switch" => stale # "switch", InPlace(next, row, stale')
    PROVE  /\ req'[r] = next /\ \A q \in Requests \ {r} : req'[q] = req[q]
           /\ TypeOK' /\ AllInPlace' /\ RowAsMeant' /\ MfaHasSecret'
<1>1. /\ req' \in [Requests -> Request] /\ req'[r] = next
      /\ \A q \in Requests \ {r} : req'[q] = req[q]
  BY NewRequest DEF AccountsInv
<1>2. TypeOK'
  BY <1>1, TypeOfRequests, TypeOfRequestsNext DEF AccountsInv, Exists
<1>3. AllInPlace'
  <2>1. ASSUME NEW q \in Requests, q # r PROVE InPlace(req'[q], row', stale')
    <3>1. InPlace(req[q], row, stale)
      BY DEF AccountsInv, AllInPlace
    <3>2. InPlace(req[q], row, stale')
      BY <3>1 DEF InPlace, Saving, Posted
    <3> QED BY <1>1, <2>1, <3>2
  <2>2. \A q \in Requests : InPlace(req'[q], row', stale')
    BY <1>1, <2>1
  <2> QED BY <2>2 DEF AllInPlace
<1>4. RowAsMeant' /\ MfaHasSecret'
  BY DEF AccountsInv, RowAsMeant, MfaHasSecret, Exists
<1> QED BY <1>1, <1>2, <1>3, <1>4

\* A request that sets the groups, or creates the balance, of a user who exists.
LEMMA Regroups ==
    ASSUME AccountsInv, NEW r \in Requests, req[r].at \in Regrouping
    PROVE  /\ TypeOK /\ Exists /\ row \in User /\ req[r] \in Request
           /\ req[r].fresh => SameGroup(req[r].copy, row)
           /\ \A place \in Regrouping :
                 /\ [req[r] EXCEPT !.at = place] \in Request
                 /\ [req[r] EXCEPT !.at = place].at = place
                 /\ [req[r] EXCEPT !.at = place].fresh = req[r].fresh
                 /\ \A s : InPlace([req[r] EXCEPT !.at = place], row, s)
           /\ Idle \in Request /\ Idle.at = "idle" /\ \A s : InPlace(Idle, row, s)
<1>1. /\ TypeOK /\ req[r] \in Request /\ InPlace(req[r], row, stale)
  BY RequestOf DEF AccountsInv, AllInPlace
<1>2. Exists /\ row \in User /\ (req[r].fresh => SameGroup(req[r].copy, row))
  <2>1. Exists /\ (req[r].fresh => SameGroup(req[r].copy, row))
    BY <1>1 DEF InPlace, Regrouping, Exists
  <2> QED BY <2>1, RowOfUser
<1>3. ASSUME NEW place \in Regrouping
      PROVE  /\ [req[r] EXCEPT !.at = place] \in Request
             /\ [req[r] EXCEPT !.at = place].at = place
             /\ [req[r] EXCEPT !.at = place].fresh = req[r].fresh
             /\ \A s : InPlace([req[r] EXCEPT !.at = place], row, s)
  <2>1. PICK q : q = [req[r] EXCEPT !.at = place]
    OBVIOUS
  <2>2. place \in Places
    BY DEF Regrouping, Places
  <2>3. q \in Request /\ q.at = place /\ q.fresh = req[r].fresh /\ q.copy = req[r].copy
    BY <1>1, <2>1, <2>2 DEF Request
  <2>4. \A s : InPlace(q, row, s)
    BY <1>2, <2>3, RegroupingInPlace
  <2> QED BY <2>1, <2>3, <2>4
<1>4. Idle \in Request /\ Idle.at = "idle" /\ \A s : InPlace(Idle, row, s)
  <2>1. Idle \in Request /\ Idle.at = "idle"
    BY IdleRequest
  <2> QED BY <2>1 DEF InPlace
<1> QED BY <1>1, <1>2, <1>3, <1>4

\* The signal creates the balance.
LEMMA BalanceKept ==
    ASSUME AccountsInv, NEW r \in Requests, CreateBalance(r)
    PROVE  Kept
<1>1. /\ req[r].at = "signal" /\ balance' = TRUE
      /\ req' = [req EXCEPT ![r].at = "remove"]
      /\ UNCHANGED <<row, groups, meant, stale, faults>>
  BY DEF CreateBalance, At, Goto
<1>2. "signal" \in Regrouping /\ "remove" \in Regrouping
  BY DEF Regrouping
<1>3. PICK next : next = [req[r] EXCEPT !.at = "remove"]
  OBVIOUS
<1>4. /\ TypeOK /\ Exists /\ next \in Request /\ next.at = "remove" /\ InPlace(next, row, stale)
  BY <1>1, <1>2, <1>3, Regroups
<1>5. req' = [req EXCEPT ![r] = next]
  BY <1>1, <1>3
<1>6. /\ req'[r] = next /\ \A q \in Requests \ {r} : req'[q] = req[q]
      /\ TypeOK' /\ AllInPlace' /\ RowAsMeant' /\ MfaHasSecret'
  BY <1>1, <1>4, <1>5, RowStays, TypeOfRequests
<1>7. Grouping'
  BY <1>4, <1>6 DEF Grouping
<1>8. \A q \in Requests : req'[q].at = "add" => q # r
  BY <1>4, <1>6
<1>9. GroupsInOrder => GroupsInOrder'
  BY <1>1, <1>6, <1>7, <1>8 DEF GroupsInOrder, Exists
<1>10. Coming => Coming'
  BY <1>1, <1>7 DEF Coming, Exists
<1> QED BY <1>6, <1>9, <1>10 DEF Kept

\* All role groups are taken from the user.
LEMMA RemoveKept ==
    ASSUME AccountsInv, NEW r \in Requests, RemoveGroups(r)
    PROVE  Kept
<1>1. /\ req[r].at = "remove" /\ groups' = {} /\ NoteStale(r, "columns")
      /\ req' = [req EXCEPT ![r].at = "add"]
      /\ UNCHANGED <<row, balance, meant, faults>>
  BY DEF RemoveGroups, At, Goto
<1>2. "remove" \in Regrouping /\ "add" \in Regrouping
  BY DEF Regrouping
<1>3. PICK next : next = [req[r] EXCEPT !.at = "add"]
  OBVIOUS
<1>4. /\ TypeOK /\ Exists /\ next \in Request /\ next.at = "add" /\ \A s : InPlace(next, row, s)
  BY <1>1, <1>2, <1>3, Regroups
<1>5. req' = [req EXCEPT ![r] = next]
  BY <1>1, <1>3
<1>6. /\ stale' \in DOMAIN Worse
      /\ stale' = "nothing" => stale = "nothing" /\ req[r].fresh
      /\ stale' \in {"nothing", "columns"} => stale \in {"nothing", "columns"}
      /\ stale' # "switch" => stale # "switch"
  BY <1>1, <1>4, StaleNoted
<1>7. /\ req'[r] = next /\ \A q \in Requests \ {r} : req'[q] = req[q]
      /\ TypeOK' /\ AllInPlace' /\ RowAsMeant' /\ MfaHasSecret'
  BY <1>1, <1>4, <1>5, <1>6, RowStays, TypeOfRequests
<1>8. Grouping'
  BY <1>4, <1>7 DEF Grouping
<1>9. GroupsInOrder'
  BY <1>1, <1>8 DEF GroupsInOrder
<1>10. Coming => Coming'
  <2>1. \A q \in Requests : req[q].at = "signal" => req'[q].at = "signal"
    BY <1>1, <1>7
  <2> QED BY <1>1, <1>8, <2>1 DEF Coming, Exists
<1> QED BY <1>7, <1>9, <1>10 DEF Kept

\* The group of the copy is added.
LEMMA AddKept ==
    ASSUME AccountsInv, NEW r \in Requests, AddGroup(r)
    PROVE  Kept
<1>1. /\ req[r].at = "add" /\ groups' = groups \cup {GroupOf(req[r].copy)}
      /\ NoteStale(r, "columns") /\ req' = [req EXCEPT ![r] = Idle]
      /\ UNCHANGED <<row, balance, meant, faults>>
  BY DEF AddGroup, At, Finish
<1>2. "add" \in Regrouping
  BY DEF Regrouping
<1>3. /\ TypeOK /\ Exists /\ (req[r].fresh => SameGroup(req[r].copy, row))
      /\ Idle \in Request /\ Idle.at = "idle" /\ \A s : InPlace(Idle, row, s)
  BY <1>1, <1>2, Regroups
<1>4. /\ stale' \in DOMAIN Worse
      /\ stale' = "nothing" => stale = "nothing" /\ req[r].fresh
      /\ stale' \in {"nothing", "columns"} => stale \in {"nothing", "columns"}
      /\ stale' # "switch" => stale # "switch"
  BY <1>1, <1>3, StaleNoted
<1>5. groups' \subseteq Groups
  BY <1>1, <1>3, TypeOfRequests DEF GroupOf, Groups
<1>6. /\ req'[r] = Idle /\ \A q \in Requests \ {r} : req'[q] = req[q]
      /\ TypeOK' /\ AllInPlace' /\ RowAsMeant' /\ MfaHasSecret'
  BY <1>1, <1>3, <1>4, <1>5, RowStays, TypeOfRequests
<1>7. GroupsInOrder => GroupsInOrder'
  <2> SUFFICES ASSUME GroupsInOrder, faults' = 0, stale' = "nothing"
               PROVE  groups' = {GroupOf(row')}
    BY DEF GroupsInOrder
  <2>1. groups \subseteq {GroupOf(row)}
    BY <1>1, <1>3, <1>4 DEF GroupsInOrder
  <2>2. GroupOf(req[r].copy) = GroupOf(row)
    BY <1>3, <1>4 DEF SameGroup, GroupOf
  <2> QED BY <1>1, <2>1, <2>2
<1>8. Coming => Coming'
  <2>1. \A q \in Requests : req[q].at = "signal" => req'[q].at = "signal"
    BY <1>1, <1>6
  <2> QED BY <1>1, <2>1 DEF Coming, Exists
<1> QED BY <1>6, <1>7, <1>8 DEF Kept

\* A form comes back, and is put over the row.
LEMMA PostKept ==
    ASSUME AccountsInv, NEW r \in Requests, AdminPost(r)
    PROVE  Kept
<1>1. /\ req[r].at = "form" /\ req[r] \in Request /\ InPlace(req[r], row, stale)
      /\ UNCHANGED <<row, groups, balance, faults>>
  BY RequestOf DEF AdminPost, At, AccountsInv, AllInPlace
<1>2. PICK old : old = req[r].copy
  OBVIOUS
<1>3. PICK put : put = [c \in AllColumns |-> IF c \in FormColumns THEN old[c] ELSE row[c]]
  OBVIOUS
<1>4. PICK q : q = [req[r] EXCEPT !.at = "post", !.copy = put]
  OBVIOUS
<1>5. req' = [req EXCEPT ![r] = q]
  BY <1>2, <1>3, <1>4 DEF AdminPost
<1>6. Form(req[r], row) /\ Exists
  BY <1>1 DEF InPlace, Exists
<1>7. row \in User /\ Signable(row) /\ old \in User
  BY <1>1, <1>2, <1>6, RowOfUser DEF Request
<1>8. put \in User /\ \A c \in AllColumns : put[c] = IF c \in FormColumns THEN old[c] ELSE row[c]
  <2>1. put = [c \in AllColumns |-> put[c]]
        /\ \A c \in AllColumns : put[c] = IF c \in FormColumns THEN old[c] ELSE row[c]
    BY <1>3
  <2>2. /\ put["password"] \in Passwords \cup {NoPassword} /\ put["role"] \in Roles
        /\ put["is_verified"] \in BOOLEAN /\ put["mfa_enabled"] \in BOOLEAN
        /\ put["mfa_secret"] \in BOOLEAN /\ put["oauth"] \in BOOLEAN
    BY <1>7, <2>1, FunctionsAreRows, Columns
  <2> QED BY <2>1, <2>2, RowsAreFunctions
<1>9. /\ q \in Request /\ q.at = "post" /\ q.copy = put /\ q.kind = req[r].kind
      /\ q.saves = req[r].saves /\ q.changes = req[r].changes
      /\ q.selected = req[r].selected /\ q.fresh = req[r].fresh
  BY <1>1, <1>4, <1>8 DEF Request, Places
<1>10. /\ GroupOf(put) = GroupOf(old)
       /\ put["password"] = row["password"] /\ put["oauth"] = row["oauth"]
  BY <1>8, Columns DEF GroupOf, FormColumns
<1>11. FormColumns \subseteq AllColumns
  BY Columns DEF FormColumns
<1>12. Form(q, row)
  BY <1>2, <1>6, <1>8, <1>9, <1>10, <1>11 DEF Form
<1>13. \/ /\ old["mfa_enabled"] /\ ~row["mfa_enabled"]
          /\ stale' = "switch" /\ meant' = row
       \/ /\ old["mfa_enabled"] => row["mfa_enabled"]
          /\ UNCHANGED <<stale, meant>>
  BY <1>2, <1>7, FunctionsAreRows DEF AdminPost
<1>14. stale' # "switch" => (put["mfa_enabled"] => put["mfa_secret"])
  <2>1. stale # "switch" => (row["mfa_enabled"] => row["mfa_secret"])
    BY DEF AccountsInv, MfaHasSecret
  <2>2. /\ "mfa_enabled" \in FormColumns /\ "mfa_secret" \notin FormColumns
        /\ "mfa_enabled" \in AllColumns /\ "mfa_secret" \in AllColumns
    BY Columns DEF FormColumns
  <2> QED BY <1>8, <1>13, <2>1, <2>2
<1>15. Posted(q, row, stale')
  BY <1>2, <1>6, <1>7, <1>8, <1>9, <1>10, <1>14 DEF Posted, Form, Signable
<1>16. InPlace(q, row, stale')
  BY <1>6, <1>9, <1>12, <1>15 DEF InPlace, Exists
<1>17. /\ stale' \in DOMAIN Worse /\ meant' \in User
       /\ stale' \in {"nothing", "columns"} => stale' = stale /\ meant' = meant
       /\ stale' # "switch" => stale # "switch"
       /\ stale' = "nothing" => stale = "nothing"
  BY <1>7, <1>13, TypeOfRequests DEF AccountsInv, Worse
<1>18. /\ req'[r] = q /\ \A p \in Requests \ {r} : req'[p] = req[p]
       /\ TypeOK' /\ AllInPlace' /\ RowAsMeant' /\ MfaHasSecret'
  BY <1>1, <1>5, <1>9, <1>16, <1>17, RowStays, TypeOfRequests DEF AccountsInv
<1>19. \A p \in Requests : req'[p].at \in {"signal", "remove", "add"} <=>
                             req[p].at \in {"signal", "remove", "add"}
  BY <1>1, <1>9, <1>18
<1>20. GroupsInOrder => GroupsInOrder'
  <2>1. Grouping <=> Grouping'
    BY <1>19 DEF Grouping
  <2>2. \A p \in Requests : req'[p].at = "add" => req'[p] = req[p]
    BY <1>9, <1>18
  <2> QED BY <1>1, <1>17, <2>1, <2>2 DEF GroupsInOrder, Exists
<1>21. Coming => Coming'
  <2>1. Grouping <=> Grouping'
    BY <1>19 DEF Grouping
  <2>2. \A p \in Requests : req[p].at = "signal" => req'[p].at = "signal"
    BY <1>1, <1>18
  <2> QED BY <1>1, <2>1, <2>2 DEF Coming, Exists
<1> QED BY <1>18, <1>20, <1>21 DEF Kept

\* A request dies.
LEMMA DeathKept ==
    ASSUME AccountsInv, NEW r \in Requests, Dies(r)
    PROVE  Kept
<1>1. /\ faults < MaxFaults /\ faults' = faults + 1 /\ req' = [req EXCEPT ![r] = Idle]
      /\ UNCHANGED <<row, groups, balance, meant, stale>>
  BY DEF Dies, Finish
<1>2. TypeOK /\ faults' \in 0..MaxFaults /\ faults' # 0
  BY <1>1, FaultsAssumption, TypeOfRequests DEF AccountsInv
<1>3. TypeOK' /\ AllInPlace' /\ RowAsMeant' /\ MfaHasSecret'
  BY <1>1, <1>2, RowStays, IdleRequest, TypeOfRequests
<1> QED BY <1>2, <1>3 DEF Kept, GroupsInOrder, Coming

-----------------------------------------------------------------------------
(* The row is inserted.                                                    *)

\* Before there is a row, nobody is past the insertion.
LEMMA FirstRow ==
    ASSUME AccountsInv, NEW r \in Requests, ~Exists, req[r].at \in {"insert", "create"},
           NEW next \in Request, req' = [req EXCEPT ![r] = next],
           row' = req[r].copy, meant' = req[r].copy, UNCHANGED <<stale, faults>>,
           groups' \subseteq Groups, balance' \in BOOLEAN, InPlace(next, row', stale')
    PROVE  /\ req'[r] = next
           /\ \A q \in Requests \ {r} : req'[q].at \in {"idle", "insert", "create"}
           /\ TypeOK' /\ AllInPlace' /\ RowAsMeant' /\ MfaHasSecret'
<1>1. /\ req' \in [Requests -> Request] /\ req'[r] = next
      /\ \A q \in Requests \ {r} : req'[q] = req[q]
  BY NewRequest DEF AccountsInv
<1>2. /\ req[r].copy \in User /\ Signable(req[r].copy) /\ ~req[r].copy.mfa_enabled
  <2>1. InPlace(req[r], row, stale)
    BY DEF AccountsInv, AllInPlace
  <2> QED BY <2>1, RequestOf DEF AccountsInv, InPlace
<1>3. TypeOK'
  BY <1>1, <1>2, TypeOfRequests, TypeOfRequestsNext DEF AccountsInv
<1>4. row' # Absent
  BY <1>2, AbsentIsNone
<1>5. ASSUME NEW q \in Requests, q # r
      PROVE  /\ req'[q].at \in {"idle", "insert", "create"}
             /\ InPlace(req'[q], row', stale')
  <2>1. InPlace(req[q], row, stale)
    BY DEF AccountsInv, AllInPlace
  <2>2. req[q].at \in {"idle", "insert", "create"}
    BY <2>1 DEF InPlace, Exists
  <2>3. PICK p : p = req[q]
    OBVIOUS
  <2>4. \A u, s : u # Absent => InPlace(p, u, s)
    BY <2>1, <2>2, <2>3 DEF InPlace
  <2> QED BY <1>1, <1>4, <1>5, <2>2, <2>3, <2>4
<1>6. AllInPlace'
  <2>1. \A q \in Requests : InPlace(req'[q], row', stale')
    BY <1>1, <1>5
  <2> QED BY <2>1 DEF AllInPlace
<1>7. RowAsMeant' /\ MfaHasSecret'
  BY <1>2 DEF RowAsMeant, MfaHasSecret
<1> QED BY <1>1, <1>3, <1>5, <1>6, <1>7

\* A registration; the second one of the same e-mail is refused.
LEMMA InsertKept ==
    ASSUME AccountsInv, NEW r \in Requests, Insert(r)
    PROVE  Kept
<1>1. req[r].at = "insert" /\ UNCHANGED <<groups, balance, stale, faults>>
  BY DEF Insert, At
<1>2. CASE Exists
  <2>1. req' = [req EXCEPT ![r] = Idle] /\ UNCHANGED <<row, meant>>
    BY <1>2 DEF Insert, Finish
  <2> QED BY <1>1, <2>1, IdleRequest, QuietStep DEF Regrouping
<1>3. CASE ~Exists
  <2>1. /\ row' = req[r].copy /\ meant' = req[r].copy
        /\ req' = [req EXCEPT ![r] = Rest(r, "signal")]
    BY <1>3 DEF Insert
  <2>2. "signal" \in Regrouping
    BY DEF Regrouping
  <2>3. PICK next : next = Rest(r, "signal")
    OBVIOUS
  <2>4. /\ next \in Request /\ next.at = "signal"
        /\ SameGroup(next.copy, req[r].copy)
    BY <2>2, <2>3, RestRequest DEF AccountsInv
  <2>5. PICK v \in User : v = req[r].copy
    BY RequestOf DEF AccountsInv
  <2>6. \A s : InPlace(next, v, s)
    BY <2>2, <2>4, <2>5, RegroupingInPlace
  <2>7. InPlace(next, row', stale')
    BY <2>1, <2>5, <2>6
  <2>8. groups \subseteq Groups /\ balance \in BOOLEAN
    BY TypeOfRequests DEF AccountsInv
  <2>9. req' = [req EXCEPT ![r] = next]
    BY <2>1, <2>3
  <2>10. /\ req'[r] = next
         /\ \A q \in Requests \ {r} : req'[q].at \in {"idle", "insert", "create"}
         /\ TypeOK' /\ AllInPlace' /\ RowAsMeant' /\ MfaHasSecret'
    BY <1>1, <1>3, <2>1, <2>4, <2>7, <2>8, <2>9, FirstRow
  <2>11. Grouping'
    BY <2>4, <2>10 DEF Grouping
  <2>12. \A q \in Requests : req'[q].at # "add"
    BY <2>4, <2>10
  <2>13. GroupsInOrder'
    BY <2>11, <2>12 DEF GroupsInOrder
  <2>14. Coming'
    BY <2>4, <2>10, <2>11 DEF Coming
  <2> QED BY <2>10, <2>13, <2>14 DEF Kept
<1> QED BY <1>2, <1>3

\* The first sign-in with a Microsoft account; the second one finds the user.
LEMMA CreateKept ==
    ASSUME AccountsInv, NEW r \in Requests, CreateAtomic(r)
    PROVE  Kept
<1>1. req[r].at = "create" /\ UNCHANGED <<stale, faults>>
  BY DEF CreateAtomic, At
<1>2. CASE Exists
  <2>1. FillIn(r) /\ UNCHANGED <<row, meant, balance, groups>>
    BY <1>2 DEF CreateAtomic
  <2>2. UNCHANGED <<row, groups, balance, meant, stale, faults>>
    BY <1>1, <2>1
  <2>3. req[r].at \notin Regrouping
    BY <1>1 DEF Regrouping
  <2> QED BY <1>2, <2>1, <2>2, <2>3, FillKept
<1>3. CASE ~Exists
  <2>1. /\ row' = req[r].copy /\ meant' = req[r].copy
        /\ balance' = TRUE /\ groups' = {GroupOf(req[r].copy)}
        /\ req' = [req EXCEPT ![r] = Idle]
    BY <1>3 DEF CreateAtomic, Finish
  <2>2. Idle \in Request /\ Idle.at = "idle" /\ req[r].copy \in User
    BY IdleRequest, RequestOf DEF AccountsInv
  <2>3. InPlace(Idle, row', stale')
    BY <2>1, <2>2, AbsentIsNone DEF InPlace
  <2>4. groups' \subseteq Groups
    BY <2>1 DEF GroupOf, Groups
  <2>5. /\ req'[r] = Idle
        /\ \A q \in Requests \ {r} : req'[q].at \in {"idle", "insert", "create"}
        /\ TypeOK' /\ AllInPlace' /\ RowAsMeant' /\ MfaHasSecret'
    BY <1>1, <1>3, <2>1, <2>2, <2>3, <2>4, FirstRow
  <2>6. GroupsInOrder' /\ Coming'
    BY <2>1 DEF GroupsInOrder, Coming
  <2> QED BY <2>5, <2>6 DEF Kept
<1> QED BY <1>2, <1>3

-----------------------------------------------------------------------------
(* The theorems.                                                           *)

\* Every step keeps what is kept.
LEMMA StepKept ==
    ASSUME AccountsInv, [Next]_vars
    PROVE  Kept
<1>1. CASE Next
  <2>1. PICK r \in Requests :
           \/ Register(r) \/ VerifyEmail(r) \/ SwitchMfa(r)
           \/ ChangePassword(r) \/ ResetPassword(r)
           \/ MicrosoftNew(r) \/ MicrosoftKnown(r)
           \/ Insert(r) \/ CreateBalance(r) \/ CreateAtomic(r)
           \/ Compare(r) \/ Write(r) \/ RemoveGroups(r) \/ AddGroup(r)
           \/ AdminOpen(r) \/ AdminPost(r) \/ AdminSave(r)
           \/ Dies(r)
    BY <1>1 DEF Next
  <2>2. CASE Register(r) \/ MicrosoftNew(r)
    BY <2>2, NewAccountKept
  <2>3. CASE VerifyEmail(r) \/ ChangePassword(r) \/ ResetPassword(r)
    BY <2>3, OneColumnKept DEF ChangePassword, ResetPassword
  <2>4. CASE SwitchMfa(r)
    BY <2>4, SwitchKept
  <2>5. CASE MicrosoftKnown(r)
    BY <2>5, MicrosoftKept
  <2>6. CASE Insert(r)
    BY <2>6, InsertKept
  <2>7. CASE CreateBalance(r)
    BY <2>7, BalanceKept
  <2>8. CASE CreateAtomic(r)
    BY <2>8, CreateKept
  <2>9. CASE Compare(r)
    BY <2>9, CompareKept
  <2>10. CASE Write(r)
    BY <2>10, WriteKept
  <2>11. CASE RemoveGroups(r)
    BY <2>11, RemoveKept
  <2>12. CASE AddGroup(r)
    BY <2>12, AddKept
  <2>13. CASE AdminOpen(r)
    BY <2>13, OpenKept
  <2>14. CASE AdminPost(r)
    BY <2>14, PostKept
  <2>15. CASE AdminSave(r)
    BY <2>15, SaveKept
  <2>16. CASE Dies(r)
    BY <2>16, DeathKept
  <2> QED
    BY <2>1, <2>2, <2>3, <2>4, <2>5, <2>6, <2>7, <2>8, <2>9, <2>10, <2>11, <2>12,
       <2>13, <2>14, <2>15, <2>16
<1>2. CASE UNCHANGED vars
  <2>1. TypeOK' /\ AllInPlace' /\ RowAsMeant' /\ MfaHasSecret'
    BY <1>2 DEF vars, AccountsInv, TypeOK, AllInPlace, RowAsMeant, MfaHasSecret, Exists
  <2>2. (GroupsInOrder => GroupsInOrder') /\ (Coming => Coming')
    BY <1>2 DEF vars, GroupsInOrder, Coming, Grouping, Exists
  <2> QED BY <2>1, <2>2 DEF Kept
<1> QED BY <1>1, <1>2

\* Nobody has an account yet.
LEMMA AccountsInit == Init => AccountsInv /\ GroupsInOrder /\ Coming
<1> SUFFICES ASSUME Init PROVE AccountsInv /\ GroupsInOrder /\ Coming
  OBVIOUS
<1>1. ~Exists /\ row.mfa_enabled = FALSE
  BY DEF Init, Exists, Absent
<1>2. Idle \in Request /\ Idle.at = "idle" /\ NewUser \in User
  BY IdleRequest, NewUserRow
<1>3. /\ row = Absent /\ groups = {} /\ balance = FALSE /\ req = [r \in Requests |-> Idle]
      /\ meant = NewUser /\ stale = "nothing" /\ faults = 0
  BY DEF Init
<1>4. TypeOK
  <2>1. "nothing" \in DOMAIN Worse /\ 0 \in 0..MaxFaults
    BY FaultsAssumption DEF Worse
  <2>2. row \in User \cup {Absent} /\ req \in [Requests -> Request] /\ groups \subseteq Groups
    BY <1>2, <1>3
  <2> QED BY <1>1, <1>2, <1>3, <2>1, <2>2, TypeOfRequests
<1>5. AllInPlace
  BY <1>2, <1>3 DEF AllInPlace, InPlace
<1>6. RowAsMeant /\ MfaHasSecret /\ GroupsInOrder /\ Coming
  BY <1>1 DEF RowAsMeant, MfaHasSecret, GroupsInOrder, Coming
<1> QED BY <1>4, <1>5, <1>6 DEF AccountsInv

\* The invariant of every account.
THEOREM AccountsHold == Spec => []AccountsInv
<1>1. Init => AccountsInv
  BY AccountsInit
<1>2. AccountsInv /\ [Next]_vars => AccountsInv'
  BY StepKept DEF Kept, AccountsInv
<1> QED BY <1>1, <1>2, PTL DEF Spec

\* What a request or a form has changed stays changed until a later one changes it,
\* however many overlap, unless one that saves all columns saved an outdated copy.
THEOREM ChangesAreKept == Spec => []RowAsMeant
<1>1. AccountsInv => RowAsMeant
  BY DEF AccountsInv
<1> QED BY <1>1, AccountsHold, PTL

\* MFA that is on has a secret, whatever requests and forms of other fields overlap,
\* until a form of the admin page switches MFA on: nothing but the page's checkbox
\* (mfa_enabled in users/admin.py) separates the two.
THEOREM MfaKeepsItsSecret == Spec => []MfaHasSecret
<1>1. AccountsInv => MfaHasSecret
  BY DEF AccountsInv
<1> QED BY <1>1, AccountsHold, PTL

\* As long as administrators select the group that goes with the role, a user is in
\* the group of the row's role and verification once nothing is being written,
\* unless a request died or worked with an outdated copy.
THEOREM GroupsFollowRows ==
    ASSUME PageSelectsGroup
    PROVE  Spec => []GroupFollowsRow
<1>1. Init => AccountsInv /\ GroupsInOrder
  BY AccountsInit
<1>2. AccountsInv /\ GroupsInOrder /\ [Next]_vars => AccountsInv' /\ GroupsInOrder'
  BY StepKept DEF Kept, AccountsInv
<1>3. GroupsInOrder => GroupFollowsRow
  BY DEF GroupsInOrder, GroupFollowsRow, Grouping, Writing
<1> QED BY <1>1, <1>2, <1>3, PTL DEF Spec

\* Under the same hypothesis, a user has a group and a balance once nothing is being
\* written and nobody has died, whatever overlapped.
THEOREM UsersAreProvisioned ==
    ASSUME PageSelectsGroup
    PROVE  Spec => []Provisioned
<1>1. Init => AccountsInv /\ Coming
  BY AccountsInit
<1>2. AccountsInv /\ Coming /\ [Next]_vars => AccountsInv' /\ Coming'
  BY StepKept DEF Kept, AccountsInv
<1>3. Coming => Provisioned
  BY DEF Coming, Provisioned, Grouping, Writing
<1> QED BY <1>1, <1>2, <1>3, PTL DEF Spec

-----------------------------------------------------------------------------
(* Role groups: the apps, the roles and the lists.                         *)

\* The rows of the first n apps are there.
RowsDeclared(n) == \A i \in 1..n : Declared(InstalledApps[i]) \subseteq table

\* How far this start has come with them.
Migrated ==
    /\ at = "migrating" => role = 1 /\ RowsDeclared(app - 1)
    /\ at = "grouping" => app = 3 /\ RowsDeclared(app) /\ (role > 1 => fresh = {})
    /\ at = "serving" /\ ~failed => RowsDeclared(Len(InstalledApps))

\* This start has set the group of r.
IsSet(r) ==
    \/ at = "grouping" /\ \E i \in 1..(role - 1) : RoleOrder[i] = r
    \/ at = "migrating" /\ app > 3
    \/ at = "serving" /\ ~failed

\* The group of r has what its list gives it but for rows that came later.
AsListed(r) ==
    /\ r # "admin" => granted[r] \subseteq Listed(r)
    /\ Listed(r) \ granted[r] \subseteq fresh \cup (Listed(r) \ table)

GroupsSet ==
    \A r \in GroupNames : IsSet(r) => granted[r] # NoGroup /\ (r \notin edited => AsListed(r))

NobodyLeftOut == bounds.faults = 0 => ~failed /\ ungrouped = {}

RoleGroupsInv == GTypeOK /\ Migrated /\ GroupsSet /\ NobodyLeftOut

\* There are seven apps; apps.common is the third, and none is left out.
LEMMA AppsInOrder ==
    /\ Len(InstalledApps) = 7
    /\ \A i \in 1..7 : InstalledApps[i] \in Apps /\ (InstalledApps[i] = "common" <=> i = 3)
    /\ \A a \in Apps : \E i \in 1..7 : InstalledApps[i] = a
<1>1. Apps = {"django", "authentication", "common", "menus", "orders", "wallets", "users"}
  BY DEF Apps, Declares
<1>2. /\ Len(InstalledApps) = 7
      /\ InstalledApps[1] = "django" /\ InstalledApps[2] = "authentication"
      /\ InstalledApps[3] = "common" /\ InstalledApps[4] = "menus" /\ InstalledApps[5] = "orders"
      /\ InstalledApps[6] = "wallets" /\ InstalledApps[7] = "users"
  BY DEF InstalledApps
<1>3. 1..7 = {1, 2, 3, 4, 5, 6, 7}
  OBVIOUS
<1> HIDE DEF Apps, InstalledApps
<1>4. \A i \in 1..7 : InstalledApps[i] \in Apps /\ (InstalledApps[i] = "common" <=> i = 3)
  BY <1>1, <1>2, <1>3
<1>5. \A a \in Apps : \E i \in 1..7 : InstalledApps[i] = a
  BY <1>1, <1>2, <1>3
<1> QED BY <1>2, <1>4, <1>5

\* There are four roles, each with one place in the order.
LEMMA RolesInOrder ==
    /\ Len(RoleOrder) = 4
    /\ \A i \in 1..4 : RoleOrder[i] \in GroupNames
    /\ \A i, j \in 1..4 : RoleOrder[i] = RoleOrder[j] => i = j
    /\ \A r \in GroupNames : \E i \in 1..4 : RoleOrder[i] = r
<1>1. /\ Len(RoleOrder) = 4
      /\ RoleOrder[1] = "admin" /\ RoleOrder[2] = "staff"
      /\ RoleOrder[3] = "customer_verified" /\ RoleOrder[4] = "customer_unverified"
  BY DEF RoleOrder
<1>2. 1..4 = {1, 2, 3, 4}
  OBVIOUS
<1>3. /\ \A i \in 1..4 : RoleOrder[i] \in GroupNames
      /\ \A i, j \in 1..4 : RoleOrder[i] = RoleOrder[j] => i = j
      /\ \A r \in GroupNames : \E i \in 1..4 : RoleOrder[i] = r
  BY <1>1, <1>2 DEF GroupNames
<1> QED BY <1>1, <1>3

\* No set of permissions stands for a group that is not there.
LEMMA NoGroupIsNone ==
    ASSUME NEW S, S \subseteq Permissions
    PROVE  S # NoGroup
<1>1. \A a \in Apps : "no group" \notin Declares[a]
  <2>1. Apps = {"django", "authentication", "common", "menus", "orders", "wallets", "users"}
    BY DEF Apps, Declares
  <2>2. /\ "no group" \notin Declares["django"] /\ "no group" \notin Declares["authentication"]
        /\ "no group" \notin Declares["common"] /\ "no group" \notin Declares["menus"]
        /\ "no group" \notin Declares["orders"] /\ "no group" \notin Declares["wallets"]
        /\ "no group" \notin Declares["users"]
    BY DEF Declares
  <2> QED BY <2>1, <2>2
<1>2. "no group" \notin DOMAIN NewPermissions
  BY ReleaseAssumption
<1>3. "no group" \notin Permissions
  BY <1>1, <1>2 DEF Permissions
<1> QED BY <1>3 DEF NoGroup

\* What an app declares are permissions, and so is all that is declared.
LEMMA DeclaredPermissions ==
    /\ \A a \in Apps : Declared(a) \subseteq Permissions
    /\ AllDeclared \subseteq Permissions
<1>1. \A a \in Apps : Declared(a) \subseteq Permissions
  BY DEF Declared, Permissions
<1> QED BY <1>1 DEF AllDeclared

\* The lists give nothing that the release does not declare.
LEMMA ListedIsDeclared ==
    ASSUME NEW r \in GroupNames, release \in {"this", "next"}
    PROVE  Listed(r) \subseteq AllDeclared
<1>1. CASE r = "admin"
  BY <1>1 DEF Listed
<1>2. CASE r # "admin" /\ release = "next"
  <2>1. Permissions \subseteq AllDeclared
    <3>1. \A p \in DOMAIN NewPermissions : p \in Declared(NewPermissions[p])
      BY <1>2 DEF Declared
    <3>2. \A p \in DOMAIN NewPermissions : NewPermissions[p] \in Apps
      BY ReleaseAssumption
    <3>3. \A a \in Apps : Declares[a] \subseteq Declared(a)
      BY DEF Declared
    <3> QED BY <3>1, <3>2, <3>3 DEF Permissions, AllDeclared
  <2>2. Listed(r) = NewLists[r] /\ r \in DOMAIN RolePermissions
    BY <1>2 DEF Listed, GroupNames, RolePermissions
  <2>3. NewLists[r] \subseteq Permissions
    BY <2>2, ReleaseAssumption
  <2> QED BY <2>1, <2>2, <2>3
<1>3. CASE r # "admin" /\ release = "this"
  <2>1. Listed(r) = RolePermissions[r]
    BY <1>3 DEF Listed
  <2>2. \A a \in Apps : Declares[a] \subseteq AllDeclared
    BY DEF AllDeclared, Declared
  <2>3. {"menus", "orders", "wallets"} \subseteq Apps
    BY DEF Apps, Declares
  <2>4. Declares["menus"] \cup Declares["orders"] \cup Declares["wallets"] \subseteq AllDeclared
    BY <2>2, <2>3
  <2>5. RolePermissions[r]
            \subseteq Declares["menus"] \cup Declares["orders"] \cup Declares["wallets"]
    BY <1>3 DEF RolePermissions, Declares, GroupNames
  <2> QED BY <2>1, <2>4, <2>5
<1> QED BY <1>1, <1>2, <1>3

\* With the rows of all apps there, all that is declared has its row.
LEMMA AllRowsDeclared ==
    ASSUME RowsDeclared(Len(InstalledApps))
    PROVE  AllDeclared \subseteq table
<1>1. \A a \in Apps : Declared(a) \subseteq table
  BY AppsInOrder DEF RowsDeclared
<1> QED BY <1>1 DEF AllDeclared

-----------------------------------------------------------------------------
(* Role groups: the invariant, one lemma for each action.                  *)

LEMMA RoleGroupsInit == GInit => RoleGroupsInv
<1> SUFFICES ASSUME GInit PROVE RoleGroupsInv
  OBVIOUS
<1>1. GTypeOK
  <2>1. granted \in [GroupNames -> (SUBSET Permissions) \cup {NoGroup}]
    BY DEF GInit
  <2>2. bounds \in [faults : 0..MaxFailures, starts : 0..MaxStarts, edits : 0..MaxEdits]
    BY BoundsAssumption DEF GInit
  <2>3. \A r \in GroupNames : granted[r] = NoGroup
    BY DEF GInit
  <2>4. app \in 1..(Len(InstalledApps) + 1) /\ role \in 1..Len(RoleOrder)
    BY AppsInOrder, RolesInOrder DEF GInit
  <2> QED BY <2>1, <2>2, <2>3, <2>4 DEF GInit, GTypeOK
<1>2. Migrated /\ GroupsSet /\ NobodyLeftOut
  BY DEF GInit, Migrated, GroupsSet, IsSet, NobodyLeftOut
<1> QED BY <1>1, <1>2 DEF RoleGroupsInv

LEMMA StartGroups == RoleGroupsInv /\ Start => RoleGroupsInv'
<1> SUFFICES ASSUME RoleGroupsInv, Start PROVE RoleGroupsInv'
  OBVIOUS
<1>1. GTypeOK'
  <2>1. bounds' \in [faults : 0..MaxFailures, starts : 0..MaxStarts, edits : 0..MaxEdits]
    BY BoundsAssumption DEF RoleGroupsInv, GTypeOK, Start, Count
  <2>2. app' \in 1..(Len(InstalledApps) + 1) /\ role' \in 1..Len(RoleOrder)
    BY AppsInOrder, RolesInOrder DEF Start
  <2> QED BY <2>1, <2>2 DEF RoleGroupsInv, GTypeOK, Start
<1>2. Migrated'
  BY DEF Start, Migrated, RowsDeclared
<1>3. GroupsSet'
  BY DEF Start, GroupsSet, IsSet
<1>4. NobodyLeftOut'
  BY DEF RoleGroupsInv, GTypeOK, NobodyLeftOut, Start, Count
<1> QED BY <1>1, <1>2, <1>3, <1>4 DEF RoleGroupsInv

\* The rows an app still lacks are added, and noted as fresh.
LEMMA CreatePermissionsGroups == RoleGroupsInv /\ CreatePermissions => RoleGroupsInv'
<1> SUFFICES ASSUME RoleGroupsInv, CreatePermissions PROVE RoleGroupsInv'
  OBVIOUS
<1> DEFINE a == InstalledApps[app]
<1>1. /\ at = "migrating" /\ app \in 1..7 /\ role = 1
      /\ a \in Apps /\ (a = "common" <=> app = 3) /\ Declared(a) \subseteq Permissions
  BY AppsInOrder, DeclaredPermissions DEF RoleGroupsInv, GTypeOK, CreatePermissions
<1>2. /\ table' = table \cup Declared(a)
      /\ fresh' = fresh \cup (Declared(a) \ table)
      /\ \/ app = 3 /\ at' = "grouping" /\ app' = app
         \/ app # 3 /\ at' = at /\ app' = app + 1
      /\ UNCHANGED <<release, granted, role, ungrouped, edited, failed, bounds>>
  BY <1>1 DEF CreatePermissions
<1> HIDE DEF a
<1>3. GTypeOK'
  <2>1. table' \subseteq Permissions /\ fresh' \subseteq table' /\ table \subseteq table'
    BY <1>1, <1>2 DEF RoleGroupsInv, GTypeOK
  <2>2. \A r \in GroupNames : granted'[r] # NoGroup => granted'[r] \subseteq table'
    BY <1>2, <2>1 DEF RoleGroupsInv, GTypeOK
  <2>3. at' \in {"migrating", "grouping"} /\ app' \in 1..(Len(InstalledApps) + 1)
    BY <1>1, <1>2, AppsInOrder
  <2> QED BY <1>2, <2>1, <2>2, <2>3 DEF RoleGroupsInv, GTypeOK
<1>4. \A b : Declared(b)' = Declared(b)
  BY <1>2 DEF Declared
<1>5. \A i \in 1..app : Declared(InstalledApps[i]) \subseteq table'
  <2>1. \A i \in 1..(app - 1) : Declared(InstalledApps[i]) \subseteq table
    BY <1>1 DEF RoleGroupsInv, Migrated, RowsDeclared
  <2>2. \A i \in 1..app : i \in 1..(app - 1) \/ i = app
    BY <1>1
  <2>3. Declared(InstalledApps[app]) \subseteq table'
    BY <1>2 DEF a
  <2> QED BY <1>2, <2>1, <2>2, <2>3
<1>6. Migrated'
  <2>1. \A n : n = app => RowsDeclared(n)'
    BY <1>4, <1>5 DEF RowsDeclared
  <2>2. at' = "migrating" => app' - 1 = app
    BY <1>1, <1>2
  <2> QED BY <1>1, <1>2, <2>1, <2>2 DEF Migrated
<1>7. GroupsSet'
  <2> SUFFICES ASSUME NEW r \in GroupNames, IsSet(r)'
               PROVE  granted'[r] # NoGroup /\ (r \notin edited' => AsListed(r)')
    BY DEF GroupsSet
  <2>1. IsSet(r)
    BY <1>1, <1>2, RolesInOrder DEF IsSet
  <2>2. granted[r] # NoGroup /\ (r \notin edited => AsListed(r))
    BY <2>1 DEF RoleGroupsInv, GroupsSet
  <2>3. Listed(r)' = Listed(r)
    BY <1>2, <1>4 DEF Listed, AllDeclared
  <2> QED BY <1>2, <2>2, <2>3 DEF AsListed
<1>8. NobodyLeftOut'
  BY <1>2 DEF RoleGroupsInv, NobodyLeftOut
<1> QED BY <1>3, <1>6, <1>7, <1>8 DEF RoleGroupsInv

LEMMA CreateGroupGroups == RoleGroupsInv /\ CreateGroup => RoleGroupsInv'
<1> SUFFICES ASSUME RoleGroupsInv, CreateGroup PROVE RoleGroupsInv'
  OBVIOUS
<1>1. PICK q \in GroupNames : q = RoleOrder[role]
  BY RolesInOrder DEF RoleGroupsInv, GTypeOK
<1>2. /\ at = "grouping" /\ granted[q] = NoGroup
      /\ granted' = [granted EXCEPT ![q] = {}]
      /\ UNCHANGED <<release, table, at, app, role, ungrouped, fresh, edited, failed, bounds>>
  BY <1>1 DEF CreateGroup, position, history
<1>3. {} # NoGroup /\ {} \in SUBSET Permissions
  BY NoGroupIsNone
<1>4. GTypeOK'
  BY <1>2, <1>3 DEF RoleGroupsInv, GTypeOK
<1>5. Migrated'
  BY <1>2 DEF RoleGroupsInv, Migrated, RowsDeclared, Declared
<1>6. GroupsSet'
  <2> SUFFICES ASSUME NEW r \in GroupNames, IsSet(r)'
               PROVE  granted'[r] # NoGroup /\ (r \notin edited' => AsListed(r)')
    BY DEF GroupsSet
  <2>1. IsSet(r)
    BY <1>2 DEF IsSet
  <2>2. granted[r] # NoGroup /\ (r \notin edited => AsListed(r))
    BY <2>1 DEF RoleGroupsInv, GroupsSet
  <2>3. r # q /\ granted'[r] = granted[r]
    BY <1>2, <2>2 DEF RoleGroupsInv, GTypeOK
  <2>4. Listed(r)' = Listed(r)
    BY <1>2 DEF Listed, AllDeclared, Declared
  <2> QED BY <1>2, <2>2, <2>3, <2>4 DEF AsListed
<1>7. NobodyLeftOut'
  BY <1>2 DEF RoleGroupsInv, NobodyLeftOut
<1> QED BY <1>4, <1>5, <1>6, <1>7 DEF RoleGroupsInv

\* The group is set to what its list gives it and has a row.
LEMMA SetGroupGroups == RoleGroupsInv /\ SetGroup => RoleGroupsInv'
<1> SUFFICES ASSUME RoleGroupsInv, SetGroup PROVE RoleGroupsInv'
  OBVIOUS
<1>1. PICK q \in GroupNames : q = RoleOrder[role]
  BY RolesInOrder DEF RoleGroupsInv, GTypeOK
<1>2. /\ at = "grouping" /\ app = 3 /\ role \in 1..4
      /\ granted' = [granted EXCEPT ![q] = Found(q)]
      /\ edited' = edited \ {q} /\ fresh' = {}
      /\ UNCHANGED <<release, table, ungrouped, failed, bounds>>
  BY <1>1, RolesInOrder DEF RoleGroupsInv, GTypeOK, Migrated, SetGroup
<1>3. \/ role < 4 /\ role' = role + 1 /\ at' = at /\ app' = app
      \/ role = 4 /\ role' = 1 /\ app' = app + 1 /\ at' = "migrating"
  BY <1>2, RolesInOrder DEF SetGroup, NextRole
<1>4. /\ Found(q) \subseteq table /\ Found(q) # NoGroup
      /\ q # "admin" => Found(q) \subseteq Listed(q)
      /\ Listed(q) \ Found(q) \subseteq Listed(q) \ table
  <2>1. Found(q) \subseteq table /\ table \subseteq Permissions
    BY DEF RoleGroupsInv, GTypeOK, Found
  <2>2. Found(q) # NoGroup
    BY <2>1, NoGroupIsNone
  <2> QED BY <2>1, <2>2 DEF Found
<1>5. \A r \in GroupNames : granted'[r] = IF r = q THEN Found(q) ELSE granted[r]
  BY <1>2 DEF RoleGroupsInv, GTypeOK
<1>6. GTypeOK'
  <2>1. granted' \in [GroupNames -> (SUBSET Permissions) \cup {NoGroup}]
    BY <1>2, <1>4 DEF RoleGroupsInv, GTypeOK
  <2>2. \A r \in GroupNames : granted'[r] # NoGroup => granted'[r] \subseteq table'
    BY <1>2, <1>4, <1>5 DEF RoleGroupsInv, GTypeOK
  <2>3. /\ at' \in {"migrating", "grouping"} /\ app' \in 1..(Len(InstalledApps) + 1)
        /\ role' \in 1..Len(RoleOrder)
    BY <1>2, <1>3, AppsInOrder, RolesInOrder
  <2> QED BY <1>2, <2>1, <2>2, <2>3 DEF RoleGroupsInv, GTypeOK
<1>7. Migrated'
  <2>1. \A n : RowsDeclared(n)' <=> RowsDeclared(n)
    BY <1>2 DEF RowsDeclared, Declared
  <2>2. RowsDeclared(3)
    BY <1>2 DEF RoleGroupsInv, Migrated
  <2> QED BY <1>2, <1>3, <2>1, <2>2 DEF Migrated
<1>8. GroupsSet'
  <2> SUFFICES ASSUME NEW r \in GroupNames, IsSet(r)'
               PROVE  granted'[r] # NoGroup /\ (r \notin edited' => AsListed(r)')
    BY DEF GroupsSet
  <2>1. Listed(r)' = Listed(r)
    BY <1>2 DEF Listed, AllDeclared, Declared
  <2>2. CASE r = q
    BY <1>2, <1>4, <1>5, <2>1, <2>2 DEF AsListed
  <2>3. CASE r # q
    <3>1. PICK i \in 1..4 : RoleOrder[i] = r
      BY RolesInOrder
    <3>2. i # role
      BY <1>1, <2>3, <3>1
    <3>3. i < role
      <4>1. CASE role = 4
        BY <3>2, <4>1
      <4>2. CASE role < 4
        <5>1. \E j \in 1..role : RoleOrder[j] = r
          BY <1>2, <1>3, <4>2 DEF IsSet
        <5> QED BY <1>2, <3>1, <3>2, <5>1, RolesInOrder
      <4> QED BY <1>2, <4>1, <4>2
    <3>4. IsSet(r)
      BY <1>2, <3>1, <3>3 DEF IsSet
    <3>5. granted[r] # NoGroup /\ (r \notin edited => AsListed(r))
      BY <3>4 DEF RoleGroupsInv, GroupsSet
    <3>6. r \notin edited' => Listed(r) \ granted[r] \subseteq Listed(r) \ table
      <4>1. fresh = {}
        BY <1>2, <3>1, <3>3 DEF RoleGroupsInv, Migrated
      <4> QED BY <1>2, <2>3, <3>5, <4>1 DEF AsListed
    <3> QED BY <1>2, <1>5, <2>1, <2>3, <3>5, <3>6 DEF AsListed
  <2> QED BY <2>2, <2>3
<1>9. NobodyLeftOut'
  BY <1>2 DEF RoleGroupsInv, NobodyLeftOut
<1> QED BY <1>6, <1>7, <1>8, <1>9 DEF RoleGroupsInv

LEMMA ServeGroups == RoleGroupsInv /\ Serve => RoleGroupsInv'
<1> SUFFICES ASSUME RoleGroupsInv, Serve PROVE RoleGroupsInv'
  OBVIOUS
<1>1. /\ at = "migrating" /\ app = 8 /\ at' = "serving"
      /\ UNCHANGED <<release, table, granted, app, role, ungrouped, fresh, edited, failed, bounds>>
  BY AppsInOrder DEF RoleGroupsInv, GTypeOK, Serve, history
<1>2. GTypeOK'
  BY <1>1 DEF RoleGroupsInv, GTypeOK
<1>3. Migrated'
  <2>1. \A n : RowsDeclared(n)' <=> RowsDeclared(n)
    BY <1>1 DEF RowsDeclared, Declared
  <2>2. RowsDeclared(7)
    BY <1>1 DEF RoleGroupsInv, Migrated
  <2> QED BY <1>1, <2>1, <2>2, AppsInOrder DEF Migrated
<1>4. GroupsSet'
  BY <1>1 DEF RoleGroupsInv, GroupsSet, IsSet, AsListed, Listed, AllDeclared, Declared
<1>5. NobodyLeftOut'
  BY <1>1 DEF RoleGroupsInv, NobodyLeftOut
<1> QED BY <1>2, <1>3, <1>4, <1>5 DEF RoleGroupsInv

LEMMA FaultsGroups == RoleGroupsInv /\ (MigrateFails \/ ContainerDies) => RoleGroupsInv'
<1> SUFFICES ASSUME RoleGroupsInv, MigrateFails \/ ContainerDies PROVE RoleGroupsInv'
  OBVIOUS
<1>1. /\ \/ at' = "serving" /\ failed'
         \/ at' = "down" /\ failed' = failed
      /\ failed' \in BOOLEAN /\ bounds' = [bounds EXCEPT !.faults = @ + 1]
      /\ bounds.faults < MaxFailures
      /\ UNCHANGED <<release, table, granted, app, role, ungrouped, fresh, edited>>
  BY DEF RoleGroupsInv, GTypeOK, MigrateFails, ContainerDies, Count, history
<1>2. bounds'.faults # 0
      /\ bounds' \in [faults : 0..MaxFailures, starts : 0..MaxStarts, edits : 0..MaxEdits]
  BY <1>1, BoundsAssumption DEF RoleGroupsInv, GTypeOK
<1>3. GTypeOK'
  BY <1>1, <1>2 DEF RoleGroupsInv, GTypeOK
<1>4. Migrated' /\ GroupsSet' /\ NobodyLeftOut'
  BY <1>1, <1>2 DEF Migrated, GroupsSet, IsSet, NobodyLeftOut
<1> QED BY <1>3, <1>4 DEF RoleGroupsInv

LEMMA StopGroups == RoleGroupsInv /\ Stop => RoleGroupsInv'
<1> SUFFICES ASSUME RoleGroupsInv, Stop PROVE RoleGroupsInv'
  OBVIOUS
<1>1. /\ at' = "down" /\ release' \in {"this", "next"}
      /\ UNCHANGED <<table, granted, app, role, ungrouped, fresh, edited, failed, bounds>>
  BY DEF RoleGroupsInv, GTypeOK, Stop, history
<1>2. GTypeOK'
  BY <1>1 DEF RoleGroupsInv, GTypeOK
<1>3. Migrated' /\ GroupsSet' /\ NobodyLeftOut'
  BY <1>1 DEF RoleGroupsInv, Migrated, GroupsSet, IsSet, NobodyLeftOut
<1> QED BY <1>2, <1>3 DEF RoleGroupsInv

\* Without a fault every role has a group by the time anybody can register.
LEMMA RegisterUserGroups ==
    ASSUME NEW q \in GroupNames
    PROVE  RoleGroupsInv /\ RegisterUser(q) => RoleGroupsInv'
<1> SUFFICES ASSUME RoleGroupsInv, RegisterUser(q) PROVE RoleGroupsInv'
  OBVIOUS
<1>1. /\ at = "serving"
      /\ UNCHANGED <<release, table, granted, at, app, role, fresh, edited, failed, bounds>>
  BY DEF RegisterUser, position, history
<1>2. ungrouped' = IF granted[q] = NoGroup THEN ungrouped \cup {q} ELSE ungrouped
  BY DEF RegisterUser
<1>3. GTypeOK'
  BY <1>1, <1>2 DEF RoleGroupsInv, GTypeOK
<1>4. Migrated' /\ GroupsSet'
  BY <1>1 DEF RoleGroupsInv, Migrated, RowsDeclared, GroupsSet, IsSet, AsListed, Listed,
              AllDeclared, Declared
<1>5. NobodyLeftOut'
  <2>1. bounds.faults = 0 => ~failed /\ granted[q] # NoGroup
    BY <1>1 DEF RoleGroupsInv, NobodyLeftOut, GroupsSet, IsSet
  <2> QED BY <1>1, <1>2, <2>1 DEF RoleGroupsInv, NobodyLeftOut
<1> QED BY <1>3, <1>4, <1>5 DEF RoleGroupsInv

LEMMA EditGroupGroups ==
    ASSUME NEW q \in GroupNames, NEW p \in Permissions
    PROVE  RoleGroupsInv /\ EditGroup(q, p) => RoleGroupsInv'
<1> SUFFICES ASSUME RoleGroupsInv, EditGroup(q, p) PROVE RoleGroupsInv'
  OBVIOUS
<1>1. PICK g : g = IF p \in granted[q] THEN granted[q] \ {p} ELSE granted[q] \cup {p}
  OBVIOUS
<1>2. /\ granted[q] # NoGroup /\ p \in table
      /\ bounds.edits < MaxEdits /\ bounds' = [bounds EXCEPT !.edits = @ + 1]
      /\ granted' = [granted EXCEPT ![q] = g]
      /\ edited' = edited \cup {q}
      /\ UNCHANGED <<release, table, at, app, role, ungrouped, fresh, failed>>
  BY <1>1 DEF EditGroup, Count, position, RoleGroupsInv, GTypeOK
<1>3. g \subseteq table /\ table \subseteq Permissions /\ g # NoGroup
  <2>1. g \subseteq table /\ table \subseteq Permissions
    BY <1>1, <1>2 DEF RoleGroupsInv, GTypeOK
  <2> QED BY <2>1, NoGroupIsNone
<1>4. \A r \in GroupNames : granted'[r] = IF r = q THEN g ELSE granted[r]
  BY <1>2 DEF RoleGroupsInv, GTypeOK
<1>5. bounds'.faults = bounds.faults
      /\ bounds' \in [faults : 0..MaxFailures, starts : 0..MaxStarts, edits : 0..MaxEdits]
  BY <1>2, BoundsAssumption DEF RoleGroupsInv, GTypeOK
<1>6. GTypeOK'
  <2>1. granted' \in [GroupNames -> (SUBSET Permissions) \cup {NoGroup}]
    BY <1>2, <1>3 DEF RoleGroupsInv, GTypeOK
  <2>2. \A r \in GroupNames : granted'[r] # NoGroup => granted'[r] \subseteq table'
    BY <1>2, <1>3, <1>4 DEF RoleGroupsInv, GTypeOK
  <2> QED BY <1>2, <1>5, <2>1, <2>2 DEF RoleGroupsInv, GTypeOK
<1>7. Migrated'
  BY <1>2 DEF RoleGroupsInv, Migrated, RowsDeclared, Declared
<1>8. GroupsSet'
  <2> SUFFICES ASSUME NEW r \in GroupNames, IsSet(r)'
               PROVE  granted'[r] # NoGroup /\ (r \notin edited' => AsListed(r)')
    BY DEF GroupsSet
  <2>1. IsSet(r) /\ Listed(r)' = Listed(r)
    BY <1>2 DEF IsSet, Listed, AllDeclared, Declared
  <2>2. granted[r] # NoGroup /\ (r \notin edited => AsListed(r))
    BY <2>1 DEF RoleGroupsInv, GroupsSet
  <2> QED BY <1>2, <1>3, <1>4, <2>1, <2>2 DEF AsListed
<1>9. NobodyLeftOut'
  BY <1>2, <1>5 DEF RoleGroupsInv, NobodyLeftOut
<1> QED BY <1>6, <1>7, <1>8, <1>9 DEF RoleGroupsInv

LEMMA RoleGroupsStep == RoleGroupsInv /\ [GNext]_gvars => RoleGroupsInv'
<1> SUFFICES ASSUME RoleGroupsInv, [GNext]_gvars PROVE RoleGroupsInv'
  OBVIOUS
<1>1. CASE Start
  BY <1>1, StartGroups
<1>2. CASE CreatePermissions
  BY <1>2, CreatePermissionsGroups
<1>3. CASE CreateGroup
  BY <1>3, CreateGroupGroups
<1>4. CASE SetGroup
  BY <1>4, SetGroupGroups
<1>5. CASE Serve
  BY <1>5, ServeGroups
<1>6. CASE MigrateFails \/ ContainerDies
  BY <1>6, FaultsGroups
<1>7. CASE Stop
  BY <1>7, StopGroups
<1>8. CASE \E r \in GroupNames : RegisterUser(r)
  BY <1>8, RegisterUserGroups
<1>9. CASE \E r \in GroupNames, p \in Permissions : EditGroup(r, p)
  BY <1>9, EditGroupGroups
<1>10. CASE UNCHANGED gvars
  BY <1>10 DEF gvars, RoleGroupsInv, GTypeOK, Migrated, RowsDeclared, GroupsSet, IsSet, AsListed,
               NobodyLeftOut, Listed, AllDeclared, Declared
<1> QED BY <1>1, <1>2, <1>3, <1>4, <1>5, <1>6, <1>7, <1>8, <1>9, <1>10 DEF GNext

-----------------------------------------------------------------------------
(* Role groups: the theorems.                                              *)

LEMMA RoleGroupsInvariant == GSpec => []RoleGroupsInv
<1>1. GInit => RoleGroupsInv
  BY RoleGroupsInit
<1>2. RoleGroupsInv /\ [GNext]_gvars => RoleGroupsInv'
  BY RoleGroupsStep
<1> QED BY <1>1, <1>2, PTL DEF GSpec

\* RoleGroups keeps its types: a role has no group, or one with permissions that
\* have a row.
THEOREM RoleGroupsType == GSpec => []GTypeOK
<1>1. RoleGroupsInv => GTypeOK
  BY DEF RoleGroupsInv
<1> QED BY <1>1, RoleGroupsInvariant, PTL

\* For any next release: once a start has gone through, no role but the admin has
\* a permission that the lists of its release do not give it, unless its group
\* was edited by hand since.
THEOREM NothingExtraHolds == GSpec => []NothingExtra
<1>1. RoleGroupsInv => NothingExtra
  BY DEF RoleGroupsInv, NothingExtra, GroupsSet, IsSet, AsListed
<1> QED BY <1>1, RoleGroupsInvariant, PTL

\* For any next release: all that a role then lacks of its list are permissions
\* whose rows this start has added after the groups were set.
THEOREM OnlyFreshIsMissingHolds == GSpec => []OnlyFreshIsMissing
<1>1. RoleGroupsInv => OnlyFreshIsMissing
  <2> SUFFICES ASSUME RoleGroupsInv, at = "serving", ~failed, NEW r \in GroupNames \ edited
               PROVE  Listed(r) \ granted[r] \subseteq fresh
    BY DEF OnlyFreshIsMissing
  <2>1. Listed(r) \ granted[r] \subseteq fresh \cup (Listed(r) \ table)
    BY DEF RoleGroupsInv, GroupsSet, IsSet, AsListed
  <2>2. RowsDeclared(Len(InstalledApps)) /\ release \in {"this", "next"}
    BY DEF RoleGroupsInv, GTypeOK, Migrated
  <2>3. Listed(r) \subseteq table
    BY <2>2, ListedIsDeclared, AllRowsDeclared
  <2> QED BY <2>1, <2>3
<1> QED BY <1>1, RoleGroupsInvariant, PTL

\* As long as no migrate fails and no container dies, whoever registers is in the
\* group of the role.
THEOREM EveryoneHasGroupHolds == GSpec => []EveryoneHasGroup
<1>1. RoleGroupsInv => EveryoneHasGroup
  BY DEF RoleGroupsInv, NobodyLeftOut, EveryoneHasGroup
<1> QED BY <1>1, RoleGroupsInvariant, PTL
=============================================================================
