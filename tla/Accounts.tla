------------------------------ MODULE Accounts ------------------------------
(***************************************************************************)
(* The account of one e-mail address: its row in the user table, its role  *)
(* groups and its balance row, under the requests that write them and the  *)
(* user admin page.  A request reads the row, works on its copy and saves  *)
(* it: all columns, or those in update_fields.  User.save() looks at the   *)
(* row again, writes, and sets the groups in two more transactions if role *)
(* or verification differ from what it saw.  There are no locks.           *)
(*                                                                         *)
(* Deleting users, adding them on the admin page, names, last_login and    *)
(* is_active are left out; staff stands for staff and admin.               *)
(***************************************************************************)
EXTENDS Naturals, FiniteSets

CONSTANTS
    Requests,     \* requests served, and admin forms open, at the same time
    Passwords,    \* passwords users choose
    NoPassword,   \* the empty password of an account made by Microsoft sign-in
    AdminPage,    \* whether the user admin page is used
    PicksGroups,  \* whether its users select the group that goes with the role
    MaxFormEdits, \* bound on the fields that one form edits
    MaxFaults     \* bound on requests that die half way

ASSUME PasswordsAssumption == NoPassword \notin Passwords
ASSUME SwitchesAssumption == AdminPage \in BOOLEAN /\ PicksGroups \in BOOLEAN
ASSUME FaultsAssumption == MaxFaults \in Nat
ASSUME FormsAssumption == MaxFormEdits \in Nat \ {0}

VARIABLES
    row,        \* the row in the user table, or Absent
    groups,     \* the role groups the user is in
    balance,    \* whether there is a balance row
    req,        \* what each request is doing
    meant,      \* history: the row as the saves meant it, each its own change
    stale,      \* history: the worst that was written from an outdated copy: single
                \* columns or groups, or a whole row; worse still, a form of the admin
                \* page that switches MFA on, outdated or not
    faults      \* how many requests died

vars == <<row, groups, balance, req, meant, stale, faults>>

Roles == {"customer", "staff"}
Groups == {"staff", "customer_verified", "customer_unverified"}

User == [password : Passwords \cup {NoPassword}, role : Roles, is_verified : BOOLEAN,
         mfa_enabled : BOOLEAN, mfa_secret : BOOLEAN, oauth : BOOLEAN]

Absent == [password |-> NoPassword, role |-> "customer", is_verified |-> FALSE,
           mfa_enabled |-> FALSE, mfa_secret |-> FALSE, oauth |-> FALSE, absent |-> TRUE]

NewUser == [password |-> NoPassword, role |-> "customer", is_verified |-> FALSE,
            mfa_enabled |-> FALSE, mfa_secret |-> FALSE, oauth |-> FALSE]

Exists == row # Absent

\* get_group_name
GroupOf(u) ==
    IF u.role = "staff" THEN "staff"
    ELSE IF u.is_verified THEN "customer_verified" ELSE "customer_unverified"

\* The columns every kind of request saves, and those it means to change.
AllColumns == DOMAIN NewUser
MfaColumns == {"mfa_enabled", "mfa_secret"}
FormColumns == {"role", "is_verified", "mfa_enabled"}

\* Of a copy, only what its request still needs is kept.
Keep(copy, columns) == [c \in AllColumns |-> IF c \in columns THEN copy[c] ELSE NewUser[c]]
GroupColumns == {"role", "is_verified"}

\* A request: its copy of the row, the columns it saves and the ones it changes,
\* whether save() has seen another role or verification, the groups its form
\* selects, and (history) whether the row is still as the request read it.
Idle == [kind |-> "none", at |-> "idle", copy |-> NewUser, saves |-> {}, changes |-> {},
         regroup |-> FALSE, selected |-> {}, fresh |-> TRUE]

At(r, place) == req[r].at = place
Goto(r, place) == req' = [req EXCEPT ![r].at = place]
Finish(r) == req' = [req EXCEPT ![r] = Idle]

Init ==
    /\ row = Absent /\ groups = {} /\ balance = FALSE
    /\ req = [r \in Requests |-> Idle]
    /\ meant = NewUser
    /\ stale = "nothing"
    /\ faults = 0

-----------------------------------------------------------------------------
(* Requests read the row and change their copy of it.                      *)

Begin(r, kind, place, copy, saves, changes) ==
    /\ At(r, "idle")
    /\ req' = [req EXCEPT ![r] =
                  [Idle EXCEPT !.kind = kind, !.at = place,
                               !.copy = Keep(copy, saves \cup changes \cup GroupColumns),
                               !.saves = saves, !.changes = changes]]
    /\ UNCHANGED <<row, groups, balance, meant, stale, faults>>

\* RegisterSerializer has found no user with this e-mail.
Register(r) ==
    /\ ~Exists
    /\ \E p \in Passwords :
          Begin(r, "register", "insert", [NewUser EXCEPT !.password = p], AllColumns, AllColumns)

\* The link in the mail can be followed at any time; save() writes every column.
VerifyEmail(r) ==
    /\ Exists /\ ~row.is_verified
    /\ Begin(r, "verify", "compare", [row EXCEPT !.is_verified = TRUE],
             AllColumns, {"is_verified"})

SetPassword(r) ==
    /\ Exists
    /\ \E p \in Passwords :
          Begin(r, "password", "compare", [row EXCEPT !.password = p], AllColumns, {"password"})

\* Whoever changes a password has typed the old one: there must be one.
ChangePassword(r) == row.password # NoPassword /\ SetPassword(r)

\* The link in the mail is enough; the first password of an account, too.
ResetPassword(r) == SetPassword(r)

\* Mutant of SwitchMfa: the secret is missing in update_fields.
SwitchMfaHalf(r) ==
    /\ Exists
    /\ \E on \in BOOLEAN :
          Begin(r, "mfa", "compare", [row EXCEPT !.mfa_enabled = on, !.mfa_secret = on],
                {"mfa_enabled"}, MfaColumns)

\* setup_mfa_confirm and disable_mfa save the columns of MFA only.
SwitchMfa(r) ==
    /\ Exists
    /\ \E on \in BOOLEAN :
          Begin(r, "mfa", "compare", [row EXCEPT !.mfa_enabled = on, !.mfa_secret = on],
                MfaColumns, MfaColumns)

\* Mutant of MicrosoftNew: the provider is left for the next sign-in.
MicrosoftBare(r) ==
    /\ ~Exists
    /\ Begin(r, "oauth", "create", [NewUser EXCEPT !.is_verified = TRUE],
             AllColumns, AllColumns)

\* get_or_create finds no user ...
MicrosoftNew(r) ==
    /\ ~Exists
    /\ Begin(r, "oauth", "create", [NewUser EXCEPT !.oauth = TRUE, !.is_verified = TRUE],
             AllColumns, AllColumns)

\* ... or one, whose provider and verification are filled in where missing.
FillIn(r) ==
    LET filled == {c \in {"oauth", "is_verified"} : ~row[c]}
    IN req' = [req EXCEPT ![r] =
                  IF filled = {} THEN Idle
                  ELSE [Idle EXCEPT !.kind = "oauth", !.at = "compare",
                                    !.copy = Keep([row EXCEPT !.oauth = TRUE,
                                                              !.is_verified = TRUE],
                                                  filled \cup GroupColumns),
                                    !.saves = filled, !.changes = filled]]

MicrosoftKnown(r) ==
    /\ Exists /\ At(r, "idle")
    /\ FillIn(r)
    /\ UNCHANGED <<row, groups, balance, meant, stale, faults>>

-----------------------------------------------------------------------------
(* Rows are written, and groups set.                                       *)

\* Everybody else's copy is outdated once the row has changed.
Outdate(r, next) ==
    req' = [q \in Requests |->
               IF q = r THEN next
               ELSE IF req[q].at # "idle" /\ row' # row THEN [req[q] EXCEPT !.fresh = FALSE]
                                                       ELSE req[q]]

\* History: r writes what it computed from its copy.
Worse == [nothing |-> 0, columns |-> 1, row |-> 2, switch |-> 3]
NoteStale(r, what) ==
    stale' = IF req[r].fresh \/ Worse[what] <= Worse[stale] THEN stale ELSE what

\* UPDATE: the columns r saves, from its copy.  History: once a change was lost,
\* what was meant is not followed any more.
Save(r) ==
    LET Saved(columns, old) ==
            [c \in AllColumns |-> IF c \in columns THEN req[r].copy[c] ELSE old[c]]
    IN /\ row' = Saved(req[r].saves, row)
       /\ NoteStale(r, IF req[r].saves = AllColumns THEN "row" ELSE "columns")
       /\ meant' = IF stale' \in {"nothing", "columns"} THEN Saved(req[r].changes, meant)
                                                      ELSE row'

\* What is left to do after the row is written needs the columns of the group only.
Rest(r, place) == [Idle EXCEPT !.at = place, !.copy = Keep(req[r].copy, GroupColumns),
                               !.fresh = req[r].fresh]

\* INSERT; the unique e-mail refuses a second one.
Insert(r) ==
    /\ At(r, "insert")
    /\ IF Exists
       THEN Finish(r) /\ UNCHANGED <<row, meant>>
       ELSE /\ row' = req[r].copy /\ meant' = req[r].copy
            /\ req' = [req EXCEPT ![r] = Rest(r, "signal")]
    /\ UNCHANGED <<groups, balance, stale, faults>>

\* Mutant of CreateBalance: a user who registers gets a balance when it is needed.
SkipBalance(r) ==
    /\ At(r, "signal")
    /\ Goto(r, "remove")
    /\ UNCHANGED <<row, groups, balance, meant, stale, faults>>

\* The receiver of post_save.
CreateBalance(r) ==
    /\ At(r, "signal")
    /\ balance' = TRUE
    /\ Goto(r, "remove")
    /\ UNCHANGED <<row, groups, meant, stale, faults>>

\* get_or_create creates in a transaction: row, balance and group at once.  If
\* the e-mail is taken by then it gets that user and goes on with it.
CreateAtomic(r) ==
    /\ At(r, "create")
    /\ IF Exists
       THEN FillIn(r) /\ UNCHANGED <<row, meant, balance, groups>>
       ELSE /\ row' = req[r].copy /\ meant' = req[r].copy
            /\ balance' = TRUE /\ groups' = {GroupOf(req[r].copy)}
            /\ Finish(r)
    /\ UNCHANGED <<stale, faults>>

\* Mutant of Compare: groups are never set again after the first time.
CompareNothing(r) ==
    /\ At(r, "compare")
    /\ Goto(r, "write")
    /\ UNCHANGED <<row, groups, balance, meant, stale, faults>>

\* save() reads role and is_verified again, to compare with the copy.
Compare(r) ==
    /\ At(r, "compare")
    /\ req' = [req EXCEPT ![r].at = "write",
                          ![r].regroup = \/ row.role # req[r].copy.role
                                         \/ row.is_verified # req[r].copy.is_verified]
    /\ UNCHANGED <<row, groups, balance, meant, stale, faults>>

Write(r) ==
    /\ At(r, "write")
    /\ Save(r)
    /\ Outdate(r, IF req[r].regroup THEN Rest(r, "remove") ELSE Idle)
    /\ UNCHANGED <<groups, balance, faults>>

RemoveGroups(r) ==
    /\ At(r, "remove")
    /\ groups' = {}
    /\ NoteStale(r, "columns")
    /\ Goto(r, "add")
    /\ UNCHANGED <<row, balance, meant, faults>>

\* Mutant of AddGroup: the group of a customer whose e-mail is not verified.
AddUnverified(r) ==
    /\ At(r, "add")
    /\ groups' = groups \cup {GroupOf([req[r].copy EXCEPT !.is_verified = FALSE])}
    /\ NoteStale(r, "columns")
    /\ Finish(r)
    /\ UNCHANGED <<row, balance, meant, faults>>

\* The group is the one of the copy, whatever the row has become.
AddGroup(r) ==
    /\ At(r, "add")
    /\ groups' = groups \cup {GroupOf(req[r].copy)}
    /\ NoteStale(r, "columns")
    /\ Finish(r)
    /\ UNCHANGED <<row, balance, meant, faults>>

-----------------------------------------------------------------------------
(* The user admin page.                                                    *)

\* A form shows role, verification, MFA and groups; its user edits it.  The secret
\* of MFA is not on it.  (Bounds: one form at a time, with 1 to MaxFormEdits edits;
\* until it is posted only its own columns are kept.)
AdminOpen(r) ==
    /\ AdminPage /\ Exists /\ At(r, "idle")
    /\ \A q \in Requests : req[q].kind # "admin"
    /\ \E role \in Roles, verified \in BOOLEAN, mfa \in BOOLEAN :
          LET edited == [row EXCEPT !.role = role, !.is_verified = verified,
                                    !.mfa_enabled = mfa]
              changes == {c \in AllColumns : edited[c] # row[c]}
          IN /\ Cardinality(changes) \in 1..MaxFormEdits
             /\ req' = [req EXCEPT ![r] =
                           [Idle EXCEPT !.kind = "admin", !.at = "form",
                                        !.copy = Keep(edited, FormColumns),
                                        !.saves = AllColumns, !.changes = changes,
                                        !.selected = IF PicksGroups THEN {GroupOf(edited)}
                                                                    ELSE groups]]
    /\ UNCHANGED <<row, groups, balance, meant, stale, faults>>

\* The form comes back: the row is read and the form's columns are put into it.
\* It switches MFA on where it is off by now, with whatever secret there is.
AdminPost(r) ==
    /\ At(r, "form")
    /\ req' = [req EXCEPT ![r].at = "post",
                          ![r].copy = [c \in AllColumns |->
                              IF c \in FormColumns THEN req[r].copy[c] ELSE row[c]]]
    /\ IF req[r].copy.mfa_enabled /\ ~row.mfa_enabled
       THEN stale' = "switch" /\ meant' = row
       ELSE UNCHANGED <<stale, meant>>
    /\ UNCHANGED <<row, groups, balance, faults>>

\* One transaction: save(), and then the groups of the form over those it set.
AdminSave(r) ==
    /\ At(r, "post")
    /\ Save(r)
    /\ groups' = req[r].selected
    /\ Outdate(r, Idle)
    /\ UNCHANGED <<balance, faults>>

-----------------------------------------------------------------------------
Dies(r) ==
    /\ req[r].at \notin {"idle", "form"}
    /\ faults < MaxFaults /\ faults' = faults + 1
    /\ Finish(r)
    /\ UNCHANGED <<row, groups, balance, meant, stale>>

Next ==
    \E r \in Requests :
        \/ Register(r) \/ VerifyEmail(r) \/ SwitchMfa(r)
        \/ ChangePassword(r) \/ ResetPassword(r)
        \/ MicrosoftNew(r) \/ MicrosoftKnown(r)
        \/ Insert(r) \/ CreateBalance(r) \/ CreateAtomic(r)
        \/ Compare(r) \/ Write(r) \/ RemoveGroups(r) \/ AddGroup(r)
        \/ AdminOpen(r) \/ AdminPost(r) \/ AdminSave(r)
        \/ Dies(r)

Spec == Init /\ [][Next]_vars

-----------------------------------------------------------------------------
(* Properties.                                                             *)

\* Rows and requests have the form the code gives them; an account without a
\* password is one that Microsoft sign-in made and can sign in to.
TypeOK ==
    /\ row \in User \cup {Absent} /\ meant \in User
    /\ Exists => row.password # NoPassword \/ row.oauth
    /\ groups \subseteq Groups /\ balance \in BOOLEAN
    /\ req \in [Requests ->
                   [kind : {"none", "register", "verify", "password", "mfa", "oauth", "admin"},
                    at : {"idle", "insert", "signal", "create", "compare", "write",
                          "remove", "add", "form", "post"},
                    copy : User, saves : SUBSET AllColumns, changes : SUBSET AllColumns,
                    regroup : BOOLEAN, selected : SUBSET Groups, fresh : BOOLEAN]]
    /\ stale \in DOMAIN Worse
    /\ faults \in 0..MaxFaults

Writing == \E r \in Requests : req[r].at \notin {"idle", "form"}

\* What a request or a form has changed stays changed (a new password, a
\* verified e-mail, MFA switched on) until a later one changes it again, as long
\* as no request that saves all columns saves an outdated copy.  Requests with
\* update_fields may overlap with any: an outdated copy of theirs loses nothing.
RowAsMeant ==
    Exists /\ stale \in {"nothing", "columns"} => row = meant

\* The user is in the role group of the row's role and verification, and in no
\* other, once nothing is being written, unless a request died or worked with an
\* outdated copy.  Here update_fields does not help: save() of an outdated copy
\* sets the group of that copy, even when it writes neither column.
GroupFollowsRow ==
    Exists /\ ~Writing /\ faults = 0 /\ stale = "nothing" => groups = {GroupOf(row)}

\* Whatever overlaps, a user has a role group and a balance once nothing is being
\* written and no request has died: who removes the groups adds one afterwards.
\* (With PicksGroups FALSE it fails: a form opened in between shows no group, and
\* saves none after the group was added.)
Provisioned == Exists /\ ~Writing /\ faults = 0 => groups # {} /\ balance

\* MFA that is on has a secret to check codes with, whatever overlaps, outdated
\* full-row saves and forms of the admin page included: the columns are saved
\* together, and a copy holds them as they were at one time.  What breaks it is
\* a form that switches MFA on: its box was ticked by hand, or MFA was switched
\* off after it was opened (users/admin.py:19).
MfaHasSecret == stale # "switch" => (row.mfa_enabled => row.mfa_secret)

\* "Persist encrypted secret on user and enable MFA" (setup_mfa_confirm): where
\* the admin page is not used, only disable_mfa switches MFA off again.
OnlyDisableSwitchesOff ==
    [][row.mfa_enabled /\ ~row'.mfa_enabled
         => \E r \in Requests : req[r].kind = "mfa" /\ req'[r] # req[r]]_vars
=============================================================================
