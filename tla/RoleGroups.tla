----------------------------- MODULE RoleGroups -----------------------------
(***************************************************************************)
(* The permissions of the role groups.  Every start of the container runs  *)
(* migrate, which ends by telling the installed apps, one after the other, *)
(* that it is done: Django then writes the app's rows of auth_permission,  *)
(* and for apps.common the server sets the permissions of the role groups  *)
(* to those of its lists that have a row by then.  The server starts after *)
(* migrate, also when it failed.                                           *)
(*                                                                         *)
(* A permission here stands for the codenames of an app that the same      *)
(* roles have.  The next release declares more and has lists of its own.   *)
(***************************************************************************)
EXTENDS Naturals, Sequences, FiniteSets

CONSTANTS
    NewPermissions,  \* app of each permission only the next release declares
    NewLists,        \* the lists of the next release
    MaxFailures,     \* bound on migrations that fail and containers that die
    MaxStarts,       \* bound on the starts of the container
    MaxEdits         \* bound on the edits of a group on the admin page

GroupNames == {"admin", "staff", "customer_verified", "customer_unverified"}

\* The apps in the order of INSTALLED_APPS; those of Django come first.
InstalledApps ==
    <<"django", "authentication", "common", "menus", "orders", "wallets", "users">>

\* What this release declares, in the Meta of its models: the app of each.  The
\* last, users, stands for webhooks as well.
Declares ==
    [django   |-> {"django.any"}, authentication |-> {"authentication.any"},
     common   |-> {},
     menus    |-> {"menus.view", "menus.edit"},
     orders   |-> {"orders.view", "orders.status", "orders.own"},
     wallets  |-> {"wallets.manage", "wallets.own_balance", "wallets.own_transactions"},
     users    |-> {"users.any"}]

\* ROLE_PERMISSIONS; admin is given every row there is.
RolePermissions ==
    [staff |-> {"menus.view", "menus.edit", "orders.view", "orders.status",
                "wallets.manage"},
     customer_verified |-> {"menus.view", "orders.view", "orders.own",
                            "wallets.own_balance", "wallets.own_transactions"},
     customer_unverified |-> {"menus.view", "wallets.own_balance"}]

Apps == DOMAIN Declares
Permissions == (UNION {Declares[a] : a \in Apps}) \cup DOMAIN NewPermissions

ASSUME ReleaseAssumption ==
    /\ NewPermissions \in [DOMAIN NewPermissions -> Apps]
    /\ "no group" \notin DOMAIN NewPermissions
    /\ NewLists \in [DOMAIN RolePermissions -> SUBSET Permissions]
ASSUME BoundsAssumption == MaxFailures \in Nat /\ MaxStarts \in Nat /\ MaxEdits \in Nat

VARIABLES
    release,   \* the code in the container: this release, or the next
    table,     \* the rows of auth_permission
    granted,   \* the permissions of each role's group, or NoGroup
    at,        \* down, migrating or serving
    app, role, \* where migrate is: index in InstalledApps, and in RoleOrder
    ungrouped, \* the roles of users who were saved when their role had no group
    fresh,     \* history: the rows this start has added after the groups were set
    edited,    \* history: groups edited by hand since they were last set
    failed,    \* history: whether this start's migrate did not finish
    bounds     \* how many faults, starts and edits there were

gvars == <<release, table, granted, at, app, role, ungrouped, fresh, edited, failed, bounds>>
position == <<at, app, role>>
history == <<fresh, edited, failed>>

NoGroup == {"no group"}

RoleOrder == <<"admin", "staff", "customer_verified", "customer_unverified">>

Declared(a) ==
    Declares[a] \cup (IF release = "next" THEN {p \in DOMAIN NewPermissions : NewPermissions[p] = a}
                                          ELSE {})

AllDeclared == UNION {Declared(a) : a \in Apps}

\* What the lists give a role, the permissions without a row included.
Listed(r) ==
    IF r = "admin" THEN AllDeclared
    ELSE IF release = "next" THEN NewLists[r] ELSE RolePermissions[r]

Count(what) == bounds' = [bounds EXCEPT ![what] = @ + 1]

GInit ==
    /\ release = "this"
    /\ table = {} /\ granted = [r \in GroupNames |-> NoGroup] /\ ungrouped = {}
    /\ at = "down" /\ app = 1 /\ role = 1
    /\ fresh = {} /\ edited = {} /\ failed = FALSE
    /\ bounds = [faults |-> 0, starts |-> 0, edits |-> 0]

-----------------------------------------------------------------------------
(* The start of the container: migrate, then the server.                   *)

Start ==
    /\ at = "down" /\ bounds.starts < MaxStarts
    /\ at' = "migrating" /\ app' = 1 /\ role' = 1
    /\ fresh' = {} /\ failed' = FALSE
    /\ Count("starts")
    /\ UNCHANGED <<release, table, granted, ungrouped, edited>>

\* post_migrate of an app: Django's own receiver adds the rows that are missing.
CreatePermissions ==
    /\ at = "migrating" /\ app <= Len(InstalledApps) /\ role = 1
    /\ LET a == InstalledApps[app]
       IN /\ table' = table \cup Declared(a)
          /\ fresh' = fresh \cup (Declared(a) \ table)
          /\ IF a = "common" THEN at' = "grouping" /\ UNCHANGED app
                             ELSE app' = app + 1 /\ UNCHANGED at
    /\ UNCHANGED <<release, granted, role, ungrouped, edited, failed, bounds>>

\* The permissions a role is given: all that exist, or those listed that exist.
Found(r) == IF r = "admin" THEN table ELSE Listed(r) \cap table

NextRole ==
    IF role < Len(RoleOrder) THEN role' = role + 1 /\ UNCHANGED <<at, app>>
                             ELSE role' = 1 /\ app' = app + 1 /\ at' = "migrating"

\* Mutant of CreateGroup: leaves out a role without permissions.
CreateGroupIfAny ==
    /\ at = "grouping"
    /\ LET r == RoleOrder[role]
       IN /\ granted[r] = NoGroup
          /\ IF Found(r) = {} THEN NextRole /\ UNCHANGED granted
                             ELSE granted' = [granted EXCEPT ![r] = {}] /\ UNCHANGED position
    /\ UNCHANGED <<release, table, ungrouped, history, bounds>>

\* create_default_groups, for the next role: get_or_create, which creates, ...
CreateGroup ==
    /\ at = "grouping"
    /\ granted[RoleOrder[role]] = NoGroup
    /\ granted' = [granted EXCEPT ![RoleOrder[role]] = {}]
    /\ UNCHANGED <<release, table, position, ungrouped, history, bounds>>

\* Mutant of SetGroup: adds to the permissions instead of setting them.
AddToGroup ==
    /\ at = "grouping"
    /\ LET r == RoleOrder[role]
       IN /\ granted[r] # NoGroup
          /\ granted' = [granted EXCEPT ![r] = @ \cup Found(r)]
          /\ edited' = edited \ {r}
    /\ fresh' = {}
    /\ NextRole
    /\ UNCHANGED <<release, table, ungrouped, failed, bounds>>

\* Mutant of SetGroup: a group that has permissions is left as it is.
SetNewGroup ==
    /\ at = "grouping"
    /\ LET r == RoleOrder[role]
       IN /\ granted[r] # NoGroup
          /\ granted' = IF granted[r] # {} THEN granted ELSE [granted EXCEPT ![r] = Found(r)]
          /\ edited' = edited \ {r}
    /\ fresh' = {}
    /\ NextRole
    /\ UNCHANGED <<release, table, ungrouped, failed, bounds>>

\* ... and set(), which replaces the permissions in one transaction.
SetGroup ==
    /\ at = "grouping"
    /\ LET r == RoleOrder[role]
       IN /\ granted[r] # NoGroup
          /\ granted' = [granted EXCEPT ![r] = Found(r)]
          /\ edited' = edited \ {r}
    /\ fresh' = {}
    /\ NextRole
    /\ UNCHANGED <<release, table, ungrouped, failed, bounds>>

Serve ==
    /\ at = "migrating" /\ app > Len(InstalledApps)
    /\ at' = "serving"
    /\ UNCHANGED <<release, table, granted, app, role, ungrouped, history, bounds>>

\* migrate fails, once the tables are there, and the script goes on to the server.
MigrateFails ==
    /\ at \in {"migrating", "grouping"} /\ bounds.faults < MaxFailures
    /\ at' = "serving" /\ failed' = TRUE
    /\ Count("faults")
    /\ UNCHANGED <<release, table, granted, app, role, ungrouped, fresh, edited>>

ContainerDies ==
    /\ at # "down" /\ bounds.faults < MaxFailures
    /\ at' = "down"
    /\ Count("faults")
    /\ UNCHANGED <<release, table, granted, app, role, ungrouped, history>>

-----------------------------------------------------------------------------
(* What happens while it serves.                                           *)

\* Somebody stops it, possibly to deploy the next release.
Stop ==
    /\ at = "serving"
    /\ at' = "down"
    /\ \/ UNCHANGED release
       \/ release = "this" /\ release' = "next"
    /\ UNCHANGED <<table, granted, app, role, ungrouped, history, bounds>>

\* User.save() puts a new user into the group of the role, if there is one.
RegisterUser(r) ==
    /\ at = "serving"
    /\ ungrouped' = IF granted[r] = NoGroup THEN ungrouped \cup {r} ELSE ungrouped
    /\ UNCHANGED <<release, table, granted, position, history, bounds>>

\* The page of Django for groups: a permission is given or taken away.
EditGroup(r, p) ==
    /\ at = "serving" /\ granted[r] # NoGroup /\ p \in table
    /\ bounds.edits < MaxEdits /\ Count("edits")
    /\ granted' = [granted EXCEPT ![r] = IF p \in @ THEN @ \ {p} ELSE @ \cup {p}]
    /\ edited' = edited \cup {r}
    /\ UNCHANGED <<release, table, position, ungrouped, fresh, failed>>

GNext ==
    \/ Start \/ CreatePermissions \/ CreateGroup \/ SetGroup \/ Serve
    \/ MigrateFails \/ ContainerDies \/ Stop
    \/ \E r \in GroupNames : RegisterUser(r) \/ \E p \in Permissions : EditGroup(r, p)

GSpec == GInit /\ [][GNext]_gvars

-----------------------------------------------------------------------------
(* Properties.                                                             *)

GTypeOK ==
    /\ release \in {"this", "next"} /\ table \subseteq Permissions
    /\ granted \in [GroupNames -> (SUBSET Permissions) \cup {NoGroup}]
    /\ \A r \in GroupNames : granted[r] # NoGroup => granted[r] \subseteq table
    /\ at \in {"down", "migrating", "grouping", "serving"}
    /\ app \in 1..(Len(InstalledApps) + 1) /\ role \in 1..Len(RoleOrder)
    /\ ungrouped \subseteq GroupNames
    /\ fresh \subseteq table /\ edited \subseteq GroupNames /\ failed \in BOOLEAN
    /\ bounds \in [faults : 0..MaxFailures, starts : 0..MaxStarts, edits : 0..MaxEdits]

\* Once a start has gone through, no role has a permission that the lists of its
\* release do not give it: what was edited by hand before and what an earlier
\* release gave is gone, whatever starts failed in between.
NothingExtra ==
    at = "serving" /\ ~failed =>
        \A r \in GroupNames \ (edited \cup {"admin"}) : granted[r] \subseteq Listed(r)

\* All that a role still lacks are permissions whose rows this very start has
\* added, after the groups were set: one more start with the same release, and
\* every role has what its list gives it.
OnlyFreshIsMissing ==
    at = "serving" /\ ~failed =>
        \A r \in GroupNames \ edited : Listed(r) \ granted[r] \subseteq fresh

\* Whoever registers is in a group, although the first start finds no permission
\* for any list: only a migrate that fails leaves roles without a group.
EveryoneHasGroup ==
    bounds.faults = 0 => ungrouped = {}

\* What the comment on the list of the admin says: it has all the permissions.
AdminHasAll ==
    at = "serving" /\ ~failed /\ "admin" \notin edited => granted["admin"] = table
=============================================================================
