--------------------------------- MODULE Mfa ---------------------------------
(***************************************************************************)
(* The second factor of one user: setup, confirmation, the ticket a login  *)
(* gets instead of tokens, verification with a TOTP or a backup code, new  *)
(* backup codes, and switching it off.  Every Redis command is a step of   *)
(* its own, and so is every statement: only the search for a backup code   *)
(* is a transaction, and its row locks make it one step.                   *)
(*                                                                         *)
(* mfa_enabled, mfa_type and mfa_secret are always written together here:  *)
(* one variable stands for the three.  A TOTP code is known by the secret  *)
(* it was made from and never goes stale.                                  *)
(***************************************************************************)
EXTENDS Naturals, FiniteSets

CONSTANTS
    Requests,      \* requests served at the same time
    Tickets,       \* MFA tickets that may be drawn
    Secrets,       \* TOTP secrets that may be drawn
    CodeSets,      \* sets of backup codes that may be drawn
    CodesPerSet,   \* 8 in the code
    MaxAttempts,   \* 5 in the code
    NoSecret, NoTicket, WrongCode,
    MaxFaults      \* bound on requests that die half way

ASSUME FiniteAssumption == IsFiniteSet(Requests)
ASSUME NoAssumption == NoSecret \notin Secrets /\ NoTicket \notin Tickets
ASSUME TypedAssumption ==
    LET backup == CodeSets \X (1..CodesPerSet) IN
    /\ WrongCode \notin Secrets \cup Tickets \cup backup
    /\ Secrets \cap Tickets = {} /\ (Secrets \cup Tickets) \cap backup = {}
ASSUME BoundsAssumption ==
    CodesPerSet \in Nat \ {0} /\ MaxAttempts \in Nat /\ MaxFaults \in Nat

VARIABLES
    secret,     \* user.mfa_secret; NoSecret: MFA is off
    pending,    \* the key mfa:setup:<user>
    codes,      \* the rows of MFABackupCode
    used,       \* those with used_at
    tickets,    \* the keys mfa:pending:<ticket>
    attempts,   \* the counters mfa:attempts:<ticket>, 0: no key
    drawn,      \* the secrets, tickets and code sets drawn so far
    req,        \* what each request is doing
    wrong,      \* history: the codes refused for each ticket
    signins,    \* history: the sign-ins with each ticket and each backup code
    crossed,    \* history: a confirmation and a disabling ran at the same time
    faults      \* how many requests died

user == <<secret, codes, used>>
redis == <<pending, tickets, attempts>>
history == <<drawn, wrong, signins, crossed>>
vars == <<user, redis, history, req, faults>>

BackupCodes == CodeSets \X (1..CodesPerSet)

Idle == [kind |-> "none", at |-> "idle", ticket |-> NoTicket,
         code |-> WrongCode, secret |-> NoSecret]

At(r, place) == req[r].at = place
Goto(r, place) == req' = [req EXCEPT ![r].at = place]
Finish(r) == req' = [req EXCEPT ![r] = Idle]

Serving(kinds) == \E r \in Requests : req[r].kind \in kinds

Init ==
    /\ secret = NoSecret /\ codes = {} /\ used = {}
    /\ pending = NoSecret /\ tickets = {} /\ attempts = [t \in Tickets |-> 0]
    /\ drawn = {}
    /\ req = [r \in Requests |-> Idle]
    /\ wrong = [t \in Tickets |-> 0]
    /\ signins = [x \in Tickets \cup BackupCodes |-> 0]
    /\ crossed = FALSE
    /\ faults = 0

-----------------------------------------------------------------------------
(* Setup, confirmation, new backup codes, switching off.                   *)

\* A second start replaces the secret that waits for its confirmation.
SetupStart ==
    /\ \E s \in Secrets \ drawn : pending' = s /\ drawn' = drawn \cup {s}
    /\ UNCHANGED <<user, tickets, attempts, wrong, signins, crossed, req, faults>>

\* The code must be one of the pending secret; otherwise nothing happens.
BeginConfirm(r) ==
    /\ At(r, "idle") /\ pending # NoSecret
    /\ req' = [req EXCEPT ![r] = [Idle EXCEPT !.kind = "confirm", !.at = "enable",
                                              !.secret = pending]]
    /\ crossed' = (crossed \/ Serving({"disable"}))
    /\ UNCHANGED <<user, redis, drawn, wrong, signins, faults>>

Enable(r) ==
    /\ At(r, "enable")
    /\ secret' = req[r].secret
    /\ Goto(r, "unpend")
    /\ UNCHANGED <<codes, used, redis, history, faults>>

\* Mutant of ClearPending: the user asks for backup codes later.
ClearPendingOnly(r) ==
    /\ At(r, "unpend")
    /\ pending' = NoSecret
    /\ Finish(r)
    /\ UNCHANGED <<user, tickets, attempts, history, faults>>

ClearPending(r) ==
    /\ At(r, "unpend")
    /\ pending' = NoSecret
    /\ Goto(r, "purge")
    /\ UNCHANGED <<user, tickets, attempts, history, faults>>

\* Whether MFA is on is not asked.
BeginRegenerate(r) ==
    /\ At(r, "idle")
    /\ req' = [req EXCEPT ![r] = [Idle EXCEPT !.kind = "regenerate", !.at = "purge"]]
    /\ UNCHANGED <<user, redis, history, faults>>

BeginDisable(r) ==
    /\ At(r, "idle")
    /\ req' = [req EXCEPT ![r] = [Idle EXCEPT !.kind = "disable", !.at = "disable"]]
    /\ crossed' = (crossed \/ Serving({"confirm"}))
    /\ UNCHANGED <<user, redis, drawn, wrong, signins, faults>>

Disable(r) ==
    /\ At(r, "disable")
    /\ secret' = NoSecret
    /\ Goto(r, "purge")
    /\ UNCHANGED <<codes, used, redis, history, faults>>

\* Mutant of Purge: only codes that were used are deleted.
PurgeUsed(r) ==
    /\ At(r, "purge")
    /\ codes' = codes \ used /\ used' = {}
    /\ IF req[r].kind = "disable" THEN Finish(r) ELSE Goto(r, "insert")
    /\ UNCHANGED <<secret, redis, history, faults>>

\* Mutant of Purge: codes that were used are kept.
PurgeUnused(r) ==
    /\ At(r, "purge")
    /\ codes' = {} /\ UNCHANGED used
    /\ IF req[r].kind = "disable" THEN Finish(r) ELSE Goto(r, "insert")
    /\ UNCHANGED <<secret, redis, history, faults>>

\* user.mfa_backup_codes.all().delete()
Purge(r) ==
    /\ At(r, "purge")
    /\ codes' = {} /\ used' = {}
    /\ IF req[r].kind = "disable" THEN Finish(r) ELSE Goto(r, "insert")
    /\ UNCHANGED <<secret, redis, history, faults>>

\* bulk_create, and the answer with the codes in clear.
InsertCodes(r) ==
    /\ At(r, "insert")
    /\ \E s \in CodeSets \ drawn :
          /\ codes' = codes \cup ({s} \X (1..CodesPerSet))
          /\ drawn' = drawn \cup {s}
    /\ Finish(r)
    /\ UNCHANGED <<secret, used, redis, wrong, signins, crossed, faults>>

-----------------------------------------------------------------------------
(* Login, and verification of its ticket.                                  *)

\* handle_mfa_flow: a user with MFA gets a ticket.
Login ==
    /\ secret # NoSecret
    /\ \E t \in Tickets \ drawn : tickets' = tickets \cup {t} /\ drawn' = drawn \cup {t}
    /\ UNCHANGED <<user, pending, attempts, wrong, signins, crossed, req, faults>>

\* What a user may type: a code of a secret or of a set seen so far, or neither.
Typed == (Secrets \cap drawn) \cup {c \in BackupCodes : c[1] \in drawn} \cup {WrongCode}

BeginVerify(r, t) ==
    /\ At(r, "idle") /\ t \in tickets
    /\ \E c \in Typed :
          req' = [req EXCEPT ![r] = [Idle EXCEPT !.kind = "verify", !.at = "user",
                                                 !.ticket = t, !.code = c]]
    /\ UNCHANGED <<user, redis, history, faults>>

\* The row of the user is read once; its secret is the one TOTP is checked with.
LoadUser(r) ==
    /\ At(r, "user")
    /\ req' = [req EXCEPT ![r].secret = secret,
                          ![r].at = IF secret = NoSecret THEN "void" ELSE "count"]
    /\ UNCHANGED <<user, redis, history, faults>>

\* Mutant of CountAttempt: the counter is compared before it is raised.
CountLate(r) ==
    /\ At(r, "count")
    /\ attempts' = [attempts EXCEPT ![req[r].ticket] = @ + 1]
    /\ Goto(r, IF attempts[req[r].ticket] > MaxAttempts THEN "void" ELSE "check")
    /\ UNCHANGED <<user, pending, tickets, history, faults>>

\* INCR.  The EXPIRE after the first one only bounds the life of the counter.
CountAttempt(r) ==
    /\ At(r, "count")
    /\ attempts' = [attempts EXCEPT ![req[r].ticket] = @ + 1]
    /\ Goto(r, IF attempts'[req[r].ticket] > MaxAttempts THEN "void" ELSE "check")
    /\ UNCHANGED <<user, pending, tickets, history, faults>>

\* MFA is off by now, or there were too many attempts.
VoidTicket(r) ==
    /\ At(r, "void")
    /\ tickets' = tickets \ {req[r].ticket}
    /\ Finish(r)
    /\ UNCHANGED <<user, pending, attempts, history, faults>>

\* Mutant of UseBackupCode: used_at is set on the object and never saved.
UseUnsaved(r) ==
    /\ At(r, "check") /\ req[r].code \in codes \ used
    /\ UNCHANGED used
    /\ Goto(r, "clear")
    /\ UNCHANGED <<secret, codes, redis, history, faults>>

\* The transaction that looks for the code among the unused ones, under locks.
UseBackupCode(r) ==
    /\ At(r, "check") /\ req[r].code \in codes \ used
    /\ used' = used \cup {req[r].code}
    /\ Goto(r, "clear")
    /\ UNCHANGED <<secret, codes, redis, history, faults>>

CheckTotp(r) ==
    /\ At(r, "check") /\ req[r].code \notin codes \ used
    /\ IF req[r].code = req[r].secret
       THEN Goto(r, "clear") /\ UNCHANGED wrong
       ELSE Finish(r) /\ wrong' = [wrong EXCEPT ![req[r].ticket] = @ + 1]
    /\ UNCHANGED <<user, redis, drawn, signins, crossed, faults>>

\* Mutant of ClearTicket: only the counter is cleaned up.
KeepTicket(r) ==
    /\ At(r, "clear")
    /\ Goto(r, "uncount")
    /\ UNCHANGED <<user, redis, history, faults>>

ClearTicket(r) ==
    /\ At(r, "clear")
    /\ tickets' = tickets \ {req[r].ticket}
    /\ Goto(r, "uncount")
    /\ UNCHANGED <<user, pending, attempts, history, faults>>

ClearAttempts(r) ==
    /\ At(r, "uncount")
    /\ attempts' = [attempts EXCEPT ![req[r].ticket] = 0]
    /\ Goto(r, "signin")
    /\ UNCHANGED <<user, pending, tickets, history, faults>>

\* Tokens are made and their session is stored (Sessions!SignIn goes on).
SignIn(r) ==
    /\ At(r, "signin")
    /\ signins' = [x \in DOMAIN signins |->
                      IF x \in {req[r].ticket, req[r].code} THEN signins[x] + 1
                                                            ELSE signins[x]]
    /\ Finish(r)
    /\ UNCHANGED <<user, redis, drawn, wrong, crossed, faults>>

-----------------------------------------------------------------------------
(* The clock, and faults.                                                  *)

\* A ticket lives 5 minutes, a pending secret 15.  A counter gets its 5 minutes
\* after its ticket did, so it never goes before the ticket.
Lapse ==
    /\ \/ \E t \in tickets : tickets' = tickets \ {t} /\ UNCHANGED <<pending, attempts>>
       \/ \E t \in Tickets \ tickets :
             /\ attempts[t] # 0
             /\ attempts' = [attempts EXCEPT ![t] = 0] /\ UNCHANGED <<pending, tickets>>
       \/ pending # NoSecret /\ pending' = NoSecret /\ UNCHANGED <<tickets, attempts>>
    /\ UNCHANGED <<user, history, req, faults>>

Dies(r) ==
    /\ ~At(r, "idle")
    /\ faults < MaxFaults /\ faults' = faults + 1
    /\ Finish(r)
    /\ UNCHANGED <<user, redis, history>>

Next ==
    \/ SetupStart \/ Login \/ Lapse
    \/ \E r \in Requests :
          \/ BeginConfirm(r) \/ Enable(r) \/ ClearPending(r)
          \/ BeginRegenerate(r) \/ Purge(r) \/ InsertCodes(r)
          \/ BeginDisable(r) \/ Disable(r)
          \/ \E t \in Tickets : BeginVerify(r, t)
          \/ LoadUser(r) \/ CountAttempt(r) \/ VoidTicket(r)
          \/ UseBackupCode(r) \/ CheckTotp(r)
          \/ ClearTicket(r) \/ ClearAttempts(r) \/ SignIn(r)
          \/ Dies(r)

Spec == Init /\ [][Next]_vars

-----------------------------------------------------------------------------
(* Properties.                                                             *)

Places == {"idle", "enable", "unpend", "purge", "insert", "disable", "user", "count",
           "void", "check", "clear", "uncount", "signin"}

\* Rows, keys and requests have the form the code gives them, and a code that
\* was used is one of the codes stored.
TypeOK ==
    /\ secret \in Secrets \cup {NoSecret} /\ pending \in Secrets \cup {NoSecret}
    /\ codes \subseteq BackupCodes /\ used \subseteq codes
    /\ tickets \subseteq Tickets \cap drawn
    /\ attempts \in [Tickets -> Nat] /\ wrong \in [Tickets -> Nat]
    /\ signins \in [Tickets \cup BackupCodes -> Nat]
    /\ drawn \subseteq Tickets \cup Secrets \cup CodeSets
    /\ req \in [Requests -> [kind : {"none", "confirm", "regenerate", "disable", "verify"},
                             at : Places, ticket : Tickets \cup {NoTicket},
                             code : BackupCodes \cup Secrets \cup {WrongCode},
                             secret : Secrets \cup {NoSecret}]]
    /\ crossed \in BOOLEAN
    /\ faults \in 0..MaxFaults

\* "Backup codes (consume atomically)": a backup code signs in once, whatever
\* verifications, regenerations and deaths happen around it.
CodeSignsInOnce == \A c \in BackupCodes : signins[c] <= 1

\* "Rate limit attempts per ticket": as long as a ticket can be used, no more
\* than MaxAttempts codes have been refused for it, although its counter is
\* deleted by every success: the ticket is deleted before the counter.
AttemptsBounded == \A t \in tickets : wrong[t] <= MaxAttempts

\* The ticket is read at the beginning of a verification and deleted near its
\* end: verifications of one ticket at the same time all sign in, but no worker
\* signs in twice with one.
SignInsBounded == \A t \in Tickets : signins[t] <= Cardinality(Requests)

\* "Invalidate existing codes": codes are deleted and inserted by two
\* statements, so regenerations at the same time leave several sets behind, but
\* never more than one for each of them.
SetsBounded == Cardinality({c[1] : c \in codes}) <= Cardinality(Requests)

\* A user whose MFA is on has backup codes (used or not) once the requests that
\* write them are over, unless one of them died or a disabling ran at the same
\* time as a confirmation and deleted the codes the confirmation had stored.
EnabledHasCodes ==
    /\ secret # NoSecret
    /\ ~Serving({"confirm", "regenerate", "disable"})
    /\ ~crossed /\ faults = 0
    => codes # {}
=============================================================================
