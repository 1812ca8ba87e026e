----------------------------- MODULE MfaTheorems -----------------------------
(***************************************************************************)
(* Theorems about Mfa, for every number of requests, tickets, codes and    *)
(* attempts: a backup code signs in once, guesses and sign-ins per ticket  *)
(* are bounded, and so are the sets of codes that are stored; and a user   *)
(* whose MFA is on has codes.                                              *)
(***************************************************************************)
EXTENDS Mfa, FiniteSetTheorems, TLAPS

Row == [kind : {"none", "confirm", "regenerate", "disable", "verify"},
        at : Places, ticket : Tickets \cup {NoTicket},
        code : BackupCodes \cup Secrets \cup {WrongCode},
        secret : Secrets \cup {NoSecret}]

Verifying == {"user", "count", "void", "check", "clear", "uncount", "signin"}

\* What a request that is being served has: a ticket that was drawn, a code that
\* was seen, a secret to compare it with; and from ClearTicket on, the ticket
\* is gone.
InOrder(r) ==
    /\ req[r].at \in Verifying => req[r].ticket \in Tickets
    /\ req[r].ticket \in Tickets => req[r].ticket \in drawn
    /\ req[r].code \in BackupCodes => req[r].code[1] \in drawn
    /\ req[r].at \in {"count", "check"} => req[r].secret \in Secrets
    /\ req[r].at \in {"uncount", "signin"} => req[r].ticket \notin tickets

WellFormed == TypeOK /\ \A r \in Requests : InOrder(r)

-----------------------------------------------------------------------------
(* One request moves on.                                                   *)

\* The request goes to its next place, the others stay.
LEMMA GoesTo ==
    ASSUME TypeOK, NEW r \in Requests, NEW place \in Places, Goto(r, place)
    PROVE  /\ req' \in [Requests -> Row]
           /\ req'[r] = [req[r] EXCEPT !.at = place]
           /\ req'[r].at = place /\ req'[r].ticket = req[r].ticket
           /\ req'[r].code = req[r].code /\ req'[r].secret = req[r].secret
           /\ \A q \in Requests \ {r} : req'[q] = req[q]
<1>1. req[r] \in Row
  BY DEF TypeOK, Row
<1>2. [req[r] EXCEPT !.at = place] \in Row
  BY <1>1 DEF Row
<1>3. req' = [req EXCEPT ![r] = [req[r] EXCEPT !.at = place]]
  BY DEF Goto
<1>4. req \in [Requests -> Row]
  BY DEF TypeOK, Row
<1>5. /\ req' \in [Requests -> Row]
      /\ req'[r] = [req[r] EXCEPT !.at = place]
      /\ \A q \in Requests \ {r} : req'[q] = req[q]
  BY <1>2, <1>3, <1>4
<1>6. /\ req'[r].at = place /\ req'[r].ticket = req[r].ticket
      /\ req'[r].code = req[r].code /\ req'[r].secret = req[r].secret
  BY <1>1, <1>5 DEF Row
<1> QED BY <1>5, <1>6

\* An idle worker.
LEMMA IdleRow ==
    /\ Idle \in Row /\ Idle.at = "idle" /\ Idle.ticket = NoTicket /\ Idle.code = WrongCode
    /\ NoTicket \notin Tickets /\ WrongCode \notin BackupCodes
BY NoAssumption, TypedAssumption DEF Idle, Row, Places, BackupCodes

\* The request is over, the others stay.
LEMMA IsOver ==
    ASSUME TypeOK, NEW r \in Requests, Finish(r)
    PROVE  /\ req' \in [Requests -> Row]
           /\ req'[r] = Idle
           /\ \A q \in Requests \ {r} : req'[q] = req[q]
<1>1. req \in [Requests -> Row]
  BY DEF TypeOK, Row
<1> QED BY <1>1, IdleRow DEF Finish

\* A request that begins.
LEMMA Begins ==
    ASSUME TypeOK, NEW r \in Requests, NEW row \in Row, req' = [req EXCEPT ![r] = row]
    PROVE  /\ req' \in [Requests -> Row]
           /\ req'[r] = row
           /\ \A q \in Requests \ {r} : req'[q] = req[q]
<1>1. req \in [Requests -> Row]
  BY DEF TypeOK, Row
<1> QED BY <1>1

\* A request that has read the user's row.
LEMMA LoadedRow ==
    ASSUME TypeOK, NEW r \in Requests, NEW place \in {"void", "count"}
    PROVE  LET row == [req[r] EXCEPT !.secret = secret, !.at = place]
           IN  /\ row \in Row /\ row.at = place /\ row.secret = secret
               /\ row.ticket = req[r].ticket /\ row.code = req[r].code
<1>1. req[r] \in Row /\ place \in Places /\ secret \in Secrets \cup {NoSecret}
  BY DEF TypeOK, Row, Places
<1> QED BY <1>1 DEF Row

\* A request that is over has nothing to be in order.
LEMMA OverInOrder ==
    ASSUME NEW r \in Requests, req'[r] = Idle
    PROVE  InOrder(r)'
BY IdleRow DEF InOrder, Verifying

\* The requests a step leaves alone stay in order if no ticket comes back and
\* nothing drawn is forgotten.
LEMMA OthersInOrder ==
    ASSUME WellFormed, NEW q \in Requests, req'[q] = req[q],
           drawn \subseteq drawn', tickets' \cap drawn \subseteq tickets
    PROVE  InOrder(q)'
BY DEF WellFormed, InOrder, Verifying

\* A request at its next place is in order under the same conditions.
LEMMA NextInOrder ==
    ASSUME WellFormed, NEW r \in Requests, NEW place \in Places, Goto(r, place),
           drawn \subseteq drawn', tickets' \cap drawn \subseteq tickets,
           place \in Verifying => req[r].at \in Verifying,
           place \in {"count", "check"} => req[r].secret \in Secrets,
           place \in {"uncount", "signin"} => req[r].ticket \notin tickets'
    PROVE  InOrder(r)'
<1>1. /\ req'[r].at = place /\ req'[r].ticket = req[r].ticket
      /\ req'[r].code = req[r].code /\ req'[r].secret = req[r].secret
  BY GoesTo DEF WellFormed
<1> QED BY <1>1 DEF WellFormed, InOrder

-----------------------------------------------------------------------------
(* Types and order.                                                        *)

\* What a step may do to the tables besides moving one request on.
Tables ==
    /\ secret \in Secrets \cup {NoSecret} /\ pending \in Secrets \cup {NoSecret}
    /\ codes \subseteq BackupCodes /\ used \subseteq codes
    /\ tickets \subseteq Tickets \cap drawn
    /\ attempts \in [Tickets -> Nat] /\ wrong \in [Tickets -> Nat]
    /\ signins \in [Tickets \cup BackupCodes -> Nat]
    /\ drawn \subseteq Tickets \cup Secrets \cup CodeSets
    /\ crossed \in BOOLEAN
    /\ faults \in 0..MaxFaults

\* The type invariant is the tables' and the requests'.
LEMMA TypeSplit ==
    /\ TypeOK <=> Tables /\ req \in [Requests -> Row]
    /\ TypeOK' <=> Tables' /\ req' \in [Requests -> Row]
BY DEF TypeOK, Tables, Row

\* A step that moves one request on, or ends it, keeps everything well formed.
LEMMA MoveWellFormed ==
    ASSUME WellFormed, NEW r \in Requests, Tables',
           drawn \subseteq drawn', tickets' \cap drawn \subseteq tickets,
           \/ Finish(r)
           \/ \E place \in Places :
                 /\ Goto(r, place)
                 /\ place \in Verifying => req[r].at \in Verifying
                 /\ place \in {"count", "check"} => req[r].secret \in Secrets
                 /\ place \in {"uncount", "signin"} => req[r].ticket \notin tickets'
    PROVE  WellFormed'
<1>1. CASE Finish(r)
  BY <1>1, IsOver, OverInOrder, OthersInOrder, TypeSplit DEF WellFormed
<1>2. ASSUME NEW place \in Places, Goto(r, place),
             place \in Verifying => req[r].at \in Verifying,
             place \in {"count", "check"} => req[r].secret \in Secrets,
             place \in {"uncount", "signin"} => req[r].ticket \notin tickets'
      PROVE  WellFormed'
  <2>1. req' \in [Requests -> Row] /\ \A q \in Requests \ {r} : req'[q] = req[q]
    BY <1>2, GoesTo DEF WellFormed
  <2>2. InOrder(r)'
    BY <1>2, NextInOrder
  <2> QED BY <2>1, <2>2, OthersInOrder, TypeSplit DEF WellFormed
<1> QED BY <1>1, <1>2

\* A request that begins does, too, if it is in order.
LEMMA BeginWellFormed ==
    ASSUME WellFormed, NEW r \in Requests, NEW row \in Row, req' = [req EXCEPT ![r] = row],
           Tables', UNCHANGED <<drawn, tickets>>, InOrder(r)'
    PROVE  WellFormed'
BY Begins, OthersInOrder, TypeSplit DEF WellFormed

\* Setup, login and the clock move no request.
LEMMA OutsideWellFormed ==
    ASSUME WellFormed, SetupStart \/ Login \/ Lapse PROVE WellFormed'
<1>1. UNCHANGED req /\ drawn \subseteq drawn' /\ tickets' \cap drawn \subseteq tickets
  BY DEF SetupStart, Login, Lapse, user, redis, history
<1>2. Tables'
  <2>1. CASE SetupStart
    BY <2>1 DEF WellFormed, TypeOK, Tables, SetupStart, user
  <2>2. CASE Login
    BY <2>2 DEF WellFormed, TypeOK, Tables, Login, user
  <2>3. CASE Lapse
    BY <2>3 DEF WellFormed, TypeOK, Tables, Lapse, user, history
  <2> QED BY <2>1, <2>2, <2>3
<1> QED BY <1>1, <1>2, OthersInOrder, TypeSplit DEF WellFormed

\* The requests that write the secret and the codes.
LEMMA ManageWellFormed ==
    ASSUME WellFormed, NEW r \in Requests,
           \/ BeginConfirm(r) \/ Enable(r) \/ ClearPending(r) \/ BeginRegenerate(r)
           \/ Purge(r) \/ InsertCodes(r) \/ BeginDisable(r) \/ Disable(r)
    PROVE  WellFormed'
<1> USE DEF WellFormed
<1>1. CASE BeginConfirm(r)
  <2> DEFINE row == [Idle EXCEPT !.kind = "confirm", !.at = "enable", !.secret = pending]
  <2>1. row \in Row /\ row.at = "enable" /\ row.ticket = NoTicket /\ row.code = WrongCode
    BY IdleRow DEF TypeOK, Idle, Row, Places
  <2>2. req' = [req EXCEPT ![r] = row] /\ Tables' /\ UNCHANGED <<drawn, tickets>>
    BY <1>1 DEF BeginConfirm, TypeOK, Tables, user, redis, Serving
  <2>3. req'[r] = row
    BY <2>1, <2>2, Begins
  <2>4. InOrder(r)'
    BY <2>1, <2>3, IdleRow DEF InOrder, Verifying
  <2> QED BY <2>1, <2>2, <2>4, BeginWellFormed
<1>2. CASE Enable(r)
  <2>1. Tables' /\ Goto(r, "unpend") /\ UNCHANGED <<drawn, tickets>>
    BY <1>2 DEF Enable, TypeOK, Tables, redis, history
  <2> QED BY <2>1, MoveWellFormed DEF Places, Verifying
<1>3. CASE ClearPending(r)
  <2>1. Tables' /\ Goto(r, "purge") /\ UNCHANGED <<drawn, tickets>>
    BY <1>3 DEF ClearPending, TypeOK, Tables, user, history
  <2> QED BY <2>1, MoveWellFormed DEF Places, Verifying
<1>4. CASE BeginRegenerate(r)
  <2> DEFINE row == [Idle EXCEPT !.kind = "regenerate", !.at = "purge"]
  <2>1. row \in Row /\ row.at = "purge" /\ row.ticket = NoTicket /\ row.code = WrongCode
    BY IdleRow DEF Idle, Row, Places
  <2>2. req' = [req EXCEPT ![r] = row] /\ Tables' /\ UNCHANGED <<drawn, tickets>>
    BY <1>4 DEF BeginRegenerate, TypeOK, Tables, user, redis, history
  <2>3. req'[r] = row
    BY <2>1, <2>2, Begins
  <2>4. InOrder(r)'
    BY <2>1, <2>3, IdleRow DEF InOrder, Verifying
  <2> QED BY <2>1, <2>2, <2>4, BeginWellFormed
<1>5. CASE BeginDisable(r)
  <2> DEFINE row == [Idle EXCEPT !.kind = "disable", !.at = "disable"]
  <2>1. row \in Row /\ row.at = "disable" /\ row.ticket = NoTicket /\ row.code = WrongCode
    BY IdleRow DEF Idle, Row, Places
  <2>2. req' = [req EXCEPT ![r] = row] /\ Tables' /\ UNCHANGED <<drawn, tickets>>
    BY <1>5 DEF BeginDisable, TypeOK, Tables, user, redis, Serving
  <2>3. req'[r] = row
    BY <2>1, <2>2, Begins
  <2>4. InOrder(r)'
    BY <2>1, <2>3, IdleRow DEF InOrder, Verifying
  <2> QED BY <2>1, <2>2, <2>4, BeginWellFormed
<1>6. CASE Disable(r)
  <2>1. Tables' /\ Goto(r, "purge") /\ UNCHANGED <<drawn, tickets>>
    BY <1>6 DEF Disable, TypeOK, Tables, redis, history
  <2> QED BY <2>1, MoveWellFormed DEF Places, Verifying
<1>7. CASE Purge(r)
  <2>1. Tables' /\ (Finish(r) \/ Goto(r, "insert")) /\ UNCHANGED <<drawn, tickets>>
    BY <1>7 DEF Purge, TypeOK, Tables, redis, history
  <2> QED BY <2>1, MoveWellFormed DEF Places, Verifying
<1>8. CASE InsertCodes(r)
  <2>1. Tables' /\ Finish(r) /\ drawn \subseteq drawn' /\ UNCHANGED tickets
    BY <1>8 DEF InsertCodes, TypeOK, Tables, redis, BackupCodes
  <2> QED BY <2>1, MoveWellFormed
<1> QED BY <1>1, <1>2, <1>3, <1>4, <1>5, <1>6, <1>7, <1>8

\* The requests that verify a ticket, and a request that dies.
LEMMA VerifyWellFormed ==
    ASSUME WellFormed, NEW r \in Requests,
           \/ \E t \in Tickets : BeginVerify(r, t)
           \/ LoadUser(r) \/ CountAttempt(r) \/ VoidTicket(r)
           \/ UseBackupCode(r) \/ CheckTotp(r)
           \/ ClearTicket(r) \/ ClearAttempts(r) \/ SignIn(r) \/ Dies(r)
    PROVE  WellFormed'
<1> USE DEF WellFormed
<1>1. ASSUME NEW t \in Tickets, BeginVerify(r, t) PROVE WellFormed'
  <2>1. PICK c \in Typed :
           req' = [req EXCEPT ![r] = [Idle EXCEPT !.kind = "verify", !.at = "user",
                                                  !.ticket = t, !.code = c]]
    BY <1>1 DEF BeginVerify
  <2> DEFINE row == [Idle EXCEPT !.kind = "verify", !.at = "user", !.ticket = t, !.code = c]
  <2>2. c \in BackupCodes \cup Secrets \cup {WrongCode}
    BY DEF Typed
  <2>3. c \in BackupCodes => c[1] \in drawn
    BY TypedAssumption DEF Typed, BackupCodes
  <2>4. row \in Row /\ row.at = "user" /\ row.ticket = t /\ row.code = c
    BY <2>2 DEF Idle, Row, Places
  <2>5. Tables' /\ UNCHANGED <<drawn, tickets>> /\ t \in drawn
    BY <1>1 DEF BeginVerify, TypeOK, Tables, user, redis, history
  <2>6. req'[r] = row
    BY <2>1, <2>4, Begins
  <2>7. InOrder(r)'
    BY <2>3, <2>4, <2>5, <2>6 DEF InOrder, Verifying
  <2> HIDE DEF row
  <2> QED BY <2>1, <2>4, <2>5, <2>7, BeginWellFormed DEF row
<1>2. CASE LoadUser(r)
  <2> DEFINE place == IF secret = NoSecret THEN "void" ELSE "count"
             row == [req[r] EXCEPT !.secret = secret, !.at = place]
  <2>1. /\ row \in Row /\ row.at = place /\ row.secret = secret
        /\ row.ticket = req[r].ticket /\ row.code = req[r].code
    BY LoadedRow
  <2>2. req' = [req EXCEPT ![r] = row] /\ Tables' /\ UNCHANGED <<drawn, tickets>>
    BY <1>2 DEF LoadUser, TypeOK, Tables, user, redis, history
  <2>3. req'[r] = row
    BY <2>1, <2>2, Begins
  <2>4. req[r].at = "user" /\ (place = "count" => secret \in Secrets)
    BY <1>2 DEF LoadUser, At, TypeOK
  <2>5. InOrder(r)'
    BY <2>1, <2>2, <2>3, <2>4 DEF InOrder, Verifying
  <2> QED BY <2>1, <2>2, <2>5, BeginWellFormed
<1>3. CASE CountAttempt(r)
  <2>1. req[r].at = "count" /\ (Goto(r, "void") \/ Goto(r, "check"))
    BY <1>3 DEF CountAttempt, At
  <2>2. Tables' /\ UNCHANGED <<drawn, tickets>>
    <3>1. attempts' = [attempts EXCEPT ![req[r].ticket] = attempts[req[r].ticket] + 1]
      BY <1>3 DEF CountAttempt
    <3>2. attempts' \in [Tickets -> Nat]
      BY <2>1, <3>1 DEF TypeOK, InOrder, Verifying
    <3> QED BY <1>3, <3>2 DEF CountAttempt, TypeOK, Tables, user, history
  <2> QED BY <2>1, <2>2, MoveWellFormed DEF Places, Verifying, InOrder
<1>4. CASE VoidTicket(r)
  <2>1. Tables' /\ Finish(r) /\ UNCHANGED drawn /\ tickets' \subseteq tickets
    BY <1>4 DEF VoidTicket, TypeOK, Tables, user, history
  <2> QED BY <2>1, MoveWellFormed
<1>5. CASE UseBackupCode(r)
  <2>1. Tables' /\ Goto(r, "clear") /\ UNCHANGED <<drawn, tickets>> /\ req[r].at = "check"
    BY <1>5 DEF UseBackupCode, TypeOK, Tables, redis, history, At
  <2> QED BY <2>1, MoveWellFormed DEF Places, Verifying
<1>6. CASE CheckTotp(r)
  <2>1. Tables'
    BY <1>6 DEF CheckTotp, TypeOK, Tables, user, redis
  <2>2. (Goto(r, "clear") \/ Finish(r)) /\ UNCHANGED <<drawn, tickets>> /\ req[r].at = "check"
    BY <1>6 DEF CheckTotp, redis, At
  <2> QED BY <2>1, <2>2, MoveWellFormed DEF Places, Verifying
<1>7. CASE ClearTicket(r)
  <2>1. /\ Tables' /\ Goto(r, "uncount") /\ UNCHANGED drawn
        /\ tickets' = tickets \ {req[r].ticket} /\ req[r].at = "clear"
    BY <1>7 DEF ClearTicket, TypeOK, Tables, user, history, At
  <2> QED BY <2>1, MoveWellFormed DEF Places, Verifying
<1>8. CASE ClearAttempts(r)
  <2>1. /\ Tables' /\ Goto(r, "signin") /\ UNCHANGED <<drawn, tickets>>
        /\ req[r].at = "uncount"
    BY <1>8 DEF ClearAttempts, TypeOK, Tables, user, history, At
  <2> QED BY <2>1, MoveWellFormed DEF Places, Verifying, InOrder
<1>9. CASE SignIn(r)
  <2>1. Tables' /\ Finish(r) /\ UNCHANGED <<drawn, tickets>>
    BY <1>9 DEF SignIn, TypeOK, Tables, user, redis
  <2> QED BY <2>1, MoveWellFormed
<1>10. CASE Dies(r)
  <2>1. Tables' /\ Finish(r) /\ UNCHANGED <<drawn, tickets>>
    BY <1>10, BoundsAssumption DEF Dies, TypeOK, Tables, user, redis, history
  <2> QED BY <2>1, MoveWellFormed
<1> QED BY <1>1, <1>2, <1>3, <1>4, <1>5, <1>6, <1>7, <1>8, <1>9, <1>10

\* Every step keeps tables and requests well formed.
LEMMA WellFormedStep == WellFormed /\ [Next]_vars => WellFormed'
<1> SUFFICES ASSUME WellFormed, [Next]_vars PROVE WellFormed'
  OBVIOUS
<1>1. CASE UNCHANGED vars
  BY <1>1 DEF vars, user, redis, history, WellFormed, TypeOK, InOrder
<1> QED BY <1>1, OutsideWellFormed, ManageWellFormed, VerifyWellFormed DEF Next

\* The tables and requests of the initial state.
LEMMA WellFormedInit == Init => WellFormed
<1> SUFFICES ASSUME Init PROVE WellFormed
  OBVIOUS
<1>1. Tables
  <2>1. faults \in 0..MaxFaults
    BY BoundsAssumption DEF Init
  <2>2. /\ attempts \in [Tickets -> Nat] /\ wrong \in [Tickets -> Nat]
        /\ signins \in [Tickets \cup BackupCodes -> Nat]
    BY DEF Init
  <2> QED BY <2>1, <2>2 DEF Init, Tables
<1>2. req \in [Requests -> Row] /\ \A r \in Requests : req[r] = Idle
  BY IdleRow DEF Init
<1>3. \A r \in Requests : InOrder(r)
  BY <1>2, IdleRow DEF InOrder, Verifying
<1> QED BY <1>1, <1>2, <1>3, TypeSplit DEF WellFormed

-----------------------------------------------------------------------------
(* Backup codes.                                                           *)

\* A request that has been let in by a code and has not signed in yet.
Consumes(r, c) == req[r].at \in {"clear", "uncount", "signin"} /\ req[r].code = c

\* A code that is stored and unused has let nobody in; one that let somebody in
\* let in one request, and that one signs in once.
CodeInOrder(c) ==
    /\ signins[c] <= 1
    /\ c \in codes \ used => signins[c] = 0 /\ \A r \in Requests : ~Consumes(r, c)
    /\ \A r \in Requests : Consumes(r, c) =>
          signins[c] = 0 /\ \A q \in Requests : Consumes(q, c) => q = r
    /\ c[1] \notin drawn => c \notin codes /\ signins[c] = 0

CodesInOrder == \A c \in BackupCodes : CodeInOrder(c)

\* A step that makes no code valid, signs nobody in and lets nobody in.
LEMMA CodeUntouched ==
    ASSUME NEW c \in BackupCodes, CodeInOrder(c), drawn \subseteq drawn',
           signins'[c] = signins[c], c \in codes' \ used' => c \in codes \ used,
           c[1] \notin drawn' => c \notin codes',
           \A r \in Requests : Consumes(r, c)' => Consumes(r, c)
    PROVE  CodeInOrder(c)'
BY DEF CodeInOrder

\* A request that moves on without being let in, or ends.
LEMMA LetsNobodyIn ==
    ASSUME TypeOK, NEW r \in Requests,
           \/ Finish(r)
           \/ \E place \in Places :
                 /\ Goto(r, place)
                 /\ place \in {"clear", "uncount", "signin"} =>
                       req[r].at \in {"clear", "uncount", "signin"},
           NEW c \in BackupCodes
    PROVE  \A q \in Requests : Consumes(q, c)' => Consumes(q, c)
<1>1. CASE Finish(r)
  BY <1>1, IsOver, IdleRow DEF Consumes
<1>2. ASSUME NEW place \in Places, Goto(r, place),
             place \in {"clear", "uncount", "signin"} =>
                 req[r].at \in {"clear", "uncount", "signin"}
      PROVE  \A q \in Requests : Consumes(q, c)' => Consumes(q, c)
  <2>1. /\ req'[r].at = place /\ req'[r].code = req[r].code
        /\ \A q \in Requests \ {r} : req'[q] = req[q]
    BY <1>2, GoesTo
  <2> QED BY <1>2, <2>1 DEF Consumes
<1> QED BY <1>1, <1>2

\* Steps that are about no code.
LEMMA NoCodeTouched ==
    ASSUME WellFormed, CodesInOrder, UNCHANGED <<codes, used, signins>>, drawn \subseteq drawn',
           \A c \in BackupCodes, r \in Requests : Consumes(r, c)' => Consumes(r, c)
    PROVE  CodesInOrder'
<1> SUFFICES ASSUME NEW c \in BackupCodes PROVE CodeInOrder(c)'
  BY DEF CodesInOrder
<1>1. CodeInOrder(c) /\ (c[1] \notin drawn' => c \notin codes')
  BY DEF CodesInOrder, CodeInOrder
<1> QED BY <1>1, CodeUntouched

\* The deletion of all codes.
LEMMA PurgedCodes ==
    ASSUME WellFormed, CodesInOrder, NEW r \in Requests, Purge(r)
    PROVE  CodesInOrder'
<1> SUFFICES ASSUME NEW c \in BackupCodes PROVE CodeInOrder(c)'
  BY DEF CodesInOrder
<1>1. /\ codes' = {} /\ UNCHANGED <<signins, drawn>>
      /\ Finish(r) \/ Goto(r, "insert")
  BY DEF Purge, history
<1>2. \A q \in Requests : Consumes(q, c)' => Consumes(q, c)
  BY <1>1, LetsNobodyIn DEF WellFormed, Places
<1> QED BY <1>1, <1>2, CodeUntouched DEF CodesInOrder

\* The insertion of a set of codes that was never seen.
LEMMA InsertedCodes ==
    ASSUME WellFormed, CodesInOrder, NEW r \in Requests, InsertCodes(r)
    PROVE  CodesInOrder'
<1>1. PICK s \in CodeSets \ drawn :
         codes' = codes \cup ({s} \X (1..CodesPerSet)) /\ drawn' = drawn \cup {s}
  BY DEF InsertCodes
<1>2. UNCHANGED <<used, signins>> /\ Finish(r)
  BY DEF InsertCodes
<1> SUFFICES ASSUME NEW c \in BackupCodes PROVE CodeInOrder(c)'
  BY DEF CodesInOrder
<1>3. \A q \in Requests : Consumes(q, c)' => Consumes(q, c)
  BY <1>2, LetsNobodyIn DEF WellFormed
<1>4. CASE c \in {s} \X (1..CodesPerSet)
  <2>1. c[1] = s /\ c[1] \notin drawn
    BY <1>4
  <2>2. signins[c] = 0
    BY <2>1 DEF CodesInOrder, CodeInOrder
  <2>3. \A q \in Requests : ~Consumes(q, c)
    BY <2>1 DEF WellFormed, InOrder, Consumes
  <2>4. c[1] \in drawn'
    BY <1>1, <2>1
  <2> QED BY <1>2, <1>3, <2>2, <2>3, <2>4 DEF CodeInOrder
<1>5. CASE c \notin {s} \X (1..CodesPerSet)
  <2>1. c \in codes' <=> c \in codes
    BY <1>1, <1>5
  <2>2. c[1] \notin drawn' => c \notin codes'
    BY <1>1, <2>1 DEF CodesInOrder, CodeInOrder
  <2> QED BY <1>1, <1>2, <1>3, <2>1, <2>2, CodeUntouched DEF CodesInOrder
<1> QED BY <1>4, <1>5

\* The transaction that finds the code unused, and uses it.
LEMMA UsedCode ==
    ASSUME WellFormed, CodesInOrder, NEW r \in Requests, UseBackupCode(r)
    PROVE  CodesInOrder'
<1> SUFFICES ASSUME NEW c \in BackupCodes PROVE CodeInOrder(c)'
  BY DEF CodesInOrder
<1>1. /\ req[r].at = "check" /\ req[r].code \in codes \ used
      /\ used' = used \cup {req[r].code} /\ UNCHANGED <<codes, signins, drawn>>
      /\ Goto(r, "clear")
  BY DEF UseBackupCode, At, history
<1>2. /\ req'[r].at = "clear" /\ req'[r].code = req[r].code
      /\ \A q \in Requests \ {r} : req'[q] = req[q]
  BY <1>1, GoesTo DEF WellFormed, Places
<1>3. CASE c = req[r].code
  <2>1. signins[c] = 0 /\ \A q \in Requests : ~Consumes(q, c)
    BY <1>1, <1>3 DEF CodesInOrder, CodeInOrder
  <2>2. \A q \in Requests : Consumes(q, c)' => q = r
    BY <1>2, <2>1 DEF Consumes
  <2> QED BY <1>1, <1>3, <2>1, <2>2 DEF CodesInOrder, CodeInOrder
<1>4. CASE c # req[r].code
  <2>1. \A q \in Requests : Consumes(q, c)' => Consumes(q, c)
    BY <1>2, <1>4 DEF Consumes
  <2> QED BY <1>1, <2>1, CodeUntouched DEF CodesInOrder, CodeInOrder
<1> QED BY <1>3, <1>4

\* A TOTP code lets a request in, and is not a backup code.
LEMMA TotpIsNoBackupCode ==
    ASSUME WellFormed, CodesInOrder, NEW r \in Requests, CheckTotp(r)
    PROVE  CodesInOrder'
<1>1. UNCHANGED <<codes, used, signins, drawn>> /\ req[r].at = "check"
  BY DEF CheckTotp, At, user
<1>2. CASE req[r].code = req[r].secret
  <2>1. Goto(r, "clear")
    BY <1>2 DEF CheckTotp
  <2>2. req[r].code \notin BackupCodes
    BY <1>1, <1>2, TypedAssumption DEF WellFormed, InOrder, BackupCodes
  <2>3. req'[r].code = req[r].code /\ \A q \in Requests \ {r} : req'[q] = req[q]
    BY <2>1, GoesTo DEF WellFormed, Places
  <2>4. \A c \in BackupCodes, q \in Requests : Consumes(q, c)' => Consumes(q, c)
    BY <2>2, <2>3 DEF Consumes
  <2> QED BY <1>1, <2>4, NoCodeTouched
<1>3. CASE req[r].code # req[r].secret
  <2>1. Finish(r)
    BY <1>3 DEF CheckTotp
  <2> QED BY <1>1, <2>1, LetsNobodyIn, NoCodeTouched DEF WellFormed
<1> QED BY <1>2, <1>3

\* The sign-in a code was used for.
LEMMA SignedInCode ==
    ASSUME WellFormed, CodesInOrder, NEW r \in Requests, SignIn(r)
    PROVE  CodesInOrder'
<1> SUFFICES ASSUME NEW c \in BackupCodes PROVE CodeInOrder(c)'
  BY DEF CodesInOrder
<1>1. /\ req[r].at = "signin" /\ UNCHANGED <<codes, used, drawn>> /\ Finish(r)
      /\ signins' = [x \in DOMAIN signins |->
                        IF x \in {req[r].ticket, req[r].code} THEN signins[x] + 1
                                                              ELSE signins[x]]
  BY DEF SignIn, At, user
<1>2. /\ req'[r] = Idle /\ \A q \in Requests \ {r} : req'[q] = req[q]
  BY <1>1, IsOver DEF WellFormed
<1>3. req[r].ticket \in Tickets /\ c \notin Tickets /\ c \in DOMAIN signins
  BY <1>1, TypedAssumption DEF WellFormed, InOrder, Verifying, BackupCodes, TypeOK
<1>4. CASE c = req[r].code
  <2>1. Consumes(r, c) /\ signins'[c] = signins[c] + 1
    BY <1>1, <1>3, <1>4 DEF Consumes
  <2>2. /\ signins[c] = 0 /\ c \notin codes \ used /\ c[1] \in drawn
        /\ \A q \in Requests : Consumes(q, c) => q = r
    BY <1>4, <2>1 DEF CodesInOrder, CodeInOrder, WellFormed, InOrder
  <2>3. \A q \in Requests : ~Consumes(q, c)'
    BY <1>2, <2>2, IdleRow DEF Consumes
  <2> QED BY <1>1, <2>1, <2>2, <2>3 DEF CodeInOrder
<1>5. CASE c # req[r].code
  <2>1. signins'[c] = signins[c]
    BY <1>1, <1>3, <1>5
  <2>2. \A q \in Requests : Consumes(q, c)' => Consumes(q, c)
    BY <1>2, IdleRow DEF Consumes
  <2> QED BY <1>1, <2>1, <2>2, CodeUntouched DEF CodesInOrder, CodeInOrder
<1> QED BY <1>4, <1>5

\* Every step keeps the codes in order.
LEMMA CodesStep == WellFormed /\ CodesInOrder /\ [Next]_vars => CodesInOrder'
<1> SUFFICES ASSUME WellFormed, CodesInOrder, [Next]_vars PROVE CodesInOrder'
  OBVIOUS
<1>1. CASE SetupStart \/ Login \/ Lapse \/ UNCHANGED vars
  <2>1. UNCHANGED <<codes, used, signins, req>> /\ drawn \subseteq drawn'
    BY <1>1 DEF SetupStart, Login, Lapse, vars, user, redis, history
  <2> QED BY <2>1, NoCodeTouched DEF Consumes
<1>2. ASSUME NEW r \in Requests, NEW row \in Row, req' = [req EXCEPT ![r] = row],
             row.at \in {"enable", "purge", "disable", "user", "void", "count"},
             UNCHANGED <<codes, used, signins, drawn>>
      PROVE  CodesInOrder'
  <2>1. \A c \in BackupCodes, q \in Requests : Consumes(q, c)' => Consumes(q, c)
    BY <1>2, Begins DEF WellFormed, Consumes
  <2> QED BY <1>2, <2>1, NoCodeTouched
<1>3. ASSUME NEW r \in Requests, BeginConfirm(r) \/ BeginRegenerate(r) \/ BeginDisable(r)
      PROVE  CodesInOrder'
  <2> DEFINE confirm == [Idle EXCEPT !.kind = "confirm", !.at = "enable", !.secret = pending]
             regenerate == [Idle EXCEPT !.kind = "regenerate", !.at = "purge"]
             disable == [Idle EXCEPT !.kind = "disable", !.at = "disable"]
  <2>1. \E row \in {confirm, regenerate, disable} : req' = [req EXCEPT ![r] = row]
    BY <1>3 DEF BeginConfirm, BeginRegenerate, BeginDisable
  <2>2. UNCHANGED <<codes, used, signins, drawn>>
    BY <1>3 DEF BeginConfirm, BeginRegenerate, BeginDisable, user, history
  <2>3. confirm \in Row /\ regenerate \in Row /\ disable \in Row
    BY IdleRow DEF Idle, Row, Places, WellFormed, TypeOK
  <2>4. confirm.at = "enable" /\ regenerate.at = "purge" /\ disable.at = "disable"
    BY DEF Idle
  <2> HIDE DEF confirm, regenerate, disable
  <2> QED BY <1>2, <2>1, <2>2, <2>3, <2>4
<1>4. ASSUME NEW r \in Requests, NEW t \in Tickets, BeginVerify(r, t) PROVE CodesInOrder'
  <2>1. PICK c \in Typed :
           req' = [req EXCEPT ![r] = [Idle EXCEPT !.kind = "verify", !.at = "user",
                                                  !.ticket = t, !.code = c]]
    BY <1>4 DEF BeginVerify
  <2>2. UNCHANGED <<codes, used, signins, drawn>>
    BY <1>4 DEF BeginVerify, user, history
  <2> DEFINE row == [Idle EXCEPT !.kind = "verify", !.at = "user", !.ticket = t, !.code = c]
  <2>3. row \in Row /\ row.at = "user"
    BY DEF Idle, Row, Places, Typed
  <2> HIDE DEF row
  <2> QED BY <1>2, <2>1, <2>2, <2>3 DEF row
<1>5. ASSUME NEW r \in Requests, LoadUser(r) PROVE CodesInOrder'
  <2> DEFINE place == IF secret = NoSecret THEN "void" ELSE "count"
             row == [req[r] EXCEPT !.secret = secret, !.at = place]
  <2>1. row \in Row /\ row.at = place
    BY LoadedRow DEF WellFormed
  <2>2. req' = [req EXCEPT ![r] = row] /\ UNCHANGED <<codes, used, signins, drawn>>
    BY <1>5 DEF LoadUser, user, history
  <2>3. place \in {"void", "count"}
    OBVIOUS
  <2> HIDE DEF row, place
  <2> QED BY <1>2, <2>1, <2>2, <2>3
<1>6. ASSUME NEW r \in Requests,
             \/ Enable(r) \/ ClearPending(r) \/ Disable(r) \/ CountAttempt(r) \/ VoidTicket(r)
             \/ ClearTicket(r) \/ ClearAttempts(r) \/ Dies(r)
      PROVE  CodesInOrder'
  <2>1. UNCHANGED <<codes, used, signins, drawn>>
    BY <1>6 DEF Enable, ClearPending, Disable, CountAttempt, VoidTicket, ClearTicket,
                ClearAttempts, Dies, user, redis, history
  <2>2. \/ Finish(r)
        \/ \E place \in Places :
              /\ Goto(r, place)
              /\ place \in {"clear", "uncount", "signin"} =>
                    req[r].at \in {"clear", "uncount", "signin"}
    BY <1>6 DEF Enable, ClearPending, Disable, CountAttempt, VoidTicket, ClearTicket,
                ClearAttempts, Dies, At, Places
  <2> QED BY <2>1, <2>2, LetsNobodyIn, NoCodeTouched DEF WellFormed
<1> QED
  BY <1>1, <1>3, <1>4, <1>5, <1>6, PurgedCodes, InsertedCodes, UsedCode, TotpIsNoBackupCode,
     SignedInCode
  DEF Next

\* For every number of requests, sets of codes and faults: a backup code signs in
\* once, also when it is verified by several requests at the same time.
THEOREM BackupCodesSignInOnce == Spec => []CodeSignsInOnce
<1>1. CodesInOrder => CodeSignsInOnce
  BY DEF CodesInOrder, CodeInOrder, CodeSignsInOnce
<1>2. Init => WellFormed /\ CodesInOrder
  <2>1. Init => CodesInOrder
    BY IdleRow DEF Init, CodesInOrder, CodeInOrder, Consumes
  <2> QED BY <2>1, WellFormedInit
<1>3. WellFormed /\ CodesInOrder /\ [Next]_vars => WellFormed' /\ CodesInOrder'
  BY WellFormedStep, CodesStep
<1> QED BY <1>1, <1>2, <1>3, PTL DEF Spec

-----------------------------------------------------------------------------
(* Tickets.                                                                *)

\* The requests with a ticket, and those among them whose code is looked at.
Serves(t) == {r \in Requests : req[r].ticket = t}
Checking(t) == {r \in Requests : req[r].at = "check" /\ req[r].ticket = t}

\* As long as a ticket can be used its counter covers the codes refused and those
\* looked at, and nobody has signed in with it; then only requests that have it
\* already may still sign in.
TicketInOrder(t) ==
    /\ t \in tickets =>
          /\ wrong[t] + Cardinality(Checking(t)) <= attempts[t]
          /\ wrong[t] + Cardinality(Checking(t)) <= MaxAttempts
          /\ signins[t] = 0
    /\ signins[t] + Cardinality(Serves(t)) <= Cardinality(Requests)
    /\ t \notin drawn => wrong[t] = 0 /\ signins[t] = 0

TicketsInOrder == \A t \in Tickets : TicketInOrder(t)

\* A set of requests is finite, and no larger than one it is part of.
LEMMA RequestSets ==
    /\ IsFiniteSet(Requests) /\ Cardinality(Requests) \in Nat
    /\ \A S \in SUBSET Requests : IsFiniteSet(S) /\ Cardinality(S) \in Nat
    /\ \A S \in SUBSET Requests, T \in SUBSET Requests :
          T \subseteq S => Cardinality(T) <= Cardinality(S)
BY FiniteAssumption, FS_Subset, FS_CardinalityType

\* What a ticket's columns hold.
LEMMA TicketColumns ==
    ASSUME WellFormed, NEW t \in Tickets
    PROVE  /\ wrong[t] \in Nat /\ attempts[t] \in Nat /\ signins[t] \in Nat
           /\ Serves(t) \subseteq Requests /\ Checking(t) \subseteq Requests
           /\ Cardinality(Serves(t)) \in Nat /\ Cardinality(Checking(t)) \in Nat
<1>1. Serves(t) \subseteq Requests /\ Checking(t) \subseteq Requests
  BY DEF Serves, Checking
<1> QED BY <1>1, RequestSets DEF WellFormed, TypeOK

\* A step that gives the ticket to nobody, and refuses and admits no code for it.
LEMMA TicketUntouched ==
    ASSUME WellFormed, WellFormed', NEW t \in Tickets, TicketInOrder(t), drawn \subseteq drawn',
           Serves(t)' \subseteq Serves(t), Checking(t)' \subseteq Checking(t),
           wrong'[t] = wrong[t], signins'[t] = signins[t],
           t \in tickets' => t \in tickets /\ attempts'[t] >= attempts[t]
    PROVE  TicketInOrder(t)'
<1>1. /\ Cardinality(Serves(t)') \in Nat /\ Cardinality(Checking(t)') \in Nat
      /\ Cardinality(Serves(t)') <= Cardinality(Serves(t))
      /\ Cardinality(Checking(t)') <= Cardinality(Checking(t))
  BY TicketColumns, RequestSets
<1>2. attempts'[t] \in Nat
  BY DEF WellFormed, TypeOK
<1> QED BY <1>1, <1>2, TicketColumns, RequestSets, BoundsAssumption DEF TicketInOrder

\* A request that moves on to something else than looking at a code, or ends.
LEMMA LeavesTickets ==
    ASSUME WellFormed, NEW r \in Requests,
           \/ Finish(r)
           \/ \E place \in Places \ {"check"} : Goto(r, place)
           \/ \E row \in Row : /\ req' = [req EXCEPT ![r] = row]
                               /\ row.at # "check"
                               /\ row.ticket \in {NoTicket, req[r].ticket},
           NEW t \in Tickets
    PROVE  Serves(t)' \subseteq Serves(t) /\ Checking(t)' \subseteq Checking(t)
<1>1. CASE Finish(r)
  BY <1>1, IsOver, IdleRow DEF WellFormed, Serves, Checking
<1>2. ASSUME NEW place \in Places \ {"check"}, Goto(r, place)
      PROVE  Serves(t)' \subseteq Serves(t) /\ Checking(t)' \subseteq Checking(t)
  <2>1. /\ req'[r].at # "check" /\ req'[r].ticket = req[r].ticket
        /\ \A q \in Requests \ {r} : req'[q] = req[q]
    BY <1>2, GoesTo DEF WellFormed
  <2> QED BY <2>1 DEF Serves, Checking
<1>3. ASSUME NEW row \in Row, req' = [req EXCEPT ![r] = row], row.at # "check",
             row.ticket \in {NoTicket, req[r].ticket}
      PROVE  Serves(t)' \subseteq Serves(t) /\ Checking(t)' \subseteq Checking(t)
  BY <1>3, Begins, NoAssumption DEF WellFormed, Serves, Checking
<1> QED BY <1>1, <1>2, <1>3

\* Steps that are about no ticket.
LEMMA NoTicketTouched ==
    ASSUME WellFormed, WellFormed', TicketsInOrder, NEW r \in Requests,
           drawn \subseteq drawn', UNCHANGED <<wrong, signins>>, tickets' \subseteq tickets,
           \A t \in tickets' : attempts'[t] >= attempts[t],
           \/ Finish(r)
           \/ \E place \in Places \ {"check"} : Goto(r, place)
           \/ \E row \in Row : /\ req' = [req EXCEPT ![r] = row]
                               /\ row.at # "check"
                               /\ row.ticket \in {NoTicket, req[r].ticket}
    PROVE  TicketsInOrder'
<1> SUFFICES ASSUME NEW t \in Tickets PROVE TicketInOrder(t)'
  BY DEF TicketsInOrder
<1>1. Serves(t)' \subseteq Serves(t) /\ Checking(t)' \subseteq Checking(t)
  BY LeavesTickets
<1>2. TicketInOrder(t)
  BY DEF TicketsInOrder
<1> QED BY <1>1, <1>2, TicketUntouched

\* A ticket that was never drawn is with no request.
LEMMA NewTicket ==
    ASSUME WellFormed, WellFormed', TicketsInOrder, Login
    PROVE  TicketsInOrder'
<1>1. PICK s \in Tickets \ drawn : tickets' = tickets \cup {s} /\ drawn' = drawn \cup {s}
  BY DEF Login
<1>2. UNCHANGED <<attempts, wrong, signins, req>>
  BY DEF Login
<1> SUFFICES ASSUME NEW t \in Tickets PROVE TicketInOrder(t)'
  BY DEF TicketsInOrder
<1>3. Serves(t)' = Serves(t) /\ Checking(t)' = Checking(t)
  BY <1>2 DEF Serves, Checking
<1>4. CASE t = s
  <2>1. wrong[t] = 0 /\ signins[t] = 0 /\ Checking(t) = {}
    BY <1>1, <1>4 DEF TicketsInOrder, TicketInOrder, Checking, WellFormed, InOrder
  <2>2. Cardinality(Checking(t)') = 0
    BY <1>3, <2>1, FS_EmptySet
  <2> QED BY <1>1, <1>2, <1>3, <1>4, <2>1, <2>2, TicketColumns, BoundsAssumption
          DEF TicketsInOrder, TicketInOrder
<1>5. CASE t # s
  BY <1>1, <1>2, <1>3, <1>5, TicketUntouched, TicketColumns DEF TicketsInOrder
<1> QED BY <1>4, <1>5

\* A verification begins with a ticket nobody has signed in with.
LEMMA TicketRead ==
    ASSUME WellFormed, WellFormed', TicketsInOrder, NEW r \in Requests, NEW s \in Tickets,
           BeginVerify(r, s)
    PROVE  TicketsInOrder'
<1>1. PICK c \in Typed :
         req' = [req EXCEPT ![r] = [Idle EXCEPT !.kind = "verify", !.at = "user",
                                                !.ticket = s, !.code = c]]
  BY DEF BeginVerify
<1> DEFINE row == [Idle EXCEPT !.kind = "verify", !.at = "user", !.ticket = s, !.code = c]
<1>2. row \in Row /\ row.at = "user" /\ row.ticket = s
  BY DEF Idle, Row, Places, Typed
<1>3. UNCHANGED <<drawn, tickets, attempts, wrong, signins>> /\ s \in tickets
  BY DEF BeginVerify, redis, history
<1> SUFFICES ASSUME NEW t \in Tickets PROVE TicketInOrder(t)'
  BY DEF TicketsInOrder
<1>4. req' = [req EXCEPT ![r] = row]
  BY <1>1
<1> HIDE DEF row
<1>5. req'[r] = row /\ \A q \in Requests \ {r} : req'[q] = req[q]
  BY <1>2, <1>4, Begins DEF WellFormed
<1>6. Checking(t)' \subseteq Checking(t)
  BY <1>2, <1>5 DEF Checking
<1>7. CASE t = s
  <2>1. Serves(t)' \subseteq Requests
    BY DEF Serves
  <2>2. /\ Cardinality(Serves(t)') \in Nat
        /\ Cardinality(Serves(t)') <= Cardinality(Requests)
    BY <2>1, RequestSets
  <2>3. /\ Cardinality(Checking(t)') \in Nat
        /\ Cardinality(Checking(t)') <= Cardinality(Checking(t))
    BY <1>6, TicketColumns, RequestSets
  <2>4. TicketInOrder(t) /\ signins[t] = 0
    BY <1>3, <1>7 DEF TicketsInOrder, TicketInOrder
  <2> QED BY <1>3, <2>2, <2>3, <2>4, TicketColumns, RequestSets, BoundsAssumption
          DEF TicketInOrder
<1>8. CASE t # s
  <2>1. Serves(t)' \subseteq Serves(t)
    BY <1>2, <1>5, <1>8 DEF Serves
  <2> QED BY <1>3, <1>6, <2>1, TicketUntouched, TicketColumns DEF TicketsInOrder
<1> QED BY <1>7, <1>8

\* The counter is raised, and compared, before the code is looked at.
LEMMA CountedAttempt ==
    ASSUME WellFormed, WellFormed', TicketsInOrder, NEW r \in Requests, CountAttempt(r)
    PROVE  TicketsInOrder'
<1> DEFINE s == req[r].ticket
<1>1. s \in Tickets /\ req[r].at = "count"
  BY DEF CountAttempt, At, WellFormed, InOrder, Verifying
<1>2. /\ UNCHANGED <<drawn, tickets, wrong, signins>>
      /\ attempts' = [attempts EXCEPT ![s] = attempts[s] + 1]
  BY DEF CountAttempt, history
<1>3. /\ attempts'[s] = attempts[s] + 1
      /\ \A t \in Tickets \ {s} : attempts'[t] = attempts[t]
  BY <1>1, <1>2 DEF WellFormed, TypeOK
<1>4. CASE attempts'[s] > MaxAttempts
  <2>1. Goto(r, "void")
    BY <1>4 DEF CountAttempt
  <2>2. \A t \in tickets' : attempts'[t] >= attempts[t]
    BY <1>2, <1>3, TicketColumns DEF WellFormed, TypeOK
  <2> QED BY <1>2, <2>1, <2>2, NoTicketTouched DEF Places
<1>5. CASE ~(attempts'[s] > MaxAttempts)
  <2>1. Goto(r, "check")
    BY <1>5 DEF CountAttempt
  <2>2. /\ req'[r].at = "check" /\ req'[r].ticket = s
        /\ \A q \in Requests \ {r} : req'[q] = req[q]
    BY <2>1, GoesTo DEF WellFormed, Places
  <2> SUFFICES ASSUME NEW t \in Tickets PROVE TicketInOrder(t)'
    BY DEF TicketsInOrder
  <2>3. TicketInOrder(t)
    BY DEF TicketsInOrder
  <2>4. Serves(t)' = Serves(t)
    BY <2>2 DEF Serves
  <2>5. CASE t = s
    <3>1. r \notin Checking(t) /\ Checking(t)' = Checking(t) \cup {r}
      BY <1>1, <2>2, <2>5 DEF Checking
    <3>2. Cardinality(Checking(t)') = Cardinality(Checking(t)) + 1
      BY <3>1, TicketColumns, RequestSets, FS_AddElement
    <3> QED BY <1>2, <1>3, <1>5, <2>3, <2>4, <2>5, <3>2, TicketColumns, BoundsAssumption
            DEF TicketInOrder
  <2>6. CASE t # s
    <3>1. Checking(t)' = Checking(t)
      BY <2>2, <2>6 DEF Checking
    <3> QED BY <1>2, <1>3, <2>3, <2>4, <2>6, <3>1, TicketUntouched, TicketColumns
  <2> QED BY <2>5, <2>6
<1> QED BY <1>4, <1>5

\* A request that ends takes itself out of those with its ticket.
LEMMA EndsWithTicket ==
    ASSUME WellFormed, NEW r \in Requests, Finish(r), NEW t \in Tickets, t = req[r].ticket
    PROVE  /\ Cardinality(Serves(t)') = Cardinality(Serves(t)) - 1
           /\ req[r].at = "check" => Cardinality(Checking(t)') = Cardinality(Checking(t)) - 1
<1>1. req'[r] = Idle /\ \A q \in Requests \ {r} : req'[q] = req[q]
  BY IsOver DEF WellFormed
<1>2. r \in Serves(t) /\ Serves(t)' = Serves(t) \ {r}
  BY <1>1, IdleRow DEF Serves
<1>3. req[r].at = "check" => r \in Checking(t) /\ Checking(t)' = Checking(t) \ {r}
  BY <1>1, IdleRow DEF Checking
<1>4. IsFiniteSet(Serves(t)) /\ IsFiniteSet(Checking(t))
  BY TicketColumns, RequestSets
<1>5. Cardinality(Serves(t)') = Cardinality(Serves(t)) - 1
  BY <1>2, <1>4, FS_RemoveElement
<1>6. req[r].at = "check" => Cardinality(Checking(t)') = Cardinality(Checking(t)) - 1
  BY <1>3, <1>4, FS_RemoveElement
<1> QED BY <1>5, <1>6

\* A refused code is one that was counted.
LEMMA RefusedCode ==
    ASSUME WellFormed, WellFormed', TicketsInOrder, NEW r \in Requests, CheckTotp(r)
    PROVE  TicketsInOrder'
<1> DEFINE s == req[r].ticket
<1>1. s \in Tickets /\ req[r].at = "check" /\ UNCHANGED <<drawn, tickets, attempts, signins>>
  BY DEF CheckTotp, At, WellFormed, InOrder, Verifying, redis
<1>2. CASE req[r].code = req[r].secret
  <2>1. Goto(r, "clear") /\ UNCHANGED wrong
    BY <1>2 DEF CheckTotp
  <2>2. \A t \in tickets' : attempts'[t] >= attempts[t]
    BY <1>1, TicketColumns DEF WellFormed, TypeOK
  <2> QED BY <1>1, <2>1, <2>2, NoTicketTouched DEF Places
<1>3. CASE req[r].code # req[r].secret
  <2>1. Finish(r) /\ wrong' = [wrong EXCEPT ![s] = wrong[s] + 1]
    BY <1>3 DEF CheckTotp
  <2>2. wrong'[s] = wrong[s] + 1 /\ \A t \in Tickets \ {s} : wrong'[t] = wrong[t]
    BY <1>1, <2>1 DEF WellFormed, TypeOK
  <2> SUFFICES ASSUME NEW t \in Tickets PROVE TicketInOrder(t)'
    BY DEF TicketsInOrder
  <2>3. TicketInOrder(t)
    BY DEF TicketsInOrder
  <2>4. CASE t = s
    <3>1. /\ Cardinality(Serves(t)') = Cardinality(Serves(t)) - 1
          /\ Cardinality(Checking(t)') = Cardinality(Checking(t)) - 1
      BY <1>1, <2>1, <2>4, EndsWithTicket
    <3>2. t \in drawn
      BY <1>1, <2>4 DEF WellFormed, InOrder
    <3> QED BY <1>1, <2>2, <2>3, <2>4, <3>1, <3>2, TicketColumns, RequestSets DEF TicketInOrder
  <2>5. CASE t # s
    BY <1>1, <2>1, <2>2, <2>3, <2>5, LeavesTickets, TicketUntouched, TicketColumns
  <2> QED BY <2>4, <2>5
<1> QED BY <1>2, <1>3

\* A sign-in ends a request whose ticket is gone.
LEMMA SignedInTicket ==
    ASSUME WellFormed, WellFormed', TicketsInOrder, NEW r \in Requests, SignIn(r)
    PROVE  TicketsInOrder'
<1> DEFINE s == req[r].ticket
<1>1. /\ s \in Tickets /\ s \in drawn /\ s \notin tickets
      /\ UNCHANGED <<drawn, tickets, attempts, wrong>> /\ Finish(r)
      /\ signins' = [x \in DOMAIN signins |->
                        IF x \in {s, req[r].code} THEN signins[x] + 1 ELSE signins[x]]
  BY DEF SignIn, At, WellFormed, InOrder, Verifying, redis
<1>2. req[r].code \notin Tickets
  <2>1. req[r] \in Row
    BY DEF WellFormed, TypeOK, Row
  <2> QED BY <2>1, TypedAssumption DEF Row, BackupCodes
<1>3. signins'[s] = signins[s] + 1 /\ \A t \in Tickets \ {s} : signins'[t] = signins[t]
  <2>1. Tickets \subseteq DOMAIN signins
    BY DEF WellFormed, TypeOK
  <2> QED BY <1>1, <1>2, <2>1
<1> SUFFICES ASSUME NEW t \in Tickets PROVE TicketInOrder(t)'
  BY DEF TicketsInOrder
<1>4. TicketInOrder(t)
  BY DEF TicketsInOrder
<1>5. CASE t = s
  <2>1. Cardinality(Serves(t)') = Cardinality(Serves(t)) - 1
    BY <1>1, <1>5, EndsWithTicket
  <2> QED BY <1>1, <1>3, <1>4, <1>5, <2>1, TicketColumns, RequestSets DEF TicketInOrder
<1>6. CASE t # s
  BY <1>1, <1>3, <1>4, <1>6, LeavesTickets, TicketUntouched, TicketColumns
<1> QED BY <1>5, <1>6

\* Every step keeps the tickets in order.
LEMMA TicketsStep == WellFormed /\ TicketsInOrder /\ [Next]_vars => TicketsInOrder'
<1> SUFFICES ASSUME WellFormed, TicketsInOrder, [Next]_vars PROVE TicketsInOrder'
  OBVIOUS
<1>1. WellFormed'
  BY WellFormedStep
<1>2. CASE SetupStart \/ Lapse \/ UNCHANGED vars
  <2>1. /\ UNCHANGED <<wrong, signins, req>> /\ drawn \subseteq drawn' /\ tickets' \subseteq tickets
        /\ \A t \in tickets' : attempts'[t] = attempts[t]
    BY <1>2 DEF SetupStart, Lapse, vars, user, redis, history, WellFormed, TypeOK
  <2> SUFFICES ASSUME NEW t \in Tickets PROVE TicketInOrder(t)'
    BY DEF TicketsInOrder
  <2>2. Serves(t)' = Serves(t) /\ Checking(t)' = Checking(t)
    BY <2>1 DEF Serves, Checking
  <2> QED BY <1>1, <2>1, <2>2, TicketUntouched, TicketColumns DEF TicketsInOrder
<1>3. ASSUME NEW r \in Requests, drawn \subseteq drawn', UNCHANGED <<wrong, signins>>,
             tickets' \subseteq tickets, \A t \in tickets' : attempts'[t] = attempts[t],
             \/ Finish(r)
             \/ \E place \in Places \ {"check"} : Goto(r, place)
             \/ \E row \in Row : /\ req' = [req EXCEPT ![r] = row]
                                 /\ row.at # "check"
                                 /\ row.ticket \in {NoTicket, req[r].ticket}
      PROVE  TicketsInOrder'
  <2>1. \A t \in tickets' : attempts'[t] >= attempts[t]
    BY <1>3, TicketColumns DEF WellFormed, TypeOK
  <2> QED BY <1>1, <1>3, <2>1, NoTicketTouched
<1>4. ASSUME NEW r \in Requests, BeginConfirm(r) \/ BeginRegenerate(r) \/ BeginDisable(r)
      PROVE  TicketsInOrder'
  <2> DEFINE confirm == [Idle EXCEPT !.kind = "confirm", !.at = "enable", !.secret = pending]
             regenerate == [Idle EXCEPT !.kind = "regenerate", !.at = "purge"]
             disable == [Idle EXCEPT !.kind = "disable", !.at = "disable"]
  <2>1. \E row \in {confirm, regenerate, disable} : req' = [req EXCEPT ![r] = row]
    BY <1>4 DEF BeginConfirm, BeginRegenerate, BeginDisable
  <2>2. UNCHANGED <<drawn, wrong, signins, tickets, attempts>>
    BY <1>4 DEF BeginConfirm, BeginRegenerate, BeginDisable, redis, history
  <2>3. confirm \in Row /\ regenerate \in Row /\ disable \in Row
    BY IdleRow DEF Idle, Row, Places, WellFormed, TypeOK
  <2>4. \A row \in {confirm, regenerate, disable} : row.at # "check" /\ row.ticket = NoTicket
    BY DEF Idle
  <2> HIDE DEF confirm, regenerate, disable
  <2> QED BY <1>3, <2>1, <2>2, <2>3, <2>4
<1>5. ASSUME NEW r \in Requests, LoadUser(r) PROVE TicketsInOrder'
  <2> DEFINE place == IF secret = NoSecret THEN "void" ELSE "count"
             row == [req[r] EXCEPT !.secret = secret, !.at = place]
  <2>1. row \in Row /\ row.at = place /\ row.ticket = req[r].ticket
    BY LoadedRow DEF WellFormed
  <2>2. req' = [req EXCEPT ![r] = row] /\ UNCHANGED <<drawn, wrong, signins, tickets, attempts>>
    BY <1>5 DEF LoadUser, redis, history
  <2>3. place # "check"
    OBVIOUS
  <2> HIDE DEF row, place
  <2> QED BY <1>3, <2>1, <2>2, <2>3
<1>6. ASSUME NEW r \in Requests, ClearAttempts(r) PROVE TicketsInOrder'
  <2>1. req[r].ticket \notin tickets
    BY <1>6 DEF ClearAttempts, At, WellFormed, InOrder
  <2>2. /\ Goto(r, "signin") /\ UNCHANGED <<drawn, wrong, signins, tickets>>
        /\ attempts' = [attempts EXCEPT ![req[r].ticket] = 0]
    BY <1>6 DEF ClearAttempts, history
  <2>3. \A t \in tickets' : attempts'[t] = attempts[t]
    BY <2>1, <2>2 DEF WellFormed, TypeOK
  <2> QED BY <1>3, <2>2, <2>3 DEF Places
<1>7. ASSUME NEW r \in Requests,
             \/ Enable(r) \/ ClearPending(r) \/ Disable(r) \/ Purge(r) \/ InsertCodes(r)
             \/ VoidTicket(r) \/ UseBackupCode(r) \/ ClearTicket(r) \/ Dies(r)
      PROVE  TicketsInOrder'
  <2>1. /\ UNCHANGED <<wrong, signins, attempts>> /\ drawn \subseteq drawn'
        /\ tickets' \subseteq tickets
    BY <1>7 DEF Enable, ClearPending, Disable, Purge, InsertCodes, VoidTicket, UseBackupCode,
                ClearTicket, Dies, user, redis, history
  <2>2. Finish(r) \/ \E place \in Places \ {"check"} : Goto(r, place)
    BY <1>7 DEF Enable, ClearPending, Disable, Purge, InsertCodes, VoidTicket, UseBackupCode,
                ClearTicket, Dies, Places
  <2> QED BY <1>3, <2>1, <2>2
<1> QED
  BY <1>1, <1>2, <1>4, <1>5, <1>6, <1>7, NewTicket, TicketRead, CountedAttempt, RefusedCode,
     SignedInTicket
  DEF Next

\* No ticket has been drawn to begin with.
LEMMA TicketsInit == Init => TicketsInOrder
<1> SUFFICES ASSUME Init, NEW t \in Tickets PROVE TicketInOrder(t)
  BY DEF TicketsInOrder
<1>1. Serves(t) = {} /\ Checking(t) = {}
  BY IdleRow DEF Init, Serves, Checking
<1>2. Cardinality(Serves(t)) = 0
  BY <1>1, FS_EmptySet
<1>3. tickets = {} /\ signins[t] = 0 /\ wrong[t] = 0
  BY DEF Init
<1> QED BY <1>2, <1>3, RequestSets DEF TicketInOrder

\* What is known of every ticket in every state.
LEMMA TicketsHold == Spec => [](WellFormed /\ TicketsInOrder)
<1>1. Init => WellFormed /\ TicketsInOrder
  BY WellFormedInit, TicketsInit
<1>2. WellFormed /\ TicketsInOrder /\ [Next]_vars => WellFormed' /\ TicketsInOrder'
  BY WellFormedStep, TicketsStep
<1> QED BY <1>1, <1>2, PTL DEF Spec

\* For every number of requests and every limit: as long as a ticket can be used,
\* no more codes than the limit have been refused for it.
THEOREM GuessesAreBounded == Spec => []AttemptsBounded
<1>1. WellFormed /\ TicketsInOrder => AttemptsBounded
  <2> SUFFICES ASSUME WellFormed, TicketsInOrder, NEW t \in tickets
               PROVE  wrong[t] <= MaxAttempts
    BY DEF AttemptsBounded
  <2>1. t \in Tickets
    BY DEF WellFormed, TypeOK
  <2> QED BY <2>1, TicketColumns, BoundsAssumption DEF TicketsInOrder, TicketInOrder
<1> QED BY <1>1, TicketsHold, PTL

\* For every number of requests: a ticket signs in at most as often as there are
\* requests, since the first that gets that far deletes it.
THEOREM TicketSignInsAreBounded == Spec => []SignInsBounded
<1>1. WellFormed /\ TicketsInOrder => SignInsBounded
  BY TicketColumns, RequestSets DEF TicketsInOrder, TicketInOrder, SignInsBounded
<1> QED BY <1>1, TicketsHold, PTL

-----------------------------------------------------------------------------
(* Sets of codes.                                                          *)

\* The sets that are stored, and the requests that will store one more.
Stored == {c[1] : c \in codes}
Inserting == {r \in Requests : req[r].at = "insert"}

SetsInOrder ==
    /\ IsFiniteSet(Stored)
    /\ Cardinality(Stored) + Cardinality(Inserting) <= Cardinality(Requests)

\* A step that neither stores codes nor lets a request store some.
LEMMA SetsUntouched ==
    ASSUME SetsInOrder, UNCHANGED codes, Inserting' \subseteq Inserting PROVE SetsInOrder'
<1>1. Stored' = Stored
  BY DEF Stored
<1>2. Inserting \subseteq Requests /\ Cardinality(Stored) \in Nat
  BY FS_CardinalityType DEF Inserting, SetsInOrder
<1>3. /\ Cardinality(Inserting) \in Nat /\ Cardinality(Inserting') \in Nat
      /\ Cardinality(Inserting') <= Cardinality(Inserting)
  BY <1>2, RequestSets
<1> QED BY <1>1, <1>2, <1>3, RequestSets DEF SetsInOrder

\* Whoever deletes the codes may store a set, after which every request that was
\* about to store one still may.
LEMMA PurgedSets ==
    ASSUME WellFormed, NEW r \in Requests, Purge(r) PROVE SetsInOrder'
<1>1. Stored' = {}
  BY DEF Purge, Stored
<1>2. Inserting' \subseteq Requests
  BY DEF Inserting
<1>3. Cardinality(Inserting') \in Nat /\ Cardinality(Inserting') <= Cardinality(Requests)
  BY <1>2, RequestSets
<1> QED BY <1>1, <1>3, FS_EmptySet DEF SetsInOrder

\* One more set, one request less that will store one.
LEMMA InsertedSet ==
    ASSUME WellFormed, SetsInOrder, NEW r \in Requests, InsertCodes(r) PROVE SetsInOrder'
<1>1. PICK s \in CodeSets : codes' = codes \cup ({s} \X (1..CodesPerSet))
  BY DEF InsertCodes
<1>2. Stored' \subseteq Stored \cup {s}
  BY <1>1 DEF Stored
<1>3. r \in Inserting /\ Inserting' = Inserting \ {r}
  <2>1. req'[r] = Idle /\ \A q \in Requests \ {r} : req'[q] = req[q]
    BY IsOver DEF InsertCodes, WellFormed
  <2> QED BY <2>1, IdleRow DEF InsertCodes, At, Inserting
<1>4. Inserting \subseteq Requests /\ IsFiniteSet(Inserting)
  BY RequestSets DEF Inserting
<1>5. Cardinality(Inserting') = Cardinality(Inserting) - 1 /\ Cardinality(Inserting) \in Nat
  BY <1>3, <1>4, FS_RemoveElement, FS_CardinalityType
<1>6. /\ IsFiniteSet(Stored \cup {s})
      /\ Cardinality(Stored \cup {s}) <= Cardinality(Stored) + 1
      /\ Cardinality(Stored) \in Nat
  <2>1. IsFiniteSet(Stored) /\ Cardinality(Stored) \in Nat
    BY FS_CardinalityType DEF SetsInOrder
  <2>2. /\ IsFiniteSet(Stored \cup {s})
        /\ \/ Cardinality(Stored \cup {s}) = Cardinality(Stored)
           \/ Cardinality(Stored \cup {s}) = Cardinality(Stored) + 1
    BY <2>1, FS_AddElement
  <2> QED BY <2>1, <2>2
<1>7. /\ IsFiniteSet(Stored') /\ Cardinality(Stored') <= Cardinality(Stored \cup {s})
      /\ Cardinality(Stored') \in Nat /\ Cardinality(Stored \cup {s}) \in Nat
  BY <1>2, <1>6, FS_Subset, FS_CardinalityType
<1> QED BY <1>5, <1>6, <1>7, RequestSets DEF SetsInOrder

\* A request that goes anywhere else.
LEMMA InsertsNothing ==
    ASSUME WellFormed, SetsInOrder, NEW r \in Requests, UNCHANGED codes,
           \/ Finish(r)
           \/ \E place \in Places \ {"insert"} : Goto(r, place)
           \/ \E row \in Row : req' = [req EXCEPT ![r] = row] /\ row.at # "insert"
    PROVE  SetsInOrder'
<1>1. CASE Finish(r)
  <2>1. Inserting' \subseteq Inserting
    BY <1>1, IsOver, IdleRow DEF WellFormed, Inserting
  <2> QED BY <2>1, SetsUntouched
<1>2. ASSUME NEW place \in Places \ {"insert"}, Goto(r, place) PROVE SetsInOrder'
  <2>1. req'[r].at # "insert" /\ \A q \in Requests \ {r} : req'[q] = req[q]
    BY <1>2, GoesTo DEF WellFormed
  <2> QED BY <2>1, SetsUntouched DEF Inserting
<1>3. ASSUME NEW row \in Row, req' = [req EXCEPT ![r] = row], row.at # "insert"
      PROVE  SetsInOrder'
  <2>1. req'[r].at # "insert" /\ \A q \in Requests \ {r} : req'[q] = req[q]
    BY <1>3, Begins DEF WellFormed
  <2> QED BY <2>1, SetsUntouched DEF Inserting
<1> QED BY <1>1, <1>2, <1>3

\* Every step keeps the number of sets within the requests.
LEMMA SetsStep == WellFormed /\ SetsInOrder /\ [Next]_vars => SetsInOrder'
<1> SUFFICES ASSUME WellFormed, SetsInOrder, [Next]_vars PROVE SetsInOrder'
  OBVIOUS
<1>1. CASE SetupStart \/ Login \/ Lapse \/ UNCHANGED vars
  <2>1. UNCHANGED <<codes, req>>
    BY <1>1 DEF SetupStart, Login, Lapse, vars, user
  <2> QED BY <2>1, SetsUntouched DEF Inserting
<1>2. ASSUME NEW r \in Requests, BeginConfirm(r) \/ BeginRegenerate(r) \/ BeginDisable(r)
      PROVE  SetsInOrder'
  <2> DEFINE confirm == [Idle EXCEPT !.kind = "confirm", !.at = "enable", !.secret = pending]
             regenerate == [Idle EXCEPT !.kind = "regenerate", !.at = "purge"]
             disable == [Idle EXCEPT !.kind = "disable", !.at = "disable"]
  <2>1. \E row \in {confirm, regenerate, disable} : req' = [req EXCEPT ![r] = row]
    BY <1>2 DEF BeginConfirm, BeginRegenerate, BeginDisable
  <2>2. UNCHANGED codes
    BY <1>2 DEF BeginConfirm, BeginRegenerate, BeginDisable, user
  <2>3. confirm \in Row /\ regenerate \in Row /\ disable \in Row
    BY IdleRow DEF Idle, Row, Places, WellFormed, TypeOK
  <2>4. \A row \in {confirm, regenerate, disable} : row.at # "insert"
    BY DEF Idle
  <2> HIDE DEF confirm, regenerate, disable
  <2> QED BY <2>1, <2>2, <2>3, <2>4, InsertsNothing
<1>3. ASSUME NEW r \in Requests, NEW t \in Tickets, BeginVerify(r, t) PROVE SetsInOrder'
  <2>1. PICK c \in Typed :
           req' = [req EXCEPT ![r] = [Idle EXCEPT !.kind = "verify", !.at = "user",
                                                  !.ticket = t, !.code = c]]
    BY <1>3 DEF BeginVerify
  <2>2. UNCHANGED codes
    BY <1>3 DEF BeginVerify, user
  <2> DEFINE row == [Idle EXCEPT !.kind = "verify", !.at = "user", !.ticket = t, !.code = c]
  <2>3. row \in Row /\ row.at # "insert"
    BY DEF Idle, Row, Places, Typed
  <2> HIDE DEF row
  <2> QED BY <2>1, <2>2, <2>3, InsertsNothing DEF row
<1>4. ASSUME NEW r \in Requests, LoadUser(r) PROVE SetsInOrder'
  <2> DEFINE place == IF secret = NoSecret THEN "void" ELSE "count"
             row == [req[r] EXCEPT !.secret = secret, !.at = place]
  <2>1. row \in Row /\ row.at = place
    BY LoadedRow DEF WellFormed
  <2>2. req' = [req EXCEPT ![r] = row] /\ UNCHANGED codes
    BY <1>4 DEF LoadUser, user
  <2>3. place # "insert"
    OBVIOUS
  <2> HIDE DEF row, place
  <2> QED BY <2>1, <2>2, <2>3, InsertsNothing
<1>5. ASSUME NEW r \in Requests,
             \/ Enable(r) \/ ClearPending(r) \/ Disable(r) \/ CountAttempt(r) \/ VoidTicket(r)
             \/ UseBackupCode(r) \/ CheckTotp(r) \/ ClearTicket(r) \/ ClearAttempts(r)
             \/ SignIn(r) \/ Dies(r)
      PROVE  SetsInOrder'
  <2>1. UNCHANGED codes
    BY <1>5 DEF Enable, ClearPending, Disable, CountAttempt, VoidTicket, UseBackupCode,
                CheckTotp, ClearTicket, ClearAttempts, SignIn, Dies, user
  <2>2. Finish(r) \/ \E place \in Places \ {"insert"} : Goto(r, place)
    BY <1>5 DEF Enable, ClearPending, Disable, CountAttempt, VoidTicket, UseBackupCode,
                CheckTotp, ClearTicket, ClearAttempts, SignIn, Dies, Places
  <2> QED BY <2>1, <2>2, InsertsNothing
<1> QED BY <1>1, <1>2, <1>3, <1>4, <1>5, PurgedSets, InsertedSet DEF Next

\* For every number of requests and sets: at most one set of codes per request is
\* stored at a time.
THEOREM StoredSetsAreBounded == Spec => []SetsBounded
<1>1. SetsInOrder => SetsBounded
  <2>1. Inserting \subseteq Requests
    BY DEF Inserting
  <2>2. SetsInOrder => Cardinality(Stored) \in Nat /\ Cardinality(Inserting) \in Nat
    BY <2>1, RequestSets, FS_CardinalityType DEF SetsInOrder
  <2> QED BY <2>2, RequestSets DEF SetsInOrder, SetsBounded, Stored
<1>2. Init => WellFormed /\ SetsInOrder
  <2> SUFFICES ASSUME Init PROVE SetsInOrder
    BY WellFormedInit
  <2>1. Stored = {}
    BY DEF Init, Stored
  <2>2. Inserting = {}
    BY IdleRow DEF Init, Inserting
  <2> QED BY <2>1, <2>2, FS_EmptySet, RequestSets DEF SetsInOrder
<1>3. WellFormed /\ SetsInOrder /\ [Next]_vars => WellFormed' /\ SetsInOrder'
  BY WellFormedStep, SetsStep
<1> QED BY <1>1, <1>2, <1>3, PTL DEF Spec

-----------------------------------------------------------------------------
(* Codes for a user whose MFA is on.                                       *)

\* Where a request of each kind may be.
Steps ==
    [none |-> {"idle"}, confirm |-> {"enable", "unpend", "purge", "insert"},
     regenerate |-> {"purge", "insert"}, disable |-> {"disable", "purge"},
     verify |-> Verifying]

\* A request that will insert codes, after every deletion of its own.
Writing(r) ==
    /\ req[r].kind \in {"confirm", "regenerate"}
    /\ req[r].at \in {"unpend", "purge", "insert"}

\* As long as no confirmation and no disabling ran at the same time, the deletion
\* of a disabling finds MFA off; and as long as nobody died either, a user whose
\* MFA is on has codes or a request that will insert some.
EnabledInOrder ==
    /\ \A r \in Requests : req[r].at \in Steps[req[r].kind]
    /\ ~crossed => /\ ~(Serving({"confirm"}) /\ Serving({"disable"}))
                   /\ \A r \in Requests :
                         req[r].kind = "disable" /\ req[r].at = "purge" => secret = NoSecret
                   /\ faults = 0 /\ secret # NoSecret =>
                         codes # {} \/ \E r \in Requests : Writing(r)

\* A request goes on among its steps.
LEMMA GoesOn ==
    ASSUME WellFormed, EnabledInOrder, NEW r \in Requests, NEW place \in Places,
           Goto(r, place), place \in Steps[req[r].kind]
    PROVE  /\ \A q \in Requests : req'[q].kind = req[q].kind
           /\ \A q \in Requests : req'[q].at \in Steps[req'[q].kind]
           /\ \A q \in Requests \ {r} : req'[q] = req[q]
           /\ req'[r].at = place /\ req'[r].kind = req[r].kind
<1>1. /\ req[r] \in Row /\ req'[r] = [req[r] EXCEPT !.at = place] /\ req'[r].at = place
      /\ \A q \in Requests \ {r} : req'[q] = req[q]
  BY GoesTo DEF WellFormed, TypeOK, Row
<1>2. req'[r].kind = req[r].kind
  BY <1>1 DEF Row
<1> QED BY <1>1, <1>2 DEF EnabledInOrder

\* A request that is over is of no kind.
LEMMA Ends ==
    ASSUME WellFormed, EnabledInOrder, NEW r \in Requests, Finish(r)
    PROVE  /\ req'[r].kind = "none" /\ req'[r].at = "idle"
           /\ \A q \in Requests : req'[q].at \in Steps[req'[q].kind]
           /\ \A q \in Requests \ {r} : req'[q] = req[q]
<1>1. req'[r] = Idle /\ \A q \in Requests \ {r} : req'[q] = req[q]
  BY IsOver DEF WellFormed
<1>2. Idle.kind = "none" /\ Idle.at = "idle" /\ Idle.at \in Steps[Idle.kind]
  BY DEF Idle, Steps
<1> QED BY <1>1, <1>2 DEF EnabledInOrder

\* A request begins at the first step of its kind.
LEMMA Starts ==
    ASSUME WellFormed, EnabledInOrder, NEW r \in Requests, At(r, "idle"),
           NEW row \in Row, row.at \in Steps[row.kind], req' = [req EXCEPT ![r] = row]
    PROVE  /\ req'[r] = row /\ req[r].kind = "none"
           /\ \A q \in Requests : req'[q].at \in Steps[req'[q].kind]
           /\ \A q \in Requests \ {r} : req'[q] = req[q]
<1>1. req'[r] = row /\ \A q \in Requests \ {r} : req'[q] = req[q]
  BY Begins DEF WellFormed
<1>2. req[r].kind = "none"
  <2>1. req[r] \in Row /\ req[r].at = "idle" /\ req[r].at \in Steps[req[r].kind]
    BY DEF WellFormed, TypeOK, Row, At, EnabledInOrder
  <2> QED BY <2>1 DEF Steps, Row, Verifying
<1> QED BY <1>1, <1>2 DEF EnabledInOrder

\* Steps that touch no row of the user and serve no request that writes them.
LEMMA EnabledUntouched ==
    ASSUME EnabledInOrder, UNCHANGED <<secret, codes>>, crossed => crossed', faults' >= faults,
           faults \in Nat, faults' \in Nat,
           \A q \in Requests : req'[q].at \in Steps[req'[q].kind],
           \A q \in Requests :
              \/ req'[q] = req[q]
              \/ req[q].kind \in {"none", "verify"} /\ req'[q].kind \in {"none", "verify"}
    PROVE  EnabledInOrder'
<1>1. ASSUME ~crossed' PROVE ~(Serving({"confirm"}) /\ Serving({"disable"}))'
  BY <1>1 DEF EnabledInOrder, Serving
<1>2. ASSUME ~crossed', NEW r \in Requests, req'[r].kind = "disable", req'[r].at = "purge"
      PROVE  secret' = NoSecret
  BY <1>2 DEF EnabledInOrder
<1>3. ASSUME ~crossed', faults' = 0, secret' # NoSecret
      PROVE  codes' # {} \/ \E r \in Requests : Writing(r)'
  BY <1>3 DEF EnabledInOrder, Writing
<1> QED BY <1>1, <1>2, <1>3 DEF EnabledInOrder

\* A request that begins to write the user's rows.
LEMMA EnabledBegin ==
    ASSUME WellFormed, EnabledInOrder, NEW r \in Requests,
           BeginConfirm(r) \/ BeginRegenerate(r) \/ BeginDisable(r)
    PROVE  EnabledInOrder'
<1> DEFINE confirm == [Idle EXCEPT !.kind = "confirm", !.at = "enable", !.secret = pending]
           regenerate == [Idle EXCEPT !.kind = "regenerate", !.at = "purge"]
           disable == [Idle EXCEPT !.kind = "disable", !.at = "disable"]
<1>1. /\ confirm \in Row /\ confirm.kind = "confirm" /\ confirm.at = "enable"
      /\ regenerate \in Row /\ regenerate.kind = "regenerate" /\ regenerate.at = "purge"
      /\ disable \in Row /\ disable.kind = "disable" /\ disable.at = "disable"
  BY DEF Idle, Row, Places, WellFormed, TypeOK
<1>2. /\ confirm.at \in Steps[confirm.kind] /\ regenerate.at \in Steps[regenerate.kind]
      /\ disable.at \in Steps[disable.kind]
  BY <1>1 DEF Steps
<1>3. At(r, "idle") /\ UNCHANGED <<secret, codes, faults>>
  BY DEF BeginConfirm, BeginRegenerate, BeginDisable, user
<1>4. CASE BeginConfirm(r)
  <2>1. req' = [req EXCEPT ![r] = confirm] /\ crossed' = (crossed \/ Serving({"disable"}))
    BY <1>4 DEF BeginConfirm
  <2> HIDE DEF confirm
  <2>2. /\ req'[r] = confirm /\ req[r].kind = "none"
        /\ \A q \in Requests : req'[q].at \in Steps[req'[q].kind]
        /\ \A q \in Requests \ {r} : req'[q] = req[q]
    BY <1>1, <1>2, <1>3, <2>1, Starts
  <2>3. ~crossed' => ~Serving({"disable"})'
    BY <1>1, <2>1, <2>2 DEF Serving
  <2>4. ASSUME ~crossed', NEW q \in Requests, req'[q].kind = "disable" PROVE FALSE
    BY <2>3, <2>4 DEF Serving
  <2>5. ASSUME ~crossed', faults' = 0, secret' # NoSecret
        PROVE  codes' # {} \/ \E q \in Requests : Writing(q)'
    BY <1>3, <2>1, <2>2, <2>5 DEF EnabledInOrder, Writing
  <2> QED BY <2>2, <2>3, <2>4, <2>5 DEF EnabledInOrder
<1>5. CASE BeginRegenerate(r)
  <2>1. req' = [req EXCEPT ![r] = regenerate] /\ UNCHANGED crossed
    BY <1>5 DEF BeginRegenerate, history
  <2> HIDE DEF regenerate
  <2>2. /\ req'[r] = regenerate /\ req[r].kind = "none"
        /\ \A q \in Requests : req'[q].at \in Steps[req'[q].kind]
        /\ \A q \in Requests \ {r} : req'[q] = req[q]
    BY <1>1, <1>2, <1>3, <2>1, Starts
  <2>3. /\ Serving({"disable"})' => Serving({"disable"})
        /\ Serving({"confirm"})' => Serving({"confirm"})
    BY <1>1, <2>2 DEF Serving
  <2>4. ASSUME ~crossed', NEW q \in Requests, req'[q].kind = "disable", req'[q].at = "purge"
        PROVE  secret' = NoSecret
    BY <1>1, <1>3, <2>1, <2>2, <2>4 DEF EnabledInOrder
  <2>5. ASSUME ~crossed', faults' = 0, secret' # NoSecret
        PROVE  codes' # {} \/ \E q \in Requests : Writing(q)'
    BY <1>3, <2>1, <2>2, <2>5 DEF EnabledInOrder, Writing
  <2> QED BY <2>1, <2>2, <2>3, <2>4, <2>5 DEF EnabledInOrder
<1>6. CASE BeginDisable(r)
  <2>1. req' = [req EXCEPT ![r] = disable] /\ crossed' = (crossed \/ Serving({"confirm"}))
    BY <1>6 DEF BeginDisable
  <2> HIDE DEF disable
  <2>2. /\ req'[r] = disable /\ req[r].kind = "none"
        /\ \A q \in Requests : req'[q].at \in Steps[req'[q].kind]
        /\ \A q \in Requests \ {r} : req'[q] = req[q]
    BY <1>1, <1>2, <1>3, <2>1, Starts
  <2>3. ~crossed' => ~Serving({"confirm"})'
    BY <1>1, <2>1, <2>2 DEF Serving
  <2>4. ASSUME ~crossed', NEW q \in Requests, req'[q].kind = "disable", req'[q].at = "purge"
        PROVE  secret' = NoSecret
    BY <1>1, <1>3, <2>1, <2>2, <2>4 DEF EnabledInOrder
  <2>5. ASSUME ~crossed', faults' = 0, secret' # NoSecret
        PROVE  codes' # {} \/ \E q \in Requests : Writing(q)'
    BY <1>3, <2>1, <2>2, <2>5 DEF EnabledInOrder, Writing
  <2> QED BY <2>2, <2>3, <2>4, <2>5 DEF EnabledInOrder
<1> QED BY <1>4, <1>5, <1>6

\* The steps of a confirmation and of new codes keep a witness: the request.
LEMMA EnabledWrite ==
    ASSUME WellFormed, EnabledInOrder, NEW r \in Requests, Enable(r) \/ ClearPending(r)
    PROVE  EnabledInOrder'
<1>1. req[r].kind = "confirm"
  <2>1. req[r] \in Row /\ req[r].at \in {"enable", "unpend"} /\ req[r].at \in Steps[req[r].kind]
    BY DEF WellFormed, TypeOK, Row, Enable, ClearPending, At, EnabledInOrder
  <2> QED BY <2>1 DEF Steps, Row, Verifying
<1>2. PICK place \in {"unpend", "purge"} : Goto(r, place)
  BY DEF Enable, ClearPending
<1>3. place \in Places /\ place \in Steps[req[r].kind]
  BY <1>1, <1>2 DEF Steps, Places
<1>4. /\ \A q \in Requests : req'[q].kind = req[q].kind
      /\ \A q \in Requests : req'[q].at \in Steps[req'[q].kind]
      /\ \A q \in Requests \ {r} : req'[q] = req[q]
      /\ req'[r].at = place /\ req'[r].kind = req[r].kind
  BY <1>2, <1>3, GoesOn
<1>5. UNCHANGED <<codes, crossed, faults>>
  BY DEF Enable, ClearPending, user, history
<1>6. Writing(r)'
  BY <1>1, <1>2, <1>4 DEF Writing
<1>7. ~crossed => \A q \in Requests : req[q].kind # "disable"
  BY <1>1 DEF EnabledInOrder, Serving
<1>8. ~crossed' => ~Serving({"disable"})'
  BY <1>4, <1>5, <1>7 DEF Serving
<1> QED BY <1>4, <1>5, <1>6, <1>7, <1>8 DEF EnabledInOrder

\* The deletion of all codes leaves a witness, or belongs to a disabling.
LEMMA EnabledPurge ==
    ASSUME WellFormed, EnabledInOrder, NEW r \in Requests, Purge(r)
    PROVE  EnabledInOrder'
<1>1. req[r].kind \in {"confirm", "regenerate", "disable"} /\ req[r].at = "purge"
  <2>1. req[r] \in Row /\ req[r].at = "purge" /\ req[r].at \in Steps[req[r].kind]
    BY DEF WellFormed, TypeOK, Row, Purge, At, EnabledInOrder
  <2> QED BY <2>1 DEF Steps, Row, Verifying
<1>2. UNCHANGED <<secret, crossed, faults>>
  BY DEF Purge, user, history
<1>3. CASE req[r].kind = "disable"
  <2>1. /\ req'[r].kind = "none" /\ req'[r].at = "idle"
        /\ \A q \in Requests : req'[q].at \in Steps[req'[q].kind]
        /\ \A q \in Requests \ {r} : req'[q] = req[q]
    BY <1>3, Ends DEF Purge
  <2>2. ~crossed => secret = NoSecret /\ ~Serving({"confirm"})
    BY <1>1, <1>3 DEF EnabledInOrder, Serving
  <2>3. ~crossed' => ~Serving({"confirm"})'
    BY <1>2, <2>1, <2>2 DEF Serving
  <2> QED BY <1>2, <2>1, <2>2, <2>3 DEF EnabledInOrder
<1>4. CASE req[r].kind # "disable"
  <2>1. Goto(r, "insert") /\ "insert" \in Places /\ "insert" \in Steps[req[r].kind]
    BY <1>1, <1>4 DEF Purge, Places, Steps
  <2>2. /\ \A q \in Requests : req'[q].kind = req[q].kind
        /\ \A q \in Requests : req'[q].at \in Steps[req'[q].kind]
        /\ \A q \in Requests \ {r} : req'[q] = req[q]
        /\ req'[r].at = "insert" /\ req'[r].kind = req[r].kind
    BY <2>1, GoesOn
  <2>3. Writing(r)'
    BY <1>1, <1>4, <2>2 DEF Writing
  <2>4. /\ Serving({"disable"})' => Serving({"disable"})
        /\ Serving({"confirm"})' => Serving({"confirm"})
    BY <2>2 DEF Serving
  <2>5. ASSUME ~crossed', NEW q \in Requests, req'[q].kind = "disable", req'[q].at = "purge"
        PROVE  secret' = NoSecret
    BY <1>2, <1>4, <2>2, <2>5 DEF EnabledInOrder
  <2> QED BY <1>2, <2>2, <2>3, <2>4, <2>5 DEF EnabledInOrder
<1> QED BY <1>3, <1>4

\* The insertion leaves codes.
LEMMA EnabledInsert ==
    ASSUME WellFormed, EnabledInOrder, NEW r \in Requests, InsertCodes(r)
    PROVE  EnabledInOrder'
<1>1. Finish(r) /\ UNCHANGED <<secret, crossed, faults>>
  BY DEF InsertCodes
<1>2. /\ req'[r].kind = "none" /\ req'[r].at = "idle"
      /\ \A q \in Requests : req'[q].at \in Steps[req'[q].kind]
      /\ \A q \in Requests \ {r} : req'[q] = req[q]
  BY <1>1, Ends
<1>3. codes' # {}
  <2>1. PICK s \in CodeSets : codes' = codes \cup ({s} \X (1..CodesPerSet))
    BY DEF InsertCodes
  <2>2. 1 \in 1..CodesPerSet
    BY BoundsAssumption
  <2>3. <<s, 1>> \in {s} \X (1..CodesPerSet)
    BY <2>2
  <2> QED BY <2>1, <2>3
<1>4. /\ Serving({"disable"})' => Serving({"disable"})
      /\ Serving({"confirm"})' => Serving({"confirm"})
  BY <1>2 DEF Serving
<1>5. ASSUME ~crossed', NEW q \in Requests, req'[q].kind = "disable", req'[q].at = "purge"
      PROVE  secret' = NoSecret
  BY <1>1, <1>2, <1>5 DEF EnabledInOrder
<1> QED BY <1>1, <1>2, <1>3, <1>4, <1>5 DEF EnabledInOrder

\* Switching off leaves no secret.
LEMMA EnabledDisable ==
    ASSUME WellFormed, EnabledInOrder, NEW r \in Requests, Disable(r)
    PROVE  EnabledInOrder'
<1>1. req[r].kind = "disable"
  <2>1. req[r] \in Row /\ req[r].at = "disable" /\ req[r].at \in Steps[req[r].kind]
    BY DEF WellFormed, TypeOK, Row, Disable, At, EnabledInOrder
  <2> QED BY <2>1 DEF Steps, Row, Verifying
<1>2. Goto(r, "purge") /\ "purge" \in Places /\ "purge" \in Steps[req[r].kind]
  BY <1>1 DEF Disable, Places, Steps
<1>3. /\ \A q \in Requests : req'[q].kind = req[q].kind
      /\ \A q \in Requests : req'[q].at \in Steps[req'[q].kind]
  BY <1>2, GoesOn
<1>4. secret' = NoSecret /\ UNCHANGED crossed
  BY DEF Disable, history
<1>5. ~crossed' => ~(Serving({"confirm"}) /\ Serving({"disable"}))'
  BY <1>3, <1>4 DEF EnabledInOrder, Serving
<1> QED BY <1>3, <1>4, <1>5 DEF EnabledInOrder

\* A verification writes none of the rows that switch MFA on or off.
LEMMA EnabledVerify ==
    ASSUME WellFormed, WellFormed', EnabledInOrder, NEW r \in Requests,
           \/ \E t \in Tickets : BeginVerify(r, t)
           \/ LoadUser(r) \/ CountAttempt(r) \/ VoidTicket(r) \/ UseBackupCode(r)
           \/ CheckTotp(r) \/ ClearTicket(r) \/ ClearAttempts(r) \/ SignIn(r)
    PROVE  EnabledInOrder'
<1>1. /\ UNCHANGED <<secret, codes, crossed, faults>>
      /\ faults \in Nat /\ faults' \in Nat /\ faults' >= faults
  <2>1. UNCHANGED <<secret, codes, crossed, faults>>
    BY DEF BeginVerify, LoadUser, CountAttempt, VoidTicket, UseBackupCode, CheckTotp,
           ClearTicket, ClearAttempts, SignIn, user, history
  <2>2. faults \in Nat
    BY BoundsAssumption DEF WellFormed, TypeOK
  <2> QED BY <2>1, <2>2
<1>2. ASSUME NEW t \in Tickets, BeginVerify(r, t) PROVE EnabledInOrder'
  <2>1. PICK c \in Typed :
           req' = [req EXCEPT ![r] = [Idle EXCEPT !.kind = "verify", !.at = "user",
                                                  !.ticket = t, !.code = c]]
    BY <1>2 DEF BeginVerify
  <2> DEFINE row == [Idle EXCEPT !.kind = "verify", !.at = "user", !.ticket = t, !.code = c]
  <2>2. row \in Row /\ row.kind = "verify" /\ row.at = "user"
    BY DEF Idle, Row, Places, Typed
  <2>3. At(r, "idle") /\ req' = [req EXCEPT ![r] = row]
    BY <1>2, <2>1 DEF BeginVerify
  <2>4. row.at \in Steps[row.kind]
    BY <2>2 DEF Steps, Verifying
  <2> HIDE DEF row
  <2>5. /\ req'[r] = row /\ req[r].kind = "none"
        /\ \A q \in Requests : req'[q].at \in Steps[req'[q].kind]
        /\ \A q \in Requests \ {r} : req'[q] = req[q]
    BY <2>2, <2>3, <2>4, Starts
  <2> QED BY <1>1, <2>2, <2>5, EnabledUntouched
<1>3. ASSUME req[r].at \in Verifying PROVE req[r].kind = "verify"
  <2>1. req[r] \in Row /\ req[r].at \in Steps[req[r].kind]
    BY DEF WellFormed, TypeOK, Row, EnabledInOrder
  <2> QED BY <1>3, <2>1 DEF Steps, Row, Verifying
<1>4. CASE LoadUser(r)
  <2>1. req[r].kind = "verify"
    BY <1>3, <1>4 DEF LoadUser, At, Verifying
  <2>2. PICK place \in {"void", "count"} :
           req' = [req EXCEPT ![r] = [req[r] EXCEPT !.secret = secret, !.at = place]]
    BY <1>4 DEF LoadUser
  <2> DEFINE row == [req[r] EXCEPT !.secret = secret, !.at = place]
  <2>3. row \in Row /\ row.at = place
    BY LoadedRow DEF WellFormed
  <2>4. row.kind = "verify"
    BY <2>1 DEF WellFormed, TypeOK, Row
  <2>5. row.at \in Steps[row.kind]
    BY <2>3, <2>4 DEF Steps, Verifying
  <2> HIDE DEF row
  <2>6. req'[r] = row /\ \A q \in Requests \ {r} : req'[q] = req[q]
    BY <2>2, <2>3, Begins DEF WellFormed, row
  <2>7. \A q \in Requests : req'[q].at \in Steps[req'[q].kind]
    BY <2>5, <2>6 DEF EnabledInOrder
  <2> QED BY <1>1, <2>1, <2>4, <2>6, <2>7, EnabledUntouched
<1>5. CASE /\ req[r].at \in Verifying
           /\ Finish(r)
  <2>1. /\ req'[r].kind = "none" /\ req'[r].at = "idle"
        /\ \A q \in Requests : req'[q].at \in Steps[req'[q].kind]
        /\ \A q \in Requests \ {r} : req'[q] = req[q]
    BY <1>5, Ends
  <2> QED BY <1>1, <1>3, <1>5, <2>1, EnabledUntouched
<1>6. CASE /\ req[r].at \in Verifying
           /\ \E place \in Verifying : Goto(r, place)
  <2>1. PICK place \in Verifying : Goto(r, place)
    BY <1>6
  <2>2. req[r].kind = "verify" /\ place \in Places /\ place \in Steps[req[r].kind]
    BY <1>3, <1>6 DEF Verifying, Places, Steps
  <2>3. /\ \A q \in Requests : req'[q].at \in Steps[req'[q].kind]
        /\ \A q \in Requests \ {r} : req'[q] = req[q]
        /\ req'[r].kind = req[r].kind
    BY <2>1, <2>2, GoesOn
  <2> QED BY <1>1, <2>2, <2>3, EnabledUntouched
<1>7. CASE CountAttempt(r) \/ VoidTicket(r) \/ UseBackupCode(r) \/ CheckTotp(r)
           \/ ClearTicket(r) \/ ClearAttempts(r) \/ SignIn(r)
  <2>1. req[r].at \in Verifying
    BY <1>7 DEF CountAttempt, VoidTicket, UseBackupCode, CheckTotp, ClearTicket,
                ClearAttempts, SignIn, At, Verifying
  <2>2. Finish(r) \/ \E place \in Verifying : Goto(r, place)
    BY <1>7 DEF CountAttempt, VoidTicket, UseBackupCode, CheckTotp, ClearTicket,
                ClearAttempts, SignIn, Verifying
  <2> QED BY <1>5, <1>6, <2>1, <2>2
<1> QED BY <1>2, <1>4, <1>7

\* Every step keeps the user's rows and their requests in order.
LEMMA EnabledStep ==
    WellFormed /\ WellFormed' /\ EnabledInOrder /\ [Next]_vars => EnabledInOrder'
<1> SUFFICES ASSUME WellFormed, WellFormed', EnabledInOrder, [Next]_vars
             PROVE  EnabledInOrder'
  OBVIOUS
<1>1. faults \in Nat /\ faults' \in Nat
  BY BoundsAssumption DEF WellFormed, TypeOK
<1>2. CASE SetupStart \/ Login \/ Lapse \/ UNCHANGED vars
  <2>1. UNCHANGED <<secret, codes, crossed, faults, req>>
    BY <1>2 DEF SetupStart, Login, Lapse, vars, user, history
  <2> QED BY <1>1, <2>1, EnabledUntouched DEF EnabledInOrder
<1>3. ASSUME NEW r \in Requests, Dies(r) PROVE EnabledInOrder'
  <2>1. Finish(r) /\ faults' = faults + 1 /\ UNCHANGED <<secret, crossed>>
    BY <1>3 DEF Dies, user, history
  <2>2. /\ req'[r].kind = "none" /\ req'[r].at = "idle"
        /\ \A q \in Requests : req'[q].at \in Steps[req'[q].kind]
        /\ \A q \in Requests \ {r} : req'[q] = req[q]
    BY <2>1, Ends
  <2>3. /\ Serving({"disable"})' => Serving({"disable"})
        /\ Serving({"confirm"})' => Serving({"confirm"})
    BY <2>2 DEF Serving
  <2>4. faults' # 0
    BY <1>1, <2>1
  <2>5. ASSUME ~crossed', NEW q \in Requests, req'[q].kind = "disable", req'[q].at = "purge"
        PROVE  secret' = NoSecret
    BY <2>1, <2>2, <2>5 DEF EnabledInOrder
  <2> QED BY <2>1, <2>2, <2>3, <2>4, <2>5 DEF EnabledInOrder
<1> QED
  BY <1>2, <1>3, EnabledBegin, EnabledWrite, EnabledPurge, EnabledInsert, EnabledDisable,
     EnabledVerify
  DEF Next

\* For every number of requests, secrets and sets: a user whose MFA is on has
\* backup codes once the requests that write them are over, unless one of them
\* died or a disabling ran at the same time as a confirmation (setup_mfa_confirm of
\* authentication/services.py saves the user before it generates the codes, and neither
\* it nor regeneration and disabling lock anything).
THEOREM EnabledUsersHaveCodes == Spec => []EnabledHasCodes
<1>1. EnabledInOrder => EnabledHasCodes
  BY DEF EnabledInOrder, EnabledHasCodes, Serving, Writing
<1>2. Init => WellFormed /\ EnabledInOrder
  <2> SUFFICES ASSUME Init PROVE EnabledInOrder
    BY WellFormedInit
  <2>1. \A r \in Requests : req[r] = Idle
    BY DEF Init
  <2>2. Idle.at \in Steps[Idle.kind] /\ Idle.kind = "none"
    BY DEF Idle, Steps
  <2> QED BY <2>1, <2>2 DEF Init, EnabledInOrder, Serving
<1>3. WellFormed /\ EnabledInOrder /\ [Next]_vars => WellFormed' /\ EnabledInOrder'
  BY WellFormedStep, EnabledStep
<1> QED BY <1>1, <1>2, <1>3, PTL DEF Spec
=============================================================================
