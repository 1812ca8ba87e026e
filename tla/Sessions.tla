------------------------------ MODULE Sessions ------------------------------
(***************************************************************************)
(* The sessions of one user: the whitelist in Redis (session_service.py),  *)
(* the blacklist of refresh tokens in the database, and the views that     *)
(* sign in, refresh, list, revoke and sign out, and the session page of    *)
(* the administration, which lists and revokes.  A session is known by the *)
(* jti of its refresh token.  Every Redis command and every statement is a *)
(* step of its own: nothing makes the commands of a request one unit.      *)
(*                                                                         *)
(* Both the key session:<jti> and the token live 7 days, from about the    *)
(* same moment.  The sessions of another user are under other keys.        *)
(***************************************************************************)
EXTENDS Naturals, FiniteSets

CONSTANTS
    Browsers,    \* each keeps one refresh_token cookie, for all its tabs
    Requests,    \* requests served at the same time
    Jtis,        \* jtis that may be drawn
    NoJti, NoBrowser,
    MaxFaults    \* bound on requests that die half way and sessions that lapse

ASSUME NoAssumption == NoJti \notin Jtis /\ NoBrowser \notin Browsers
ASSUME FaultsAssumption == MaxFaults \in Nat

VARIABLES
    live,         \* the keys session:<jti>
    index,        \* the set user:<id>:sessions
    blacklisted,  \* the tokens in the token blacklist
    expired,      \* the tokens whose 7 days are over
    minted,       \* the jtis drawn so far
    cookie,       \* the jti of the token each browser holds
    req,          \* what each request is doing
    revoked,      \* history: the sessions some request set about to revoke
    ended,        \* history: the sign-ins over since their session was deleted
    faults        \* how many requests died and sessions lapsed

redis == <<live, index>>
tokens == <<blacklisted, expired, minted>>
history == <<revoked, ended>>
vars == <<redis, tokens, cookie, req, history, faults>>

\* A request: its kind, the command it is at, its browser, the jti it came with
\* or is about, the jti it drew, the one it is revoking, and what list_sessions
\* has still to get (todo), found, or found to be without a key (orphans).
Idle == [kind |-> "none", at |-> "idle", browser |-> NoBrowser, jti |-> NoJti,
         new |-> NoJti, victim |-> NoJti, todo |-> {}, found |-> {}, orphans |-> {}]

At(r, place) == req[r].at = place

Goto(r, place) == req' = [req EXCEPT ![r].at = place]

Finish(r) == req' = [req EXCEPT ![r] = Idle]

\* RefreshToken(...): signed, not expired, not blacklisted.
Accepted(j) == j \in minted \ (blacklisted \cup expired)

Init ==
    /\ live = {} /\ index = {}
    /\ blacklisted = {} /\ expired = {} /\ minted = {}
    /\ cookie = [b \in Browsers |-> NoJti]
    /\ req = [r \in Requests |-> Idle]
    /\ revoked = {} /\ ended = {}
    /\ faults = 0

-----------------------------------------------------------------------------
(* Requests arrive.                                                        *)

\* Login, registration, MFA verification and the Microsoft callback.
SignIn(r, b) ==
    /\ At(r, "idle")
    /\ \E j \in Jtis \ minted :
          /\ minted' = minted \cup {j}
          /\ req' = [req EXCEPT ![r] = [Idle EXCEPT !.kind = "signin", !.at = "store",
                                                    !.browser = b, !.new = j]]
    /\ UNCHANGED <<redis, blacklisted, expired, cookie, history, faults>>

StartRefresh(r, b) ==
    /\ At(r, "idle") /\ Accepted(cookie[b])
    /\ req' = [req EXCEPT ![r] = [Idle EXCEPT !.kind = "refresh", !.at = "validate",
                                              !.browser = b, !.jti = cookie[b]]]
    /\ UNCHANGED <<redis, tokens, cookie, history, faults>>

\* A token that is not accepted any more only costs the cookie.
StartLogout(r, b) ==
    /\ At(r, "idle") /\ cookie[b] # NoJti
    /\ IF Accepted(cookie[b])
       THEN /\ req' = [req EXCEPT ![r] = [Idle EXCEPT !.kind = "logout", !.at = "revoke",
                                                      !.browser = b, !.jti = cookie[b],
                                                      !.found = {cookie[b]}]]
            /\ UNCHANGED cookie
       ELSE cookie' = [cookie EXCEPT ![b] = NoJti] /\ UNCHANGED req
    /\ UNCHANGED <<redis, tokens, history, faults>>

\* SessionRevokeView for one jti, SessionRevokeAllView for the others: only the
\* second reads the cookie.
StartRevoke(r, b) ==
    /\ At(r, "idle")
    /\ \E kind \in {"one", "others"}, j \in minted :
          /\ kind = "others" => j = cookie[b] /\ Accepted(j)
          /\ req' = [req EXCEPT ![r] = [Idle EXCEPT !.kind = kind, !.at = "list",
                                                    !.browser = b, !.jti = j]]
    /\ UNCHANGED <<redis, tokens, cookie, history, faults>>

\* The session page: it lists the user's sessions, as SessionListView does ...
AdminList(r) ==
    /\ At(r, "idle")
    /\ req' = [req EXCEPT ![r] = [Idle EXCEPT !.kind = "page", !.at = "list"]]
    /\ UNCHANGED <<redis, tokens, cookie, history, faults>>

\* ... and revokes one it has listed some time ago, without listing them again.
\* What is not stored yet was on no list.
AdminRevoke(r) ==
    /\ At(r, "idle")
    /\ \E j \in minted :
          /\ \A q \in Requests : req[q].new # j
          /\ req' = [req EXCEPT ![r] = [Idle EXCEPT !.kind = "admin", !.at = "revoke",
                                                    !.jti = j, !.found = {j}]]
    /\ UNCHANGED <<redis, tokens, cookie, history, faults>>

-----------------------------------------------------------------------------
(* RefreshView, create_session and rotate_session.                         *)

ValidateSession(r) ==
    /\ At(r, "validate")
    /\ IF req[r].jti \in live THEN Goto(r, "recheck") ELSE Finish(r)
    /\ UNCHANGED <<redis, tokens, cookie, history, faults>>

\* TokenRefreshSerializer looks at the blacklist itself, and then ...
Recheck(r) ==
    /\ At(r, "recheck")
    /\ IF Accepted(req[r].jti) THEN Goto(r, "exchange") ELSE Finish(r)
    /\ UNCHANGED <<redis, tokens, cookie, history, faults>>

\* Mutant of Exchange: no new token is drawn.
ExchangeForNone(r) ==
    /\ At(r, "exchange")
    /\ Goto(r, "read")
    /\ blacklisted' = blacklisted \cup {req[r].jti}
    /\ UNCHANGED <<redis, expired, minted, cookie, history, faults>>

\* ... blacklists the old token (get_or_create) and draws a new jti.
Exchange(r) ==
    /\ At(r, "exchange")
    /\ \E j \in Jtis \ minted :
          /\ minted' = minted \cup {j}
          /\ req' = [req EXCEPT ![r].new = j, ![r].at = "read"]
          /\ ended' = IF req[r].jti \in ended THEN ended \cup {j} ELSE ended
    /\ blacklisted' = blacklisted \cup {req[r].jti}
    /\ UNCHANGED <<redis, expired, cookie, revoked, faults>>

\* Mutant of ReadOld: relies on the session the view has validated.
ReadNothing(r) ==
    /\ At(r, "read")
    /\ Goto(r, "store")
    /\ UNCHANGED <<redis, tokens, cookie, history, faults>>

\* Without the old session rotate_session returns, and the view answers 200.
ReadOld(r) ==
    /\ At(r, "read")
    /\ Goto(r, IF req[r].jti \in live THEN "store" ELSE "answer")
    /\ UNCHANGED <<redis, tokens, cookie, history, faults>>

\* Mutant of StoreNew: create_session forgets the index.
StoreOnly(r) ==
    /\ At(r, "store")
    /\ live' = live \cup {req[r].new}
    /\ Goto(r, IF req[r].kind = "refresh" THEN "unindex" ELSE "answer")
    /\ UNCHANGED <<index, tokens, cookie, history, faults>>

StoreNew(r) ==
    /\ At(r, "store")
    /\ live' = live \cup {req[r].new}
    /\ Goto(r, IF req[r].kind = "refresh" THEN "unindex" ELSE "index")
    /\ UNCHANGED <<index, tokens, cookie, history, faults>>

UnindexOld(r) ==
    /\ At(r, "unindex")
    /\ index' = index \ {req[r].jti}
    /\ Goto(r, "index")
    /\ UNCHANGED <<live, tokens, cookie, history, faults>>

\* Mutant of IndexNew: the old session is not deleted.
IndexAndAnswer(r) ==
    /\ At(r, "index")
    /\ index' = index \cup {req[r].new}
    /\ Goto(r, "answer")
    /\ UNCHANGED <<live, tokens, cookie, history, faults>>

IndexNew(r) ==
    /\ At(r, "index")
    /\ index' = index \cup {req[r].new}
    /\ Goto(r, IF req[r].kind = "refresh" THEN "drop" ELSE "answer")
    /\ UNCHANGED <<live, tokens, cookie, history, faults>>

DropOld(r) ==
    /\ At(r, "drop")
    /\ live' = live \ {req[r].jti}
    /\ Goto(r, "answer")
    /\ UNCHANGED <<index, tokens, cookie, history, faults>>

-----------------------------------------------------------------------------
(* list_sessions, revoke_session, revoke_all_other_sessions, logout.       *)

ReadIndex(r) ==
    /\ At(r, "list")
    /\ req' = [req EXCEPT ![r].todo = index, ![r].at = "get"]
    /\ UNCHANGED <<redis, tokens, cookie, history, faults>>

GetListed(r) ==
    /\ At(r, "get")
    /\ \E j \in req[r].todo :
          req' = IF j \in live
                 THEN [req EXCEPT ![r].todo = @ \ {j}, ![r].found = @ \cup {j}]
                 ELSE [req EXCEPT ![r].todo = @ \ {j}, ![r].orphans = @ \cup {j}]
    /\ UNCHANGED <<redis, tokens, cookie, history, faults>>

\* Which of the sessions it found the request goes on to revoke.
ToRevoke(r) ==
    IF req[r].kind = "others" THEN req[r].found \ {req[r].jti}
                              ELSE req[r].found \cap {req[r].jti}

CleanIndex(r) ==
    /\ At(r, "get") /\ req[r].todo = {}
    /\ index' = index \ req[r].orphans
    /\ req' = [req EXCEPT ![r].found = ToRevoke(r), ![r].orphans = {}, ![r].at = "revoke"]
    /\ UNCHANGED <<live, tokens, cookie, history, faults>>

\* The next session to revoke, if its key is still there.
ReadVictim(r) ==
    /\ At(r, "revoke")
    /\ \E j \in req[r].found :
          /\ req' = IF j \in live
                    THEN [req EXCEPT ![r].victim = j, ![r].at = "unlist"]
                    ELSE [req EXCEPT ![r].found = @ \ {j}]
          /\ revoked' = revoked \cup {j}
    /\ UNCHANGED <<redis, tokens, cookie, ended, faults>>

UnlistVictim(r) ==
    /\ At(r, "unlist")
    /\ index' = index \ {req[r].victim}
    /\ Goto(r, "delete")
    /\ UNCHANGED <<live, tokens, cookie, history, faults>>

\* The tokens a refresh has drawn in exchange for j, without having read j's
\* session yet.
DrawnFor(j) ==
    {req[q].new : q \in {p \in Requests : At(p, "read") /\ req[p].jti = j}}

\* The sign-in is over, and with it what it is being exchanged for.
DeleteVictim(r) ==
    /\ At(r, "delete")
    /\ live' = live \ {req[r].victim}
    /\ ended' = ended \cup {req[r].victim} \cup DrawnFor(req[r].victim)
    /\ req' = [req EXCEPT ![r].found = @ \ {req[r].victim}, ![r].victim = NoJti,
                          ![r].at = "revoke"]
    /\ UNCHANGED <<index, tokens, cookie, revoked, faults>>

\* Nothing left to revoke; a logout also blacklists its token.
RevokeDone(r) ==
    /\ At(r, "revoke") /\ req[r].found = {}
    /\ blacklisted' = IF req[r].kind = "logout" THEN blacklisted \cup {req[r].jti}
                                                ELSE blacklisted
    /\ Goto(r, "answer")
    /\ UNCHANGED <<redis, expired, minted, cookie, history, faults>>

\* The cookie of the answer replaces whatever the browser holds by then.
Answer(r) ==
    /\ At(r, "answer")
    /\ cookie' =
         CASE req[r].kind \in {"signin", "refresh"} ->
                 [cookie EXCEPT ![req[r].browser] = req[r].new]
           [] req[r].kind = "logout" -> [cookie EXCEPT ![req[r].browser] = NoJti]
           [] OTHER -> cookie
    /\ Finish(r)
    /\ UNCHANGED <<redis, tokens, history, faults>>

-----------------------------------------------------------------------------
(* Faults and the clock.                                                   *)

Fault == faults < MaxFaults /\ faults' = faults + 1

\* The worker dies, or Redis does not answer: the view raises.
Dies(r) ==
    /\ ~At(r, "idle")
    /\ Fault
    /\ Finish(r)
    /\ UNCHANGED <<redis, tokens, cookie, history>>

\* The 7 days of a session are over.
Lapse(j) ==
    /\ j \in live
    /\ live' = live \ {j}
    /\ expired' = expired \cup {j}
    /\ Fault
    /\ UNCHANGED <<index, blacklisted, minted, cookie, req, history>>

\* The index lives 7 days from the last session that was added to it.
LapseIndex ==
    /\ index # {} /\ index \cap live = {}
    /\ index' = {}
    /\ UNCHANGED <<live, tokens, cookie, req, history, faults>>

Next ==
    \/ \E r \in Requests :
          \/ \E b \in Browsers : SignIn(r, b) \/ StartRefresh(r, b)
                                 \/ StartLogout(r, b) \/ StartRevoke(r, b)
          \/ AdminList(r) \/ AdminRevoke(r)
          \/ ValidateSession(r) \/ Recheck(r) \/ Exchange(r) \/ ReadOld(r)
          \/ StoreNew(r) \/ UnindexOld(r) \/ IndexNew(r) \/ DropOld(r)
          \/ ReadIndex(r) \/ GetListed(r) \/ CleanIndex(r)
          \/ ReadVictim(r) \/ UnlistVictim(r) \/ DeleteVictim(r) \/ RevokeDone(r)
          \/ Answer(r) \/ Dies(r)
    \/ \E j \in Jtis : Lapse(j)
    \/ LapseIndex

Spec == Init /\ [][Next]_vars

-----------------------------------------------------------------------------
(* Properties.                                                             *)

Places == {"idle", "store", "validate", "recheck", "exchange", "read", "unindex", "index",
           "drop", "list", "get", "revoke", "unlist", "delete", "answer"}

TypeOK ==
    /\ live \subseteq minted /\ index \subseteq minted
    /\ blacklisted \subseteq minted /\ expired \subseteq minted
    /\ revoked \subseteq minted /\ ended \subseteq minted /\ minted \subseteq Jtis
    /\ cookie \in [Browsers -> minted \cup {NoJti}]
    /\ req \in [Requests -> [kind : {"none", "signin", "refresh", "logout", "one", "others",
                                     "page", "admin"},
                             at : Places, browser : Browsers \cup {NoBrowser},
                             jti : minted \cup {NoJti}, new : minted \cup {NoJti},
                             victim : minted \cup {NoJti}, todo : SUBSET minted,
                             found : SUBSET minted, orphans : SUBSET minted]]
    /\ faults \in 0..MaxFaults

Held == {cookie[b] : b \in Browsers}

\* A session a browser can use is in the index, so the user sees it and can
\* revoke it: the order of the commands (key and index before the answer, the
\* blacklist before the index) keeps this whatever runs at the same time or
\* dies, unless a request has set about to revoke that very session.
UsableIsListed == \A j \in (Held \cap live) \ (blacklisted \cup revoked) : j \in index

\* A token that was exchanged has no key left in the whitelist, except while the
\* request that exchanged it is on its way to delete it: every request that dies
\* half way leaves one such key behind at most.
ExchangedIsGone ==
    Cardinality({j \in blacklisted \cap live :
                    ~\E r \in Requests : req[r].kind = "refresh" /\ req[r].jti = j}) <= faults

\* A revoked sign-in is over: its key stays away, and so does that of any token
\* it is exchanged for, even by a refresh that validated the session before the
\* revocation and rotates it afterwards.  Only a rotation that had read the old
\* session by the time the revocation deleted it goes on with the new one.
\* Until it is deleted, a session that a request has set about to revoke may keep
\* its key if the request dies: one such key per fault at most.
RevokedIsGone ==
    /\ ended \cap live = {}
    /\ Cardinality({j \in revoked \cap live :
                       \A r \in Requests : j \notin req[r].found \cup {req[r].victim}}) <= faults

\* The sessions a browser is signed in with: its cookie's, and the one an answer
\* under way will bring.
Own(b) ==
    {cookie[b]} \cup {req[r].new : r \in {q \in Requests : /\ req[q].browser = b
                                                          /\ req[q].kind = "refresh"}}

\* What the docstring of revoke_all_other_sessions says: it revokes all sessions
\* "except the current one", so never one the browser that asks is signed in with.
KeepsCurrent ==
    \A r \in Requests :
        At(r, "delete") /\ req[r].kind = "others" => req[r].victim \notin Own(req[r].browser)
=============================================================================
